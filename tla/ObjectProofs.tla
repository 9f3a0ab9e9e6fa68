---------------------------- MODULE ObjectProofs ----------------------------
(***************************************************************************)
(* The objects of an nprpc process: the table that finds them by their ids, *)
(* and the servants themselves.                                             *)
(*                                                                          *)
(* The table of ids keeps every slot with exactly one owner, finds every    *)
(* live id and no removed one, for any number of threads and slots, as long *)
(* as the 32 bit counter has not gone round.                                *)
(*                                                                          *)
(* The counts of a servant are right for any number of sessions, servants   *)
(* and io threads, and any limit on references, and no servant is left      *)
(* behind; with one io thread no destroyed servant is ever used.            *)
(***************************************************************************)
EXTENDS IdToPtr, Servants, FiniteSetTheorems, SequenceTheorems, TLAPS

-----------------------------------------------------------------------------
(* The inductive invariant.  The counter of the head word is the number of  *)
(* swaps so far, so a thread that finds its old_free in the head knows that *)
(* nothing happened since it read it.                                       *)

Counted ==
  /\ tail_ix.cnt = swaps
  /\ \A t \in Threads :
       pc[t] \in {"add", "add_swap", "remove_link", "remove_swap"} =>
         old[t].cnt <= swaps /\ (old[t].cnt = swaps => old[t] = tail_ix)

\* what a thread has read or stored since it read the head
Progress ==
  \A t \in Threads :
    /\ pc[t] = "add_swap" => old[t].idx \in Slots
    /\ pc[t] = "add_swap" /\ old[t] = tail_ix => new_idx[t] = next[old[t].idx]
    /\ pc[t] = "add_store" => old[t].idx \in Slots
    /\ pc[t] \in {"add", "add_swap", "add_store"} => arg[t] \in Values
    /\ pc[t] \in Removing => id[t] \in Ids
    /\ pc[t] = "remove_swap" => next[id[t].idx] = old[t].idx

\* a slot in use was swapped out once more often than it was swapped in
Generations ==
  /\ \A s \in Slots : gix[s] <= swaps
  /\ \A l \in live : gix[l.idx] < swaps
  /\ \A t \in Threads : pc[t] = "add_store" => gix[old[t].idx] < swaps

\* the generation of an id is its slot's until it is removed
Ages ==
  /\ \A l \in live : gix[l.idx] = l.gix /\ val[l.idx] = l.val
  /\ \A i \in issued : i \in live \/ i.gix < gix[i.idx]

TableInv ==
  /\ TableTypes
  /\ ChainIntact
  /\ OneOwner
  /\ Counted
  /\ Progress
  /\ Generations
  /\ Ages

-----------------------------------------------------------------------------
(* Facts about the definitions.                                             *)

LEMMA HeldBy ==
  ASSUME NEW t \in Threads, NEW s
  PROVE  s \in Held(t) <=>
           \/ pc[t] = "add_store" /\ s = old[t].idx
           \/ pc[t] \in Removing /\ s = id[t].idx
  BY DEF Held

LEMMA PopFront ==
  ASSUME NEW S, NEW q \in Seq(S), q # <<>>
  PROVE  /\ SubSeq(q, 2, Len(q)) \in Seq(S)
         /\ Len(SubSeq(q, 2, Len(q))) = Len(q) - 1
         /\ \A i \in 1 .. Len(q) - 1 : SubSeq(q, 2, Len(q))[i] = q[i + 1]
  <1> DEFINE n == Len(q)
  <1>1. n \in Nat \ {0} /\ \A i \in 2 .. n : q[i] \in S
    OBVIOUS
  <1> HIDE DEF n
  <1>2. /\ SubSeq(q, 2, n) \in Seq(S)
        /\ Len(SubSeq(q, 2, n)) = IF 2 <= n THEN n - 2 + 1 ELSE 0
        /\ \A i \in 1 .. n - 2 + 1 : SubSeq(q, 2, n)[i] = q[2 + i - 1]
    BY <1>1, SubSeqProperties
  <1>3. QED  BY <1>1, <1>2 DEF n

LEMMA PushFront ==
  ASSUME NEW S, NEW q \in Seq(S), NEW x \in S
  PROVE  /\ <<x>> \o q \in Seq(S)
         /\ Len(<<x>> \o q) = Len(q) + 1
         /\ (<<x>> \o q)[1] = x
         /\ \A i \in 2 .. Len(q) + 1 : (<<x>> \o q)[i] = q[i - 1]
  OBVIOUS

\* a counter below the bound does not wrap
LEMMA NoWrap ==
  ASSUME NEW n \in Nat, n < MaxSwaps
  PROVE  Incremented(n) = n + 1 /\ Incremented(n) \in Words
  BY TableAssumption DEF Incremented, Words

\* the owners do not change when free, live and what each thread holds do not
LEMMA OwnersSame ==
  ASSUME OneOwner, UNCHANGED <<free, live>>, \A t \in Threads : Held(t)' = Held(t)
  PROVE  OneOwner'
  BY DEF OneOwner, Slots

\* the head is the first free slot
LEMMA HeadIsFree ==
  ASSUME TableTypes, ChainIntact, tail_ix.idx # End
  PROVE  free # <<>> /\ Len(free) \in Nat \ {0} /\ tail_ix.idx = free[1] /\ free[1] \in Slots
  BY DEF TableTypes, ChainIntact

-----------------------------------------------------------------------------
(* The initial states, and one lemma per action.                            *)

LEMMA InitInv == TableInit => TableInv
  <1> SUFFICES ASSUME TableInit PROVE TableInv
    OBVIOUS
  <1> USE TableAssumption
  <1>1. free \in Seq(Slots) /\ Len(free) = MaxSize /\ \A i \in 1 .. MaxSize : free[i] = i - 1
    BY DEF TableInit, Slots
  <1>2. \A t \in Threads : pc[t] = "idle" /\ Held(t) = {}
    BY DEF TableInit, Held, Removing
  <1>3. TableTypes
    BY <1>1 DEF TableInit, TableTypes, FirstChain, Slots, Heads, NoWord, Words
  <1>4. ChainIntact
    <2>1. free # <<>>
      BY <1>1
    <2>2. tail_ix.idx = free[1]
      BY <1>1 DEF TableInit, NoWord
    <2>3. \A i \in 1 .. MaxSize : next[free[i]] = i /\ (i < MaxSize => free[i + 1] = i)
      BY <1>1 DEF TableInit, FirstChain, Slots
    <2>4. QED  BY <1>1, <2>1, <2>2, <2>3 DEF ChainIntact, End
  <1>5. OneOwner
    <2>1. \A s \in Slots : s + 1 \in 1 .. Len(free) /\ free[s + 1] = s
      BY <1>1 DEF Slots
    <2>2. live = {}
      BY DEF TableInit
    <2>3. QED  BY <1>1, <1>2, <2>1, <2>2 DEF OneOwner
  <1>6. Counted
    BY <1>2 DEF TableInit, Counted, NoWord
  <1>7. Progress
    BY <1>2 DEF Progress, Removing
  <1>8. Generations
    BY <1>2 DEF TableInit, Generations
  <1>9. Ages
    BY DEF TableInit, Ages
  <1>10. QED  BY <1>3, <1>4, <1>5, <1>6, <1>7, <1>8, <1>9 DEF TableInv

LEMMA AddLoadInv ==
  ASSUME TableInv, NEW t \in Threads, NEW v \in Values, AddLoad(t, v)
  PROVE  TableInv'
  <1> USE DEF TableInv, AddLoad, Goto, items, history
  <1>1. TableTypes'
    BY DEF TableTypes
  <1>2. ChainIntact'
    BY DEF ChainIntact
  <1>3. OneOwner'
    <2>1. \A u \in Threads : Held(u)' = Held(u)
      BY DEF TableTypes, Held, Removing
    <2>2. QED  BY <2>1, OwnersSame
  <1>4. Counted'
    BY DEF TableTypes, Counted
  <1>5. Progress'
    BY DEF TableTypes, Progress, Removing
  <1>6. Generations'
    BY DEF TableTypes, Generations
  <1>7. Ages'
    BY DEF Ages
  <1>8. QED  BY <1>1, <1>2, <1>3, <1>4, <1>5, <1>6, <1>7

LEMMA AddFullInv ==
  ASSUME TableInv, NEW t \in Threads, AddFull(t)
  PROVE  TableInv'
  <1> USE TableAssumption DEF TableInv, AddFull, EndCall, Goto, items, history
  <1>1. TableTypes'
    BY DEF TableTypes, NoWord, Heads, Words
  <1>2. ChainIntact'
    BY DEF ChainIntact
  <1>3. OneOwner'
    <2>1. \A u \in Threads : Held(u)' = Held(u)
      BY DEF TableTypes, Held, Removing
    <2>2. QED  BY <2>1, OwnersSame
  <1>4. Counted'
    BY DEF TableTypes, Counted
  <1>5. Progress'
    BY DEF TableTypes, Progress, Removing
  <1>6. Generations'
    BY DEF TableTypes, Generations
  <1>7. Ages'
    BY DEF Ages
  <1>8. QED  BY <1>1, <1>2, <1>3, <1>4, <1>5, <1>6, <1>7

LEMMA AddNextInv ==
  ASSUME TableInv, NEW t \in Threads, AddNext(t)
  PROVE  TableInv'
  <1> USE TableAssumption DEF TableInv, AddNext, Goto, items, history
  <1>0. old[t].idx \in Slots
    BY DEF TableTypes, Heads, Slots, End
  <1>1. TableTypes'
    BY <1>0 DEF TableTypes
  <1>2. ChainIntact'
    BY DEF ChainIntact
  <1>3. OneOwner'
    <2>1. \A u \in Threads : Held(u)' = Held(u)
      BY DEF TableTypes, Held, Removing
    <2>2. QED  BY <2>1, OwnersSame
  <1>4. Counted'
    BY DEF TableTypes, Counted
  <1>5. Progress'
    BY <1>0 DEF TableTypes, Progress, Removing
  <1>6. Generations'
    BY DEF TableTypes, Generations
  <1>7. Ages'
    BY DEF Ages
  <1>8. QED  BY <1>1, <1>2, <1>3, <1>4, <1>5, <1>6, <1>7

\* a failed compare-and-swap, in add and in remove
LEMMA SwapFailsInv ==
  ASSUME TableInv, NEW t \in Threads, AddSwapFails(t) \/ RemoveSwapFails(t)
  PROVE  TableInv'
  <1> USE TableAssumption DEF TableInv, AddSwapFails, RemoveSwapFails, SwapFails, Goto, items, history
  <1>1. TableTypes'
    <2>1. pc' \in [Threads -> {"idle", "add", "add_swap", "add_store"} \cup Removing]
      BY DEF TableTypes, Removing
    <2>2. old' \in [Threads -> Heads] /\ new_idx' \in [Threads -> 0 .. MaxSize]
      <3>1. old' = [old EXCEPT ![t] = tail_ix] /\ new_idx' = [new_idx EXCEPT ![t] = 0]
        OBVIOUS
      <3>2. 0 \in 0 .. MaxSize /\ tail_ix \in Heads
        BY DEF TableTypes
      <3>3. QED  BY <3>1, <3>2 DEF TableTypes
    <2>3. UNCHANGED <<next, gix, val, tail_ix, id, arg, issued, live, free, swaps>>
      OBVIOUS
    <2>4. QED  BY <2>1, <2>2, <2>3 DEF TableTypes
  <1>2. ChainIntact'
    BY DEF ChainIntact
  <1>3. OneOwner'
    <2>1. \A u \in Threads : Held(u)' = Held(u)
      BY DEF TableTypes, Held, Removing
    <2>2. QED  BY <2>1, OwnersSame
  <1>4. Counted'
    <2>1. tail_ix.cnt = swaps /\ swaps \in Nat /\ UNCHANGED <<tail_ix, swaps>>
      BY DEF TableTypes, Counted
    <2>2. old'[t] = tail_ix /\ \A u \in Threads \ {t} : old'[u] = old[u] /\ pc'[u] = pc[u]
      BY DEF TableTypes
    <2>3. QED  BY <2>1, <2>2 DEF Counted
  <1>5. /\ UNCHANGED <<next, gix, id, arg, live, swaps, tail_ix>>
        /\ \/ pc[t] = "add_swap" /\ pc'[t] = "add"
           \/ pc[t] = "remove_swap" /\ pc'[t] = "remove_link"
        /\ \A u \in Threads \ {t} :
             pc'[u] = pc[u] /\ old'[u] = old[u] /\ new_idx'[u] = new_idx[u]
    BY DEF TableTypes
  <1>6. Progress'
    BY ONLY <1>5, Progress DEF Progress, Removing, Ids, Slots
  <1>7. Generations'
    BY ONLY <1>5, Generations DEF Generations, Slots
  <1>8. Ages'
    BY DEF Ages
  <1>9. QED  BY <1>1, <1>2, <1>3, <1>4, <1>6, <1>7, <1>8

LEMMA RemoveLoadInv ==
  ASSUME TableInv, NEW t \in Threads, RemoveLoad(t)
  PROVE  TableInv'
  <1> USE TableAssumption DEF TableInv, RemoveLoad, Goto, items, history
  <1>1. TableTypes'
    BY DEF TableTypes, Removing
  <1>2. ChainIntact'
    BY DEF ChainIntact
  <1>3. OneOwner'
    <2>1. \A u \in Threads : Held(u)' = Held(u)
      BY DEF TableTypes, Held, Removing
    <2>2. QED  BY <2>1, OwnersSame
  <1>4. Counted'
    BY DEF TableTypes, Counted
  <1>5. Progress'
    BY DEF TableTypes, Progress, Removing
  <1>6. Generations'
    BY DEF TableTypes, Generations
  <1>7. Ages'
    BY DEF Ages
  <1>8. QED  BY <1>1, <1>2, <1>3, <1>4, <1>5, <1>6, <1>7

\* the pop: the head is unchanged since old_free was read, so what was read
\* from "next" of its slot still holds
LEMMA AddSwapInv ==
  ASSUME TableInv, NEW t \in Threads, AddSwap(t)
  PROVE  TableInv'
  <1> USE TableAssumption DEF TableInv
  <1>1. /\ pc[t] = "add_swap" /\ pc' = [pc EXCEPT ![t] = "add_store"]
        /\ tail_ix = old[t] /\ old[t].idx \in Slots /\ new_idx[t] = next[old[t].idx]
        /\ swaps \in Nat /\ swaps < MaxSwaps /\ swaps' = swaps + 1
        /\ UNCHANGED <<next, gix, val, old, new_idx, id, arg, issued, live>>
    BY DEF AddSwap, Swap, Goto, Progress, TableTypes, items, locals
  <1>2. tail_ix' = [idx |-> next[old[t].idx], cnt |-> swaps + 1] /\ swaps + 1 \in Words
    BY <1>1, NoWrap DEF AddSwap, Swap, NextCount, Counted
  <1>3. /\ free # <<>> /\ Len(free) \in Nat \ {0} /\ old[t].idx = free[1]
        /\ free \in Seq(Slots) /\ \A i \in 1 .. Len(free) : free[i] \in Slots
    <2>1. tail_ix.idx # End
      BY <1>1 DEF Slots, End
    <2>2. TableTypes /\ ChainIntact
      OBVIOUS
    <2>3. free # <<>> /\ Len(free) \in Nat \ {0} /\ tail_ix.idx = free[1]
      BY <2>1, <2>2, HeadIsFree
    <2>4. free \in Seq(Slots) /\ \A i \in 1 .. Len(free) : free[i] \in Slots
      BY DEF TableTypes
    <2>5. QED  BY <1>1, <2>3, <2>4
  <1>4. /\ free' \in Seq(Slots)
        /\ Len(free') = Len(free) - 1
        /\ \A i \in 1 .. Len(free) - 1 : free'[i] = free[i + 1]
    BY <1>3, PopFront DEF AddSwap
  <1>5. \A s : /\ s \in Held(t)' <=> s = free[1]
              /\ \A u \in Threads \ {t} : s \in Held(u)' <=> s \in Held(u)
    BY <1>1, <1>3 DEF Held, TableTypes, Removing
  <1>6. \A s : s \notin Held(t)
    BY <1>1 DEF Held, Removing
  <1>7. TableTypes'
    <2>1. tail_ix' \in Heads
      BY <1>1, <1>2 DEF TableTypes, Heads
    <2>2. pc' \in [Threads -> {"idle", "add", "add_swap", "add_store"} \cup Removing]
      BY <1>1 DEF TableTypes
    <2>3. swaps' \in 0 .. MaxSwaps
      BY <1>1 DEF TableTypes
    <2>4. QED  BY <1>1, <1>4, <2>1, <2>2, <2>3 DEF TableTypes
  <1>8. ChainIntact'
    <2>1. tail_ix'.idx = IF Len(free) = 1 THEN End ELSE free[2]
      <3>1. 1 \in 1 .. Len(free)
        BY <1>3
      <3>2. next[free[1]] = IF 1 = Len(free) THEN End ELSE free[1 + 1]
        BY <3>1 DEF ChainIntact
      <3>3. QED  BY <1>2, <1>3, <3>2
    <2>2. free' = <<>> <=> Len(free) = 1
      BY <1>3, <1>4
    <2>3. tail_ix'.idx = IF free' = <<>> THEN End ELSE free'[1]
      BY <1>3, <1>4, <2>1, <2>2
    <2>4. ASSUME NEW i \in 1 .. Len(free')
          PROVE  next'[free'[i]] = IF i = Len(free') THEN End ELSE free'[i + 1]
      <3>1. i + 1 \in 1 .. Len(free) /\ free'[i] = free[i + 1]
        BY <1>3, <1>4
      <3>2. next[free[i + 1]] = IF i + 1 = Len(free) THEN End ELSE free[i + 2]
        BY <1>3, <3>1 DEF ChainIntact
      <3>3. CASE i = Len(free')
        <4>1. i + 1 = Len(free)
          BY <1>3, <1>4, <3>3
        <4>2. QED  BY <1>1, <3>1, <3>2, <3>3, <4>1
      <3>4. CASE i # Len(free')
        <4>1. i + 1 # Len(free) /\ i + 1 \in 1 .. Len(free')
          BY <1>3, <1>4, <3>4
        <4>2. free'[i + 1] = free[i + 2]
          BY <1>3, <1>4, <4>1
        <4>3. QED  BY <1>1, <3>1, <3>2, <3>4, <4>1, <4>2
      <3>5. QED  BY <3>3, <3>4
    <2>5. QED  BY <2>3, <2>4 DEF ChainIntact
  <1>9. OneOwner'
    <2>1. \A i, j \in 1 .. Len(free') : free'[i] = free'[j] => i = j
      BY <1>3, <1>4 DEF OneOwner
    <2>2. \A i \in 1 .. Len(free') : free'[i] # free[1] /\ \E j \in 2 .. Len(free) : free'[i] = free[j]
      BY <1>3, <1>4 DEF OneOwner
    <2>3. ASSUME NEW i \in 1 .. Len(free')
          PROVE  /\ \A l \in live' : l.idx # free'[i]
                 /\ \A u \in Threads : free'[i] \notin Held(u)'
      <3>1. PICK j \in 2 .. Len(free) : free'[i] = free[j]
        BY <2>2
      <3>2. /\ \A l \in live : l.idx # free[j]
            /\ \A u \in Threads : free[j] \notin Held(u)
        BY <1>3 DEF OneOwner
      <3>3. free[j] # free[1]
        BY <2>2, <3>1
      <3>4. \A u \in Threads : free[j] \notin Held(u)'
        BY <1>5, <3>2, <3>3
      <3>5. QED  BY <1>1, <3>1, <3>2, <3>4
    <2>4. \A l, m \in live' : l.idx = m.idx => l = m
      BY <1>1 DEF OneOwner
    <2>5. \A l \in live', u \in Threads : l.idx \notin Held(u)'
      <3>1. \A l \in live : l.idx # free[1] /\ \A u \in Threads : l.idx \notin Held(u)
        <4>1. 1 \in 1 .. Len(free)
          BY <1>3
        <4>2. QED  BY <4>1 DEF OneOwner
      <3>2. QED  BY <1>1, <1>5, <3>1
    <2>6. \A u, v \in Threads : u # v => Held(u)' \cap Held(v)' = {}
      BY <1>3, <1>5 DEF OneOwner
    <2>7. ASSUME NEW s \in Slots
          PROVE  \/ \E i \in 1 .. Len(free') : free'[i] = s
                 \/ \E l \in live' : l.idx = s
                 \/ \E u \in Threads : s \in Held(u)'
      <3>1. CASE \E i \in 1 .. Len(free) : free[i] = s
        <4>1. PICK i \in 1 .. Len(free) : free[i] = s
          BY <3>1
        <4>2. CASE i = 1
          BY <1>5, <4>1, <4>2
        <4>3. CASE i # 1
          <5>1. i - 1 \in 1 .. Len(free') /\ free'[i - 1] = s
            BY <1>3, <1>4, <4>1, <4>3
          <5>2. QED  BY <5>1
        <4>4. QED  BY <4>2, <4>3
      <3>2. CASE \E l \in live : l.idx = s
        BY <1>1, <3>2
      <3>3. CASE \E u \in Threads : s \in Held(u)
        BY <1>5, <1>6, <3>3
      <3>4. QED  BY <3>1, <3>2, <3>3 DEF OneOwner
    <2>8. QED  BY <2>1, <2>3, <2>4, <2>5, <2>6, <2>7 DEF OneOwner, Slots
  <1>10. Counted'
    <2>1. \A u \in Threads :
            pc'[u] \in {"add", "add_swap", "remove_link", "remove_swap"} =>
              pc[u] = pc'[u] /\ old'[u].cnt <= swaps
      BY <1>1 DEF TableTypes, Counted
    <2>2. \A u \in Threads : old[u].cnt \in Nat
      BY DEF TableTypes, Heads, Words
    <2>3. QED  BY <1>1, <1>2, <2>1, <2>2 DEF Counted
  <1>11. Progress'
    <2>1. \A u \in Threads : pc'[u] = "add_swap" => pc[u] = "add_swap" /\ old[u] # tail_ix'
      <3>1. \A u \in Threads : pc'[u] = "add_swap" => pc[u] = "add_swap" /\ old[u].cnt <= swaps
        BY <1>1 DEF TableTypes, Counted
      <3>2. QED  BY <1>1, <1>2, <3>1
    <2>2. QED  BY <1>1, <2>1 DEF Progress, TableTypes, Removing
  <1>12. Generations'
    <2>1. \A s \in Slots : gix[s] \in Nat /\ gix[s] <= swaps
      BY DEF Generations, TableTypes, Words
    <2>2. \A l \in live : l.idx \in Slots /\ gix[l.idx] < swaps
      BY DEF Generations, TableTypes, Ids
    <2>3. \A u \in Threads : pc'[u] = "add_store" => old[u].idx \in Slots /\ gix[old[u].idx] <= swaps
      BY <1>1, <2>1 DEF Progress, TableTypes
    <2>4. QED  BY <1>1, <2>1, <2>2, <2>3 DEF Generations
  <1>13. Ages'
    BY <1>1 DEF Ages
  <1>14. QED  BY <1>7, <1>8, <1>9, <1>10, <1>11, <1>12, <1>13

LEMMA AddStoreInv ==
  ASSUME TableInv, NEW t \in Threads, AddStore(t)
  PROVE  TableInv'
  <1> USE TableAssumption DEF TableInv
  <1> DEFINE slot == old[t].idx
             new == [idx |-> slot, gix |-> gix[slot], val |-> arg[t]]
  <1>1. /\ pc[t] = "add_store" /\ pc' = [pc EXCEPT ![t] = "idle"]
        /\ slot \in Slots /\ arg[t] \in Values
        /\ val' = [val EXCEPT ![slot] = arg[t]]
        /\ issued' = issued \cup {new} /\ live' = live \cup {new}
        /\ old' = [old EXCEPT ![t] = NoWord] /\ id' = [id EXCEPT ![t] = NoId]
        /\ new_idx' = [new_idx EXCEPT ![t] = 0] /\ arg' = [arg EXCEPT ![t] = NoValue]
        /\ UNCHANGED <<next, gix, tail_ix, free, swaps>>
    BY DEF AddStore, EndCall, Goto, Progress
  <1>2. new \in Ids /\ new.idx = slot /\ new.gix = gix[slot] /\ new.val = arg[t]
    BY <1>1 DEF Ids, TableTypes
  <1>3. slot \in Held(t) /\ \A s \in Held(t) : s = slot
    BY <1>1 DEF Held, Removing
  <1>4. /\ \A l \in live : l.idx # slot
        /\ \A i \in 1 .. Len(free) : free[i] # slot
        /\ \A u \in Threads \ {t} : slot \notin Held(u)
    BY <1>3 DEF OneOwner
  <1>5. /\ \A s : s \notin Held(t)'
        /\ \A u \in Threads \ {t} : Held(u)' = Held(u)
    BY <1>1 DEF Held, TableTypes, Removing
  <1>6. \A i \in issued : i.idx \in Slots /\ i.gix \in Nat
    BY DEF TableTypes, Ids, Words
  <1> HIDE DEF new, slot
  <1>7. TableTypes'
    <2>1. old' \in [Threads -> Heads] /\ new_idx' \in [Threads -> 0 .. MaxSize]
      BY <1>1 DEF TableTypes, NoWord, Heads, Words
    <2>2. /\ id' \in [Threads -> Ids \cup {NoId}] /\ arg' \in [Threads -> Values \cup {NoValue}]
          /\ val' \in [Slots -> Values \cup {NoValue}]
      BY <1>1 DEF TableTypes
    <2>3. pc' \in [Threads -> {"idle", "add", "add_swap", "add_store"} \cup Removing]
      BY <1>1 DEF TableTypes
    <2>4. QED  BY <1>1, <1>2, <2>1, <2>2, <2>3 DEF TableTypes
  <1>8. ChainIntact'
    BY <1>1 DEF ChainIntact
  <1>9. OneOwner'
    <2>1. \A i \in 1 .. Len(free') :
            /\ \A l \in live' : l.idx # free'[i]
            /\ \A u \in Threads : free'[i] \notin Held(u)'
      BY <1>1, <1>2, <1>4, <1>5 DEF OneOwner
    <2>2. \A l, m \in live' : l.idx = m.idx => l = m
      BY <1>1, <1>2, <1>4 DEF OneOwner
    <2>3. \A l \in live', u \in Threads : l.idx \notin Held(u)'
      BY <1>1, <1>2, <1>4, <1>5 DEF OneOwner
    <2>4. \A u, v \in Threads : u # v => Held(u)' \cap Held(v)' = {}
      BY <1>5 DEF OneOwner
    <2>5. ASSUME NEW s \in Slots
          PROVE  \/ \E i \in 1 .. Len(free') : free'[i] = s
                 \/ \E l \in live' : l.idx = s
                 \/ \E u \in Threads : s \in Held(u)'
      <3>1. CASE s = slot
        BY <1>1, <1>2, <3>1
      <3>2. CASE s # slot
        <4>1. s \notin Held(t)
          BY <1>3, <3>2
        <4>2. QED  BY <1>1, <1>5, <4>1 DEF OneOwner
      <3>3. QED  BY <3>1, <3>2
    <2>6. QED  BY <1>1, <2>1, <2>2, <2>3, <2>4, <2>5 DEF OneOwner, Slots
  <1>10. Counted'
    BY <1>1 DEF TableTypes, Counted
  <1>11. Progress'
    BY <1>1 DEF TableTypes, Progress, Removing
  <1>12. Generations'
    <2>1. gix[slot] < swaps
      BY <1>1 DEF Generations, slot
    <2>2. \A u \in Threads : pc'[u] = "add_store" => u # t /\ pc[u] = "add_store" /\ old'[u] = old[u]
      BY <1>1 DEF TableTypes
    <2>3. QED  BY <1>1, <1>2, <2>1, <2>2 DEF Generations
  <1>13. Ages'
    <2>1. \A l \in live : l.idx \in Slots /\ val'[l.idx] = val[l.idx]
      BY <1>1, <1>4, <1>6 DEF TableTypes
    <2>2. val'[slot] = arg[t]
      BY <1>1 DEF TableTypes
    <2>3. QED  BY <1>1, <1>2, <2>1, <2>2 DEF Ages
  <1>14. QED  BY <1>7, <1>8, <1>9, <1>10, <1>11, <1>12, <1>13

LEMMA RemoveInv ==
  ASSUME TableInv, NEW t \in Threads, NEW i \in live, Remove(t, i)
  PROVE  TableInv'
  <1> USE TableAssumption DEF TableInv
  <1>1. /\ pc[t] = "idle" /\ pc' = [pc EXCEPT ![t] = "remove_load"]
        /\ live' = live \ {i} /\ id' = [id EXCEPT ![t] = i]
        /\ gix' = [gix EXCEPT ![i.idx] = Incremented(@)]
        /\ UNCHANGED <<next, val, tail_ix, old, new_idx, arg, issued, free, swaps>>
    BY DEF Remove, Goto
  <1>2. i \in issued /\ i \in Ids /\ i.idx \in Slots /\ \A j \in issued : j.idx \in Slots /\ j.gix \in Nat
    BY DEF TableTypes, Ids, Words
  <1>3. gix[i.idx] \in Nat /\ gix[i.idx] < swaps /\ swaps \in Nat /\ swaps <= MaxSwaps /\ i.gix = gix[i.idx]
    BY <1>2 DEF Generations, TableTypes, Words, Ages
  <1>4. Incremented(gix[i.idx]) = gix[i.idx] + 1 /\ gix[i.idx] + 1 \in Words
    <2>1. gix[i.idx] < MaxSwaps
      BY <1>3
    <2>2. QED  BY <1>3, <2>1, NoWrap
  <1>5. /\ gix'[i.idx] = gix[i.idx] + 1
        /\ \A s \in Slots : s # i.idx => gix'[s] = gix[s]
        /\ \A s \in Slots : gix[s] \in Nat
    BY <1>1, <1>2, <1>4 DEF TableTypes, Words
  <1>6. \A s : /\ s \in Held(t)' <=> s = i.idx
              /\ s \notin Held(t)
              /\ \A u \in Threads \ {t} : s \in Held(u)' <=> s \in Held(u)
    BY <1>1 DEF Held, TableTypes, Removing
  <1>7. \A l \in live : l.idx = i.idx => l = i
    BY DEF OneOwner
  <1>8. TableTypes'
    <2>1. gix' \in [Slots -> Words]
      BY <1>1, <1>2, <1>4 DEF TableTypes
    <2>2. id' \in [Threads -> Ids \cup {NoId}]
      BY <1>1, <1>2 DEF TableTypes
    <2>3. pc' \in [Threads -> {"idle", "add", "add_swap", "add_store"} \cup Removing]
      BY <1>1 DEF TableTypes, Removing
    <2>4. QED  BY <1>1, <2>1, <2>2, <2>3 DEF TableTypes
  <1>9. ChainIntact'
    BY <1>1 DEF ChainIntact
  <1>10. OneOwner'
    <2>1. ASSUME NEW k \in 1 .. Len(free')
          PROVE  /\ \A l \in live' : l.idx # free'[k]
                 /\ \A u \in Threads : free'[k] \notin Held(u)'
      <3>1. free'[k] # i.idx /\ \A u \in Threads : free'[k] \notin Held(u)
        BY <1>1 DEF OneOwner
      <3>2. QED  BY <1>1, <1>6, <3>1 DEF OneOwner
    <2>2. \A l, m \in live' : l.idx = m.idx => l = m
      BY <1>1 DEF OneOwner
    <2>3. \A l \in live', u \in Threads : l.idx \notin Held(u)'
      BY <1>1, <1>6, <1>7 DEF OneOwner
    <2>4. \A u, v \in Threads : u # v => Held(u)' \cap Held(v)' = {}
      <3>1. \A u \in Threads : i.idx \notin Held(u)
        BY DEF OneOwner
      <3>2. QED  BY <1>6, <3>1 DEF OneOwner
    <2>5. ASSUME NEW s \in Slots
          PROVE  \/ \E k \in 1 .. Len(free') : free'[k] = s
                 \/ \E l \in live' : l.idx = s
                 \/ \E u \in Threads : s \in Held(u)'
      <3>1. CASE s = i.idx
        BY <1>6, <3>1
      <3>2. CASE s # i.idx
        BY <1>1, <1>6, <3>2 DEF OneOwner
      <3>3. QED  BY <3>1, <3>2
    <2>6. QED  BY <1>1, <2>1, <2>2, <2>3, <2>4, <2>5 DEF OneOwner, Slots
  <1>11. Counted'
    BY <1>1 DEF TableTypes, Counted
  <1>12. Progress'
    BY <1>1, <1>2 DEF TableTypes, Progress, Removing
  <1>13. Generations'
    <2>1. \A s \in Slots : gix'[s] <= swaps
      BY <1>3, <1>5 DEF Generations
    <2>2. \A l \in live' : gix'[l.idx] < swaps
      BY <1>1, <1>2, <1>5, <1>7 DEF Generations, TableTypes
    <2>3. \A u \in Threads : pc'[u] = "add_store" => pc[u] = "add_store" /\ old[u].idx \in Slots /\ old[u].idx # i.idx
      <3>1. \A u \in Threads : i.idx \notin Held(u)
        BY DEF OneOwner
      <3>2. QED  BY <1>1, <3>1 DEF Held, Progress, TableTypes
    <2>4. QED  BY <1>1, <1>5, <2>1, <2>2, <2>3 DEF Generations
  <1>14. Ages'
    <2>1. \A l \in live' : gix'[l.idx] = l.gix /\ val'[l.idx] = l.val
      BY <1>1, <1>2, <1>5, <1>7 DEF Ages, TableTypes
    <2>2. ASSUME NEW j \in issued' PROVE j \in live' \/ j.gix < gix'[j.idx]
      BY <1>1, <1>2, <1>3, <1>5 DEF Ages
    <2>3. QED  BY <2>1, <2>2 DEF Ages
  <1>15. QED  BY <1>8, <1>9, <1>10, <1>11, <1>12, <1>13, <1>14

\* the link is written into the slot the thread holds: neither the chain nor
\* what another thread read from the head's slot changes
LEMMA RemoveLinkInv ==
  ASSUME TableInv, NEW t \in Threads, RemoveLink(t)
  PROVE  TableInv'
  <1> USE TableAssumption DEF TableInv
  <1>1. /\ pc[t] = "remove_link" /\ pc' = [pc EXCEPT ![t] = "remove_swap"]
        /\ id[t] \in Ids /\ id[t].idx \in Slots
        /\ next' = [next EXCEPT ![id[t].idx] = old[t].idx]
        /\ UNCHANGED <<gix, val, tail_ix, old, new_idx, id, arg, issued, live, free, swaps>>
    BY DEF RemoveLink, Goto, Progress, Removing, Ids, locals, history
  <1>2. id[t].idx \in Held(t)
    BY <1>1 DEF Held, Removing
  <1>3. \A k \in 1 .. Len(free) : free[k] # id[t].idx /\ free[k] \in Slots /\ next'[free[k]] = next[free[k]]
    BY <1>1, <1>2 DEF OneOwner, TableTypes
  <1>4. tail_ix.idx # End => tail_ix.idx # id[t].idx /\ tail_ix.idx \in Slots /\ next'[tail_ix.idx] = next[tail_ix.idx]
    <2>1. TableTypes /\ ChainIntact
      OBVIOUS
    <2>2. ASSUME tail_ix.idx # End
          PROVE  1 \in 1 .. Len(free) /\ tail_ix.idx = free[1]
      BY <2>1, <2>2, HeadIsFree
    <2>3. QED  BY <1>3, <2>2
  <1>5. TableTypes'
    <2>1. next' \in [Slots -> 0 .. MaxSize]
      BY <1>1 DEF TableTypes, Heads
    <2>2. pc' \in [Threads -> {"idle", "add", "add_swap", "add_store"} \cup Removing]
      BY <1>1 DEF TableTypes, Removing
    <2>3. QED  BY <1>1, <2>1, <2>2 DEF TableTypes
  <1>6. ChainIntact'
    BY <1>1, <1>3 DEF ChainIntact
  <1>7. OneOwner'
    <2>1. \A u \in Threads : Held(u)' = Held(u)
      BY <1>1 DEF TableTypes, Held, Removing
    <2>2. QED  BY <1>1, <2>1, OwnersSame
  <1>8. Counted'
    BY <1>1 DEF TableTypes, Counted
  <1>9. Progress'
    <2>1. ASSUME NEW u \in Threads, pc'[u] = "remove_swap"
          PROVE  next'[id'[u].idx] = old'[u].idx
      <3>1. CASE u = t
        BY <1>1, <3>1 DEF TableTypes
      <3>2. CASE u # t
        <4>1. pc[u] = "remove_swap" /\ id[u].idx \in Held(u)
          BY <1>1, <2>1, <3>2 DEF TableTypes, Held, Removing
        <4>2. id[u].idx # id[t].idx
          BY <1>2, <3>2, <4>1 DEF OneOwner
        <4>3. id[u].idx \in Slots
          BY <4>1 DEF Progress, Removing, Ids
        <4>4. QED  BY <1>1, <4>1, <4>2, <4>3 DEF Progress, TableTypes
      <3>3. QED  BY <3>1, <3>2
    <2>2. ASSUME NEW u \in Threads, pc'[u] = "add_swap", old'[u] = tail_ix'
          PROVE  new_idx'[u] = next'[old'[u].idx]
      <3>1. pc[u] = "add_swap" /\ old[u] = tail_ix
        BY <1>1, <2>2 DEF TableTypes
      <3>2. tail_ix.idx # End
        BY <3>1 DEF Progress, Slots, End
      <3>3. QED  BY <1>1, <1>4, <3>1, <3>2 DEF Progress
    <2>3. QED  BY <1>1, <2>1, <2>2 DEF Progress, TableTypes, Removing
  <1>10. Generations'
    BY <1>1 DEF Generations, TableTypes
  <1>11. Ages'
    BY <1>1 DEF Ages
  <1>12. QED  BY <1>5, <1>6, <1>7, <1>8, <1>9, <1>10, <1>11

\* the push
LEMMA RemoveSwapInv ==
  ASSUME TableInv, NEW t \in Threads, RemoveSwap(t)
  PROVE  TableInv'
  <1> USE TableAssumption DEF TableInv
  <1> DEFINE slot == id[t].idx
  <1>1. /\ pc[t] = "remove_swap" /\ pc' = [pc EXCEPT ![t] = "idle"]
        /\ slot \in Slots /\ next[slot] = old[t].idx /\ tail_ix = old[t]
        /\ swaps \in Nat /\ swaps < MaxSwaps /\ swaps' = swaps + 1
        /\ free' = <<slot>> \o free
        /\ old' = [old EXCEPT ![t] = NoWord] /\ id' = [id EXCEPT ![t] = NoId]
        /\ new_idx' = [new_idx EXCEPT ![t] = 0] /\ arg' = [arg EXCEPT ![t] = NoValue]
        /\ UNCHANGED <<next, gix, val, issued, live>>
    BY DEF RemoveSwap, Swap, EndCall, Goto, Progress, Removing, Ids, TableTypes, items
  <1>2. tail_ix' = [idx |-> slot, cnt |-> swaps + 1] /\ swaps + 1 \in Words
    BY <1>1, NoWrap DEF RemoveSwap, Swap, NextCount, Counted
  <1>3. slot \in Held(t) /\ \A s \in Held(t) : s = slot
    BY <1>1 DEF Held, Removing
  <1>4. /\ \A l \in live : l.idx # slot
        /\ \A k \in 1 .. Len(free) : free[k] # slot
        /\ \A u \in Threads \ {t} : slot \notin Held(u)
    BY <1>3 DEF OneOwner
  <1>5. /\ \A s : s \notin Held(t)'
        /\ \A u \in Threads \ {t} : Held(u)' = Held(u)
    BY <1>1 DEF Held, TableTypes, Removing
  <1>6. free \in Seq(Slots) /\ Len(free) \in Nat
    BY DEF TableTypes
  <1> HIDE DEF slot
  <1>7. /\ free' \in Seq(Slots)
        /\ Len(free') = Len(free) + 1
        /\ free'[1] = slot
        /\ \A k \in 2 .. Len(free) + 1 : free'[k] = free[k - 1]
    BY <1>1, <1>6, PushFront
  <1>8. TableTypes'
    <2>1. old' \in [Threads -> Heads] /\ new_idx' \in [Threads -> 0 .. MaxSize]
      BY <1>1 DEF TableTypes, NoWord, Heads, Words
    <2>2. id' \in [Threads -> Ids \cup {NoId}] /\ arg' \in [Threads -> Values \cup {NoValue}]
      BY <1>1 DEF TableTypes
    <2>3. pc' \in [Threads -> {"idle", "add", "add_swap", "add_store"} \cup Removing]
      BY <1>1 DEF TableTypes
    <2>4. tail_ix' \in Heads /\ swaps' \in 0 .. MaxSwaps
      BY <1>1, <1>2 DEF Heads, Slots
    <2>5. QED  BY <1>1, <1>7, <2>1, <2>2, <2>3, <2>4 DEF TableTypes
  <1>9. ChainIntact'
    <2>1. free' # <<>> /\ tail_ix'.idx = free'[1]
      BY <1>2, <1>6, <1>7
    <2>2. ASSUME NEW k \in 1 .. Len(free')
          PROVE  next'[free'[k]] = IF k = Len(free') THEN End ELSE free'[k + 1]
      <3>1. CASE k = 1
        <4>1. next'[free'[1]] = tail_ix.idx
          BY <1>1, <1>7
        <4>2. Len(free) = 0 <=> free = <<>>
          BY <1>6
        <4>3. Len(free) # 0 => free'[2] = free[1]
          BY <1>6, <1>7
        <4>4. QED  BY <1>6, <1>7, <3>1, <4>1, <4>2, <4>3 DEF ChainIntact
      <3>2. CASE k # 1
        <4>1. k - 1 \in 1 .. Len(free) /\ free'[k] = free[k - 1]
          BY <1>6, <1>7, <3>2
        <4>2. next[free[k - 1]] = IF k - 1 = Len(free) THEN End ELSE free[k - 1 + 1]
          BY <4>1 DEF ChainIntact
        <4>3. k # Len(free') => free'[k + 1] = free[k]
          BY <1>6, <1>7, <4>1
        <4>4. QED  BY <1>1, <1>6, <1>7, <4>1, <4>2, <4>3
      <3>3. QED  BY <3>1, <3>2
    <2>3. QED  BY <2>1, <2>2 DEF ChainIntact
  <1>10. OneOwner'
    <2>1. ASSUME NEW k \in 1 .. Len(free')
          PROVE  \/ k = 1 /\ free'[k] = slot
                 \/ k - 1 \in 1 .. Len(free) /\ free'[k] = free[k - 1] /\ free'[k] # slot
      BY <1>4, <1>6, <1>7
    <2>2. ASSUME NEW j \in 1 .. Len(free'), NEW k \in 1 .. Len(free'), free'[j] = free'[k]
          PROVE  j = k
      <3>1. CASE free'[j] = slot
        BY <2>1, <2>2, <3>1
      <3>2. CASE free'[j] # slot
        <4>1. /\ j - 1 \in 1 .. Len(free) /\ free'[j] = free[j - 1]
              /\ k - 1 \in 1 .. Len(free) /\ free'[k] = free[k - 1]
          BY <2>1, <2>2, <3>2
        <4>2. j - 1 = k - 1
          BY <2>2, <4>1 DEF OneOwner
        <4>3. QED  BY <1>6, <1>7, <4>2
      <3>3. QED  BY <3>1, <3>2
    <2>3. ASSUME NEW k \in 1 .. Len(free')
          PROVE  /\ \A l \in live' : l.idx # free'[k]
                 /\ \A u \in Threads : free'[k] \notin Held(u)'
      <3>1. CASE free'[k] = slot
        BY <1>1, <1>4, <1>5, <3>1
      <3>2. CASE free'[k] # slot
        <4>1. k - 1 \in 1 .. Len(free) /\ free'[k] = free[k - 1]
          BY <2>1, <3>2
        <4>2. /\ \A l \in live : l.idx # free[k - 1]
              /\ \A u \in Threads : free[k - 1] \notin Held(u)
          BY <4>1 DEF OneOwner
        <4>3. QED  BY <1>1, <1>5, <4>1, <4>2
      <3>3. QED  BY <3>1, <3>2
    <2>4. \A l, m \in live' : l.idx = m.idx => l = m
      BY <1>1 DEF OneOwner
    <2>5. \A l \in live', u \in Threads : l.idx \notin Held(u)'
      BY <1>1, <1>5 DEF OneOwner
    <2>6. \A u, v \in Threads : u # v => Held(u)' \cap Held(v)' = {}
      BY <1>5 DEF OneOwner
    <2>7. ASSUME NEW s \in Slots
          PROVE  \/ \E k \in 1 .. Len(free') : free'[k] = s
                 \/ \E l \in live' : l.idx = s
                 \/ \E u \in Threads : s \in Held(u)'
      <3>1. CASE \E k \in 1 .. Len(free) : free[k] = s
        <4>1. PICK k \in 1 .. Len(free) : free[k] = s
          BY <3>1
        <4>2. k + 1 \in 2 .. Len(free) + 1 /\ (k + 1) - 1 = k
          BY <1>6
        <4>3. k + 1 \in 1 .. Len(free')
          BY <1>6, <1>7
        <4>4. free'[k + 1] = free[(k + 1) - 1]
          BY <1>7, <4>2
        <4>5. QED  BY <4>1, <4>2, <4>3, <4>4
      <3>2. CASE \E l \in live : l.idx = s
        BY <1>1, <3>2
      <3>3. CASE s \in Held(t)
        <4>1. 1 \in 1 .. Len(free') /\ free'[1] = s
          BY <1>3, <1>6, <1>7, <3>3
        <4>2. QED  BY <4>1
      <3>4. CASE \E u \in Threads \ {t} : s \in Held(u)
        BY <1>5, <3>4
      <3>5. QED  BY <3>1, <3>2, <3>3, <3>4 DEF OneOwner
    <2>8. QED  BY <2>2, <2>3, <2>4, <2>5, <2>6, <2>7 DEF OneOwner, Slots
  <1>11. Counted'
    <2>1. \A u \in Threads :
            pc'[u] \in {"add", "add_swap", "remove_link", "remove_swap"} =>
              u # t /\ old'[u] = old[u] /\ old[u].cnt <= swaps
      BY <1>1 DEF TableTypes, Counted
    <2>2. \A u \in Threads : old[u].cnt \in Nat
      BY DEF TableTypes, Heads, Words
    <2>3. QED  BY <1>1, <1>2, <2>1, <2>2 DEF Counted
  <1>12. Progress'
    <2>1. \A u \in Threads : pc'[u] # "idle" => u # t
      BY <1>1 DEF TableTypes
    <2>2. \A u \in Threads : pc'[u] = "add_swap" => old[u] # tail_ix'
      <3>1. \A u \in Threads : pc'[u] = "add_swap" => old[u].cnt <= swaps
        BY <1>1, <2>1 DEF TableTypes, Counted
      <3>2. QED  BY <1>1, <1>2, <3>1
    <2>3. \A u \in Threads \ {t} :
            pc'[u] = pc[u] /\ old'[u] = old[u] /\ id'[u] = id[u] /\ arg'[u] = arg[u] /\ new_idx'[u] = new_idx[u]
      BY <1>1 DEF TableTypes
    <2>4. QED  BY <1>1, <2>1, <2>2, <2>3 DEF Progress, Removing
  <1>13. Generations'
    <2>1. \A s \in Slots : gix[s] \in Nat
      BY DEF TableTypes, Words
    <2>2. \A l \in live : l.idx \in Slots
      BY DEF TableTypes, Ids
    <2>3. \A u \in Threads : pc'[u] = "add_store" => pc[u] = "add_store" /\ old'[u] = old[u] /\ old[u].idx \in Slots
      BY <1>1 DEF Progress, TableTypes
    <2>4. QED  BY <1>1, <2>1, <2>2, <2>3 DEF Generations
  <1>14. Ages'
    BY <1>1 DEF Ages
  <1>15. QED  BY <1>8, <1>9, <1>10, <1>11, <1>12, <1>13, <1>14

-----------------------------------------------------------------------------
(* The theorems.                                                            *)

LEMMA NextInv == TableInv /\ [TableNext]_table_vars => TableInv'
  <1> SUFFICES ASSUME TableInv, [TableNext]_table_vars PROVE TableInv'
    OBVIOUS
  <1>1. CASE TableNext
    <2>1. PICK t \in Threads : Step(t)
      BY <1>1 DEF TableNext
    <2>2. CASE \E v \in Values : AddLoad(t, v)
      BY <2>2, AddLoadInv
    <2>3. CASE AddFull(t)
      BY <2>3, AddFullInv
    <2>4. CASE AddNext(t)
      BY <2>4, AddNextInv
    <2>5. CASE AddSwap(t)
      BY <2>5, AddSwapInv
    <2>6. CASE AddSwapFails(t) \/ RemoveSwapFails(t)
      BY <2>6, SwapFailsInv
    <2>7. CASE AddStore(t)
      BY <2>7, AddStoreInv
    <2>8. CASE \E i \in live : Remove(t, i)
      BY <2>8, RemoveInv
    <2>9. CASE RemoveLoad(t)
      BY <2>9, RemoveLoadInv
    <2>10. CASE RemoveLink(t)
      BY <2>10, RemoveLinkInv
    <2>11. CASE RemoveSwap(t)
      BY <2>11, RemoveSwapInv
    <2>12. QED
      BY <2>1, <2>2, <2>3, <2>4, <2>5, <2>6, <2>7, <2>8, <2>9, <2>10, <2>11 DEF Step
  <1>2. CASE UNCHANGED table_vars
    <2> USE <1>2 DEF table_vars, items, locals, history, TableInv
    <2>1. TableTypes'
      BY DEF TableTypes
    <2>2. ChainIntact'
      BY DEF ChainIntact
    <2>3. OneOwner'
      <3>1. \A u \in Threads : Held(u)' = Held(u)
        BY DEF Held
      <3>2. QED  BY <3>1, OwnersSame
    <2>4. Counted' /\ Progress' /\ Generations' /\ Ages'
      BY DEF Counted, Progress, Generations, Ages
    <2>5. QED  BY <2>1, <2>2, <2>3, <2>4
  <1>3. QED  BY <1>1, <1>2

\* The invariant above holds in every behaviour of the table.
THEOREM TableInvariant == TableSpec => []TableInv
  BY InitInv, NextInv, PTL DEF TableSpec

\* Every field keeps its type: no index leaves the table and no counter wraps.
THEOREM TableTypeOK == TableSpec => []TableTypes
  <1>1. TableInv => TableTypes
    BY DEF TableInv
  <1>2. QED  BY <1>1, TableInvariant, PTL

\* The free slots stay chained from the head, whatever compare-and-swaps race.
THEOREM FreeListIsChain == TableSpec => []ChainIntact
  <1>1. TableInv => ChainIntact
    BY DEF TableInv
  <1>2. QED  BY <1>1, TableInvariant, PTL

\* No slot is ever given to two objects and none is lost: the tag in the head
\* word excludes the ABA case of add.
THEOREM EverySlotOneOwner == TableSpec => []OneOwner
  <1>1. TableInv => OneOwner
    BY DEF TableInv
  <1>2. QED  BY <1>1, TableInvariant, PTL

\* get returns the object of every id that was not removed.
THEOREM LiveIdsAreFound == TableSpec => []LiveFound
  <1>1. TableInv => LiveFound
    BY DEF TableInv, Ages, LiveFound, Get
  <1>2. QED  BY <1>1, TableInvariant, PTL

\* get returns nullptr for every id that was removed.
THEOREM RemovedIdsAreNotFound == TableSpec => []RemovedNotFound
  <1>1. ASSUME TableInv PROVE RemovedNotFound
    <2>1. \A i \in issued \ live : i.gix \in Nat /\ gix[i.idx] \in Nat /\ i.gix < gix[i.idx]
      BY <1>1, TableAssumption DEF TableInv, TableTypes, Ids, Words, Ages
    <2>2. QED  BY <2>1 DEF RemovedNotFound, Get
  <1>2. QED  BY <1>1, TableInvariant, PTL
-----------------------------------------------------------------------------
(* Servants.                                                                *)

\* A handler that is past its first step has a servant.
HasObject ==
  \A x \in Sessions : at[x] \in Stages \ {"idle", "closing"} => obj[x] \in Objects

IInv == TypeOK /\ ReferencesCounted /\ HasObject

\* The sets that are counted are finite.
LEMMA CountedAreFinite ==
  ASSUME NEW o
  PROVE  /\ IsFiniteSet(Holders(o)) /\ Cardinality(Holders(o)) \in Nat
         /\ IsFiniteSet(Guards(o)) /\ Cardinality(Guards(o)) \in Nat
<1>1. Holders(o) \in SUBSET Sessions /\ Guards(o) \in SUBSET Sessions
  BY DEF Holders, Guards
<1>2. IsFiniteSet(Holders(o)) /\ IsFiniteSet(Guards(o))
  BY <1>1, ServantsAssumption, FS_Subset
<1> QED
  BY <1>2, FS_CardinalityType

\* A handler that goes from one stage to another, both with the guard or both
\* without, leaves every servant its guards.
LEMMA SameGuards ==
  ASSUME TypeOK, NEW x \in Sessions, NEW s, Goes(x, s),
         at[x] \in Guarding <=> s \in Guarding,
         s \in Guarding => obj'[x] = obj[x],
         \A y \in Sessions \ {x} : obj'[y] = obj[y]
  PROVE  \A o : Guards(o)' = Guards(o)
BY DEF TypeOK, Goes, Guards

\* A step that leaves counts, lists and guards alone keeps the counts right.
LEMMA SameCounts ==
  ASSUME ReferencesCounted, UNCHANGED <<counts, refs>>,
         \A o : Guards(o)' = Guards(o)
  PROVE  ReferencesCounted'
<1>1. \A o : Holders(o)' = Holders(o)
  BY DEF Holders
<1> QED
  BY <1>1 DEF ReferencesCounted, counts

\* add_ref counts one more exactly if one more session has the servant.
LEMMA AddRefCounts ==
  ASSUME IInv, NEW x \in Sessions, NEW o \in Objects, AddRef(x, o)
  PROVE  /\ refs' \in [Sessions -> SUBSET Objects]
         /\ ref_cnt' \in [Objects -> Nat]
         /\ \A p \in Objects : ref_cnt'[p] = Cardinality(Holders(p)')
<1> USE DEF IInv, TypeOK
<1>1. CASE UNCHANGED <<refs, ref_cnt>>
  <2>1. \A p : Holders(p)' = Holders(p)
    BY <1>1 DEF Holders
  <2> QED
    BY <1>1, <2>1 DEF ReferencesCounted
<1>2. CASE /\ o \notin refs[x]
           /\ refs' = [refs EXCEPT ![x] = @ \cup {o}]
           /\ ref_cnt' = [ref_cnt EXCEPT ![o] = @ + 1]
  <2>1. Holders(o)' = Holders(o) \cup {x} /\ x \notin Holders(o)
    BY <1>2 DEF Holders
  <2>2. Cardinality(Holders(o)') = Cardinality(Holders(o)) + 1
    BY <2>1, CountedAreFinite, FS_AddElement
  <2>3. ASSUME NEW p \in Objects, p # o
        PROVE  Holders(p)' = Holders(p)
    BY <1>2, <2>3 DEF Holders
  <2>4. refs' \in [Sessions -> SUBSET Objects] /\ ref_cnt' \in [Objects -> Nat]
    BY <1>2
  <2>5. ASSUME NEW p \in Objects
        PROVE  ref_cnt'[p] = Cardinality(Holders(p)')
    BY <1>2, <2>2, <2>3, <2>5 DEF ReferencesCounted
  <2> QED
    BY <2>4, <2>5
<1> QED
  BY <1>1, <1>2 DEF AddRef

-----------------------------------------------------------------------------
LEMMA InitIInv == Init => IInv
<1> SUFFICES ASSUME Init PROVE IInv
  OBVIOUS
<1> USE DEF Init
<1>1. TypeOK
  BY DEF TypeOK, Stages
<1>2. \A o : Holders(o) = {} /\ Guards(o) = {}
  BY DEF Holders, Guards, Guarding
<1>3. ReferencesCounted
  BY <1>2, FS_EmptySet DEF ReferencesCounted
<1>4. HasObject
  BY DEF HasObject
<1> QED
  BY <1>1, <1>3, <1>4 DEF IInv

LEMMA ActivateIInv ==
  ASSUME IInv, NEW x \in Sessions, NEW o \in Objects, Activate(x, o)
  PROVE  IInv'
<1> USE DEF IInv, Activate, handler
<1>1. TypeOK'
  BY AddRefCounts DEF TypeOK
<1>2. ReferencesCounted'
  <2>1. \A p : Guards(p)' = Guards(p)
    BY DEF Guards
  <2> QED
    BY <2>1, AddRefCounts DEF ReferencesCounted
<1>3. HasObject'
  BY DEF HasObject
<1> QED
  BY <1>1, <1>2, <1>3

LEMMA GetObjectIInv ==
  ASSUME IInv, NEW x \in Sessions, NEW o \in Objects,
         NEW r \in {"FunctionCall", "AddReference"}, GetObject(x, o, r)
  PROVE  IInv'
<1> USE DEF IInv, GetObject, counts
<1>1. TypeOK'
  BY DEF TypeOK, Goes, Stages
<1>2. ReferencesCounted'
  <2>1. \A p : Guards(p)' = Guards(p)
    BY SameGuards DEF TypeOK, Guarding
  <2> QED
    BY <2>1, SameCounts
<1>3. HasObject'
  BY DEF HasObject, TypeOK, Goes
<1> QED
  BY <1>1, <1>2, <1>3

LEMMA GuardIInv ==
  ASSUME IInv, NEW x \in Sessions, Guard(x)
  PROVE  IInv'
<1> USE DEF IInv
<1>1. PICK o \in Objects : o = obj[x]
  BY DEF Guard, HasObject, Stages
<1>2. TypeOK'
  BY <1>1 DEF Guard, TypeOK, Goes, Stages, Uses
<1>3. Guards(o)' = Guards(o) \cup {x} /\ x \notin Guards(o)
  BY <1>1 DEF Guard, Guards, Goes, Guarding, TypeOK
<1>4. Cardinality(Guards(o)') = Cardinality(Guards(o)) + 1
  BY <1>3, CountedAreFinite, FS_AddElement
<1>5. \A p : p # o => Guards(p)' = Guards(p)
  BY <1>1 DEF Guard, Guards, Goes, Guarding, TypeOK
<1>6. \A p : Holders(p)' = Holders(p)
  BY DEF Guard, Holders
<1>7. in_use_cnt' = [in_use_cnt EXCEPT ![o] = @ + 1] /\ ref_cnt' = ref_cnt
  BY <1>1 DEF Guard
<1>8. ReferencesCounted'
  BY <1>1, <1>4, <1>5, <1>6, <1>7 DEF ReferencesCounted, TypeOK
<1>9. HasObject'
  BY DEF Guard, HasObject, TypeOK, Goes, Stages
<1> QED
  BY <1>2, <1>8, <1>9

LEMMA CheckIInv ==
  ASSUME IInv, NEW x \in Sessions, Check(x) \/ Dispatch(x)
  PROVE  IInv'
<1> USE DEF IInv
<1>1. PICK s \in {"using", "leaving"} :
        /\ at[x] \in {"guarded", "using"} /\ Goes(x, s) /\ Uses(x)
        /\ UNCHANGED <<io_threads, table, activated, destroyed, counts, to_delete, posted, refs, open,
                       obj, req, told>>
  BY DEF Check, CheckStage, Dispatch
<1>2. TypeOK'
  BY <1>1 DEF TypeOK, Goes, Stages, Uses, counts
<1>3. ReferencesCounted'
  <2>1. \A p : Guards(p)' = Guards(p)
    BY <1>1, SameGuards DEF TypeOK, Guarding
  <2> QED
    BY <1>1, <2>1, SameCounts
<1>4. HasObject'
  BY <1>1 DEF HasObject, TypeOK, Goes, Stages
<1> QED
  BY <1>2, <1>3, <1>4

LEMMA AddReferenceIInv ==
  ASSUME IInv, NEW x \in Sessions, AddReference(x)
  PROVE  IInv'
<1> USE DEF IInv, AddReference
<1>1. obj[x] \in Objects
  BY DEF HasObject, Stages
<1>2. TypeOK'
  BY <1>1, AddRefCounts DEF TypeOK, Goes, Stages, Uses
<1>3. ReferencesCounted'
  <2>1. \A p : Guards(p)' = Guards(p)
    BY SameGuards DEF TypeOK, Guarding
  <2> QED
    BY <1>1, <2>1, AddRefCounts DEF ReferencesCounted
<1>4. HasObject'
  BY DEF HasObject, TypeOK, Goes, Stages
<1> QED
  BY <1>2, <1>3, <1>4

LEMMA LeaveIInv ==
  ASSUME IInv, NEW x \in Sessions, Leave(x)
  PROVE  IInv'
<1> USE DEF IInv
<1>1. PICK o \in Objects : o = obj[x]
  BY DEF Leave, HasObject, Stages
<1>2. Guards(o)' = Guards(o) \ {x} /\ x \in Guards(o)
  BY <1>1 DEF Leave, Guards, Goes, Guarding, TypeOK
<1>3. Cardinality(Guards(o)') = Cardinality(Guards(o)) - 1
  BY <1>2, CountedAreFinite, FS_RemoveElement
<1>4. Cardinality(Guards(o)') \in Nat
  BY <1>2, CountedAreFinite, FS_RemoveElement, FS_CardinalityType
<1>5. \A p : p # o => Guards(p)' = Guards(p)
  BY <1>1 DEF Leave, Guards, Goes, Guarding, TypeOK
<1>6. \A p : Holders(p)' = Holders(p)
  BY DEF Leave, Holders
<1>7. in_use_cnt' = [in_use_cnt EXCEPT ![o] = in_use_cnt[o] - 1] /\ ref_cnt' = ref_cnt
  BY <1>1 DEF Leave, GuardsLeft
<1>8. ReferencesCounted' /\ in_use_cnt' \in [Objects -> Nat]
  BY <1>1, <1>3, <1>4, <1>5, <1>6, <1>7 DEF ReferencesCounted, TypeOK
<1>9. TypeOK'
  BY <1>8 DEF Leave, TypeOK, Goes, Stages, Uses
<1>10. HasObject'
  BY DEF Leave, HasObject, TypeOK, Goes
<1> QED
  BY <1>8, <1>9, <1>10

LEMMA ReleaseIInv ==
  ASSUME IInv, NEW x \in Sessions, at[x] \in {"idle", "closing"}, NEW o \in refs[x],
         Release(x, o)
  PROVE  IInv'
<1> USE DEF IInv
<1>1. o \in Objects
  BY DEF TypeOK
<1>2. Holders(o)' = Holders(o) \ {x} /\ x \in Holders(o)
  BY DEF Release, Holders, TypeOK
<1>3. Cardinality(Holders(o)') = Cardinality(Holders(o)) - 1
  BY <1>2, CountedAreFinite, FS_RemoveElement
<1>4. Cardinality(Holders(o)') \in Nat
  BY <1>2, CountedAreFinite, FS_RemoveElement, FS_CardinalityType
<1>5. \A p : p # o => Holders(p)' = Holders(p)
  BY DEF Release, Holders, TypeOK
<1>6. PICK s \in {"idle", "closing", "unreferenced"} : Goes(x, s)
  BY DEF Release, Return
<1>7. \A p : Guards(p)' = Guards(p)
  BY <1>6, SameGuards DEF Release, TypeOK, Guarding
<1>8. ref_cnt' = [ref_cnt EXCEPT ![o] = @ - 1] /\ in_use_cnt' = in_use_cnt
  BY DEF Release
<1>9. ReferencesCounted' /\ ref_cnt' \in [Objects -> Nat]
  BY <1>1, <1>3, <1>4, <1>5, <1>7, <1>8 DEF ReferencesCounted, TypeOK
<1>10. TypeOK'
  BY <1>1, <1>6, <1>9 DEF Release, TypeOK, Goes, Stages
<1>11. HasObject'
  BY <1>1, <1>6 DEF Release, HasObject, TypeOK, Goes
<1> QED
  BY <1>9, <1>10, <1>11

LEMMA DeactivateIInv ==
  ASSUME IInv, NEW x \in Sessions, Deactivate(x) \/ DeleteObject(x)
  PROVE  IInv'
<1> USE DEF IInv
<1>1. obj[x] \in Objects /\ at[x] \in {"unreferenced", "deactivated"}
  BY DEF Deactivate, DeleteObject, HasObject, Stages
<1>2. PICK s \in {"deactivated", "idle", "closing"} : Goes(x, s)
  BY DEF Deactivate, DeleteObject, Return
<1>3. UNCHANGED <<counts, refs, obj>>
  BY DEF Deactivate, DeleteObject
<1>4. TypeOK'
  <2>1. CASE Deactivate(x)
    <3>1. to_delete' \in [Objects -> BOOLEAN] /\ table' \subseteq Objects
      BY <1>1, <2>1 DEF Deactivate, TypeOK
    <3> QED
      BY <2>1, <3>1 DEF Deactivate, TypeOK, Goes, Stages, Uses, counts
  <2>2. CASE DeleteObject(x)
    BY <1>1, <1>2, <2>2 DEF DeleteObject, Reposted, TypeOK, Goes, Stages, Uses, counts
  <2> QED
    BY <2>1, <2>2
<1>5. ReferencesCounted'
  <2>1. \A p : Guards(p)' = Guards(p)
    BY <1>1, <1>2, <1>3, SameGuards DEF TypeOK, Guarding
  <2> QED
    BY <1>3, <2>1, SameCounts
<1>6. HasObject'
  BY <1>1, <1>2, <1>3 DEF HasObject, TypeOK, Goes
<1> QED
  BY <1>4, <1>5, <1>6

LEMMA CloseIInv ==
  ASSUME IInv, NEW x \in Sessions, CloseSession(x) \/ Closed(x)
  PROVE  IInv'
<1> USE DEF IInv
<1>1. at[x] \in {"idle", "closing"}
  BY DEF CloseSession, Closed
<1>2. PICK s \in {"idle", "closing"} : Goes(x, s)
  BY DEF CloseSession, Closed
<1>3. UNCHANGED <<counts, refs, obj>>
  BY DEF CloseSession, Closed
<1>4. TypeOK'
  BY <1>2 DEF CloseSession, Closed, TypeOK, Goes, Stages, counts
<1>5. ReferencesCounted'
  <2>1. \A p : Guards(p)' = Guards(p)
    BY <1>1, <1>2, <1>3, SameGuards DEF TypeOK, Guarding
  <2> QED
    BY <1>3, <2>1, SameCounts
<1>6. HasObject'
  BY <1>2, <1>3 DEF HasObject, TypeOK, Goes
<1> QED
  BY <1>4, <1>5, <1>6

LEMMA DeletePostedIInv ==
  ASSUME IInv, NEW o \in Objects, DeletePosted(o)
  PROVE  IInv'
<1> USE DEF IInv, DeletePosted, counts, handler
<1>1. TypeOK'
  BY DEF TypeOK
<1>2. \A p : Guards(p)' = Guards(p)
  BY DEF Guards
<1>3. ReferencesCounted'
  BY <1>2, SameCounts
<1>4. HasObject'
  BY DEF HasObject
<1> QED
  BY <1>1, <1>3, <1>4

LEMMA NextIInv == IInv /\ [Next]_vars => IInv'
<1> SUFFICES ASSUME IInv, [Next]_vars PROVE IInv'
  OBVIOUS
<1>1. ASSUME NEW x \in Sessions, Start(x) PROVE IInv'
  <2>1. ASSUME NEW o \in Objects, Activate(x, o) PROVE IInv'
    BY <2>1, ActivateIInv
  <2>2. ASSUME NEW o \in Objects, ReleaseObject(x, o) PROVE IInv'
    BY <2>2, ReleaseIInv DEF ReleaseObject
  <2>3. ASSUME NEW o \in Objects, NEW r \in {"FunctionCall", "AddReference"},
               GetObject(x, o, r)
        PROVE  IInv'
    BY <2>3, GetObjectIInv
  <2>4. CASE CloseSession(x)
    BY <2>4, CloseIInv
  <2> QED
    BY <1>1, <2>1, <2>2, <2>3, <2>4 DEF Start
<1>2. ASSUME NEW x \in Sessions, Continue(x) PROVE IInv'
  <2>1. CASE ReleaseNext(x)
    BY <2>1, ReleaseIInv DEF ReleaseNext
  <2>2. CASE Guard(x) \/ Check(x) \/ Dispatch(x) \/ AddReference(x) \/ Leave(x)
    BY <2>2, GuardIInv, CheckIInv, AddReferenceIInv, LeaveIInv
  <2>3. CASE Deactivate(x) \/ DeleteObject(x) \/ Closed(x)
    BY <2>3, DeactivateIInv, CloseIInv
  <2> QED
    BY <1>2, <2>1, <2>2, <2>3 DEF Continue
<1>3. ASSUME NEW o \in Objects, DeletePosted(o) PROVE IInv'
  BY <1>3, DeletePostedIInv
<1>4. CASE UNCHANGED vars
  <2>1. \A o : Holders(o)' = Holders(o) /\ Guards(o)' = Guards(o)
    BY <1>4 DEF vars, handler, Holders, Guards
  <2> QED
    BY <1>4, <2>1 DEF vars, counts, handler, IInv, TypeOK, ReferencesCounted, HasObject
<1> QED
  BY <1>1, <1>2, <1>3, <1>4 DEF Next

\* The counts, the table and the handlers of every reachable state are of their
\* types: neither count goes below zero.
THEOREM ServantsTypeOK == Spec => []TypeOK
<1>1. Spec => []IInv
  BY InitIInv, NextIInv, PTL DEF Spec
<1>2. IInv => TypeOK
  BY DEF IInv
<1> QED
  BY <1>1, <1>2, PTL

\* A servant's ref_cnt_ is the number of sessions that have it in their list, and
\* in_use_cnt_ the number of guards on it, whatever the number of threads.
THEOREM CountsAreRight == Spec => []ReferencesCounted
<1>1. Spec => []IInv
  BY InitIInv, NextIInv, PTL DEF Spec
<1>2. IInv => ReferencesCounted
  BY DEF IInv
<1> QED
  BY <1>1, <1>2, PTL

\* The invariant so far, for the theorems that follow.
LEMMA IInvAlways == Spec => []IInv
BY InitIInv, NextIInv, PTL DEF Spec

-----------------------------------------------------------------------------
(* None is left behind.  A session whose connection is gone handles no      *)
(* request and, until its list is empty, goes on with it; a servant that    *)
(* left the table and still exists is about to be destroyed.                *)
ClosedReleases ==
  \A x \in Sessions \ open :
    /\ at[x] \in {"idle", "closing", "unreferenced", "deactivated"}
    /\ at[x] = "idle" => refs[x] = {}

Doomed(o) == posted[o] > 0 \/ \E x \in Sessions : at[x] = "deactivated" /\ obj[x] = o
RemovedIsDoomed == \A o \in activated \ destroyed : o \in table \/ Doomed(o)

LeftInv == ClosedReleases /\ RemovedIsDoomed

\* A handler that neither starts nor ends a deletion leaves every servant as
\* doomed as it was.
LEMMA SameDoom ==
  ASSUME TypeOK, NEW x \in Sessions, NEW s, Goes(x, s), at[x] # "deactivated",
         UNCHANGED posted, \A y \in Sessions \ {x} : obj'[y] = obj[y],
         NEW o, Doomed(o)
  PROVE  Doomed(o)'
BY DEF TypeOK, Goes, Doomed

LEMMA InitLeft == Init => LeftInv
BY DEF Init, LeftInv, ClosedReleases, RemovedIsDoomed

LEMMA StartLeft ==
  ASSUME IInv, LeftInv, NEW x \in Sessions, Start(x)
  PROVE  LeftInv'
<1> USE DEF IInv, LeftInv
<1>1. ASSUME NEW o \in Objects, Activate(x, o) PROVE LeftInv'
  <2>1. UNCHANGED <<at, obj, posted, destroyed, open>>
    BY <1>1 DEF Activate, handler
  <2>2. \A y \in Sessions \ open : refs'[y] = refs[y]
    BY <1>1 DEF Activate, AddRef, TypeOK
  <2>3. ClosedReleases'
    BY <2>1, <2>2 DEF ClosedReleases
  <2>4. RemovedIsDoomed'
    BY <1>1, <2>1 DEF Activate, RemovedIsDoomed, Doomed
  <2> QED
    BY <2>3, <2>4
<1>2. ASSUME NEW o \in Objects, NEW r \in {"FunctionCall", "AddReference"}, GetObject(x, o, r)
      PROVE  LeftInv'
  <2>1. ClosedReleases'
    BY <1>2 DEF GetObject, Goes, ClosedReleases, TypeOK
  <2>2. \A p : Doomed(p) => Doomed(p)'
    BY <1>2, SameDoom DEF GetObject, TypeOK
  <2>3. RemovedIsDoomed'
    BY <1>2, <2>2 DEF GetObject, RemovedIsDoomed
  <2> QED
    BY <2>1, <2>3
<1>3. ASSUME NEW o \in Objects, ReleaseObject(x, o) PROVE LeftInv'
  <2>1. PICK s \in {"idle", "unreferenced"} : Goes(x, s)
    BY <1>3 DEF ReleaseObject, Release, Return
  <2>2. ClosedReleases'
    BY <1>3, <2>1 DEF ReleaseObject, Release, Goes, ClosedReleases, TypeOK
  <2>3. \A p : Doomed(p) => Doomed(p)'
    BY <1>3, <2>1, SameDoom DEF ReleaseObject, Release, TypeOK
  <2>4. RemovedIsDoomed'
    BY <1>3, <2>3 DEF ReleaseObject, Release, RemovedIsDoomed
  <2> QED
    BY <2>2, <2>4
<1>4. CASE CloseSession(x)
  <2>1. ClosedReleases'
    BY <1>4 DEF CloseSession, Goes, ClosedReleases, TypeOK
  <2>2. \A p : Doomed(p) => Doomed(p)'
    BY <1>4, SameDoom DEF CloseSession, TypeOK
  <2>3. RemovedIsDoomed'
    BY <1>4, <2>2 DEF CloseSession, RemovedIsDoomed
  <2> QED
    BY <2>1, <2>3
<1> QED
  BY <1>1, <1>2, <1>3, <1>4 DEF Start

\* A handler that has a guard, or is about to, belongs to an open session, and
\* its steps destroy nothing.
LEMMA RequestLeft ==
  ASSUME IInv, LeftInv, NEW x \in Sessions,
         Guard(x) \/ Check(x) \/ Dispatch(x) \/ AddReference(x) \/ Leave(x)
  PROVE  LeftInv'
<1> USE DEF IInv, LeftInv
<1>1. PICK s \in Stages : Goes(x, s)
  BY DEF Guard, Check, CheckStage, Dispatch, AddReference, Leave, Stages
<1>2. x \in open /\ at[x] # "deactivated"
  BY DEF Guard, Check, Dispatch, AddReference, Leave, ClosedReleases
<1>3. UNCHANGED <<table, activated, destroyed, posted, open, obj>>
  BY DEF Guard, Check, Dispatch, AddReference, Leave
<1>4. \A y \in Sessions \ {x} : refs'[y] = refs[y]
  BY DEF Guard, Check, Dispatch, AddReference, AddRef, Leave, TypeOK
<1>5. ClosedReleases'
  BY <1>1, <1>2, <1>3, <1>4 DEF ClosedReleases, Goes, TypeOK
<1>6. \A p : Doomed(p) => Doomed(p)'
  BY <1>1, <1>2, <1>3, SameDoom DEF TypeOK
<1>7. RemovedIsDoomed'
  BY <1>3, <1>6 DEF RemovedIsDoomed
<1> QED
  BY <1>5, <1>7

LEMMA ReleaseNextLeft ==
  ASSUME IInv, LeftInv, NEW x \in Sessions, ReleaseNext(x) \/ Closed(x)
  PROVE  LeftInv'
<1> USE DEF IInv, LeftInv
<1>1. PICK s \in {"idle", "closing", "unreferenced"} :
        Goes(x, s) /\ (s = "idle" /\ x \notin open => refs'[x] = {})
  BY DEF ReleaseNext, Release, Return, Closed
<1>2. at[x] = "closing" /\ UNCHANGED <<table, activated, destroyed, posted, open>>
  BY DEF ReleaseNext, Release, Closed
<1>3. \A y \in Sessions \ {x} : refs'[y] = refs[y] /\ obj'[y] = obj[y]
  BY DEF ReleaseNext, Release, Closed, TypeOK
<1>4. ClosedReleases'
  BY <1>1, <1>2, <1>3 DEF ClosedReleases, Goes, TypeOK
<1>5. \A p : Doomed(p) => Doomed(p)'
  BY <1>1, <1>2, <1>3, SameDoom
<1>6. RemovedIsDoomed'
  BY <1>2, <1>5 DEF RemovedIsDoomed
<1> QED
  BY <1>4, <1>6

LEMMA DeactivateLeft ==
  ASSUME IInv, LeftInv, NEW x \in Sessions, Deactivate(x)
  PROVE  LeftInv'
<1> USE DEF IInv, LeftInv, Deactivate
<1>1. obj[x] \in Objects /\ Goes(x, "deactivated") /\ at'[x] = "deactivated"
  BY DEF HasObject, Stages, Goes, TypeOK
<1>2. ClosedReleases'
  BY DEF Goes, ClosedReleases, TypeOK
<1>3. \A p : Doomed(p) => Doomed(p)'
  BY SameDoom DEF TypeOK
<1>4. Doomed(obj[x])'
  BY <1>1 DEF Doomed
<1>5. \A p \in table : p \in table' \/ p = obj[x]
  OBVIOUS
<1>6. RemovedIsDoomed'
  BY <1>3, <1>4, <1>5 DEF RemovedIsDoomed
<1> QED
  BY <1>2, <1>6

LEMMA DeleteObjectLeft ==
  ASSUME IInv, LeftInv, NEW x \in Sessions, DeleteObject(x)
  PROVE  LeftInv'
<1> USE DEF IInv, LeftInv
<1>1. /\ obj[x] \in Objects /\ Goes(x, Return(x)) /\ at[x] = "deactivated"
      /\ UNCHANGED <<table, activated, refs, open, obj>>
  BY DEF DeleteObject, HasObject, Stages
<1>2. ClosedReleases'
  BY <1>1 DEF Return, Goes, ClosedReleases, TypeOK
<1>3. obj[x] \in destroyed' \/ posted'[obj[x]] > 0
  BY <1>1 DEF DeleteObject, Reposted, TypeOK
<1>4. destroyed \subseteq destroyed' /\ \A p \in Objects \ {obj[x]} : posted'[p] = posted[p]
  BY <1>1 DEF DeleteObject, TypeOK
<1>5. ASSUME NEW p \in activated' \ destroyed', p \notin table'
      PROVE  Doomed(p)'
  <2>1. p \in activated \ destroyed /\ p \notin table /\ p \in Objects
    BY <1>1, <1>4, <1>5 DEF TypeOK
  <2>2. CASE p = obj[x]
    BY <1>3, <1>5, <2>2 DEF Doomed
  <2>3. CASE p # obj[x]
    <3>1. CASE posted[p] > 0
      BY <1>4, <2>1, <2>3, <3>1 DEF Doomed
    <3>2. CASE ~(posted[p] > 0)
      <4>1. PICK y \in Sessions : at[y] = "deactivated" /\ obj[y] = p
        BY <2>1, <3>2 DEF RemovedIsDoomed, Doomed
      <4>2. y # x /\ at'[y] = at[y]
        BY <1>1, <2>3, <4>1 DEF Goes, TypeOK
      <4> QED
        BY <1>1, <4>1, <4>2 DEF Doomed
    <3> QED
      BY <3>1, <3>2
  <2> QED
    BY <2>2, <2>3
<1>6. RemovedIsDoomed'
  BY <1>5 DEF RemovedIsDoomed
<1> QED
  BY <1>2, <1>6

LEMMA DeletePostedLeft ==
  ASSUME IInv, LeftInv, NEW o \in Objects, DeletePosted(o)
  PROVE  LeftInv'
<1> USE DEF IInv, LeftInv, DeletePosted
<1>1. ClosedReleases'
  BY DEF ClosedReleases, handler
<1>2. \A p \in Objects \ {o} : Doomed(p) => Doomed(p)'
  BY DEF Doomed, handler, TypeOK
<1>3. RemovedIsDoomed'
  BY <1>2 DEF RemovedIsDoomed, TypeOK
<1> QED
  BY <1>1, <1>3

LEMMA NextLeft == IInv /\ LeftInv /\ [Next]_vars => LeftInv'
<1> SUFFICES ASSUME IInv, LeftInv, [Next]_vars PROVE LeftInv'
  OBVIOUS
<1>1. ASSUME NEW x \in Sessions, Continue(x) PROVE LeftInv'
  BY <1>1, RequestLeft, ReleaseNextLeft, DeactivateLeft, DeleteObjectLeft DEF Continue
<1>2. CASE UNCHANGED vars
  BY <1>2 DEF vars, handler, LeftInv, ClosedReleases, RemovedIsDoomed, Doomed
<1> QED
  BY <1>1, <1>2, StartLeft, DeletePostedLeft DEF Next

\* A servant whose sessions are all gone is destroyed, except one whose first
\* reference activate_object could not add: nothing else is left in the table,
\* for any number of threads, sessions and servants.
THEOREM NothingLeftBehind == Spec => []NoneLeftBehind
<1>1. Spec => []LeftInv
  BY IInvAlways, InitLeft, NextLeft, PTL DEF Spec
<1>2. ASSUME IInv, LeftInv PROVE NoneLeftBehind
  <2> SUFFICES ASSUME \A x \in Sessions : at[x] = "idle", \A o \in Objects : posted[o] = 0,
                      NEW o \in activated \ destroyed, \A x \in open : o \notin refs[x]
               PROVE  o \in table /\ ref_cnt[o] = 0
    BY DEF NoneLeftBehind
  <2>1. o \in Objects
    BY <1>2 DEF IInv, TypeOK
  <2>2. o \in table
    BY <1>2, <2>1 DEF LeftInv, RemovedIsDoomed, Doomed
  <2>3. Holders(o) = {}
    BY <1>2 DEF LeftInv, ClosedReleases, Holders
  <2> QED
    BY <1>2, <2>1, <2>2, <2>3, FS_EmptySet DEF IInv, ReferencesCounted
<1> QED
  BY <1>1, <1>2, IInvAlways, PTL

-----------------------------------------------------------------------------
(* With one io thread a handler runs to its end before another one starts.  *)
(* A servant is in the table until the last list lets go of it, and by then *)
(* nobody guards it: it is destroyed at once, and never posted.             *)
OneHandler == \A x, y \in Sessions : at[x] # "idle" /\ at[y] # "idle" => x = y
NonePosted == \A o \in Objects : posted[o] = 0
TableAlive ==
  /\ destroyed \subseteq activated
  /\ \A o \in table : o \in activated /\ ~to_delete[o] /\ o \notin destroyed
  /\ \A o \in Objects : to_delete[o] => o \in activated
ListsInTable == \A x \in Sessions : refs[x] \subseteq table
HandlerAlive ==
  \A x \in Sessions :
    /\ at[x] \in {"got", "unreferenced"} \cup Guarding => obj[x] \in table
    /\ at[x] = "unreferenced" => Holders(obj[x]) = {}
    /\ at[x] = "deactivated" => obj[x] \in activated \ (table \cup destroyed)

Alone ==
  ~dangling /\ OneHandler /\ NonePosted /\ TableAlive /\ ListsInTable /\ HandlerAlive
AloneInv == io_threads = 1 => Alone

\* The only thread is free: no handler is under way.
LEMMA ThreadFreeIsIdle ==
  ASSUME TypeOK, io_threads = 1, ThreadFree
  PROVE  \A x \in Sessions : at[x] = "idle"
<1> DEFINE busy == {x \in Sessions : at[x] # "idle"}
<1>1. IsFiniteSet(busy)
  BY ServantsAssumption, FS_Subset
<1>2. Cardinality(busy) \in Nat /\ Cardinality(busy) < 1
  BY <1>1, FS_CardinalityType DEF ThreadFree
<1>3. Cardinality(busy) = 0
  BY <1>2
<1>4. busy = {}
  BY <1>1, <1>3, FS_EmptySet
<1> QED
  BY <1>4

\* The thread starts a handler, or goes on with the one it runs.
LEMMA StillOneHandler ==
  ASSUME TypeOK, OneHandler, NEW x \in Sessions, NEW s, Goes(x, s),
         at[x] # "idle" \/ \A y \in Sessions : at[y] = "idle"
  PROVE  OneHandler'
BY DEF OneHandler, Goes, TypeOK

\* While a handler runs the others have nothing in hand.
LEMMA OthersIdle ==
  ASSUME OneHandler, NEW x \in Sessions, at[x] # "idle"
  PROVE  \A y \in Sessions \ {x} : at[y] = "idle"
BY DEF OneHandler

LEMMA InitAlone == Init => AloneInv
BY DEF Init, AloneInv, Alone, OneHandler, NonePosted, TableAlive, ListsInTable, HandlerAlive,
       Holders, Guarding

\* add_ref of a servant of the table.
LEMMA AddRefAlone ==
  ASSUME TypeOK, ListsInTable, NEW x \in Sessions, NEW o \in table', AddRef(x, o),
         table \subseteq table'
  PROVE  ListsInTable'
BY DEF TypeOK, ListsInTable, AddRef

\* The handler of x, or the destructor of its list, drops a reference.
LEMMA ReleaseAlone ==
  ASSUME IInv, Alone, NEW x \in Sessions, at[x] \in {"idle", "closing"},
         \A y \in Sessions \ {x} : at[y] = "idle",
         NEW o \in refs[x], Release(x, o)
  PROVE  Alone'
<1> USE DEF IInv, Alone
<1>1. o \in Objects /\ o \in table /\ o \notin destroyed
  BY DEF TypeOK, ListsInTable, TableAlive
<1>2. PICK s \in {"idle", "closing", "unreferenced"} :
        Goes(x, s) /\ (s = "unreferenced" => ref_cnt[o] = 1)
  BY DEF Release, Return, LastReference
<1>3. UNCHANGED <<table, activated, destroyed, to_delete, posted>> /\ ~dangling' /\ obj'[x] = o
  BY <1>1 DEF Release, TypeOK
<1>4. \A y \in Sessions : at'[y] # "idle" => y = x
  BY <1>2 DEF Goes, TypeOK
<1>5. OneHandler' /\ NonePosted' /\ TableAlive'
  BY <1>3, <1>4 DEF OneHandler, NonePosted, TableAlive
<1>6. ListsInTable'
  BY <1>3 DEF Release, ListsInTable, TypeOK
<1>7. at'[x] = "unreferenced" => Holders(o)' = {}
  <2>1. SUFFICES ASSUME at'[x] = "unreferenced" PROVE Holders(o)' = {}
    OBVIOUS
  <2>2. ref_cnt[o] = 1
    BY <1>2, <2>1 DEF Goes, TypeOK
  <2>3. ref_cnt'[o] = 0
    BY <1>1, <2>2 DEF Release, TypeOK
  <2>4. ReferencesCounted'
    BY ReleaseIInv
  <2>5. Cardinality(Holders(o)') = 0
    BY <1>1, <2>3, <2>4 DEF ReferencesCounted
  <2>6. IsFiniteSet(Holders(o)')
    <3>1. Holders(o)' \in SUBSET Sessions
      BY DEF Holders
    <3> QED
      BY <3>1, ServantsAssumption, FS_Subset
  <2> QED
    BY <2>5, <2>6, FS_EmptySet
<1>8. HandlerAlive'
  <2>1. at'[x] \in {"idle", "closing", "unreferenced"}
    BY <1>2 DEF Goes, TypeOK
  <2>2. ASSUME NEW y \in Sessions, y # x PROVE at'[y] = "idle"
    BY <1>4, <2>2
  <2> QED
    BY <1>1, <1>3, <1>7, <2>1, <2>2 DEF HandlerAlive, Guarding
<1> QED
  BY <1>3, <1>5, <1>6, <1>8

LEMMA StartAlone ==
  ASSUME IInv, io_threads = 1, Alone, NEW x \in Sessions, Start(x)
  PROVE  Alone'
<1> USE DEF IInv, Alone
<1>1. ThreadFree
  BY DEF Start, Activate, GetObject, ReleaseObject, CloseSession
<1>2. \A y \in Sessions : at[y] = "idle"
  BY <1>1, ThreadFreeIsIdle
<1>3. ASSUME NEW o \in Objects, Activate(x, o) PROVE Alone'
  <2>1. ~dangling' /\ OneHandler' /\ NonePosted'
    BY <1>3 DEF Activate, handler, OneHandler, NonePosted
  <2>2. TableAlive'
    BY <1>3 DEF Activate, TableAlive, TypeOK
  <2>3. ListsInTable'
    <3>1. o \in table' /\ table \subseteq table' /\ AddRef(x, o)
      BY <1>3 DEF Activate
    <3> QED
      BY <3>1, AddRefAlone
  <2>4. HandlerAlive'
    BY <1>2, <1>3 DEF Activate, handler, HandlerAlive, Guarding
  <2> QED
    BY <2>1, <2>2, <2>3, <2>4
<1>4. ASSUME NEW o \in Objects, NEW r \in {"FunctionCall", "AddReference"}, GetObject(x, o, r)
      PROVE  Alone'
  <2>1. OneHandler'
    BY <1>2, <1>4, StillOneHandler DEF GetObject
  <2>2. ~dangling' /\ NonePosted' /\ TableAlive' /\ ListsInTable'
    BY <1>4 DEF GetObject, NonePosted, TableAlive, ListsInTable
  <2>3. HandlerAlive'
    BY <1>2, <1>4 DEF GetObject, Goes, HandlerAlive, TypeOK, Guarding
  <2> QED
    BY <2>1, <2>2, <2>3
<1>5. CASE CloseSession(x)
  <2>1. OneHandler'
    BY <1>2, <1>5, StillOneHandler DEF CloseSession
  <2>2. ~dangling' /\ NonePosted' /\ TableAlive' /\ ListsInTable'
    BY <1>5 DEF CloseSession, NonePosted, TableAlive, ListsInTable
  <2>3. HandlerAlive'
    BY <1>2, <1>5 DEF CloseSession, Goes, HandlerAlive, TypeOK, Guarding
  <2> QED
    BY <2>1, <2>2, <2>3
<1>6. (\E o \in Objects : ReleaseObject(x, o)) => Alone'
  BY <1>2, ReleaseAlone DEF ReleaseObject
<1> QED
  BY <1>3, <1>4, <1>5, <1>6 DEF Start

LEMMA RequestAlone ==
  ASSUME IInv, Alone, NEW x \in Sessions,
         Guard(x) \/ Check(x) \/ Dispatch(x) \/ AddReference(x) \/ Leave(x)
  PROVE  Alone'
<1> USE DEF IInv, Alone
<1>1. at[x] \in {"got"} \cup Guarding /\ obj[x] \in table /\ obj[x] \notin destroyed
  BY DEF Guard, Check, Dispatch, AddReference, Leave, HandlerAlive, TableAlive, Guarding
<1>2. PICK s \in {"idle"} \cup Guarding : Goes(x, s)
  BY DEF Guard, Check, CheckStage, Dispatch, AddReference, Leave, Guarding
<1>3. UNCHANGED <<table, activated, destroyed, to_delete, posted, obj>> /\ ~dangling'
  BY <1>1 DEF Guard, Check, Dispatch, AddReference, Leave, Uses
<1>4. \A y \in Sessions \ {x} : at[y] = "idle"
  BY <1>1, OthersIdle DEF Guarding
<1>5. OneHandler'
  BY <1>1, <1>2, StillOneHandler DEF Guarding
<1>6. NonePosted' /\ TableAlive'
  BY <1>3 DEF NonePosted, TableAlive
<1>7. ListsInTable'
  <2>1. CASE AddReference(x)
    <3>1. obj[x] \in table' /\ table \subseteq table' /\ AddRef(x, obj[x])
      BY <1>1, <1>3, <2>1 DEF AddReference
    <3> QED
      BY <3>1, AddRefAlone
  <2>2. CASE ~AddReference(x)
    BY <1>3, <2>2 DEF Guard, Check, Dispatch, Leave, ListsInTable
  <2> QED
    BY <2>1, <2>2
<1>8. HandlerAlive'
  <2>1. at'[x] \in {"idle"} \cup Guarding /\ \A y \in Sessions \ {x} : at'[y] = "idle"
    BY <1>2, <1>4 DEF Goes, TypeOK
  <2> QED
    BY <1>1, <1>3, <2>1 DEF HandlerAlive, Guarding
<1> QED
  BY <1>3, <1>5, <1>6, <1>7, <1>8

\* The last reference is gone: the servant leaves the table, which no list needs.
LEMMA DeactivateAlone ==
  ASSUME IInv, Alone, NEW x \in Sessions, Deactivate(x)
  PROVE  Alone'
<1> USE DEF IInv, Alone
<1>1. /\ at[x] = "unreferenced" /\ obj[x] \in table /\ Holders(obj[x]) = {}
      /\ obj[x] \in activated \ destroyed /\ obj[x] \in Objects
  BY DEF Deactivate, HandlerAlive, TableAlive, TypeOK
<1>2. /\ to_delete' = [to_delete EXCEPT ![obj[x]] = TRUE]
      /\ table' = table \ {obj[x]}
      /\ Goes(x, "deactivated") /\ ~dangling'
      /\ UNCHANGED <<activated, destroyed, posted, refs, obj>>
  BY <1>1 DEF Deactivate, Uses
<1>3. OneHandler'
  BY <1>1, <1>2, StillOneHandler
<1>4. NonePosted' /\ TableAlive'
  BY <1>1, <1>2 DEF NonePosted, TableAlive, TypeOK
<1>5. ListsInTable'
  BY <1>1, <1>2 DEF ListsInTable, Holders
<1>6. HandlerAlive'
  <2>1. at'[x] = "deactivated" /\ \A y \in Sessions \ {x} : at'[y] = "idle"
    BY <1>1, <1>2, OthersIdle DEF Goes, TypeOK
  <2> QED
    BY <1>1, <1>2, <2>1 DEF HandlerAlive, Guarding
<1> QED
  BY <1>2, <1>3, <1>4, <1>5, <1>6

\* Nobody guards it: delete_object destroys it and posts nothing.
LEMMA DeleteObjectAlone ==
  ASSUME IInv, Alone, NEW x \in Sessions, DeleteObject(x)
  PROVE  Alone'
<1> USE DEF IInv, Alone
<1>1. /\ at[x] = "deactivated" /\ obj[x] \in activated \ (table \cup destroyed)
      /\ obj[x] \in Objects
      /\ \A y \in Sessions \ {x} : at[y] = "idle"
  BY OthersIdle DEF DeleteObject, HandlerAlive, HasObject, Stages
<1>2. Guards(obj[x]) = {}
  BY <1>1 DEF Guards, Guarding
<1>3. in_use_cnt[obj[x]] = 0
  BY <1>1, <1>2, FS_EmptySet DEF ReferencesCounted
<1>4. /\ destroyed' = destroyed \cup {obj[x]} /\ ~dangling'
      /\ Goes(x, Return(x)) /\ UNCHANGED <<table, activated, to_delete, posted, refs, obj>>
  BY <1>1, <1>3 DEF DeleteObject, Uses
<1>5. at'[x] \in {"idle", "closing"} /\ \A y \in Sessions \ {x} : at'[y] = "idle"
  BY <1>1, <1>4 DEF Return, Goes, TypeOK
<1>6. OneHandler'
  BY <1>5 DEF OneHandler
<1>7. NonePosted' /\ TableAlive'
  BY <1>1, <1>4 DEF NonePosted, TableAlive
<1>8. ListsInTable'
  BY <1>4 DEF ListsInTable
<1>9. HandlerAlive'
  BY <1>5 DEF HandlerAlive, Guarding
<1> QED
  BY <1>4, <1>6, <1>7, <1>8, <1>9

LEMMA ClosedAlone ==
  ASSUME IInv, Alone, NEW x \in Sessions, Closed(x)
  PROVE  Alone'
<1> USE DEF IInv, Alone, Closed
<1>1. /\ at[x] = "closing" /\ Goes(x, "idle") /\ ~dangling'
      /\ UNCHANGED <<table, activated, destroyed, to_delete, posted, refs, obj>>
  OBVIOUS
<1>2. OneHandler'
  BY <1>1, StillOneHandler
<1>3. NonePosted' /\ TableAlive' /\ ListsInTable'
  BY <1>1 DEF NonePosted, TableAlive, ListsInTable
<1>4. HandlerAlive'
  <2>1. \A y \in Sessions : at'[y] = "idle"
    BY <1>1, OthersIdle DEF Goes, TypeOK
  <2> QED
    BY <2>1 DEF HandlerAlive, Guarding
<1> QED
  BY <1>1, <1>2, <1>3, <1>4

LEMMA NextAlone == IInv /\ AloneInv /\ [Next]_vars => AloneInv'
<1> SUFFICES ASSUME IInv, AloneInv, [Next]_vars, io_threads' = 1 PROVE Alone'
  BY DEF AloneInv
<1>1. io_threads = 1 /\ Alone
  <2>1. io_threads' = io_threads
    BY DEF Next, Start, Continue, Activate, GetObject, ReleaseObject, Release, CloseSession,
           Guard, Check, Dispatch, AddReference, Leave, Deactivate, DeleteObject, ReleaseNext,
           Closed, DeletePosted, vars
  <2> QED
    BY <2>1 DEF AloneInv
<1>2. ASSUME NEW x \in Sessions, Continue(x) PROVE Alone'
  <2>1. CASE ReleaseNext(x)
    <3>1. \A y \in Sessions \ {x} : at[y] = "idle"
      BY <1>1, <2>1, OthersIdle DEF Alone, ReleaseNext
    <3> QED
      BY <1>1, <2>1, <3>1, ReleaseAlone DEF ReleaseNext
  <2> QED
    BY <1>1, <1>2, <2>1, RequestAlone, DeactivateAlone, DeleteObjectAlone, ClosedAlone DEF Continue
<1>3. ASSUME NEW o \in Objects, DeletePosted(o) PROVE FALSE
  BY <1>1, <1>3 DEF DeletePosted, Alone, NonePosted
<1>4. CASE UNCHANGED vars
  BY <1>1, <1>4 DEF vars, handler, Alone, OneHandler, NonePosted, TableAlive, ListsInTable,
                    HandlerAlive, Holders
<1> QED
  BY <1>1, <1>2, <1>3, <1>4, StartAlone DEF Next

LEMMA AloneAlways == Spec => []AloneInv
BY IInvAlways, InitAlone, NextAlone, PTL DEF Spec

\* With one io thread no handler, list or posted delete_object uses a servant that
\* was destroyed or destroys one twice, for any number of sessions and servants.
THEOREM NoServantDangles == Spec => []NeverDangling
<1>1. AloneInv => NeverDangling
  BY DEF AloneInv, Alone, NeverDangling
<1> QED
  BY <1>1, AloneAlways, PTL

\* With one io thread a reference that a session's list has can be called: no
\* release by another session deactivates the servant under it.
THEOREM ListedServantsAreServed == Spec => []ReferencedIsServed
<1>1. AloneInv => ReferencedIsServed
  BY DEF AloneInv, Alone, ListsInTable, TableAlive, ReferencedIsServed
<1> QED
  BY <1>1, AloneAlways, PTL

=============================================================================
