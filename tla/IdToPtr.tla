------------------------------ MODULE IdToPtr ------------------------------
(***************************************************************************)
(* nprpc::impl::IdToPtr: the table that gives an object its id and finds    *)
(* the object of an id, shared by all threads without a lock.  Free slots   *)
(* are chained through "next" from a head word that holds the first free    *)
(* slot and a counter, and is only changed by compare-and-swap.  An id is   *)
(* the index of its slot and the slot's generation at that time.            *)
(*                                                                          *)
(* remove does not check its id: its callers, which PoaImpl::               *)
(* deactivate_object and the session table's owner are, pass an id that was *)
(* given out and not removed before.  The steps are sequentially            *)
(* consistent, which is what the build's lock-prefixed compare-and-swap and *)
(* ordered stores give.                                                     *)
(***************************************************************************)
EXTENDS Naturals, Sequences, FiniteSets

CONSTANTS
  Threads,
  Values,     \* what the table holds
  NoValue,    \* nullptr
  MaxSize,    \* max_size_
  CntMod,     \* 2^32: the head's counter and the generations are uint32_t
  MaxSwaps    \* bound: successful compare-and-swaps in a behaviour

ASSUME TableAssumption ==
  /\ MaxSize \in Nat \ {0}
  /\ CntMod \in Nat
  /\ MaxSwaps \in Nat
  /\ MaxSwaps < CntMod
  /\ NoValue \notin Values

VARIABLES
  next, gix, val,   \* the fields of each Item
  tail_ix,          \* the head word: idx and cnt
  pc,
  old,              \* each thread's old_free
  new_idx,          \* its new_free.idx
  id,               \* the id it removes
  arg,              \* the value it adds
  issued,           \* history: every id given out, with its value
  live,             \* those not yet passed to remove
  free,             \* history: the chain of free slots, first one first
  swaps             \* history: successful compare-and-swaps

items == <<next, gix, val>>
locals == <<old, new_idx, id, arg>>
history == <<issued, live, free, swaps>>
table_vars == <<items, tail_ix, pc, locals, history>>

Slots == 0 .. MaxSize - 1
End == MaxSize                 \* "next" of the last free slot
Words == 0 .. CntMod - 1
Heads == [idx : 0 .. MaxSize, cnt : Words]
Ids == [idx : Slots, gix : Words, val : Values]
NoId == [idx |-> 0, gix |-> 0, val |-> NoValue]
NoWord == [idx |-> 0, cnt |-> 0]

-----------------------------------------------------------------------------
FirstChain == [s \in Slots |-> s + 1]
TableInit ==
  /\ next = FirstChain
  /\ gix = [s \in Slots |-> 0]
  /\ val = [s \in Slots |-> NoValue]
  /\ tail_ix = NoWord
  /\ pc = [t \in Threads |-> "idle"]
  /\ old = [t \in Threads |-> NoWord]
  /\ new_idx = [t \in Threads |-> 0]
  /\ id = [t \in Threads |-> NoId]
  /\ arg = [t \in Threads |-> NoValue]
  /\ issued = {}
  /\ live = {}
  /\ free = [i \in 1 .. MaxSize |-> i - 1]
  /\ swaps = 0

Goto(t, to) == pc' = [pc EXCEPT ![t] = to]

\* the call ends, and its local variables with it
EndCall(t) ==
  /\ Goto(t, "idle")
  /\ old' = [old EXCEPT ![t] = NoWord]
  /\ new_idx' = [new_idx EXCEPT ![t] = 0]
  /\ id' = [id EXCEPT ![t] = NoId]
  /\ arg' = [arg EXCEPT ![t] = NoValue]

\* compare_exchange_weak(old_free, head): installs head, or loads the word
\* into old_free; it may fail although nothing changed
Incremented(cnt) == (cnt + 1) % CntMod
\* mutant: the head's counter never changes
SameCount(cnt) == cnt
NextCount(cnt) == Incremented(cnt)
Swap(t, idx) ==
  /\ tail_ix = old[t]
  /\ swaps < MaxSwaps
  /\ tail_ix' = [idx |-> idx, cnt |-> NextCount(old[t].cnt)]
  /\ swaps' = swaps + 1
SwapFails(t) ==
  /\ old' = [old EXCEPT ![t] = tail_ix]
  /\ new_idx' = [new_idx EXCEPT ![t] = 0]
  /\ UNCHANGED <<items, tail_ix, id, arg, history>>

-----------------------------------------------------------------------------
(* add                                                                      *)

AddLoad(t, v) ==
  /\ pc[t] = "idle"
  /\ arg' = [arg EXCEPT ![t] = v]
  /\ old' = [old EXCEPT ![t] = tail_ix]
  /\ Goto(t, "add")
  /\ UNCHANGED <<items, tail_ix, new_idx, id, history>>

\* returns (uint64_t)(-1)
AddFull(t) ==
  /\ pc[t] = "add"
  /\ old[t].idx = End
  /\ EndCall(t)
  /\ UNCHANGED <<items, tail_ix, history>>

\* mutant: the value is stored before the slot is taken
AddNextStores(t) ==
  /\ pc[t] = "add"
  /\ old[t].idx # End
  /\ new_idx' = [new_idx EXCEPT ![t] = next[old[t].idx]]
  /\ val' = [val EXCEPT ![old[t].idx] = arg[t]]
  /\ Goto(t, "add_swap")
  /\ UNCHANGED <<next, gix, tail_ix, old, id, arg, history>>

AddNext(t) ==
  /\ pc[t] = "add"
  /\ old[t].idx # End
  /\ new_idx' = [new_idx EXCEPT ![t] = next[old[t].idx]]
  /\ Goto(t, "add_swap")
  /\ UNCHANGED <<items, tail_ix, old, id, arg, history>>

AddSwap(t) ==
  /\ pc[t] = "add_swap"
  /\ Swap(t, new_idx[t])
  /\ free' = SubSeq(free, 2, Len(free))
  /\ Goto(t, "add_store")
  /\ UNCHANGED <<items, locals, issued, live>>

AddSwapFails(t) ==
  /\ pc[t] = "add_swap"
  /\ SwapFails(t)
  /\ Goto(t, "add")

\* the value is stored and the id returned
AddStore(t) ==
  LET slot == old[t].idx
      new == [idx |-> slot, gix |-> gix[slot], val |-> arg[t]]
  IN  /\ pc[t] = "add_store"
      /\ val' = [val EXCEPT ![slot] = arg[t]]
      /\ issued' = issued \cup {new}
      /\ live' = live \cup {new}
      /\ EndCall(t)
      /\ UNCHANGED <<next, gix, tail_ix, free, swaps>>

-----------------------------------------------------------------------------
(* remove                                                                   *)

\* mutant: the slot keeps its generation
RemoveKeepGix(t, i) ==
  /\ pc[t] = "idle"
  /\ i \in live
  /\ live' = live \ {i}
  /\ id' = [id EXCEPT ![t] = i]
  /\ Goto(t, "remove_load")
  /\ UNCHANGED <<items, tail_ix, old, new_idx, arg, issued, free, swaps>>

Remove(t, i) ==
  /\ pc[t] = "idle"
  /\ i \in live
  /\ live' = live \ {i}
  /\ id' = [id EXCEPT ![t] = i]
  /\ gix' = [gix EXCEPT ![i.idx] = Incremented(@)]
  /\ Goto(t, "remove_load")
  /\ UNCHANGED <<next, val, tail_ix, old, new_idx, arg, issued, free, swaps>>

RemoveLoad(t) ==
  /\ pc[t] = "remove_load"
  /\ old' = [old EXCEPT ![t] = tail_ix]
  /\ Goto(t, "remove_link")
  /\ UNCHANGED <<items, tail_ix, new_idx, id, arg, history>>

RemoveLink(t) ==
  /\ pc[t] = "remove_link"
  /\ next' = [next EXCEPT ![id[t].idx] = old[t].idx]
  /\ Goto(t, "remove_swap")
  /\ UNCHANGED <<gix, val, tail_ix, locals, history>>

RemoveSwap(t) ==
  /\ pc[t] = "remove_swap"
  /\ Swap(t, id[t].idx)
  /\ free' = <<id[t].idx>> \o free
  /\ EndCall(t)
  /\ UNCHANGED <<items, issued, live>>

\* mutant: the loop repeats the swap but not the link
RemoveSwapFailsUnlinked(t) ==
  /\ pc[t] = "remove_swap"
  /\ SwapFails(t)
  /\ UNCHANGED pc

RemoveSwapFails(t) ==
  /\ pc[t] = "remove_swap"
  /\ SwapFails(t)
  /\ Goto(t, "remove_link")

-----------------------------------------------------------------------------
\* get: both of its reads at once; nullptr when the generation is another one
Get(i) == IF gix[i.idx] = i.gix THEN val[i.idx] ELSE NoValue

-----------------------------------------------------------------------------
Step(t) ==
  \/ \E v \in Values : AddLoad(t, v)
  \/ AddFull(t)
  \/ AddNext(t)
  \/ AddSwap(t)
  \/ AddSwapFails(t)
  \/ AddStore(t)
  \/ \E i \in live : Remove(t, i)
  \/ RemoveLoad(t)
  \/ RemoveLink(t)
  \/ RemoveSwap(t)
  \/ RemoveSwapFails(t)

TableNext == \E t \in Threads : Step(t)

TableSpec == TableInit /\ [][TableNext]_table_vars

-----------------------------------------------------------------------------
Removing == {"remove_load", "remove_link", "remove_swap"}

TableTypes ==
  /\ next \in [Slots -> 0 .. MaxSize]
  /\ gix \in [Slots -> Words]
  /\ val \in [Slots -> Values \cup {NoValue}]
  /\ tail_ix \in Heads
  /\ pc \in [Threads -> {"idle", "add", "add_swap", "add_store"} \cup Removing]
  /\ old \in [Threads -> Heads]
  /\ new_idx \in [Threads -> 0 .. MaxSize]
  /\ id \in [Threads -> Ids \cup {NoId}]
  /\ arg \in [Threads -> Values \cup {NoValue}]
  /\ issued \subseteq Ids
  /\ live \subseteq issued
  /\ free \in Seq(Slots)
  /\ swaps \in 0 .. MaxSwaps

\* the slots a thread has taken from the chain or not put back yet
Held(t) ==
  (IF pc[t] = "add_store" THEN {old[t].idx} ELSE {})
    \cup (IF pc[t] \in Removing THEN {id[t].idx} ELSE {})

(* The chain through "next" is the free slots and ends: it is the history   *)
(* of pushes and pops, whatever the threads between their read of the head  *)
(* and their compare-and-swap have read.                                    *)
ChainIntact ==
  /\ tail_ix.idx = IF free = <<>> THEN End ELSE free[1]
  /\ \A i \in 1 .. Len(free) :
       next[free[i]] = IF i = Len(free) THEN End ELSE free[i + 1]

(* Every slot has one owner, never two and never none: it is free once, or  *)
(* held by one thread in add or remove, or the slot of one object.  A       *)
(* compare-and-swap that succeeds on a head that was taken and put back     *)
(* since it was read would break this.                                      *)
OneOwner ==
  /\ \A i, j \in 1 .. Len(free) : free[i] = free[j] => i = j
  /\ \A i \in 1 .. Len(free) :
       /\ \A l \in live : l.idx # free[i]
       /\ \A t \in Threads : free[i] \notin Held(t)
  /\ \A l, m \in live : l.idx = m.idx => l = m
  /\ \A l \in live, t \in Threads : l.idx \notin Held(t)
  /\ \A t, u \in Threads : t # u => Held(t) \cap Held(u) = {}
  /\ \A s \in Slots :
       \/ \E i \in 1 .. Len(free) : free[i] = s
       \/ \E l \in live : l.idx = s
       \/ \E t \in Threads : s \in Held(t)

(* get finds the object of an id that was not removed: the other threads'   *)
(* adds and removes never touch its slot.                                   *)
LiveFound == \A l \in live : Get(l) = l.val

(* get finds nothing for an id that was removed, also after its slot has    *)
(* another object, and so no id is given out twice.                         *)
RemovedNotFound == \A i \in issued \ live : Get(i) = NoValue

=============================================================================
