------------------------------ MODULE ItemServer ------------------------------
(***************************************************************************)
(* npserver's data path: item managers (the listeners) that clients create, *)
(* the worker thread that polls the devices and tells the listeners what    *)
(* changed, and the io threads that run the clients' calls and the          *)
(* listeners' strands.  A listener's strand does one job at a time in the   *)
(* order they were posted; a call or a job that waits keeps its io thread.  *)
(* Clients do as the clients in the repository do: Activate comes before    *)
(* Advise, and a client makes one call at a time.                           *)
(*                                                                          *)
(* hmap_ and the registers are shared between threads without a lock.  A    *)
(* register is read here in one step: op_value is written before            *)
(* op_available, and each with one store.  release_all and                  *)
(* process_registers can meet in hmap_ (HmapInStrand says that they do not  *)
(* and is violated); the model lets the one that came later wait.           *)
(***************************************************************************)
EXTENDS RegisterTable

CONSTANTS
  Listeners,
  Threads,       \* threads that run thread_pool's ctx()
  MaxAdvises,    \* bound: Advise calls of one client
  Lists,         \* what an Advise may ask for: sequences of registers
  MaxJobs,       \* bound: the worker polls only while no strand has this many jobs
  SendsFail      \* may OnDataChanged fail?

ASSUME ServerAssumption ==
  /\ Threads \in Nat \ {0}
  /\ IsFiniteSet(Listeners)
  /\ Lists \subseteq Seq(Handles) \ {<<>>}
  /\ MaxAdvises \in Nat /\ MaxJobs \in Nat
  /\ SendsFail \in BOOLEAN
  /\ {"untold", "not_responded"} \cap (Values \cup {Garbage}) = {}

VARIABLES
  queue,      \* tasks_
  updated,    \* updated_registers, read but not yet posted to the listeners
  listeners,  \* listeners_
  strand,     \* listener -> jobs posted to its strand
  job,        \* listener -> what its strand is doing
  hmap,       \* listener -> hmap_: place -> the handles that are to get its value
  stage,      \* listener -> where its client's calls are
  advises,    \* listener -> Advise calls so far
  seen,       \* listener -> register -> what its client was told last
  failed,     \* listeners whose client missed a call
  bridges,    \* devices with a bridge in br_map_
  deactivation   \* the device_deactivated call: none, or the device and where it is

worker == <<table, queue, updated, listeners>>
client == <<stage, advises, seen, failed>>
devices == <<bridges, deactivation, removals>>
vars == <<worker, strand, job, hmap, client, devices>>

Idle == [at |-> "idle"]
NoCall == [dev_addr |-> NoDevice, done |-> FALSE]
Untold == "untold"

Init ==
  /\ table = InitialTable
  /\ queue = <<>>
  /\ updated = {}
  /\ listeners = {}
  /\ strand = [l \in Listeners |-> <<>>]
  /\ job = [l \in Listeners |-> Idle]
  /\ hmap = [l \in Listeners |-> [p \in Places |-> <<>>]]
  /\ stage = [l \in Listeners |-> "absent"]
  /\ advises = [l \in Listeners |-> 0]
  /\ seen = [l \in Listeners |-> [h \in Handles |-> Untold]]
  /\ failed = {}
  /\ bridges = Devices
  /\ deactivation = NoCall
  /\ removals = 0

-----------------------------------------------------------------------------
Calling(l) == stage[l] \in {"activating", "advising", "releasing", "removing", "removed"}
\* is_deleted()
Deleted(l) == stage[l] \in {"releasing", "removing", "removed", "ending", "gone"}

Busy == Cardinality({l \in Listeners : Calling(l)})
        + Cardinality({l \in Listeners : job[l] # Idle})
        + (IF deactivation = NoCall THEN 0 ELSE 1)
ThreadFree == Busy < Threads

Stage(l, s) == stage' = [stage EXCEPT ![l] = s]
Does(l, j) == job' = [job EXCEPT ![l] = j]

-----------------------------------------------------------------------------
(* The calls of a client, in an nprpc thread. *)
Activate(l) ==
  /\ stage[l] = "absent"
  /\ ThreadFree
  /\ Stage(l, "activating")
  /\ queue' = Append(queue, [op |-> "add_listener", l |-> l])
  /\ UNCHANGED <<table, updated, listeners, strand, job, hmap, advises, seen, failed, devices>>

Advise(l) ==
  /\ stage[l] = "ready"
  /\ ThreadFree
  /\ advises[l] < MaxAdvises
  /\ advises' = [advises EXCEPT ![l] = @ + 1]
  /\ Stage(l, "advising")
  /\ \E hs \in Lists :
       strand' = [strand EXCEPT ![l] = Append(@, [op |-> "advise", hs |-> hs])]
  /\ UNCHANGED <<worker, job, hmap, seen, failed, devices>>

\* the last reference to the item manager was released: destroy()
Destroy(l) ==
  /\ stage[l] = "ready"
  /\ ThreadFree
  /\ Stage(l, "releasing")
  /\ UNCHANGED <<worker, strand, job, hmap, advises, seen, failed, devices>>

\* mutant: each register is released once
ReleasedOnce(l, p) == 1
Released(l, p) == Len(hmap[l][p])
\* t_release_registers and t_remove_listener
ReleaseTasks(l) ==
  LET used == SetToSeq({p \in Places : hmap[l][p] # <<>>})
      xs == [i \in DOMAIN used |-> <<Head(hmap[l][used[i]]), Released(l, used[i])>>]
  IN <<[op |-> "release", xs |-> xs], [op |-> "remove_listener", l |-> l]>>

\* mutant: hmap_ is not cleared
ReleaseAllKeeps(l) ==
  /\ stage[l] = "releasing"
  /\ job[l].at # "reading"
  /\ queue' = queue \o ReleaseTasks(l)
  /\ Stage(l, "removing")
  /\ UNCHANGED <<table, updated, listeners, strand, job, hmap, advises, seen, failed, devices>>
\* release_all, and remove_listener, for which destroy() waits
ReleaseAll(l) ==
  /\ stage[l] = "releasing"
  /\ job[l].at # "reading"
  /\ queue' = queue \o ReleaseTasks(l)
  /\ hmap' = [hmap EXCEPT ![l] = [p \in Places |-> <<>>]]
  /\ Stage(l, "removing")
  /\ UNCHANGED <<table, updated, listeners, strand, job, advises, seen, failed, devices>>

\* mutant: remove_listener is not waited for
RemovedSoon(l) == stage[l] \in {"removing", "removed"}
Removed(l) == stage[l] = "removed"
\* then the last job of this strand is posted
PostLast(l) ==
  /\ Removed(l)
  /\ strand' = [strand EXCEPT ![l] = Append(@, [op |-> "last"])]
  /\ Stage(l, "ending")
  /\ UNCHANGED <<worker, job, hmap, advises, seen, failed, devices>>

-----------------------------------------------------------------------------
(* The jobs of a strand. *)
\* validate_device
Valid(h) == h.dev_addr \in bridges
\* mutant: what is thrown in the strand does not reach the caller
StartAdviseThrows(l) ==
  /\ Head(strand[l]).op = "advise"
  /\ LET hs == Head(strand[l]).hs
     IN IF \A h \in ToSet(hs) : Valid(h)
        THEN queue' = Append(queue, [op |-> "add", l |-> l, hs |-> hs]) /\ Does(l, [at |-> "adding"])
        ELSE UNCHANGED <<queue, job>>
  /\ UNCHANGED stage
StartAdvise(l) ==
  /\ Head(strand[l]).op = "advise"
  /\ LET hs == Head(strand[l]).hs
     IN IF \A h \in ToSet(hs) : Valid(h)
        THEN /\ queue' = Append(queue, [op |-> "add", l |-> l, hs |-> hs])
             /\ Does(l, [at |-> "adding"])
             /\ UNCHANGED stage
        ELSE /\ Stage(l, "ready")
             /\ UNCHANGED <<queue, job>>

StartProcess(l) ==
  /\ Head(strand[l]).op = "process"
  /\ Does(l, [at |-> "reading", registers |-> Head(strand[l]).registers])
  /\ UNCHANGED <<queue, stage>>

\* destroy_from_strand: `delete this`
StartLast(l) ==
  /\ Head(strand[l]).op = "last"
  /\ Stage(l, "gone")
  /\ UNCHANGED <<queue, job>>

StartJob(l) ==
  /\ strand[l] # <<>> /\ job[l] = Idle
  /\ ThreadFree
  /\ strand' = [strand EXCEPT ![l] = Tail(@)]
  /\ StartAdvise(l) \/ StartProcess(l) \/ StartLast(l)
  /\ UNCHANGED <<table, updated, listeners, hmap, advises, seen, failed, devices>>

\* mutant: only what is read from now on is sent
SendsNothing(ptrs) == {}
\* send_registers_now
SendsNow(ptrs) == {p \in Places : p \in ToSet(ptrs) /\ table.reg[p].op_available # "unknown"}
\* advise goes on with the pointers it got: registers that were read before
\* are sent at once
FinishAdvise(l) ==
  /\ job[l].at = "added"
  /\ LET hs == job[l].hs
         ptrs == job[l].ptrs
         now == SendsNow(ptrs)
     IN /\ hmap' = [hmap EXCEPT ![l] =
             [p \in Places |->
                @[p] \o Picked(hs, {i \in DOMAIN hs : ptrs[i] = p})]]
        /\ strand' = [strand EXCEPT ![l] =
             IF now = {} THEN @ ELSE Append(@, [op |-> "process", registers |-> now])]
  /\ Does(l, Idle)
  /\ Stage(l, "ready")
  /\ UNCHANGED <<worker, advises, seen, failed, devices>>

\* what a client is told of the register at a place
Told(p) == IF table.reg[p].op_available = "not_responded" THEN "not_responded"
           ELSE table.reg[p].op_value

\* process_registers, as far as it touches hmap_ and the registers
ReadRegisters(l) ==
  /\ job[l].at = "reading"
  /\ LET values == UNION {{<<h, Told(p)>> : h \in ToSet(hmap[l][p])} : p \in job[l].registers}
     IN Does(l, IF values = {} \/ Deleted(l) THEN Idle ELSE [at |-> "sending", values |-> values])
  /\ UNCHANGED <<worker, strand, hmap, client, devices>>

\* OnDataChanged: the call needs another io thread to take the answer
SendDone(l) ==
  /\ job[l].at = "sending"
  /\ ThreadFree
  /\ seen' = [seen EXCEPT ![l] = [h \in Handles |->
        LET new == {x \in job[l].values : x[1] = h}
        IN IF new = {} THEN @[h] ELSE (CHOOSE x \in new : TRUE)[2]]]
  /\ Does(l, Idle)
  /\ UNCHANGED <<worker, strand, hmap, stage, advises, failed, devices>>

SendFails(l) ==
  /\ job[l].at = "sending"
  /\ ThreadFree
  /\ SendsFail
  /\ failed' = failed \cup {l}
  /\ Does(l, Idle)
  /\ UNCHANGED <<worker, strand, hmap, stage, advises, seen, devices>>

-----------------------------------------------------------------------------
(* The worker. *)
DoAdd(t) ==
  /\ t.op = "add"
  /\ Cardinality({h \in ToSet(t.hs) : ~Found(table, h)}) <= Len(table.pool)
  /\ table' = AddRegisters(table, t.hs)
  /\ Does(t.l, [at |-> "added", hs |-> t.hs,
                ptrs |-> [i \in DOMAIN t.hs |-> PlaceOf(table', t.hs[i])]])
  /\ UNCHANGED <<listeners, stage, deactivation>>

DoRelease(t) ==
  /\ t.op = "release"
  /\ table' = ReleaseRegisters(table, t.xs)
  /\ UNCHANGED <<listeners, job, stage, deactivation>>

DoAddListener(t) ==
  /\ t.op = "add_listener"
  /\ listeners' = listeners \cup {t.l}
  /\ Stage(t.l, "ready")
  /\ UNCHANGED <<table, job, deactivation>>

DoRemoveListener(t) ==
  /\ t.op = "remove_listener"
  /\ listeners' = listeners \ {t.l}
  /\ Stage(t.l, "removed")
  /\ UNCHANGED <<table, job, deactivation>>

DoRemoveDevice(t) ==
  /\ t.op = "remove_device"
  /\ table' = RemoveDevice(table, t.dev_addr)
  /\ deactivation' = [deactivation EXCEPT !.done = TRUE]
  /\ UNCHANGED <<listeners, job, stage>>

TakeTask == updated = {} /\ queue # <<>> /\ queue' = Tail(queue)

DoTask ==
  /\ TakeTask
  /\ LET t == Head(queue)
     IN DoAdd(t) \/ DoRelease(t) \/ DoAddListener(t) \/ DoRemoveListener(t) \/ DoRemoveDevice(t)
  /\ UNCHANGED <<updated, strand, hmap, advises, seen, failed, bridges, removals>>

\* read_advised: one request is sent through the device's bridge
Poll ==
  /\ updated = {} /\ table.valid # {}
  /\ table.advc \in bridges
  /\ \A l \in Listeners : Len(strand[l]) < MaxJobs
  /\ table' \in Polls(table)
  /\ updated' = Updated(table, table')
  /\ UNCHANGED <<queue, listeners, strand, job, hmap, client, devices>>

Notify ==
  /\ updated # {}
  /\ strand' = [l \in Listeners |->
       IF l \in listeners THEN Append(strand[l], [op |-> "process", registers |-> updated])
                          ELSE strand[l]]
  /\ updated' = {}
  /\ UNCHANGED <<table, queue, listeners, job, hmap, client, devices>>

-----------------------------------------------------------------------------
(* Another client deactivates devices and activates them again. *)
DeactivateDevice ==
  /\ deactivation = NoCall
  /\ ThreadFree
  /\ removals < MaxRemovals /\ removals' = removals + 1
  /\ \E d \in bridges : /\ deactivation' = [dev_addr |-> d, done |-> FALSE]
                        /\ queue' = Append(queue, [op |-> "remove_device", dev_addr |-> d])
  /\ UNCHANGED <<table, updated, listeners, strand, job, hmap, client, bridges>>

EndDeactivation ==
  /\ deactivation.done
  /\ bridges' = bridges \ {deactivation.dev_addr}
  /\ deactivation' = NoCall
  /\ UNCHANGED <<worker, strand, job, hmap, client, removals>>

ActivateDevice ==
  /\ deactivation = NoCall
  /\ \E d \in Devices \ bridges : bridges' = bridges \cup {d}
  /\ UNCHANGED <<worker, strand, job, hmap, client, deactivation, removals>>

-----------------------------------------------------------------------------
ListenerStep(l) ==
  \/ Activate(l) \/ Advise(l) \/ Destroy(l) \/ ReleaseAll(l) \/ PostLast(l)
  \/ StartJob(l) \/ FinishAdvise(l) \/ ReadRegisters(l) \/ SendDone(l) \/ SendFails(l)

Next ==
  \/ \E l \in Listeners : ListenerStep(l)
  \/ DoTask \/ Poll \/ Notify
  \/ DeactivateDevice \/ EndDeactivation \/ ActivateDevice

Spec == Init /\ [][Next]_vars

\* A posted job gets its turn when a thread is free, since ready handlers are
\* run in the order they were posted; after a poll the deadline lies ahead,
\* so that the worker takes a waiting task.  Nothing makes the worker poll.
\* release_all is only kept from hmap_ for moments.
FairSpec ==
  /\ Spec
  /\ SF_queue(TakeTask) /\ WF_vars(Notify) /\ WF_vars(EndDeactivation)
  /\ \A l \in Listeners :
       /\ SF_vars(StartJob(l)) /\ SF_vars(SendDone(l) \/ SendFails(l))
       /\ WF_vars(FinishAdvise(l)) /\ WF_vars(ReadRegisters(l))
       /\ SF_vars(ReleaseAll(l)) /\ WF_vars(PostLast(l))

-----------------------------------------------------------------------------
\* As long as no device is removed, a pointer in a hmap_ is the register of
\* the handles kept under it, however many clients came and went and however
\* often its memory was used again (advise, release_all, release_registers).
PointersLive ==
  \A l \in Listeners, p \in Places : \A h \in ToSet(hmap[l][p]) : table.reg[p].handle = h

\* the handles in the hmap_ of the clients that have a pointer to p
Kept(p) == UNION {{l} \X DOMAIN hmap[l][p] : l \in Listeners}
\* the handles for register h that clients were given and have not stored yet
Adding == {l \in Listeners : job[l].at = "added"}
Coming(h) == UNION {{l} \X {i \in DOMAIN job[l].hs : job[l].hs[i] = h} : l \in Adding}
\* the handles for register h that clients gave back and the worker still counts
ReleasedBy(xs, h) == UNION {{k} \X (1..xs[k][2]) : k \in {k \in DOMAIN xs : xs[k][1] = h}}
Releases(q) == {i \in DOMAIN q : q[i].op = "release"}
Leaving(q, h) == UNION {{i} \X ReleasedBy(q[i].xs, h) : i \in Releases(q)}

\* A register is counted once for each handle that is in a hmap_, on its way
\* there, or on its way back to the worker.
HandlesCounted ==
  \A p \in Live(table) :
    LET h == table.reg[p].handle
    IN table.reg[p].ref_cnt =
         Cardinality(Kept(p)) + Cardinality(Coming(h)) + Cardinality(Leaving(queue, h))

\* A client that was told everything that was posted for it, and missed no
\* call, has the current value of every register it advised, though the
\* worker polls while it advises (advise, read_advised, t_process_registers).
Fresh ==
  \A l \in listeners \ failed :
    (~Deleted(l) /\ strand[l] = <<>> /\ job[l] = Idle /\ updated = {}) =>
      \A p \in Places : \A h \in ToSet(hmap[l][p]) :
        table.reg[p].op_available # "unknown" => seen[l][h] = Told(p)

\* destroy_from_strand is the last job of its strand: nobody runs, posts or
\* will post anything for a listener that is gone (destroy).
LastJob ==
  \A l \in Listeners :
    stage[l] = "gone" => strand[l] = <<>> /\ job[l] = Idle /\ l \notin listeners

\* Every call of a client returns: no io thread waits for ever for another.
CallsReturn == \A l \in Listeners : Calling(l) ~> ~Calling(l)

\* hmap_ is only used in its strand, as the comments say: nobody clears it
\* while process_registers goes through it.
HmapInStrand == \A l \in Listeners : ~(stage[l] = "releasing" /\ job[l].at = "reading")

\* "Device responded" is said of a register only after its device was read.
RespondedWasRead ==
  [][\A l \in Listeners : (job[l].at = "reading" /\ job'[l].at = "sending") =>
       \A x \in job'[l].values : \A p \in job[l].registers :
         x[1] \in ToSet(hmap[l][p]) => table.reg[p].op_available # "unknown"]_vars
=============================================================================
