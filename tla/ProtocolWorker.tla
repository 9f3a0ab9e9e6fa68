---------------------------- MODULE ProtocolWorker ----------------------------
(***************************************************************************)
(* The worker thread of npserver's protocol_service with its register       *)
(* table: it carries out the tasks it is given, in any order clients may    *)
(* give them, and polls one request after the other in between.  Clients    *)
(* release what they were given, also after its device was removed.         *)
(***************************************************************************)
EXTENDS RegisterTable

CONSTANT
  MaxTasks       \* bound: tasks given to the worker

ASSUME WorkerAssumption == MaxTasks \in Nat

VARIABLES
  held,       \* register -> handles given out for it and not released
  tasks       \* tasks done so far

worker_vars == <<table, held, tasks, removals>>

WorkerInit ==
  /\ table = InitialTable
  /\ held = [h \in Handles |-> 0]
  /\ tasks = 0
  /\ removals = 0

Task == tasks < MaxTasks /\ tasks' = tasks + 1

\* t_add_registers: what a client advises, in its order and perhaps twice
AddTask ==
  /\ Task
  /\ \E hs \in SeqOf(Handles, 2) \ {<<>>} :
       /\ Cardinality({h \in ToSet(hs) : ~Found(table, h)}) <= Len(table.pool)
       /\ table' = AddRegisters(table, hs)
       /\ held' = [h \in Handles |-> held[h] + Cardinality({i \in DOMAIN hs : hs[i] = h})]
  /\ UNCHANGED removals

\* t_release_registers: all the handles of a client for some registers
ReleaseTask ==
  /\ Task
  /\ \E H \in SUBSET Handles \ {{}} : \E n \in [H -> 1..2] :
       /\ \A h \in H : n[h] <= held[h]
       /\ table' = ReleaseRegisters(table,
                     [i \in 1..Cardinality(H) |-> <<SetToSeq(H)[i], n[SetToSeq(H)[i]]>>])
       /\ held' = [h \in Handles |-> IF h \in H THEN held[h] - n[h] ELSE held[h]]
  /\ UNCHANGED removals

\* t_remove_device
RemoveTask ==
  /\ Task
  /\ removals < MaxRemovals /\ removals' = removals + 1
  /\ \E d \in Devices : table' = RemoveDevice(table, d)
  /\ UNCHANGED held

\* process_task_until has timed out, and read_advised finds something to read
PollOnce ==
  /\ table.valid # {}
  /\ table' \in Polls(table)
  /\ UNCHANGED <<held, tasks, removals>>

WorkerNext == AddTask \/ ReleaseTask \/ RemoveTask \/ PollOnce
WorkerSpec == WorkerInit /\ [][WorkerNext]_worker_vars
\* the worker polls when no task comes for read_period_ms
WorkerFairSpec == WorkerSpec /\ WF_worker_vars(PollOnce)

-----------------------------------------------------------------------------
\* As long as no device is removed a register lives while clients hold
\* handles for it, with that count, and goes with the last one.
HeldAreCounted ==
  removals = 0 => \A h \in Handles :
    IF Found(table, h) THEN held[h] = table.reg[PlaceOf(table, h)].ref_cnt /\ held[h] > 0
                       ELSE held[h] = 0

\* However tasks add, release and remove, the rows stay sorted, so that
\* binary_find finds every register that is there; and no place is lost, in
\* two rows, or both free and used: no pointer in a row dangles;
\* and counts are right (add_register, build_req, remove_device).
TableSound == RowsSorted(table) /\ PlacesShared(table) /\ HeldAreCounted

\* The requests were rebuilt whenever the rows changed: every register is
\* read by exactly one of them, from its own bytes of the answer, and the
\* poll never stands at a request that is gone (rebuild, read_advised).
TableRequested == RequestsCover(table)

\* Every register is read again and again until it is released or removed,
\* though each change of the table sends the poll back to the first request.
EveryRegisterPolled ==
  \A h \in Handles :
    Found(table, h) ~> (~Found(table, h) \/ PlaceOf(table, h) \in ToSet(Request(table)))
=============================================================================
