-------------------------- MODULE ItemServerProofs ---------------------------
(***************************************************************************)
(* npserver's item managers, for any number of clients, threads, places and *)
(* registers: a listener is deleted by the last job of its strand, and, as  *)
(* long as no device is removed, the pointers that it keeps are alive,      *)
(* every register is counted for what clients hold of it, and a client that *)
(* missed no call knows what was read of its registers or will be told.     *)
(***************************************************************************)
EXTENDS ItemServer, TableProofs

-----------------------------------------------------------------------------
(* What the state is made of.                                               *)
Tasks ==
  [op : {"add"}, l : Listeners, hs : Lists]
    \cup [op : {"release"}, xs : Seq(Handles \X (Nat \ {0}))]
    \cup [op : {"add_listener", "remove_listener"}, l : Listeners]
    \cup [op : {"remove_device"}, dev_addr : Devices]

Jobs ==
  [op : {"advise"}, hs : Lists] \cup [op : {"process"}, registers : SUBSET Places] \cup [op : {"last"}]

JobTypes(j) ==
  \/ j = Idle
  \/ j.at \in {"adding", "sending"}
  \/ j.at = "added" /\ j.hs \in Lists
  \/ j.at = "reading" /\ j.registers \subseteq Places

ServerTypes ==
  /\ queue \in Seq(Tasks)
  /\ updated \subseteq Places
  /\ listeners \subseteq Listeners
  /\ strand \in [Listeners -> Seq(Jobs)]
  /\ hmap \in [Listeners -> [Places -> Seq(Handles)]]
  /\ stage \in [Listeners -> {"absent", "activating", "ready", "advising", "releasing",
                              "removing", "removed", "ending", "gone"}]
  /\ DOMAIN job = Listeners /\ \A l \in Listeners : JobTypes(job[l])

-----------------------------------------------------------------------------
(* The life of a listener.                                                  *)

\* Whoever waits for the worker has one task in its queue.
TaskOf(t) ==
  /\ t.op = "add" => job[t.l].at = "adding"
  /\ t.op = "add_listener" => stage[t.l] = "activating"
  /\ t.op = "remove_listener" => stage[t.l] = "removing"
Awaited == {"add", "add_listener", "remove_listener"}
QueueInv ==
  \A i \in 1 .. Len(queue) :
    /\ TaskOf(queue[i])
    /\ \A j \in 1 .. Len(queue) :
         queue[i].op \in Awaited /\ queue[j].op = queue[i].op /\ queue[j].l = queue[i].l => i = j

\* An advise is posted to a strand once, or is what the strand does.
StrandInv ==
  \A l \in Listeners : \A i \in 1 .. Len(strand[l]) :
    /\ strand[l][i].op = "advise" =>
         /\ stage[l] = "advising" /\ job[l].at \notin {"adding", "added"}
         /\ \A j \in 1 .. Len(strand[l]) : strand[l][j].op = "advise" => i = j
    /\ strand[l][i].op = "last" => stage[l] = "ending" /\ i = Len(strand[l])

StageInv ==
  \A l \in Listeners :
    /\ job[l].at \in {"adding", "added"} => stage[l] = "advising"
    /\ l \in listeners => stage[l] \in {"ready", "advising", "releasing", "removing"}

LifeInv == ServerTypes /\ QueueInv /\ StrandInv /\ StageInv /\ LastJob

-----------------------------------------------------------------------------
(* Sequences, tasks and jobs.                                               *)

\* A sequence one longer.
LEMMA AppendAt ==
  ASSUME NEW S, NEW s \in Seq(S), NEW x \in S
  PROVE  /\ Append(s, x) \in Seq(S) /\ Len(s) \in Nat /\ Len(Append(s, x)) = Len(s) + 1
         /\ \A i \in 1 .. Len(s) + 1 : Append(s, x)[i] = IF i = Len(s) + 1 THEN x ELSE s[i]
OBVIOUS

\* A sequence without its first element.
LEMMA TailAt ==
  ASSUME NEW S, NEW s \in Seq(S), s # <<>>
  PROVE  /\ Tail(s) \in Seq(S) /\ Head(s) = s[1] /\ s[1] \in S
         /\ Len(s) \in Nat /\ 1 \in 1 .. Len(s) /\ Len(Tail(s)) = Len(s) - 1
         /\ \A i \in 1 .. Len(s) - 1 : i + 1 \in 1 .. Len(s) /\ Tail(s)[i] = s[i + 1]
OBVIOUS

\* The fields of a task.
LEMMA TaskFields ==
  ASSUME NEW t \in Tasks
  PROVE  /\ t.op \in Awaited => t.l \in Listeners
         /\ t.op = "add" => t.hs \in Lists
         /\ t.op = "release" => t.xs \in Seq(Handles \X (Nat \ {0}))
         /\ t.op = "remove_device" => t.dev_addr \in Devices
BY DEF Tasks, Awaited

\* The fields of a job.
LEMMA JobFields ==
  ASSUME NEW j \in Jobs
  PROVE  /\ j.op = "advise" => j.hs \in Lists
         /\ j.op = "process" => j.registers \subseteq Places
BY DEF Jobs

\* What is posted is a task or a job.
LEMMA Posted ==
  /\ \A l \in Listeners : /\ [op |-> "add_listener", l |-> l] \in Tasks
                          /\ [op |-> "remove_listener", l |-> l] \in Tasks
                          /\ \A hs \in Lists : [op |-> "add", l |-> l, hs |-> hs] \in Tasks
  /\ \A xs \in Seq(Handles \X (Nat \ {0})) : [op |-> "release", xs |-> xs] \in Tasks
  /\ \A d \in Devices : [op |-> "remove_device", dev_addr |-> d] \in Tasks
  /\ \A hs \in Lists : [op |-> "advise", hs |-> hs] \in Jobs
  /\ \A R \in SUBSET Places : [op |-> "process", registers |-> R] \in Jobs
  /\ [op |-> "last"] \in Jobs
BY DEF Tasks, Jobs

-----------------------------------------------------------------------------
(* The first state.                                                         *)

\* Nothing is posted and nobody does anything at first.
LEMMA LifeInit == Init => LifeInv
<1> SUFFICES ASSUME Init
             PROVE  LifeInv
  OBVIOUS
<1>1. queue = <<>> /\ updated = {} /\ listeners = {}
  BY DEF Init
<1>2. \A l \in Listeners : strand[l] = <<>> /\ job[l] = Idle /\ stage[l] = "absent"
  BY DEF Init
<1>3. ServerTypes
  <2>1. queue \in Seq(Tasks) /\ updated \subseteq Places /\ listeners \subseteq Listeners
    BY <1>1
  <2>2. strand \in [Listeners -> Seq(Jobs)]
    BY DEF Init
  <2>3. hmap \in [Listeners -> [Places -> Seq(Handles)]]
    BY DEF Init
  <2>4. stage \in [Listeners -> {"absent", "activating", "ready", "advising", "releasing",
                                 "removing", "removed", "ending", "gone"}]
    BY DEF Init
  <2>5. DOMAIN job = Listeners /\ \A l \in Listeners : JobTypes(job[l])
    BY <1>2 DEF Init, JobTypes
  <2> QED
    BY <2>1, <2>2, <2>3, <2>4, <2>5 DEF ServerTypes
<1>4. QueueInv
  BY <1>1 DEF QueueInv
<1>5. StrandInv
  BY <1>2 DEF StrandInv
<1>6. StageInv
  BY <1>1, <1>2 DEF StageInv, Idle
<1>7. LastJob
  BY <1>2 DEF LastJob
<1> QED
  BY <1>3, <1>4, <1>5, <1>6, <1>7 DEF LifeInv

-----------------------------------------------------------------------------
(* The calls of a client.                                                   *)

\* Activate posts the only task that its listener waits for.
LEMMA ActivateStep ==
  ASSUME LifeInv, NEW l \in Listeners, Activate(l)
  PROVE  LifeInv'
<1> DEFINE t == [op |-> "add_listener", l |-> l]
<1> USE DEF LifeInv
<1>1. /\ stage[l] = "absent" /\ queue' = Append(queue, t)
      /\ updated' = updated /\ listeners' = listeners /\ strand' = strand /\ job' = job
      /\ hmap' = hmap
  BY DEF Activate
<1>2. /\ stage' \in [Listeners -> {"absent", "activating", "ready", "advising", "releasing",
                                   "removing", "removed", "ending", "gone"}]
      /\ \A k \in Listeners : stage'[k] = IF k = l THEN "activating" ELSE stage[k]
  BY DEF Activate, Stage, ServerTypes
<1>3. t \in Tasks /\ queue \in Seq(Tasks)
  BY Posted DEF ServerTypes
<1>4. /\ queue' \in Seq(Tasks) /\ Len(queue) \in Nat /\ Len(queue') = Len(queue) + 1
      /\ \A i \in 1 .. Len(queue') : queue'[i] = IF i = Len(queue) + 1 THEN t ELSE queue[i]
  <2> HIDE DEF t
  <2> QED
    BY <1>1, <1>3, AppendAt
<1>5. t.op = "add_listener" /\ t.l = l
  OBVIOUS
<1> HIDE DEF t
<1>6. ServerTypes'
  BY <1>1, <1>2, <1>4 DEF ServerTypes
<1>7. QueueInv'
  <2>1. \A i \in 1 .. Len(queue) :
          /\ queue[i] \in Tasks /\ (queue[i].op \in Awaited => queue[i].l \in Listeners)
          /\ TaskOf(queue[i]) /\ ~(queue[i].op = "add_listener" /\ queue[i].l = l)
    BY <1>1, <1>3, TaskFields DEF QueueInv, TaskOf
  <2>2. \A i \in 1 .. Len(queue') : TaskOf(queue[i])'
    BY <1>1, <1>2, <1>4, <1>5, <2>1 DEF TaskOf, Awaited
  <2>3. ASSUME NEW i \in 1 .. Len(queue'), NEW j \in 1 .. Len(queue'),
               queue'[i].op \in Awaited, queue'[j].op = queue'[i].op, queue'[j].l = queue'[i].l
        PROVE  i = j
    BY <1>4, <1>5, <2>1, <2>3 DEF QueueInv
  <2> QED
    BY <2>2, <2>3 DEF QueueInv
<1>8. StrandInv'
  BY <1>1, <1>2 DEF StrandInv
<1>9. StageInv'
  BY <1>1, <1>2 DEF StageInv
<1>10. LastJob'
  BY <1>1, <1>2 DEF LastJob
<1> QED
  BY <1>6, <1>7, <1>8, <1>9, <1>10

\* Advise posts the only advise of its listener.
LEMMA AdviseStep ==
  ASSUME LifeInv, NEW l \in Listeners, Advise(l)
  PROVE  LifeInv'
<1> USE DEF LifeInv
<1>1. /\ stage[l] = "ready"
      /\ queue' = queue /\ updated' = updated /\ listeners' = listeners /\ job' = job
      /\ hmap' = hmap
  BY DEF Advise, worker
<1>2. /\ stage' \in [Listeners -> {"absent", "activating", "ready", "advising", "releasing",
                                   "removing", "removed", "ending", "gone"}]
      /\ \A k \in Listeners : stage'[k] = IF k = l THEN "advising" ELSE stage[k]
  BY DEF Advise, Stage, ServerTypes
<1>3. PICK hs \in Lists : strand' = [strand EXCEPT ![l] = Append(@, [op |-> "advise", hs |-> hs])]
  BY DEF Advise
<1> DEFINE j == [op |-> "advise", hs |-> hs]
<1>4. j \in Jobs /\ j.op = "advise"
  BY Posted
<1> HIDE DEF j
<1>5. strand[l] \in Seq(Jobs)
  BY DEF ServerTypes
<1>6. /\ strand'[l] \in Seq(Jobs) /\ Len(strand[l]) \in Nat
      /\ Len(strand'[l]) = Len(strand[l]) + 1
      /\ \A i \in 1 .. Len(strand'[l]) :
           strand'[l][i] = IF i = Len(strand[l]) + 1 THEN j ELSE strand[l][i]
  <2>1. strand'[l] = Append(strand[l], j)
    BY <1>3 DEF ServerTypes, j
  <2> QED
    BY <1>4, <1>5, <2>1, AppendAt
<1>7. /\ strand' \in [Listeners -> Seq(Jobs)]
      /\ \A k \in Listeners : k # l => strand'[k] = strand[k]
  BY <1>3, <1>6 DEF ServerTypes
<1>8. ServerTypes'
  BY <1>1, <1>2, <1>7 DEF ServerTypes
<1>9. QueueInv'
  <2>1. \A i \in 1 .. Len(queue) :
          queue[i] \in Tasks /\ (queue[i].op \in Awaited => queue[i].l \in Listeners)
    BY TaskFields DEF ServerTypes
  <2>2. \A i \in 1 .. Len(queue) : TaskOf(queue[i])'
    BY <1>1, <1>2, <2>1 DEF TaskOf, Awaited, QueueInv
  <2> QED
    BY <1>1, <2>2 DEF QueueInv
<1>10. StrandInv'
  <2> SUFFICES ASSUME NEW k \in Listeners, NEW i \in 1 .. Len(strand'[k])
               PROVE  /\ strand'[k][i].op = "advise" =>
                           /\ stage'[k] = "advising" /\ job'[k].at \notin {"adding", "added"}
                           /\ \A n \in 1 .. Len(strand'[k]) : strand'[k][n].op = "advise" => i = n
                      /\ strand'[k][i].op = "last" => stage'[k] = "ending" /\ i = Len(strand'[k])
    BY DEF StrandInv
  <2>1. CASE k # l
    BY <1>1, <1>2, <1>7, <2>1 DEF StrandInv
  <2>2. CASE k = l
    <3>1. \A n \in 1 .. Len(strand[l]) : strand[l][n].op \notin {"advise", "last"}
      BY <1>1 DEF StrandInv
    <3>2. job[l].at \notin {"adding", "added"}
      BY <1>1 DEF StageInv
    <3>3. strand'[l][i].op # "last"
      BY <1>4, <1>6, <2>2, <3>1
    <3>4. strand'[l][i].op = "advise" => i = Len(strand[l]) + 1
      BY <1>6, <2>2, <3>1
    <3>5. \A n \in 1 .. Len(strand'[l]) : strand'[l][n].op = "advise" => n = Len(strand[l]) + 1
      BY <1>6, <3>1
    <3> QED
      BY <1>1, <1>2, <2>2, <3>2, <3>3, <3>4, <3>5
  <2> QED
    BY <2>1, <2>2
<1>11. StageInv'
  BY <1>1, <1>2 DEF StageInv
<1>12. LastJob'
  BY <1>1, <1>2, <1>7 DEF LastJob
<1> QED
  BY <1>8, <1>9, <1>10, <1>11, <1>12

\* Destroy only marks the listener.
LEMMA DestroyStep ==
  ASSUME LifeInv, NEW l \in Listeners, Destroy(l)
  PROVE  LifeInv'
<1> USE DEF LifeInv
<1>1. /\ stage[l] = "ready"
      /\ queue' = queue /\ updated' = updated /\ listeners' = listeners /\ job' = job
      /\ hmap' = hmap /\ strand' = strand
  BY DEF Destroy, worker
<1>2. /\ stage' \in [Listeners -> {"absent", "activating", "ready", "advising", "releasing",
                                   "removing", "removed", "ending", "gone"}]
      /\ \A k \in Listeners : stage'[k] = IF k = l THEN "releasing" ELSE stage[k]
  BY DEF Destroy, Stage, ServerTypes
<1>3. ServerTypes'
  BY <1>1, <1>2 DEF ServerTypes
<1>4. QueueInv'
  <2>1. \A i \in 1 .. Len(queue) :
          queue[i] \in Tasks /\ (queue[i].op \in Awaited => queue[i].l \in Listeners)
    BY TaskFields DEF ServerTypes
  <2>2. \A i \in 1 .. Len(queue) : TaskOf(queue[i])'
    BY <1>1, <1>2, <2>1 DEF TaskOf, Awaited, QueueInv
  <2> QED
    BY <1>1, <2>2 DEF QueueInv
<1>5. StrandInv'
  BY <1>1, <1>2 DEF StrandInv
<1>6. StageInv'
  BY <1>1, <1>2 DEF StageInv
<1>7. LastJob'
  BY <1>1, <1>2 DEF LastJob
<1> QED
  BY <1>3, <1>4, <1>5, <1>6, <1>7

\* The entries of a release: one for each place that has handles in v.
EntriesOf(v, xs) ==
  \E used \in [1 .. Len(xs) -> Places] :
    /\ \A i, k \in 1 .. Len(xs) : used[i] = used[k] => i = k
    /\ \A p \in Places : v[p] # <<>> => \E i \in 1 .. Len(xs) : used[i] = p
    /\ \A i \in 1 .. Len(xs) : /\ v[used[i]] # <<>>
                               /\ xs[i] = <<Head(v[used[i]]), Len(v[used[i]])>>

\* What release_all posts: one entry for each place in its hmap_.
LEMMA ReleaseTasksAre ==
  ASSUME ServerTypes, NEW l \in Listeners
  PROVE  \E xs \in Seq(Handles \X (Nat \ {0})) :
           /\ ReleaseTasks(l) = <<[op |-> "release", xs |-> xs], [op |-> "remove_listener", l |-> l]>>
           /\ EntriesOf(hmap[l], xs)
<1> DEFINE U == {p \in Places : hmap[l][p] # <<>>}
           used == SetToSeq(U)
           xs == [i \in DOMAIN used |-> <<Head(hmap[l][used[i]]), Released(l, used[i])>>]
           n == Cardinality(U)
<1>1. IsFiniteSet(U)
  BY RegisterAssumption, FS_Subset
<1>2. /\ used \in [1 .. n -> U] /\ n \in Nat
      /\ \A i, j \in 1 .. n : used[i] = used[j] => i = j
      /\ \A x \in U : \E i \in 1 .. n : used[i] = x
  BY <1>1, SetAsSeq
<1>3. ReleaseTasks(l) = <<[op |-> "release", xs |-> xs], [op |-> "remove_listener", l |-> l]>>
  BY DEF ReleaseTasks
<1>4. \A p \in U : p \in Places /\ hmap[l][p] # <<>> /\ hmap[l][p] \in Seq(Handles)
  BY DEF ServerTypes
<1>5. \A p \in Places : hmap[l][p] # <<>> => p \in U
  OBVIOUS
<1> HIDE DEF used, U, n
<1>6. DOMAIN xs = 1 .. n /\ \A i \in 1 .. n :
        used[i] \in U /\ xs[i] = <<Head(hmap[l][used[i]]), Len(hmap[l][used[i]])>>
  BY <1>2 DEF Released
<1>7. \A p \in U : Head(hmap[l][p]) \in Handles /\ Len(hmap[l][p]) \in Nat \ {0}
  BY <1>4
<1>8. xs \in [1 .. n -> Handles \X (Nat \ {0})]
  BY <1>6, <1>7
<1> HIDE DEF xs
<1>9. xs \in Seq(Handles \X (Nat \ {0})) /\ Len(xs) = n
  BY <1>2, <1>8
<1>10. EntriesOf(hmap[l], xs)
  <2>1. used \in [1 .. Len(xs) -> Places]
    BY <1>2, <1>4, <1>9
  <2>2. \A p \in Places : hmap[l][p] # <<>> => \E i \in 1 .. Len(xs) : used[i] = p
    BY <1>2, <1>5, <1>9
  <2>3. \A i \in 1 .. Len(xs) : /\ hmap[l][used[i]] # <<>>
                                /\ xs[i] = <<Head(hmap[l][used[i]]), Len(hmap[l][used[i]])>>
    BY <1>4, <1>6, <1>9
  <2> QED
    BY <1>2, <1>9, <2>1, <2>2, <2>3 DEF EntriesOf
<1> QED
  BY <1>3, <1>9, <1>10

\* release_all posts the only task that its listener waits for.
LEMMA ReleaseAllStep ==
  ASSUME LifeInv, NEW l \in Listeners, ReleaseAll(l)
  PROVE  LifeInv'
<1> USE DEF LifeInv
<1>1. /\ stage[l] = "releasing"
      /\ updated' = updated /\ listeners' = listeners /\ job' = job /\ strand' = strand
      /\ queue' = queue \o ReleaseTasks(l)
  BY DEF ReleaseAll
<1>2. /\ stage' \in [Listeners -> {"absent", "activating", "ready", "advising", "releasing",
                                   "removing", "removed", "ending", "gone"}]
      /\ \A k \in Listeners : stage'[k] = IF k = l THEN "removing" ELSE stage[k]
  BY DEF ReleaseAll, Stage, ServerTypes
<1>3. hmap' \in [Listeners -> [Places -> Seq(Handles)]]
  <2>1. [p \in Places |-> <<>>] \in [Places -> Seq(Handles)]
    OBVIOUS
  <2> QED
    BY <2>1 DEF ReleaseAll, ServerTypes
<1>4. PICK xs \in Seq(Handles \X (Nat \ {0})) :
        ReleaseTasks(l) = <<[op |-> "release", xs |-> xs], [op |-> "remove_listener", l |-> l]>>
  BY ReleaseTasksAre
<1> DEFINE r == [op |-> "release", xs |-> xs]
           t == [op |-> "remove_listener", l |-> l]
<1>5. r \in Tasks /\ t \in Tasks /\ r.op = "release" /\ t.op = "remove_listener" /\ t.l = l
  BY Posted
<1>6. queue \in Seq(Tasks) /\ queue' = queue \o <<r, t>>
  BY <1>1, <1>4 DEF ServerTypes
<1> HIDE DEF r, t
<1>7. /\ queue' \in Seq(Tasks) /\ Len(queue) \in Nat /\ Len(queue') = Len(queue) + 2
      /\ \A i \in 1 .. Len(queue) : i \in 1 .. Len(queue') /\ queue'[i] = queue[i]
      /\ queue'[Len(queue) + 1] = r /\ queue'[Len(queue) + 2] = t
  BY <1>5, <1>6
<1>8. ServerTypes'
  BY <1>1, <1>2, <1>3, <1>7 DEF ServerTypes
<1>9. QueueInv'
  <2>1. \A i \in 1 .. Len(queue) :
          /\ queue[i] \in Tasks /\ (queue[i].op \in Awaited => queue[i].l \in Listeners)
          /\ TaskOf(queue[i]) /\ ~(queue[i].op = "remove_listener" /\ queue[i].l = l)
    <3> TAKE i \in 1 .. Len(queue)
    <3>1. queue[i] \in Tasks
      BY <1>6
    <3>2. TaskOf(queue[i])
      BY DEF QueueInv
    <3>3. ~(queue[i].op = "remove_listener" /\ queue[i].l = l)
      BY <1>1, <3>2 DEF TaskOf
    <3> QED
      BY <3>1, <3>2, <3>3, TaskFields
  <2>2. \A i \in 1 .. Len(queue') :
          i \in 1 .. Len(queue) \/ i = Len(queue) + 1 \/ i = Len(queue) + 2
    BY <1>7
  <2>3. ASSUME NEW i \in 1 .. Len(queue')
        PROVE  TaskOf(queue[i])'
    <3>1. CASE i \in 1 .. Len(queue)
      BY <1>1, <1>2, <1>7, <2>1, <3>1 DEF TaskOf, Awaited
    <3>2. CASE i = Len(queue) + 1
      BY <1>5, <1>7, <3>2 DEF TaskOf
    <3>3. CASE i = Len(queue) + 2
      BY <1>2, <1>5, <1>7, <3>3 DEF TaskOf
    <3> QED
      BY <2>2, <3>1, <3>2, <3>3
  <2>4. ASSUME NEW i \in 1 .. Len(queue'), NEW j \in 1 .. Len(queue'),
               queue'[i].op \in Awaited, queue'[j].op = queue'[i].op, queue'[j].l = queue'[i].l
        PROVE  i = j
    <3>1. i # Len(queue) + 1 /\ j # Len(queue) + 1
      BY <1>5, <1>7, <2>4 DEF Awaited
    <3>2. CASE i \in 1 .. Len(queue) /\ j \in 1 .. Len(queue)
      BY <1>7, <2>4, <3>2 DEF QueueInv
    <3>3. CASE i = Len(queue) + 2
      BY <1>5, <1>7, <2>1, <2>2, <2>4, <3>1, <3>3
    <3>4. CASE j = Len(queue) + 2
      BY <1>5, <1>7, <2>1, <2>2, <2>4, <3>1, <3>4
    <3> QED
      BY <2>2, <3>1, <3>2, <3>3, <3>4
  <2> QED
    BY <2>3, <2>4 DEF QueueInv
<1>10. StrandInv'
  BY <1>1, <1>2 DEF StrandInv
<1>11. StageInv'
  BY <1>1, <1>2 DEF StageInv
<1>12. LastJob'
  BY <1>1, <1>2 DEF LastJob
<1> QED
  BY <1>8, <1>9, <1>10, <1>11, <1>12

\* The last job is posted to a strand without an advise.
LEMMA PostLastStep ==
  ASSUME LifeInv, NEW l \in Listeners, PostLast(l)
  PROVE  LifeInv'
<1> USE DEF LifeInv
<1>1. /\ stage[l] = "removed"
      /\ queue' = queue /\ updated' = updated /\ listeners' = listeners /\ job' = job
      /\ hmap' = hmap
  BY DEF PostLast, Removed, worker
<1>2. /\ stage' \in [Listeners -> {"absent", "activating", "ready", "advising", "releasing",
                                   "removing", "removed", "ending", "gone"}]
      /\ \A k \in Listeners : stage'[k] = IF k = l THEN "ending" ELSE stage[k]
  BY DEF PostLast, Stage, ServerTypes
<1> DEFINE j == [op |-> "last"]
<1>3. strand[l] \in Seq(Jobs) /\ j \in Jobs /\ j.op = "last"
  BY Posted DEF ServerTypes
<1>4. strand'[l] = Append(strand[l], j) /\ \A k \in Listeners : k # l => strand'[k] = strand[k]
  BY DEF PostLast, ServerTypes
<1> HIDE DEF j
<1>5. /\ strand'[l] \in Seq(Jobs) /\ Len(strand[l]) \in Nat
      /\ Len(strand'[l]) = Len(strand[l]) + 1
      /\ \A i \in 1 .. Len(strand'[l]) :
           strand'[l][i] = IF i = Len(strand[l]) + 1 THEN j ELSE strand[l][i]
  BY <1>3, <1>4, AppendAt
<1>6. strand' \in [Listeners -> Seq(Jobs)]
  BY <1>5 DEF PostLast, ServerTypes
<1>7. ServerTypes'
  BY <1>1, <1>2, <1>6 DEF ServerTypes
<1>8. QueueInv'
  <2>1. \A i \in 1 .. Len(queue) :
          queue[i] \in Tasks /\ (queue[i].op \in Awaited => queue[i].l \in Listeners)
    BY TaskFields DEF ServerTypes
  <2>2. \A i \in 1 .. Len(queue) : TaskOf(queue[i])'
    BY <1>1, <1>2, <2>1 DEF TaskOf, Awaited, QueueInv
  <2> QED
    BY <1>1, <2>2 DEF QueueInv
<1>9. StrandInv'
  <2> SUFFICES ASSUME NEW k \in Listeners, NEW i \in 1 .. Len(strand'[k])
               PROVE  /\ strand'[k][i].op = "advise" =>
                           /\ stage'[k] = "advising" /\ job'[k].at \notin {"adding", "added"}
                           /\ \A n \in 1 .. Len(strand'[k]) : strand'[k][n].op = "advise" => i = n
                      /\ strand'[k][i].op = "last" => stage'[k] = "ending" /\ i = Len(strand'[k])
    BY DEF StrandInv
  <2>1. CASE k # l
    BY <1>1, <1>2, <1>4, <2>1 DEF StrandInv
  <2>2. CASE k = l
    <3>1. \A n \in 1 .. Len(strand[l]) : strand[l][n].op \notin {"advise", "last"}
      BY <1>1 DEF StrandInv
    <3>2. strand'[l][i].op # "advise"
      BY <1>3, <1>5, <2>2, <3>1
    <3>3. strand'[l][i].op = "last" => i = Len(strand'[l])
      BY <1>5, <2>2, <3>1
    <3> QED
      BY <1>2, <2>2, <3>2, <3>3
  <2> QED
    BY <2>1, <2>2
<1>10. StageInv'
  BY <1>1, <1>2 DEF StageInv
<1>11. LastJob'
  BY <1>1, <1>2, <1>4 DEF LastJob
<1> QED
  BY <1>7, <1>8, <1>9, <1>10, <1>11

-----------------------------------------------------------------------------
(* The jobs of a strand.                                                    *)

\* A strand that starts a job has the others left, in their order.
LEMMA StrandShorter ==
  ASSUME LifeInv, NEW l \in Listeners, strand[l] # <<>>,
         strand' = [strand EXCEPT ![l] = Tail(@)]
  PROVE  /\ strand' \in [Listeners -> Seq(Jobs)]
         /\ \A k \in Listeners : k # l => strand'[k] = strand[k]
         /\ Head(strand[l]) = strand[l][1] /\ strand[l][1] \in Jobs /\ 1 \in 1 .. Len(strand[l])
         /\ Len(strand[l]) \in Nat /\ Len(strand'[l]) = Len(strand[l]) - 1
         /\ \A i \in 1 .. Len(strand'[l]) :
              /\ i + 1 \in 1 .. Len(strand[l]) /\ i + 1 # 1
              /\ strand'[l][i] = strand[l][i + 1]
              /\ i + 1 = Len(strand[l]) => i = Len(strand'[l])
<1>1. strand[l] \in Seq(Jobs)
  BY DEF LifeInv, ServerTypes
<1>2. strand'[l] = Tail(strand[l]) /\ \A k \in Listeners : k # l => strand'[k] = strand[k]
  BY DEF LifeInv, ServerTypes
<1> DEFINE s == strand[l]
<1>3. /\ Tail(s) \in Seq(Jobs) /\ Head(s) = s[1] /\ s[1] \in Jobs
      /\ Len(s) \in Nat /\ 1 \in 1 .. Len(s) /\ Len(Tail(s)) = Len(s) - 1
      /\ \A i \in 1 .. Len(s) - 1 : i + 1 \in 1 .. Len(s) /\ Tail(s)[i] = s[i + 1]
  BY <1>1, TailAt
<1>4. strand' \in [Listeners -> Seq(Jobs)]
  BY <1>3 DEF LifeInv, ServerTypes
<1>5. \A i \in 1 .. Len(s) - 1 : i + 1 # 1 /\ (i + 1 = Len(s) => i = Len(s) - 1)
  BY <1>3
<1> QED
  BY <1>2, <1>3, <1>4, <1>5

\* Only what was posted to a strand is left there when a job starts: no advise
\* after an advise, and nothing after the last job.
LEMMA StrandLeft ==
  ASSUME LifeInv, NEW l \in Listeners, strand[l] # <<>>,
         strand' = [strand EXCEPT ![l] = Tail(@)]
  PROVE  /\ strand[l][1].op = "advise" =>
              /\ stage[l] = "advising"
              /\ \A i \in 1 .. Len(strand'[l]) : strand'[l][i].op \notin {"advise", "last"}
         /\ strand[l][1].op = "last" => stage[l] = "ending" /\ strand'[l] = <<>>
<1>1. /\ strand' \in [Listeners -> Seq(Jobs)] /\ 1 \in 1 .. Len(strand[l])
      /\ Len(strand[l]) \in Nat /\ Len(strand'[l]) = Len(strand[l]) - 1
      /\ \A i \in 1 .. Len(strand'[l]) :
           i + 1 \in 1 .. Len(strand[l]) /\ i + 1 # 1 /\ strand'[l][i] = strand[l][i + 1]
  BY StrandShorter
<1>2. ASSUME strand[l][1].op = "advise", NEW i \in 1 .. Len(strand'[l])
      PROVE  strand'[l][i].op \notin {"advise", "last"}
  <2>1. stage[l] = "advising"
        /\ \A j \in 1 .. Len(strand[l]) : strand[l][j].op = "advise" => 1 = j
    BY <1>1, <1>2 DEF LifeInv, StrandInv
  <2>2. strand[l][i + 1].op # "advise"
    BY <1>1, <2>1
  <2>3. strand[l][i + 1].op # "last"
    BY <1>1, <2>1 DEF LifeInv, StrandInv
  <2> QED
    BY <1>1, <2>2, <2>3
<1>3. strand[l][1].op = "advise" => stage[l] = "advising"
  BY <1>1 DEF LifeInv, StrandInv
<1>4. strand[l][1].op = "last" => stage[l] = "ending" /\ 1 = Len(strand[l])
  BY <1>1 DEF LifeInv, StrandInv
<1>5. strand[l][1].op = "last" => strand'[l] = <<>>
  <2>1. strand'[l] \in Seq(Jobs)
    BY <1>1
  <2> QED
    BY <1>1, <1>4, <2>1
<1> QED
  BY <1>2, <1>3, <1>4, <1>5

\* An advise whose devices are there posts the only task that its strand
\* waits for; else the call returns.
LEMMA StartAdviseStep ==
  ASSUME LifeInv, NEW l \in Listeners, StartJob(l), StartAdvise(l)
  PROVE  LifeInv'
<1> USE DEF LifeInv
<1>1. /\ strand[l] # <<>> /\ job[l] = Idle /\ strand' = [strand EXCEPT ![l] = Tail(@)]
      /\ updated' = updated /\ listeners' = listeners /\ hmap' = hmap
  BY DEF StartJob
<1>2. /\ strand' \in [Listeners -> Seq(Jobs)]
      /\ \A k \in Listeners : k # l => strand'[k] = strand[k]
      /\ Head(strand[l]) = strand[l][1] /\ strand[l][1] \in Jobs
  BY <1>1, StrandShorter
<1>3. strand[l][1].op = "advise"
  BY <1>2 DEF StartAdvise
<1>4. /\ stage[l] = "advising"
      /\ \A i \in 1 .. Len(strand'[l]) : strand'[l][i].op \notin {"advise", "last"}
  BY <1>1, <1>3, StrandLeft
<1> DEFINE hs == strand[l][1].hs
<1>5. hs \in Lists
  BY <1>2, <1>3, JobFields
<1>6. job[l].at = "idle"
  BY <1>1 DEF Idle
<1>7. \A i \in 1 .. Len(queue) :
        /\ queue[i] \in Tasks /\ (queue[i].op \in Awaited => queue[i].l \in Listeners)
        /\ TaskOf(queue[i]) /\ ~(queue[i].op \in Awaited /\ queue[i].l = l)
  <2> TAKE i \in 1 .. Len(queue)
  <2>1. queue[i] \in Tasks
    BY DEF ServerTypes
  <2>2. TaskOf(queue[i])
    BY DEF QueueInv
  <2>3. ~(queue[i].op \in Awaited /\ queue[i].l = l)
    BY <1>4, <1>6, <2>2 DEF TaskOf, Awaited
  <2> QED
    BY <2>1, <2>2, <2>3, TaskFields
<1>8. \A k \in Listeners : \A i \in 1 .. Len(strand'[k]) : k # l =>
        /\ strand'[k][i].op = "advise" =>
             /\ stage[k] = "advising" /\ job[k].at \notin {"adding", "added"}
             /\ \A n \in 1 .. Len(strand'[k]) : strand'[k][n].op = "advise" => i = n
        /\ strand'[k][i].op = "last" => stage[k] = "ending" /\ i = Len(strand'[k])
  BY <1>2 DEF StrandInv
<1>9. CASE \A h \in ToSet(hs) : Valid(h)
  <2> DEFINE t == [op |-> "add", l |-> l, hs |-> hs]
  <2>1. queue' = Append(queue, t) /\ job' = [job EXCEPT ![l] = [at |-> "adding"]] /\ stage' = stage
    BY <1>2, <1>9 DEF StartAdvise, Does
  <2>2. t \in Tasks /\ t.op = "add" /\ t.l = l /\ queue \in Seq(Tasks)
    BY <1>5, Posted DEF ServerTypes
  <2> HIDE DEF t, hs
  <2>3. /\ queue' \in Seq(Tasks) /\ Len(queue) \in Nat /\ Len(queue') = Len(queue) + 1
        /\ \A i \in 1 .. Len(queue') : queue'[i] = IF i = Len(queue) + 1 THEN t ELSE queue[i]
    BY <2>1, <2>2, AppendAt
  <2>4. /\ DOMAIN job' = Listeners /\ job'[l].at = "adding"
        /\ \A k \in Listeners : k # l => job'[k] = job[k]
    BY <2>1 DEF ServerTypes
  <2>5. \A k \in Listeners : JobTypes(job'[k])
    <3> TAKE k \in Listeners
    <3>1. CASE k = l
      BY <2>4, <3>1 DEF JobTypes
    <3>2. CASE k # l
      BY <2>4, <3>2 DEF ServerTypes
    <3> QED
      BY <3>1, <3>2
  <2>6. ServerTypes'
    BY <1>1, <1>2, <2>1, <2>3, <2>4, <2>5 DEF ServerTypes
  <2>7. QueueInv'
    <3>1. ASSUME NEW i \in 1 .. Len(queue')
          PROVE  TaskOf(queue[i])'
      <4>1. CASE i = Len(queue) + 1
        BY <2>2, <2>3, <2>4, <4>1 DEF TaskOf
      <4>2. CASE i # Len(queue) + 1
        <5>1. i \in 1 .. Len(queue) /\ queue'[i] = queue[i]
          BY <2>3, <4>2
        <5> QED
          BY <1>7, <2>1, <2>4, <5>1 DEF TaskOf, Awaited
      <4> QED
        BY <4>1, <4>2
    <3>2. ASSUME NEW i \in 1 .. Len(queue'), NEW j \in 1 .. Len(queue'),
                 queue'[i].op \in Awaited, queue'[j].op = queue'[i].op, queue'[j].l = queue'[i].l
          PROVE  i = j
      BY <1>7, <2>2, <2>3, <3>2 DEF QueueInv
    <3> QED
      BY <3>1, <3>2 DEF QueueInv
  <2>8. StrandInv'
    BY <1>4, <1>8, <2>1, <2>4 DEF StrandInv
  <2>9. StageInv'
    BY <1>1, <1>4, <2>1, <2>4 DEF StageInv
  <2>10. LastJob'
    BY <1>1, <1>2, <1>4, <2>1, <2>4 DEF LastJob
  <2> QED
    BY <2>6, <2>7, <2>8, <2>9, <2>10
<1>10. CASE ~ \A h \in ToSet(hs) : Valid(h)
  <2>1. queue' = queue /\ job' = job /\ stage' = [stage EXCEPT ![l] = "ready"]
    BY <1>2, <1>10 DEF StartAdvise, Stage
  <2>2. /\ stage' \in [Listeners -> {"absent", "activating", "ready", "advising", "releasing",
                                     "removing", "removed", "ending", "gone"}]
        /\ \A k \in Listeners : stage'[k] = IF k = l THEN "ready" ELSE stage[k]
    BY <2>1 DEF ServerTypes
  <2>3. ServerTypes'
    BY <1>1, <1>2, <2>1, <2>2 DEF ServerTypes
  <2>4. QueueInv'
    <3>1. \A i \in 1 .. Len(queue) : TaskOf(queue[i])'
      BY <1>7, <2>1, <2>2 DEF TaskOf, Awaited
    <3> QED
      BY <2>1, <3>1 DEF QueueInv
  <2>5. StrandInv'
    BY <1>4, <1>8, <2>1, <2>2 DEF StrandInv
  <2>6. StageInv'
    BY <1>1, <1>6, <2>1, <2>2 DEF StageInv
  <2>7. LastJob'
    BY <1>1, <1>2, <2>1, <2>2 DEF LastJob
  <2> QED
    BY <2>3, <2>4, <2>5, <2>6, <2>7
<1> QED
  BY <1>9, <1>10

\* A process_registers starts.
LEMMA StartProcessStep ==
  ASSUME LifeInv, NEW l \in Listeners, StartJob(l), StartProcess(l)
  PROVE  LifeInv'
<1> USE DEF LifeInv
<1>1. /\ strand[l] # <<>> /\ job[l] = Idle /\ strand' = [strand EXCEPT ![l] = Tail(@)]
      /\ updated' = updated /\ listeners' = listeners /\ hmap' = hmap
  BY DEF StartJob
<1>2. /\ strand' \in [Listeners -> Seq(Jobs)]
      /\ \A k \in Listeners : k # l => strand'[k] = strand[k]
      /\ Head(strand[l]) = strand[l][1] /\ strand[l][1] \in Jobs
      /\ \A i \in 1 .. Len(strand'[l]) :
           /\ i + 1 \in 1 .. Len(strand[l]) /\ strand'[l][i] = strand[l][i + 1]
           /\ i + 1 = Len(strand[l]) => i = Len(strand'[l])
  BY <1>1, StrandShorter
<1>3. queue' = queue /\ stage' = stage
  BY DEF StartProcess
<1> DEFINE j == [at |-> "reading", registers |-> strand[l][1].registers]
<1>4. strand[l][1].op = "process" /\ job' = [job EXCEPT ![l] = j]
  BY <1>2 DEF StartProcess, Does
<1>5. JobTypes(j) /\ j.at = "reading"
  BY <1>2, <1>4, JobFields DEF JobTypes
<1> HIDE DEF j
<1>6. DOMAIN job' = Listeners /\ job'[l] = j /\ \A k \in Listeners : k # l => job'[k] = job[k]
  BY <1>4 DEF ServerTypes
<1>7. job[l].at = "idle"
  BY <1>1 DEF Idle
<1>8. ServerTypes'
  <2>1. \A k \in Listeners : JobTypes(job'[k])
    BY <1>5, <1>6 DEF ServerTypes
  <2> QED
    BY <1>1, <1>2, <1>3, <1>6, <2>1 DEF ServerTypes
<1>9. QueueInv'
  <2>1. ASSUME NEW i \in 1 .. Len(queue)
        PROVE  TaskOf(queue[i])'
    <3>1. queue[i] \in Tasks /\ TaskOf(queue[i])
      BY DEF ServerTypes, QueueInv
    <3>2. queue[i].op = "add" => queue[i].l \in Listeners /\ queue[i].l # l
      BY <1>7, <3>1, TaskFields DEF TaskOf, Awaited
    <3> QED
      BY <1>3, <1>6, <3>1, <3>2 DEF TaskOf
  <2> QED
    BY <1>3, <2>1 DEF QueueInv
<1>10. StrandInv'
  <2> SUFFICES ASSUME NEW k \in Listeners, NEW i \in 1 .. Len(strand'[k])
               PROVE  /\ strand'[k][i].op = "advise" =>
                           /\ stage'[k] = "advising" /\ job'[k].at \notin {"adding", "added"}
                           /\ \A n \in 1 .. Len(strand'[k]) : strand'[k][n].op = "advise" => i = n
                      /\ strand'[k][i].op = "last" => stage'[k] = "ending" /\ i = Len(strand'[k])
    BY DEF StrandInv
  <2>1. CASE k # l
    BY <1>2, <1>3, <1>6, <2>1 DEF StrandInv
  <2>2. CASE k = l
    <3>1. i + 1 \in 1 .. Len(strand[l]) /\ strand'[l][i] = strand[l][i + 1]
      BY <1>2, <2>2
    <3>2. ASSUME strand'[l][i].op = "advise"
          PROVE  /\ stage[l] = "advising"
                 /\ \A n \in 1 .. Len(strand'[l]) : strand'[l][n].op = "advise" => i = n
      <4>1. /\ stage[l] = "advising"
            /\ \A n \in 1 .. Len(strand[l]) : strand[l][n].op = "advise" => i + 1 = n
        BY <3>1, <3>2 DEF StrandInv
      <4>2. ASSUME NEW n \in 1 .. Len(strand'[l]), strand'[l][n].op = "advise"
            PROVE  i = n
        <5>1. i + 1 = n + 1
          BY <1>2, <4>1, <4>2
        <5>2. i \in Int /\ n \in Int
          OBVIOUS
        <5> QED
          BY <5>1, <5>2
      <4> QED
        BY <4>1, <4>2
    <3>3. strand'[l][i].op = "last" => stage[l] = "ending" /\ i = Len(strand'[l])
      BY <1>2, <2>2, <3>1 DEF StrandInv
    <3> QED
      BY <1>3, <1>5, <1>6, <2>2, <3>2, <3>3
  <2> QED
    BY <2>1, <2>2
<1>11. StageInv'
  BY <1>1, <1>3, <1>5, <1>6 DEF StageInv
<1>12. LastJob'
  BY <1>1, <1>2, <1>3, <1>6 DEF LastJob
<1> QED
  BY <1>8, <1>9, <1>10, <1>11, <1>12

\* `delete this` is the last job of its strand.
LEMMA StartLastStep ==
  ASSUME LifeInv, NEW l \in Listeners, StartJob(l), StartLast(l)
  PROVE  LifeInv'
<1> USE DEF LifeInv
<1>1. /\ strand[l] # <<>> /\ job[l] = Idle /\ strand' = [strand EXCEPT ![l] = Tail(@)]
      /\ updated' = updated /\ listeners' = listeners /\ hmap' = hmap
  BY DEF StartJob
<1>2. /\ strand' \in [Listeners -> Seq(Jobs)]
      /\ \A k \in Listeners : k # l => strand'[k] = strand[k]
      /\ Head(strand[l]) = strand[l][1]
  BY <1>1, StrandShorter
<1>3. strand[l][1].op = "last" /\ queue' = queue /\ job' = job
  BY <1>2 DEF StartLast
<1>4. stage[l] = "ending" /\ strand'[l] = <<>>
  BY <1>1, <1>3, StrandLeft
<1>5. /\ stage' \in [Listeners -> {"absent", "activating", "ready", "advising", "releasing",
                                   "removing", "removed", "ending", "gone"}]
      /\ \A k \in Listeners : stage'[k] = IF k = l THEN "gone" ELSE stage[k]
  BY DEF StartLast, Stage, ServerTypes
<1>6. ServerTypes'
  BY <1>1, <1>2, <1>3, <1>5 DEF ServerTypes
<1>7. QueueInv'
  <2>1. \A i \in 1 .. Len(queue) :
          queue[i] \in Tasks /\ (queue[i].op \in Awaited => queue[i].l \in Listeners)
    BY TaskFields DEF ServerTypes
  <2>2. \A i \in 1 .. Len(queue) : TaskOf(queue[i])'
    BY <1>3, <1>4, <1>5, <2>1 DEF TaskOf, Awaited, QueueInv
  <2> QED
    BY <1>3, <2>2 DEF QueueInv
<1>8. StrandInv'
  <2>1. \A i \in 1 .. Len(strand'[l]) : FALSE
    BY <1>4
  <2> QED
    BY <1>2, <1>3, <1>5, <2>1 DEF StrandInv
<1>9. StageInv'
  BY <1>1, <1>3, <1>4, <1>5 DEF StageInv, Idle
<1>10. LastJob'
  <2>1. l \notin listeners
    BY <1>4 DEF StageInv
  <2> QED
    BY <1>1, <1>2, <1>3, <1>4, <1>5, <2>1 DEF LastJob
<1> QED
  BY <1>6, <1>7, <1>8, <1>9, <1>10

\* An advise returns: its handles are kept, and its client may call again.
LEMMA FinishAdviseStep ==
  ASSUME LifeInv, NEW l \in Listeners, FinishAdvise(l)
  PROVE  LifeInv'
<1> USE DEF LifeInv
<1> DEFINE hs == job[l].hs
           ptrs == job[l].ptrs
           now == SendsNow(ptrs)
           j == [op |-> "process", registers |-> now]
<1>1. /\ job[l].at = "added"
      /\ queue' = queue /\ updated' = updated /\ listeners' = listeners
      /\ job' = [job EXCEPT ![l] = Idle] /\ stage' = [stage EXCEPT ![l] = "ready"]
  BY DEF FinishAdvise, Does, Stage, worker
<1>2. /\ stage' \in [Listeners -> {"absent", "activating", "ready", "advising", "releasing",
                                   "removing", "removed", "ending", "gone"}]
      /\ \A k \in Listeners : stage'[k] = IF k = l THEN "ready" ELSE stage[k]
  BY <1>1 DEF ServerTypes
<1>3. stage[l] = "advising" /\ hs \in Lists
  <2>1. job[l].at # "idle" /\ JobTypes(job[l])
    BY <1>1 DEF ServerTypes
  <2> QED
    BY <1>1, <2>1 DEF StageInv, JobTypes, Idle
<1>4. \A i \in 1 .. Len(strand[l]) : strand[l][i].op \notin {"advise", "last"}
  BY <1>1, <1>3 DEF StrandInv
<1>5. strand[l] \in Seq(Jobs) /\ j \in Jobs /\ j.op = "process"
  <2>1. now \subseteq Places
    BY DEF SendsNow
  <2> QED
    BY <2>1, Posted DEF ServerTypes
<1>6. /\ hmap' = [hmap EXCEPT ![l] = [p \in Places |-> @[p] \o Picked(hs, {i \in DOMAIN hs : ptrs[i] = p})]]
      /\ strand' = [strand EXCEPT ![l] = IF now = {} THEN @ ELSE Append(@, j)]
  BY DEF FinishAdvise
<1>7. hmap' \in [Listeners -> [Places -> Seq(Handles)]]
  <2>1. hs \in Seq(Handles) /\ DOMAIN hs = 1 .. Len(hs)
    BY <1>3, ServerAssumption
  <2> HIDE DEF hs, ptrs
  <2>2. \A p \in Places : Picked(hs, {i \in DOMAIN hs : ptrs[i] = p}) \in Seq(Handles)
    <3> TAKE p \in Places
    <3>1. {i \in DOMAIN hs : ptrs[i] = p} \in SUBSET (1 .. Len(hs))
      BY <2>1
    <3> QED
      BY <2>1, <3>1, PickedElements
  <2>3. \A p \in Places :
          hmap[l][p] \o Picked(hs, {i \in DOMAIN hs : ptrs[i] = p}) \in Seq(Handles)
    BY <2>2 DEF ServerTypes
  <2> QED
    BY <1>6, <2>3 DEF ServerTypes
<1> HIDE DEF hs, ptrs, now, j
<1>8. /\ strand' \in [Listeners -> Seq(Jobs)]
      /\ \A k \in Listeners : k # l => strand'[k] = strand[k]
      /\ \A i \in 1 .. Len(strand'[l]) : strand'[l][i].op \notin {"advise", "last"}
  <2>1. strand'[l] = IF now = {} THEN strand[l] ELSE Append(strand[l], j)
    BY <1>6 DEF ServerTypes
  <2>2. /\ Append(strand[l], j) \in Seq(Jobs) /\ Len(strand[l]) \in Nat
        /\ Len(Append(strand[l], j)) = Len(strand[l]) + 1
        /\ \A i \in 1 .. Len(strand[l]) + 1 :
             Append(strand[l], j)[i] = IF i = Len(strand[l]) + 1 THEN j ELSE strand[l][i]
    BY <1>5, AppendAt
  <2>3. \A i \in 1 .. Len(strand[l]) + 1 :
          Append(strand[l], j)[i].op \notin {"advise", "last"}
    BY <1>4, <1>5, <2>2
  <2>4. strand'[l] \in Seq(Jobs)
    BY <1>5, <2>1, <2>2
  <2>5. \A i \in 1 .. Len(strand'[l]) : strand'[l][i].op \notin {"advise", "last"}
    BY <1>4, <2>1, <2>2, <2>3
  <2> QED
    BY <1>6, <2>4, <2>5 DEF ServerTypes
<1>9. DOMAIN job' = Listeners /\ job'[l] = Idle /\ \A k \in Listeners : k # l => job'[k] = job[k]
  BY <1>1 DEF ServerTypes
<1>10. ServerTypes'
  <2>1. \A k \in Listeners : JobTypes(job'[k])
    BY <1>9 DEF ServerTypes, JobTypes
  <2> QED
    BY <1>1, <1>2, <1>7, <1>8, <1>9, <2>1 DEF ServerTypes
<1>11. QueueInv'
  <2>1. ASSUME NEW i \in 1 .. Len(queue)
        PROVE  TaskOf(queue[i])'
    <3>1. queue[i] \in Tasks /\ TaskOf(queue[i])
      BY DEF ServerTypes, QueueInv
    <3>2. queue[i].op \in Awaited => queue[i].l \in Listeners /\ queue[i].l # l
      BY <1>1, <1>3, <3>1, TaskFields DEF TaskOf, Awaited
    <3> QED
      BY <1>1, <1>2, <1>9, <3>1, <3>2 DEF TaskOf, Awaited
  <2> QED
    BY <1>1, <2>1 DEF QueueInv
<1>12. StrandInv'
  BY <1>2, <1>8, <1>9 DEF StrandInv
<1>13. StageInv'
  BY <1>1, <1>2, <1>3, <1>9 DEF StageInv, Idle
<1>14. LastJob'
  BY <1>1, <1>2, <1>8, <1>9 DEF LastJob
<1> QED
  BY <1>10, <1>11, <1>12, <1>13, <1>14

\* A job that read the registers, or was sent, only comes to its own end.
LEMMA JobEnds ==
  ASSUME LifeInv, NEW l \in Listeners, NEW j, JobTypes(j), j.at \in {"idle", "sending"},
         job[l].at \in {"reading", "sending"}, job' = [job EXCEPT ![l] = j],
         UNCHANGED <<queue, updated, listeners, strand, hmap, stage>>
  PROVE  LifeInv'
<1> USE DEF LifeInv
<1>1. DOMAIN job' = Listeners /\ job'[l] = j /\ \A k \in Listeners : k # l => job'[k] = job[k]
  BY DEF ServerTypes
<1>2. ServerTypes'
  <2>1. \A k \in Listeners : JobTypes(job'[k])
    BY <1>1 DEF ServerTypes
  <2> QED
    BY <1>1, <2>1 DEF ServerTypes
<1>3. QueueInv'
  <2>1. ASSUME NEW i \in 1 .. Len(queue)
        PROVE  TaskOf(queue[i])'
    <3>1. queue[i] \in Tasks /\ TaskOf(queue[i])
      BY DEF ServerTypes, QueueInv
    <3>2. queue[i].op = "add" => queue[i].l \in Listeners /\ queue[i].l # l
      BY <3>1, TaskFields DEF TaskOf, Awaited
    <3> QED
      BY <1>1, <3>1, <3>2 DEF TaskOf
  <2> QED
    BY <2>1 DEF QueueInv
<1>4. StrandInv'
  BY <1>1 DEF StrandInv
<1>5. StageInv'
  BY <1>1 DEF StageInv
<1>6. LastJob'
  BY <1>1 DEF LastJob, Idle
<1> QED
  BY <1>2, <1>3, <1>4, <1>5, <1>6

\* process_registers.
LEMMA SendingStep ==
  ASSUME LifeInv, NEW l \in Listeners, ReadRegisters(l) \/ SendDone(l) \/ SendFails(l)
  PROVE  LifeInv'
<1>1. CASE ReadRegisters(l)
  <2>1. PICK values : values = UNION {{<<h, Told(p)>> : h \in ToSet(hmap[l][p])} : p \in job[l].registers}
    OBVIOUS
  <2> DEFINE j == IF values = {} \/ Deleted(l) THEN Idle ELSE [at |-> "sending", values |-> values]
  <2>2. job' = [job EXCEPT ![l] = j]
    BY <1>1, <2>1 DEF ReadRegisters, Does
  <2>3. JobTypes(j) /\ j.at \in {"idle", "sending"}
    BY DEF JobTypes, Idle
  <2>4. job[l].at \in {"reading", "sending"}
        /\ UNCHANGED <<queue, updated, listeners, strand, hmap, stage>>
    BY <1>1 DEF ReadRegisters, worker, client
  <2> HIDE DEF j
  <2> QED
    BY <2>2, <2>3, <2>4, JobEnds
<1>2. CASE SendDone(l) \/ SendFails(l)
  <2>1. job' = [job EXCEPT ![l] = Idle]
    BY <1>2 DEF SendDone, SendFails, Does
  <2>2. JobTypes(Idle) /\ Idle.at \in {"idle", "sending"}
    BY DEF JobTypes, Idle
  <2>3. job[l].at \in {"reading", "sending"}
        /\ UNCHANGED <<queue, updated, listeners, strand, hmap, stage>>
    BY <1>2 DEF SendDone, SendFails, worker
  <2> QED
    BY <2>1, <2>2, <2>3, JobEnds
<1> QED
  BY <1>1, <1>2

-----------------------------------------------------------------------------
(* The worker.                                                              *)

\* What is left of the queue when its first task is taken, and that nobody
\* else waits for what this task does.
LEMMA QueueShorter ==
  ASSUME LifeInv, TakeTask
  PROVE  /\ queue' \in Seq(Tasks) /\ Head(queue) \in Tasks /\ TaskOf(Head(queue))
         /\ \A i \in 1 .. Len(queue') : queue'[i] \in Tasks /\ TaskOf(queue'[i])
         /\ \A i \in 1 .. Len(queue') : Head(queue).op \in Awaited =>
              ~(queue'[i].op = Head(queue).op /\ queue'[i].l = Head(queue).l)
         /\ \A i, j \in 1 .. Len(queue') :
              queue'[i].op \in Awaited /\ queue'[j].op = queue'[i].op /\ queue'[j].l = queue'[i].l => i = j
<1> USE DEF LifeInv
<1> DEFINE s == queue
<1>1. queue \in Seq(Tasks) /\ queue # <<>> /\ queue' = Tail(queue)
  BY DEF TakeTask, ServerTypes
<1>2. /\ Tail(s) \in Seq(Tasks) /\ Head(s) = s[1] /\ s[1] \in Tasks
      /\ Len(s) \in Nat /\ 1 \in 1 .. Len(s) /\ Len(Tail(s)) = Len(s) - 1
      /\ \A i \in 1 .. Len(s) - 1 : i + 1 \in 1 .. Len(s) /\ Tail(s)[i] = s[i + 1]
  BY <1>1, TailAt
<1>3. TaskOf(Head(queue))
  BY <1>2 DEF QueueInv
<1>4. \A i \in 1 .. Len(queue') :
        i + 1 \in 1 .. Len(queue) /\ queue'[i] = queue[i + 1] /\ i \in Int /\ i + 1 # 1
  BY <1>1, <1>2
<1>5. \A i \in 1 .. Len(queue') : queue'[i] \in Tasks /\ TaskOf(queue'[i])
  <2> TAKE i \in 1 .. Len(queue')
  <2>1. queue[i + 1] \in Tasks /\ TaskOf(queue[i + 1])
    BY <1>1, <1>4 DEF QueueInv
  <2> QED
    BY <1>4, <2>1
<1>6. ASSUME NEW i \in 1 .. Len(queue'), Head(queue).op \in Awaited,
             queue'[i].op = Head(queue).op, queue'[i].l = Head(queue).l
      PROVE  FALSE
  BY <1>2, <1>4, <1>6 DEF QueueInv
<1>7. ASSUME NEW i \in 1 .. Len(queue'), NEW j \in 1 .. Len(queue'),
             queue'[i].op \in Awaited, queue'[j].op = queue'[i].op, queue'[j].l = queue'[i].l
      PROVE  i = j
  <2>1. i + 1 = j + 1
    BY <1>4, <1>7 DEF QueueInv
  <2> QED
    BY <1>4, <2>1
<1> QED
  BY <1>1, <1>2, <1>3, <1>5, <1>6, <1>7

\* A task of the worker.
LEMMA DoTaskStep ==
  ASSUME LifeInv, DoTask
  PROVE  LifeInv'
<1> USE DEF LifeInv
<1> DEFINE t == Head(queue)
<1>1. TakeTask /\ updated' = updated /\ strand' = strand /\ hmap' = hmap
  BY DEF DoTask
<1>2. /\ queue' \in Seq(Tasks) /\ t \in Tasks /\ TaskOf(t)
      /\ \A i \in 1 .. Len(queue') : queue'[i] \in Tasks /\ TaskOf(queue'[i])
      /\ \A i \in 1 .. Len(queue') : t.op \in Awaited =>
           ~(queue'[i].op = t.op /\ queue'[i].l = t.l)
      /\ \A i, j \in 1 .. Len(queue') :
           queue'[i].op \in Awaited /\ queue'[j].op = queue'[i].op /\ queue'[j].l = queue'[i].l => i = j
  BY <1>1, QueueShorter
<1>3. DoAdd(t) \/ DoRelease(t) \/ DoAddListener(t) \/ DoRemoveListener(t) \/ DoRemoveDevice(t)
  BY DEF DoTask
<1> HIDE DEF t
<1>4. \A i \in 1 .. Len(queue') : queue'[i].op \in Awaited => queue'[i].l \in Listeners
  BY <1>2, TaskFields
<1>5. CASE DoAdd(t)
  <2>1. t.op = "add" /\ listeners' = listeners /\ stage' = stage
    BY <1>5 DEF DoAdd
  <2>2. PICK ptrs : ptrs = [i \in DOMAIN t.hs |-> PlaceOf(table', t.hs[i])]
    OBVIOUS
  <2> DEFINE j == [at |-> "added", hs |-> t.hs, ptrs |-> ptrs]
  <2>3. job' = [job EXCEPT ![t.l] = j]
    BY <1>5, <2>2 DEF DoAdd, Does
  <2>4. t.l \in Listeners /\ t.hs \in Lists /\ job[t.l].at = "adding"
    BY <1>2, <2>1, TaskFields DEF TaskOf, Awaited
  <2>5. JobTypes(j) /\ j.at = "added"
    BY <2>4 DEF JobTypes
  <2> HIDE DEF j
  <2>6. /\ DOMAIN job' = Listeners /\ job'[t.l] = j
        /\ \A k \in Listeners : k # t.l => job'[k] = job[k]
    BY <2>3, <2>4 DEF ServerTypes
  <2>7. ServerTypes'
    <3>1. \A k \in Listeners : JobTypes(job'[k])
      BY <2>5, <2>6 DEF ServerTypes
    <3> QED
      BY <1>1, <1>2, <2>1, <2>6, <3>1 DEF ServerTypes
  <2>8. QueueInv'
    <3>1. ASSUME NEW i \in 1 .. Len(queue')
          PROVE  TaskOf(queue[i])'
      <4>1. queue'[i].op = "add" => queue'[i].l \in Listeners /\ queue'[i].l # t.l
        BY <1>2, <1>4, <2>1 DEF Awaited
      <4>2. TaskOf(queue'[i])
        BY <1>2
      <4> QED
        BY <2>1, <2>6, <4>1, <4>2 DEF TaskOf
    <3> QED
      BY <1>2, <3>1 DEF QueueInv
  <2>9. StrandInv'
    <3>1. \A i \in 1 .. Len(strand[t.l]) : strand[t.l][i].op # "advise"
      BY <2>4 DEF StrandInv
    <3> QED
      BY <1>1, <2>1, <2>6, <3>1 DEF StrandInv
  <2>10. StageInv'
    BY <2>1, <2>4, <2>6 DEF StageInv
  <2>11. LastJob'
    BY <1>1, <2>1, <2>4, <2>6 DEF LastJob, Idle
  <2> QED
    BY <2>7, <2>8, <2>9, <2>10, <2>11
<1>6. CASE DoRelease(t) \/ DoRemoveDevice(t)
  <2>1. listeners' = listeners /\ stage' = stage /\ job' = job
    BY <1>6 DEF DoRelease, DoRemoveDevice
  <2>2. QueueInv'
    <3>1. \A i \in 1 .. Len(queue') : TaskOf(queue[i])'
      BY <1>2, <2>1 DEF TaskOf
    <3> QED
      BY <1>2, <3>1 DEF QueueInv
  <2>3. ServerTypes'
    BY <1>1, <1>2, <2>1 DEF ServerTypes
  <2>4. StrandInv' /\ StageInv'
    BY <1>1, <2>1 DEF StrandInv, StageInv
  <2>5. LastJob'
    BY <1>1, <2>1 DEF LastJob
  <2> QED
    BY <2>2, <2>3, <2>4, <2>5
<1>7. CASE DoAddListener(t)
  <2>1. /\ t.op = "add_listener" /\ listeners' = listeners \cup {t.l} /\ job' = job
        /\ stage' = [stage EXCEPT ![t.l] = "ready"]
    BY <1>7 DEF DoAddListener, Stage
  <2>2. t.l \in Listeners /\ stage[t.l] = "activating"
    BY <1>2, <2>1, TaskFields DEF TaskOf, Awaited
  <2>3. /\ stage' \in [Listeners -> {"absent", "activating", "ready", "advising", "releasing",
                                     "removing", "removed", "ending", "gone"}]
        /\ \A k \in Listeners : stage'[k] = IF k = t.l THEN "ready" ELSE stage[k]
    BY <2>1, <2>2 DEF ServerTypes
  <2>4. ServerTypes'
    BY <1>1, <1>2, <2>1, <2>2, <2>3 DEF ServerTypes
  <2>5. QueueInv'
    <3>1. ASSUME NEW i \in 1 .. Len(queue')
          PROVE  TaskOf(queue[i])'
      <4>1. queue'[i].op \in Awaited /\ queue'[i].l = t.l =>
              queue'[i].op # "add_listener" /\ queue'[i].op # "remove_listener"
        BY <1>2, <2>1, <2>2 DEF Awaited, TaskOf
      <4>2. TaskOf(queue'[i])
        BY <1>2
      <4> QED
        BY <1>4, <2>1, <2>3, <4>1, <4>2 DEF TaskOf, Awaited
    <3> QED
      BY <1>2, <3>1 DEF QueueInv
  <2>6. StrandInv'
    BY <1>1, <2>1, <2>2, <2>3 DEF StrandInv
  <2>7. StageInv'
    BY <2>1, <2>2, <2>3 DEF StageInv
  <2>8. LastJob'
    BY <1>1, <2>1, <2>2, <2>3 DEF LastJob
  <2> QED
    BY <2>4, <2>5, <2>6, <2>7, <2>8
<1>8. CASE DoRemoveListener(t)
  <2>1. /\ t.op = "remove_listener" /\ listeners' = listeners \ {t.l} /\ job' = job
        /\ stage' = [stage EXCEPT ![t.l] = "removed"]
    BY <1>8 DEF DoRemoveListener, Stage
  <2>2. t.l \in Listeners /\ stage[t.l] = "removing"
    BY <1>2, <2>1, TaskFields DEF TaskOf, Awaited
  <2>3. /\ stage' \in [Listeners -> {"absent", "activating", "ready", "advising", "releasing",
                                     "removing", "removed", "ending", "gone"}]
        /\ \A k \in Listeners : stage'[k] = IF k = t.l THEN "removed" ELSE stage[k]
    BY <2>1, <2>2 DEF ServerTypes
  <2>4. ServerTypes'
    BY <1>1, <1>2, <2>1, <2>2, <2>3 DEF ServerTypes
  <2>5. QueueInv'
    <3>1. ASSUME NEW i \in 1 .. Len(queue')
          PROVE  TaskOf(queue[i])'
      <4>1. queue'[i].op \in Awaited /\ queue'[i].l = t.l =>
              queue'[i].op # "add_listener" /\ queue'[i].op # "remove_listener"
        BY <1>2, <2>1, <2>2 DEF Awaited, TaskOf
      <4>2. TaskOf(queue'[i])
        BY <1>2
      <4> QED
        BY <1>4, <2>1, <2>3, <4>1, <4>2 DEF TaskOf, Awaited
    <3> QED
      BY <1>2, <3>1 DEF QueueInv
  <2>6. StrandInv'
    BY <1>1, <2>1, <2>2, <2>3 DEF StrandInv
  <2>7. StageInv'
    BY <2>1, <2>2, <2>3 DEF StageInv
  <2>8. LastJob'
    BY <1>1, <2>1, <2>2, <2>3 DEF LastJob
  <2> QED
    BY <2>4, <2>5, <2>6, <2>7, <2>8
<1> QED
  BY <1>3, <1>5, <1>6, <1>7, <1>8

\* A poll changes the table only.
LEMMA PollStep ==
  ASSUME LifeInv, Poll
  PROVE  LifeInv'
<1>1. UNCHANGED <<queue, listeners, strand, job, hmap, stage>>
  BY DEF Poll, client
<1>2. updated' \subseteq Places
  BY DEF Poll, Updated
<1>3. ServerTypes'
  BY <1>1, <1>2 DEF LifeInv, ServerTypes
<1>4. \A i \in 1 .. Len(queue) : TaskOf(queue[i])'
  BY <1>1 DEF LifeInv, QueueInv, TaskOf
<1> QED
  BY <1>1, <1>3, <1>4 DEF LifeInv, QueueInv, StrandInv, StageInv, LastJob

\* What changed is posted to the listeners that are not deleted.
LEMMA NotifyStep ==
  ASSUME LifeInv, Notify
  PROVE  LifeInv'
<1> USE DEF LifeInv
<1> DEFINE j == [op |-> "process", registers |-> updated]
<1>1. UNCHANGED <<queue, listeners, job, hmap, stage>> /\ updated' = {}
  BY DEF Notify, client
<1>2. j \in Jobs /\ j.op = "process"
  BY Posted DEF ServerTypes
<1>3. strand' = [l \in Listeners |-> IF l \in listeners THEN Append(strand[l], j) ELSE strand[l]]
  BY DEF Notify
<1> HIDE DEF j
<1>4. \A l \in Listeners :
        /\ strand[l] \in Seq(Jobs)
        /\ Append(strand[l], j) \in Seq(Jobs) /\ Len(strand[l]) \in Nat
        /\ Len(Append(strand[l], j)) = Len(strand[l]) + 1
        /\ \A i \in 1 .. Len(strand[l]) + 1 :
             Append(strand[l], j)[i] = IF i = Len(strand[l]) + 1 THEN j ELSE strand[l][i]
  <2> TAKE l \in Listeners
  <2>1. strand[l] \in Seq(Jobs)
    BY DEF ServerTypes
  <2> QED
    BY <1>2, <2>1, AppendAt
<1>5. ServerTypes'
  BY <1>1, <1>3, <1>4 DEF ServerTypes
<1>6. \A i \in 1 .. Len(queue) : TaskOf(queue[i])'
  BY <1>1 DEF QueueInv, TaskOf
<1>7. QueueInv'
  BY <1>1, <1>6 DEF QueueInv
<1>8. StrandInv'
  <2> SUFFICES ASSUME NEW k \in Listeners, NEW i \in 1 .. Len(strand'[k])
               PROVE  /\ strand'[k][i].op = "advise" =>
                           /\ stage'[k] = "advising" /\ job'[k].at \notin {"adding", "added"}
                           /\ \A n \in 1 .. Len(strand'[k]) : strand'[k][n].op = "advise" => i = n
                      /\ strand'[k][i].op = "last" => stage'[k] = "ending" /\ i = Len(strand'[k])
    BY DEF StrandInv
  <2>1. CASE k \notin listeners
    BY <1>1, <1>3, <2>1 DEF StrandInv
  <2>2. CASE k \in listeners
    <3>1. stage[k] # "ending"
      BY <2>2 DEF StageInv
    <3>2. strand'[k] = Append(strand[k], j)
      BY <1>3, <2>2
    <3>3. \A n \in 1 .. Len(strand'[k]) :
            strand'[k][n].op \in {"advise", "last"} => n \in 1 .. Len(strand[k]) /\ strand'[k][n] = strand[k][n]
      BY <1>2, <1>4, <3>2
    <3> QED
      BY <1>1, <3>1, <3>3 DEF StrandInv
  <2> QED
    BY <2>1, <2>2
<1>9. StageInv'
  BY <1>1 DEF StageInv
<1>10. LastJob'
  BY <1>1, <1>3 DEF LastJob
<1> QED
  BY <1>5, <1>7, <1>8, <1>9, <1>10

-----------------------------------------------------------------------------
(* Devices come and go.                                                     *)

\* Deactivating a device posts a task that no listener waits for.
LEMMA DeviceStep ==
  ASSUME LifeInv, DeactivateDevice \/ EndDeactivation \/ ActivateDevice, bridges \subseteq Devices
  PROVE  LifeInv'
<1> USE DEF LifeInv
<1>1. UNCHANGED <<updated, listeners, strand, job, hmap, stage>>
  BY DEF DeactivateDevice, EndDeactivation, ActivateDevice, client, worker
<1>2. CASE queue' = queue
  <2>1. \A i \in 1 .. Len(queue) : TaskOf(queue[i])'
    BY <1>1, <1>2 DEF QueueInv, TaskOf
  <2> QED
    BY <1>1, <1>2, <2>1 DEF ServerTypes, QueueInv, StrandInv, StageInv, LastJob
<1>3. CASE DeactivateDevice
  <2>1. PICK d \in bridges : queue' = Append(queue, [op |-> "remove_device", dev_addr |-> d])
    BY <1>3 DEF DeactivateDevice
  <2> DEFINE t == [op |-> "remove_device", dev_addr |-> d]
  <2>2. t \in Tasks /\ t.op = "remove_device" /\ queue \in Seq(Tasks)
    BY Posted DEF ServerTypes
  <2> HIDE DEF t
  <2>3. /\ queue' \in Seq(Tasks) /\ Len(queue) \in Nat /\ Len(queue') = Len(queue) + 1
        /\ \A i \in 1 .. Len(queue') : queue'[i] = IF i = Len(queue) + 1 THEN t ELSE queue[i]
    BY <2>1, <2>2, AppendAt DEF t
  <2>4. QueueInv'
    <3>1. ASSUME NEW i \in 1 .. Len(queue')
          PROVE  TaskOf(queue[i])'
      BY <1>1, <2>2, <2>3 DEF TaskOf, QueueInv
    <3>2. ASSUME NEW i \in 1 .. Len(queue'), NEW j \in 1 .. Len(queue'),
                 queue'[i].op \in Awaited, queue'[j].op = queue'[i].op, queue'[j].l = queue'[i].l
          PROVE  i = j
      BY <2>2, <2>3, <3>2 DEF QueueInv, Awaited
    <3> QED
      BY <3>1, <3>2 DEF QueueInv
  <2> QED
    BY <1>1, <2>3, <2>4 DEF ServerTypes, StrandInv, StageInv, LastJob
<1> QED
  BY <1>2, <1>3 DEF EndDeactivation, ActivateDevice, worker

-----------------------------------------------------------------------------
(* Every step.                                                              *)
Inv == LifeInv /\ bridges \subseteq Devices

\* Only devices that there are have a bridge.
LEMMA BridgesStep ==
  ASSUME bridges \subseteq Devices, [Next]_vars
  PROVE  bridges' \subseteq Devices
<1>1. CASE UNCHANGED vars
  BY <1>1 DEF vars, devices
<1>2. CASE \E l \in Listeners : ListenerStep(l)
  BY <1>2 DEF ListenerStep, Activate, Advise, Destroy, ReleaseAll, PostLast, StartJob, FinishAdvise,
              ReadRegisters, SendDone, SendFails, devices
<1>3. CASE DoTask \/ Poll \/ Notify
  BY <1>3 DEF DoTask, Poll, Notify, devices
<1>4. CASE DeactivateDevice \/ EndDeactivation \/ ActivateDevice
  BY <1>4 DEF DeactivateDevice, EndDeactivation, ActivateDevice
<1> QED
  BY <1>1, <1>2, <1>3, <1>4 DEF Next

\* Every step keeps the invariant.
LEMMA LifeStep == LifeInv /\ bridges \subseteq Devices /\ [Next]_vars => LifeInv'
<1> SUFFICES ASSUME LifeInv, bridges \subseteq Devices, [Next]_vars
             PROVE  LifeInv'
  OBVIOUS
<1>1. CASE UNCHANGED vars
  <2>1. UNCHANGED <<queue, updated, listeners, strand, job, hmap, stage>>
    BY <1>1 DEF vars, worker, client
  <2>2. \A i \in 1 .. Len(queue) : TaskOf(queue[i])'
    BY <2>1 DEF LifeInv, QueueInv, TaskOf
  <2>3. ServerTypes'
    BY <2>1 DEF LifeInv, ServerTypes
  <2>4. QueueInv'
    BY <2>1, <2>2 DEF LifeInv, QueueInv
  <2>5. StrandInv' /\ StageInv' /\ LastJob'
    BY <2>1 DEF LifeInv, StrandInv, StageInv, LastJob
  <2> QED
    BY <2>3, <2>4, <2>5 DEF LifeInv
<1>2. ASSUME NEW l \in Listeners, ListenerStep(l)
      PROVE  LifeInv'
  <2>1. CASE Activate(l)
    BY <2>1, ActivateStep
  <2>2. CASE Advise(l)
    BY <2>2, AdviseStep
  <2>3. CASE Destroy(l)
    BY <2>3, DestroyStep
  <2>4. CASE ReleaseAll(l)
    BY <2>4, ReleaseAllStep
  <2>5. CASE PostLast(l)
    BY <2>5, PostLastStep
  <2>6. CASE StartJob(l)
    <3>1. StartAdvise(l) \/ StartProcess(l) \/ StartLast(l)
      BY <2>6 DEF StartJob
    <3> QED
      BY <2>6, <3>1, StartAdviseStep, StartProcessStep, StartLastStep
  <2>7. CASE FinishAdvise(l)
    BY <2>7, FinishAdviseStep
  <2>8. CASE ReadRegisters(l) \/ SendDone(l) \/ SendFails(l)
    BY <2>8, SendingStep
  <2> QED
    BY <1>2, <2>1, <2>2, <2>3, <2>4, <2>5, <2>6, <2>7, <2>8 DEF ListenerStep
<1>3. CASE DoTask
  BY <1>3, DoTaskStep
<1>4. CASE Poll
  BY <1>4, PollStep
<1>5. CASE Notify
  BY <1>5, NotifyStep
<1>6. CASE DeactivateDevice \/ EndDeactivation \/ ActivateDevice
  BY <1>6, DeviceStep
<1> QED
  BY <1>1, <1>2, <1>3, <1>4, <1>5, <1>6 DEF Next

\* What holds of the life of a listener in every state: who waits for the
\* worker has one task in its queue, an advise is posted once, and only a
\* listener that is neither being removed nor ending is told anything.
THEOREM ListenersLive == Spec => []LifeInv
<1>1. Init => Inv
  BY LifeInit DEF Inv, Init
<1>2. Inv /\ [Next]_vars => Inv'
  BY LifeStep, BridgesStep DEF Inv
<1>3. Inv => LifeInv
  BY DEF Inv
<1> QED
  BY <1>1, <1>2, <1>3, PTL DEF Spec

\* destroy_from_strand is the last job of its strand: whatever the clients, the
\* worker and the strands do, in any order, nobody runs, posts or will post
\* anything for a listener that is gone (destroy, notify_listeners).
THEOREM NothingAfterLast == Spec => []LastJob
<1>1. LifeInv => LastJob
  BY DEF LifeInv
<1> QED
  BY <1>1, ListenersLive, PTL

-----------------------------------------------------------------------------
(* Counting handles.                                                        *)

\* For each member of D the elements of its set.
Tagged(D, F) == UNION {{d} \X F[d] : d \in D}

\* What is in it.
LEMMA TaggedHas ==
  ASSUME NEW D, NEW F
  PROVE  \A x : x \in Tagged(D, F) <=> \E d \in D : \E y \in F[d] : x = <<d, y>>
BY DEF Tagged

\* Finitely many finite sets have finitely many elements.
LEMMA TaggedFinite ==
  ASSUME NEW D, NEW F, IsFiniteSet(D), \A d \in D : IsFiniteSet(F[d])
  PROVE  IsFiniteSet(Tagged(D, F)) /\ Cardinality(Tagged(D, F)) \in Nat
<1> DEFINE S == {{d} \X F[d] : d \in D}
           f == [d \in D |-> {d} \X F[d]]
<1>1. f \in Surjection(D, S)
  BY DEF Surjection
<1>2. IsFiniteSet(S)
  BY <1>1, FS_Surjection
<1>3. \A T \in S : IsFiniteSet(T)
  <2> TAKE T \in S
  <2>1. PICK d \in D : T = {d} \X F[d]
    OBVIOUS
  <2>2. IsFiniteSet({d})
    BY FS_Singleton
  <2> QED
    BY <2>1, <2>2, FS_Product
<1>4. IsFiniteSet(UNION S)
  BY <1>2, <1>3, FS_UNION
<1> QED
  BY <1>4, FS_CardinalityType DEF Tagged

\* One set counts with the others.
LEMMA TaggedSplit ==
  ASSUME NEW D, NEW F, IsFiniteSet(D), \A d \in D : IsFiniteSet(F[d]), NEW e \in D
  PROVE  /\ Cardinality(F[e]) \in Nat /\ Cardinality(Tagged(D \ {e}, F)) \in Nat
         /\ Cardinality(Tagged(D, F)) = Cardinality(Tagged(D \ {e}, F)) + Cardinality(F[e])
<1> DEFINE A == Tagged(D \ {e}, F)
           B == {e} \X F[e]
<1>1. IsFiniteSet(D \ {e})
  BY FS_Difference
<1>2. IsFiniteSet(A) /\ Cardinality(A) \in Nat
  BY <1>1, TaggedFinite
<1>3. IsFiniteSet({e}) /\ Cardinality({e}) = 1
  BY FS_Singleton
<1>4. PICK c : c = Cardinality(F[e])
  OBVIOUS
<1>5. IsFiniteSet(F[e]) /\ c \in Nat
  BY <1>4, FS_CardinalityType
<1>6. IsFiniteSet(B) /\ Cardinality(B) = c
  <2>1. IsFiniteSet(B) /\ Cardinality(B) = 1 * c
    BY <1>3, <1>4, <1>5, FS_Product
  <2> QED
    BY <1>5, <2>1
<1>7. A \cap B = {}
  BY TaggedHas
<1>8. Tagged(D, F) = A \cup B
  <2>1. \A x : x \in B <=> \E y \in F[e] : x = <<e, y>>
    OBVIOUS
  <2>2. \A x : x \in A <=> \E d \in D \ {e} : \E y \in F[d] : x = <<d, y>>
    BY TaggedHas
  <2>3. \A x : x \in Tagged(D, F) <=> \E d \in D : \E y \in F[d] : x = <<d, y>>
    BY TaggedHas
  <2> QED
    BY <2>1, <2>2, <2>3
<1> HIDE DEF A, B
<1>9. Cardinality(A \cup B) = Cardinality(A) + Cardinality(B)
  BY <1>2, <1>6, <1>7, Disjoint
<1>10. Cardinality(Tagged(D, F)) = Cardinality(A) + c
  BY <1>6, <1>8, <1>9
<1> QED
  BY <1>2, <1>4, <1>5, <1>10 DEF A

\* It does not matter what the sets are counted by.
LEMMA TaggedMoved ==
  ASSUME NEW D, NEW F, NEW E, NEW G, NEW m \in Bijection(D, E),
         IsFiniteSet(D), \A d \in D : IsFiniteSet(F[d]) /\ G[m[d]] = F[d]
  PROVE  Cardinality(Tagged(E, G)) = Cardinality(Tagged(D, F))
<1> DEFINE f == [x \in Tagged(D, F) |-> <<m[x[1]], x[2]>>]
<1>1. /\ m \in [D -> E] /\ \A c, d \in D : m[c] = m[d] => c = d
      /\ \A e \in E : \E d \in D : m[d] = e
  BY DEF Bijection, Injection, Surjection, IsInjective
<1>2. \A x \in Tagged(D, F) : \E d \in D : \E y \in F[d] : x = <<d, y>>
  BY TaggedHas
<1>3. \A d \in D : \A y \in F[d] : <<d, y>> \in Tagged(D, F) /\ f[<<d, y>>] = <<m[d], y>>
  BY TaggedHas
<1>4. \A x : x \in Tagged(E, G) <=> \E e \in E : \E y \in G[e] : x = <<e, y>>
  BY TaggedHas
<1> HIDE DEF f
<1>5. \A x \in Tagged(D, F) : f[x] \in Tagged(E, G)
  BY <1>1, <1>2, <1>3, <1>4
<1>6. \A x, y \in Tagged(D, F) : f[x] = f[y] => x = y
  BY <1>1, <1>2, <1>3
<1>7. \A z \in Tagged(E, G) : \E x \in Tagged(D, F) : f[x] = z
  <2> TAKE z \in Tagged(E, G)
  <2>5. PICK e \in E : \E y \in G[e] : z = <<e, y>>
    BY <1>4
  <2>1. PICK y \in G[e] : z = <<e, y>>
    BY <2>5
  <2>2. PICK d \in D : m[d] = e
    BY <1>1
  <2>3. y \in F[d]
    BY <2>1, <2>2
  <2>4. <<d, y>> \in Tagged(D, F) /\ f[<<d, y>>] = z
    BY <1>3, <2>1, <2>2, <2>3
  <2> QED
    BY <2>4
<1>8. f \in Bijection(Tagged(D, F), Tagged(E, G))
  BY <1>5, <1>6, <1>7 DEF f, Bijection, Injection, Surjection, IsInjective
<1>9. ExistsBijection(Tagged(D, F), Tagged(E, G))
  BY <1>8 DEF ExistsBijection
<1>10. IsFiniteSet(Tagged(D, F))
  BY TaggedFinite
<1> QED
  BY <1>9, <1>10, FS_Bijection

\* Only the sets count.
LEMMA TaggedSame ==
  ASSUME NEW D, NEW F, NEW G, \A d \in D : F[d] = G[d]
  PROVE  Tagged(D, F) = Tagged(D, G)
BY DEF Tagged

\* What the three counts of HandlesCounted count, for any hmap_, jobs and queue.
Keeps(m, p) == [l \in Listeners |-> DOMAIN m[l][p]]
KeptCount(m, p) == Cardinality(Tagged(Listeners, Keeps(m, p)))
Asks(j, h) ==
  [l \in Listeners |-> IF j[l].at = "added" THEN {i \in DOMAIN j[l].hs : j[l].hs[i] = h} ELSE {}]
ComingCount(j, h) == Cardinality(Tagged(Listeners, Asks(j, h)))
GivesBack(x, h) == IF x.op = "release" THEN Back(x.xs, Len(x.xs), h) ELSE {}
Backs(q, h) == [i \in DOMAIN q |-> GivesBack(q[i], h)]
LeavingCount(q, h) == Cardinality(Tagged(DOMAIN q, Backs(q, h)))

Hmaps == [Listeners -> [Places -> Seq(Handles)]]
JobShapes(j) == \A l \in Listeners : j[l].at = "added" => j[l].hs \in Seq(Handles)

\* They are those counts.
LEMMA CountsAre ==
  /\ \A p : Cardinality(Kept(p)) = KeptCount(hmap, p)
  /\ \A h : Cardinality(Coming(h)) = ComingCount(job, h)
<1>1. \A p : Kept(p) = Tagged(Listeners, Keeps(hmap, p))
  BY DEF Kept, Tagged, Keeps
<1>2. ASSUME NEW h PROVE Coming(h) = Tagged(Listeners, Asks(job, h))
  <2>1. \A l \in Listeners : Asks(job, h)[l] =
          IF job[l].at = "added" THEN {i \in DOMAIN job[l].hs : job[l].hs[i] = h} ELSE {}
    BY DEF Asks
  <2>2. \A x : x \in Coming(h) <=>
          \E l \in Listeners : /\ job[l].at = "added"
                               /\ \E i \in {i \in DOMAIN job[l].hs : job[l].hs[i] = h} : x = <<l, i>>
    BY DEF Coming, Adding
  <2>3. \A x : x \in Tagged(Listeners, Asks(job, h)) <=>
          \E l \in Listeners : \E i \in Asks(job, h)[l] : x = <<l, i>>
    BY TaggedHas
  <2>4. \A l \in Listeners : \A i : i \in Asks(job, h)[l] <=>
          job[l].at = "added" /\ i \in {n \in DOMAIN job[l].hs : job[l].hs[n] = h}
    BY <2>1
  <2> QED
    BY ONLY <2>2, <2>3, <2>4
<1> QED
  BY <1>1, <1>2 DEF KeptCount, ComingCount

\* So is the third.
LEMMA LeavingIs ==
  ASSUME NEW q \in Seq(Tasks), NEW h
  PROVE  Cardinality(Leaving(q, h)) = LeavingCount(q, h)
<1>1. ASSUME NEW i \in DOMAIN q, q[i].op = "release"
      PROVE  ReleasedBy(q[i].xs, h) = GivesBack(q[i], h)
  <2>1. q[i] \in Tasks
    BY <1>1
  <2>2. PICK xs : xs = q[i].xs
    OBVIOUS
  <2>3. xs \in Seq(Handles \X (Nat \ {0}))
    BY <1>1, <2>1, <2>2, TaskFields
  <2>4. DOMAIN xs = 1 .. Len(xs)
    BY <2>3
  <2>5. ReleasedBy(xs, h) = Back(xs, Len(xs), h)
    BY <2>4 DEF ReleasedBy, Back
  <2> QED
    BY <1>1, <2>2, <2>5 DEF GivesBack
<1>2. \A x : x \in Leaving(q, h) <=>
        \E i \in DOMAIN q : q[i].op = "release" /\ \E y \in ReleasedBy(q[i].xs, h) : x = <<i, y>>
  BY DEF Leaving, Releases
<1>3. \A x : x \in Tagged(DOMAIN q, Backs(q, h)) <=>
        \E i \in DOMAIN q : \E y \in Backs(q, h)[i] : x = <<i, y>>
  BY TaggedHas
<1>4. \A i \in DOMAIN q : \A y : y \in Backs(q, h)[i] <=> q[i].op = "release" /\ y \in ReleasedBy(q[i].xs, h)
  <2> TAKE i \in DOMAIN q
  <2>1. Backs(q, h)[i] = GivesBack(q[i], h)
    BY DEF Backs
  <2>2. CASE q[i].op = "release"
    BY <1>1, <2>1, <2>2
  <2>3. CASE q[i].op # "release"
    BY <2>1, <2>3 DEF GivesBack
  <2> QED
    BY <2>2, <2>3
<1>5. Leaving(q, h) = Tagged(DOMAIN q, Backs(q, h))
  BY ONLY <1>2, <1>3, <1>4
<1> QED
  BY <1>5 DEF LeavingCount

\* What is given back is finite.
LEMMA BackFinite ==
  ASSUME NEW xs \in Seq(Entries), NEW h
  PROVE  IsFiniteSet(Back(xs, Len(xs), h)) /\ GivenBack(xs, Len(xs), h) \in Nat
<1> DEFINE D == {i \in 1 .. Len(xs) : xs[i][1] = h}
           F == [i \in D |-> 1 .. xs[i][2]]
<1>1. IsFiniteSet(D)
  <2>1. Len(xs) \in Nat
    OBVIOUS
  <2>2. IsFiniteSet(1 .. Len(xs)) /\ D \in SUBSET (1 .. Len(xs))
    BY <2>1, FS_Interval
  <2> QED
    BY <2>2, FS_Subset
<1>2. \A i \in D : IsFiniteSet(F[i])
  <2> TAKE i \in D
  <2>1. xs[i] \in Entries
    OBVIOUS
  <2>2. PICK c : c = xs[i][2]
    OBVIOUS
  <2>3. c \in Int
    BY <2>1, <2>2 DEF Entries
  <2>4. IsFiniteSet(1 .. c)
    BY <2>3, FS_Interval
  <2> QED
    BY <2>2, <2>4
<1>3. Back(xs, Len(xs), h) = Tagged(D, F)
  BY DEF Back, Tagged
<1> HIDE DEF D, F
<1> QED
  BY <1>1, <1>2, <1>3, TaggedFinite DEF GivenBack

\* A task gives back finitely many handles.
LEMMA GivesBackFinite ==
  ASSUME NEW x \in Tasks, NEW h
  PROVE  IsFiniteSet(GivesBack(x, h)) /\ Cardinality(GivesBack(x, h)) \in Nat
<1>1. CASE x.op = "release"
  <2>1. x.xs \in Seq(Entries)
    BY <1>1, TaskFields DEF Entries
  <2> QED
    BY <1>1, <2>1, BackFinite, FS_CardinalityType DEF GivesBack
<1>2. CASE x.op # "release"
  BY <1>2, FS_EmptySet DEF GivesBack
<1> QED
  BY <1>1, <1>2

\* What one client keeps under a place.
LEMMA KeepsIs ==
  ASSUME NEW m \in Hmaps, NEW p \in Places, NEW l \in Listeners
  PROVE  /\ IsFiniteSet(Keeps(m, p)[l])
         /\ Len(m[l][p]) \in Nat /\ Cardinality(Keeps(m, p)[l]) = Len(m[l][p])
         /\ Keeps(m, p)[l] = {} <=> m[l][p] = <<>>
<1>1. PICK s : s = m[l][p]
  OBVIOUS
<1>2. PICK n : n = Len(s)
  OBVIOUS
<1>3. s \in Seq(Handles)
  BY <1>1 DEF Hmaps
<1>4. Keeps(m, p)[l] = 1 .. n /\ n \in Nat
  BY <1>1, <1>2, <1>3 DEF Keeps
<1>5. IsFiniteSet(1 .. n) /\ Cardinality(1 .. n) = n
  BY <1>4, FS_Interval
<1>6. n = 0 <=> s = <<>>
  BY <1>2, <1>3
<1>7. 1 .. n = {} <=> n = 0
  BY ONLY <1>4
<1> QED
  BY <1>1, <1>2, <1>4, <1>5, <1>6, <1>7

\* What a client keeps under a place counts with what the others keep.
LEMMA KeptChange ==
  ASSUME NEW m \in Hmaps, NEW w \in Hmaps, NEW l \in Listeners, NEW p \in Places,
         \A k \in Listeners : k # l => w[k] = m[k]
  PROVE  /\ KeptCount(m, p) \in Nat /\ KeptCount(w, p) \in Nat
         /\ Len(m[l][p]) \in Nat /\ Len(w[l][p]) \in Nat
         /\ KeptCount(w, p) + Len(m[l][p]) = KeptCount(m, p) + Len(w[l][p])
<1>1. IsFiniteSet(Listeners)
  BY ServerAssumption
<1>2. PICK a, b : a = Keeps(m, p) /\ b = Keeps(w, p)
  OBVIOUS
<1>3. \A k \in Listeners : IsFiniteSet(a[k]) /\ IsFiniteSet(b[k])
  BY <1>2, KeepsIs
<1>4. PICK o : o = Cardinality(Tagged(Listeners \ {l}, a))
  OBVIOUS
<1>5. o \in Nat /\ KeptCount(m, p) = o + Cardinality(a[l])
  BY <1>1, <1>2, <1>3, <1>4, TaggedSplit DEF KeptCount
<1>6. Tagged(Listeners \ {l}, b) = Tagged(Listeners \ {l}, a)
  <2>1. \A k \in Listeners \ {l} : b[k] = a[k]
    BY <1>2 DEF Keeps
  <2> QED
    BY <2>1, TaggedSame
<1>7. KeptCount(w, p) = o + Cardinality(b[l])
  BY <1>1, <1>2, <1>3, <1>4, <1>6, TaggedSplit DEF KeptCount
<1>8. PICK x, y : x = Len(m[l][p]) /\ y = Len(w[l][p])
  OBVIOUS
<1>9. x \in Nat /\ y \in Nat /\ Cardinality(a[l]) = x /\ Cardinality(b[l]) = y
  BY <1>2, <1>8, KeepsIs
<1>10. PICK c, d : c = KeptCount(m, p) /\ d = KeptCount(w, p)
  OBVIOUS
<1>11. c = o + x /\ d = o + y
  BY <1>5, <1>7, <1>9, <1>10
<1>12. c \in Nat /\ d \in Nat /\ d + x = c + y
  BY ONLY <1>5, <1>9, <1>11
<1> QED
  BY <1>8, <1>9, <1>10, <1>12

\* A place under which nobody keeps anything has no count, and one under which
\* somebody does has.
LEMMA KeptSome ==
  ASSUME NEW m \in Hmaps, NEW p \in Places
  PROVE  /\ KeptCount(m, p) \in Nat
         /\ KeptCount(m, p) = 0 <=> \A l \in Listeners : m[l][p] = <<>>
<1>1. IsFiniteSet(Listeners)
  BY ServerAssumption
<1>2. PICK F : F = Keeps(m, p)
  OBVIOUS
<1>3. \A k \in Listeners : IsFiniteSet(F[k]) /\ (F[k] = {} <=> m[k][p] = <<>>)
  BY <1>2, KeepsIs
<1>4. IsFiniteSet(Tagged(Listeners, F)) /\ KeptCount(m, p) \in Nat
  BY <1>1, <1>2, <1>3, TaggedFinite DEF KeptCount
<1>5. KeptCount(m, p) = 0 <=> Tagged(Listeners, F) = {}
  BY <1>2, <1>4, FS_EmptySet DEF KeptCount
<1>6. \A x : x \in Tagged(Listeners, F) <=> \E l \in Listeners : \E y \in F[l] : x = <<l, y>>
  BY TaggedHas
<1>7. Tagged(Listeners, F) = {} <=> \A l \in Listeners : F[l] = {}
  BY ONLY <1>6
<1> QED
  BY <1>3, <1>4, <1>5, <1>7

\* A client has finitely many handles coming.
LEMMA AsksFinite ==
  ASSUME NEW j, JobShapes(j), NEW l \in Listeners, NEW h
  PROVE  IsFiniteSet(Asks(j, h)[l])
<1>1. CASE j[l].at = "added"
  <2>1. PICK s : s = j[l].hs
    OBVIOUS
  <2>2. PICK n : n = Len(s)
    OBVIOUS
  <2>3. s \in Seq(Handles)
    BY <1>1, <2>1 DEF JobShapes
  <2>4. DOMAIN s = 1 .. n /\ n \in Nat
    BY <2>2, <2>3
  <2>5. IsFiniteSet(1 .. n)
    BY <2>4, FS_Interval
  <2>6. Asks(j, h)[l] \in SUBSET (1 .. n)
    BY <1>1, <2>1, <2>4 DEF Asks
  <2> QED
    BY <2>5, <2>6, FS_Subset
<1>2. CASE j[l].at # "added"
  BY <1>2, FS_EmptySet DEF Asks
<1> QED
  BY <1>1, <1>2

\* What one client has coming counts with what the others have.
LEMMA ComingChange ==
  ASSUME NEW j, NEW w, JobShapes(j), JobShapes(w), NEW l \in Listeners, NEW h,
         \A k \in Listeners : k # l => w[k] = j[k]
  PROVE  /\ ComingCount(j, h) \in Nat /\ ComingCount(w, h) \in Nat
         /\ Cardinality(Asks(j, h)[l]) \in Nat /\ Cardinality(Asks(w, h)[l]) \in Nat
         /\ ComingCount(w, h) + Cardinality(Asks(j, h)[l])
              = ComingCount(j, h) + Cardinality(Asks(w, h)[l])
<1>1. IsFiniteSet(Listeners)
  BY ServerAssumption
<1>2. PICK a, b : a = Asks(j, h) /\ b = Asks(w, h)
  OBVIOUS
<1>3. \A k \in Listeners : IsFiniteSet(a[k]) /\ IsFiniteSet(b[k])
  BY <1>2, AsksFinite
<1>4. PICK o : o = Cardinality(Tagged(Listeners \ {l}, a))
  OBVIOUS
<1>5. o \in Nat /\ ComingCount(j, h) = o + Cardinality(a[l]) /\ Cardinality(a[l]) \in Nat
  BY <1>1, <1>2, <1>3, <1>4, TaggedSplit DEF ComingCount
<1>6. Tagged(Listeners \ {l}, b) = Tagged(Listeners \ {l}, a)
  <2>1. \A k \in Listeners \ {l} : b[k] = a[k]
    BY <1>2 DEF Asks
  <2> QED
    BY <2>1, TaggedSame
<1>7. ComingCount(w, h) = o + Cardinality(b[l]) /\ Cardinality(b[l]) \in Nat
  <2>1. \A k \in Listeners : IsFiniteSet(b[k])
    BY <1>3
  <2>2. /\ Cardinality(b[l]) \in Nat
        /\ Cardinality(Tagged(Listeners, b)) = Cardinality(Tagged(Listeners \ {l}, b)) + Cardinality(b[l])
    BY <1>1, <2>1, TaggedSplit
  <2> QED
    BY <1>2, <1>4, <1>6, <2>2 DEF ComingCount
<1> QED
  BY <1>2, <1>5, <1>7

\* A register that a client has coming is counted.
LEMMA ComingSome ==
  ASSUME NEW j, JobShapes(j), NEW l \in Listeners, j[l].at = "added", NEW i \in DOMAIN j[l].hs
  PROVE  ComingCount(j, j[l].hs[i]) \in Nat /\ ComingCount(j, j[l].hs[i]) > 0
<1>1. PICK h : h = j[l].hs[i]
  OBVIOUS
<1>2. PICK F : F = Asks(j, h)
  OBVIOUS
<1>3. \A k \in Listeners : IsFiniteSet(F[k])
  BY <1>2, AsksFinite
<1>4. IsFiniteSet(Listeners)
  BY ServerAssumption
<1>5. IsFiniteSet(Tagged(Listeners, F)) /\ ComingCount(j, h) \in Nat
  BY <1>2, <1>3, <1>4, TaggedFinite DEF ComingCount
<1>6. i \in F[l]
  BY <1>1, <1>2 DEF Asks
<1>7. Tagged(Listeners, F) # {}
  <2>1. \A x : x \in Tagged(Listeners, F) <=> \E k \in Listeners : \E y \in F[k] : x = <<k, y>>
    BY TaggedHas
  <2>2. <<l, i>> \in Tagged(Listeners, F)
    BY <1>6, <2>1
  <2> QED
    BY <2>2
<1>8. ComingCount(j, h) # 0
  BY <1>2, <1>5, <1>7, FS_EmptySet DEF ComingCount
<1> QED
  BY <1>1, <1>5, <1>8


\* What the tasks of a queue give back is finite.
LEMMA BacksFinite ==
  ASSUME NEW q \in Seq(Tasks), NEW h
  PROVE  /\ Len(q) \in Nat /\ DOMAIN q = 1 .. Len(q) /\ IsFiniteSet(DOMAIN q)
         /\ \A i \in DOMAIN q : Backs(q, h)[i] = GivesBack(q[i], h) /\ IsFiniteSet(Backs(q, h)[i])
         /\ LeavingCount(q, h) \in Nat
<1>1. Len(q) \in Nat /\ DOMAIN q = 1 .. Len(q)
  OBVIOUS
<1>2. IsFiniteSet(DOMAIN q)
  BY <1>1, FS_Interval
<1>3. \A i \in DOMAIN q : q[i] \in Tasks
  OBVIOUS
<1>4. \A i \in DOMAIN q : Backs(q, h)[i] = GivesBack(q[i], h)
  BY DEF Backs
<1>5. \A i \in DOMAIN q : IsFiniteSet(Backs(q, h)[i])
  BY <1>3, <1>4, GivesBackFinite
<1> QED
  BY <1>1, <1>2, <1>4, <1>5, TaggedFinite DEF LeavingCount

\* A task that is posted counts with the others.
LEMMA LeavingAppend ==
  ASSUME NEW q \in Seq(Tasks), NEW x \in Tasks, NEW h
  PROVE  /\ LeavingCount(q, h) \in Nat /\ Cardinality(GivesBack(x, h)) \in Nat
         /\ LeavingCount(Append(q, x), h) = LeavingCount(q, h) + Cardinality(GivesBack(x, h))
<1>1. PICK n : n = Len(q)
  OBVIOUS
<1>2. PICK r : r = Append(q, x)
  OBVIOUS
<1>3. /\ r \in Seq(Tasks) /\ n \in Nat /\ DOMAIN q = 1 .. n /\ DOMAIN r = 1 .. n + 1
      /\ \A i \in 1 .. n : r[i] = q[i]
  BY <1>1, <1>2
<1>4. r[n + 1] = x
  BY <1>1, <1>2
<1>5. PICK F, G : F = Backs(q, h) /\ G = Backs(r, h)
  OBVIOUS
<1>6. IsFiniteSet(DOMAIN r) /\ \A i \in DOMAIN r : G[i] = GivesBack(r[i], h) /\ IsFiniteSet(G[i])
  BY <1>3, <1>5, BacksFinite
<1>7. LeavingCount(q, h) \in Nat /\ \A i \in DOMAIN q : F[i] = GivesBack(q[i], h)
  BY <1>5, BacksFinite
<1>8. n + 1 \in DOMAIN r /\ (DOMAIN r) \ {n + 1} = DOMAIN q
  BY <1>3
<1>9. Tagged(DOMAIN q, G) = Tagged(DOMAIN q, F)
  <2>1. \A i \in DOMAIN q : i \in DOMAIN r /\ G[i] = F[i]
    BY <1>3, <1>6, <1>7
  <2> QED
    BY <2>1, TaggedSame
<1>10. Cardinality(Tagged(DOMAIN r, G)) = Cardinality(Tagged(DOMAIN q, G)) + Cardinality(G[n + 1])
  BY <1>6, <1>8, TaggedSplit
<1>11. LeavingCount(r, h) = LeavingCount(q, h) + Cardinality(GivesBack(x, h))
  <2>1. G[n + 1] = GivesBack(x, h)
    BY <1>4, <1>6, <1>8
  <2> QED
    BY <1>5, <1>9, <1>10, <2>1 DEF LeavingCount
<1> QED
  BY <1>2, <1>7, <1>11, GivesBackFinite

\* So does the one that is taken.
LEMMA LeavingTail ==
  ASSUME NEW q \in Seq(Tasks), q # <<>>, NEW h
  PROVE  /\ LeavingCount(Tail(q), h) \in Nat /\ Cardinality(GivesBack(Head(q), h)) \in Nat
         /\ LeavingCount(q, h) = LeavingCount(Tail(q), h) + Cardinality(GivesBack(Head(q), h))
<1>1. PICK n : n = Len(q)
  OBVIOUS
<1>2. PICK r : r = Tail(q)
  OBVIOUS
<1>3. /\ r \in Seq(Tasks) /\ n \in Nat /\ n > 0 /\ Head(q) = q[1] /\ q[1] \in Tasks
      /\ DOMAIN q = 1 .. n /\ DOMAIN r = 1 .. n - 1
      /\ \A i \in 1 .. n - 1 : i + 1 \in 1 .. n /\ r[i] = q[i + 1]
  BY <1>1, <1>2, TailAt
<1>4. PICK F, G : F = Backs(q, h) /\ G = Backs(r, h)
  OBVIOUS
<1>5. IsFiniteSet(DOMAIN q) /\ \A i \in DOMAIN q : F[i] = GivesBack(q[i], h) /\ IsFiniteSet(F[i])
  BY <1>4, BacksFinite
<1>6. /\ LeavingCount(r, h) \in Nat /\ IsFiniteSet(DOMAIN r)
      /\ \A i \in DOMAIN r : G[i] = GivesBack(r[i], h) /\ IsFiniteSet(G[i])
  BY <1>3, <1>4, BacksFinite
<1> DEFINE m == [i \in 1 .. n - 1 |-> i + 1]
           E == (1 .. n) \ {1}
<1>7. m \in Bijection(DOMAIN r, E)
  <2>1. \A i \in 1 .. n - 1 : i + 1 \in E
    BY <1>3
  <2>2. m \in [1 .. n - 1 -> E] /\ \A i \in 1 .. n - 1 : m[i] = i + 1
    BY <2>1
  <2> HIDE DEF m
  <2>3. \A i, j \in 1 .. n - 1 : m[i] = m[j] => i = j
    BY <1>3, <2>2
  <2>4. \A e \in E : e - 1 \in 1 .. n - 1 /\ m[e - 1] = e
    BY <1>3, <2>2
  <2> QED
    BY <1>3, <2>2, <2>3, <2>4 DEF Bijection, Injection, Surjection, IsInjective
<1>8. \A i \in DOMAIN r : IsFiniteSet(G[i]) /\ F[m[i]] = G[i]
  BY <1>3, <1>5, <1>6
<1> HIDE DEF m
<1>9. Cardinality(Tagged(E, F)) = Cardinality(Tagged(DOMAIN r, G))
  BY <1>6, <1>7, <1>8, TaggedMoved
<1>10. Cardinality(Tagged(DOMAIN q, F)) = Cardinality(Tagged((DOMAIN q) \ {1}, F)) + Cardinality(F[1])
  <2>1. 1 \in DOMAIN q
    BY <1>3
  <2> QED
    BY <1>5, <2>1, TaggedSplit
<1>11. F[1] = GivesBack(Head(q), h)
  BY <1>3, <1>5
<1>12. LeavingCount(q, h) = LeavingCount(r, h) + Cardinality(GivesBack(Head(q), h))
  BY <1>3, <1>4, <1>9, <1>10, <1>11 DEF LeavingCount
<1>13. Cardinality(GivesBack(Head(q), h)) \in Nat
  BY <1>3, GivesBackFinite
<1> QED
  BY <1>2, <1>6, <1>12, <1>13

-----------------------------------------------------------------------------
(* What the clients hold.                                                   *)

\* Each handle is under the place of its register.
PlacesTrue(t, m) ==
  \A l \in Listeners, p \in Places : \A i \in 1 .. Len(m[l][p]) : t.reg[p].handle = m[l][p][i]

\* So are the places that were given and are not stored yet.
Given(t, j) ==
  \A l \in Listeners : j[l].at = "added" =>
    \A i \in 1 .. Len(j[l].hs) :
      j[l].ptrs[i] \in Places /\ t.reg[j[l].ptrs[i]].handle = j[l].hs[i]

\* Each register is counted for what is held of it, and for nothing else.
KeptOf(t, m, h) == IF Found(t, h) THEN KeptCount(m, PlaceOf(t, h)) ELSE 0
Balanced(t, m, j, q) ==
  \A h \in Handles : Total(t, h) = KeptOf(t, m, h) + ComingCount(j, h) + LeavingCount(q, h)

NoRemoval(q) == \A i \in 1 .. Len(q) : q[i].op # "remove_device"

Shapes(t, m, j, q) == Sound(t) /\ m \in Hmaps /\ JobShapes(j) /\ q \in Seq(Tasks)
Counting(t, m, j, q) ==
  Shapes(t, m, j, q) /\ PlacesTrue(t, m) /\ Given(t, j) /\ Balanced(t, m, j, q) /\ NoRemoval(q)

\* The counts are numbers.
LEMMA CountTypes ==
  ASSUME NEW t, NEW m, NEW j, NEW q, Shapes(t, m, j, q), NEW h \in Handles
  PROVE  KeptOf(t, m, h) \in Nat /\ ComingCount(j, h) \in Nat /\ LeavingCount(q, h) \in Nat
<1>1. KeptOf(t, m, h) \in Nat
  <2>1. CASE Found(t, h)
    <3>1. PlaceOf(t, h) \in Places
      BY <2>1, LookUp DEF Shapes
    <3> QED
      BY <2>1, <3>1, KeptSome DEF Shapes, KeptOf
  <2>2. CASE ~Found(t, h)
    BY <2>2 DEF KeptOf
  <2> QED
    BY <2>1, <2>2
<1>2. ComingCount(j, h) \in Nat
  <2>1. \A l \in Listeners : IsFiniteSet(Asks(j, h)[l])
    BY AsksFinite DEF Shapes
  <2>2. IsFiniteSet(Listeners)
    BY ServerAssumption
  <2> QED
    BY <2>1, <2>2, TaggedFinite DEF ComingCount
<1>3. LeavingCount(q, h) \in Nat
  BY BacksFinite DEF Shapes
<1> QED
  BY <1>1, <1>2, <1>3

\* Somebody keeps handles under a place: they are for its register.
LEMMA KeptUnder ==
  ASSUME NEW t, NEW m \in Hmaps, PlacesTrue(t, m), NEW p \in Places, KeptCount(m, p) # 0
  PROVE  t.reg[p].handle \in Handles
<1>1. PICK l \in Listeners : m[l][p] # <<>>
  BY KeptSome
<1>2. PICK s : s = m[l][p]
  OBVIOUS
<1>3. s \in Seq(Handles) /\ s # <<>>
  BY <1>1, <1>2 DEF Hmaps
<1>4. 1 \in 1 .. Len(s) /\ s[1] \in Handles
  BY <1>3
<1> QED
  BY <1>2, <1>4 DEF PlacesTrue

\* What is kept of a register does not depend on the table, as long as every
\* handle is under the place of its register.
LEMMA KeptSame ==
  ASSUME NEW t, Sound(t), NEW u, Sound(u), NEW m \in Hmaps, PlacesTrue(t, m), PlacesTrue(u, m),
         NEW h \in Handles
  PROVE  KeptOf(u, m, h) = KeptOf(t, m, h)
<1>1. \A p \in Places : KeptCount(m, p) # 0 => u.reg[p].handle = t.reg[p].handle
  <2> SUFFICES ASSUME NEW p \in Places, KeptCount(m, p) # 0
               PROVE  u.reg[p].handle = t.reg[p].handle
    OBVIOUS
  <2>1. PICK l \in Listeners : m[l][p] # <<>>
    BY KeptSome
  <2>2. PICK s : s = m[l][p]
    OBVIOUS
  <2>3. s \in Seq(Handles) /\ s # <<>>
    BY <2>1, <2>2 DEF Hmaps
  <2>4. 1 \in 1 .. Len(s)
    BY <2>3
  <2> QED
    BY <2>2, <2>4 DEF PlacesTrue
<1>2. /\ Found(t, h) \in BOOLEAN
      /\ Found(t, h) <=> \E p \in Places : t.reg[p].handle = h
      /\ Found(t, h) => PlaceOf(t, h) \in Places /\ t.reg[PlaceOf(t, h)].handle = h
      /\ \A p \in Places : t.reg[p].handle = h => p = PlaceOf(t, h)
  BY LookUp
<1>3. /\ Found(u, h) \in BOOLEAN
      /\ Found(u, h) <=> \E p \in Places : u.reg[p].handle = h
      /\ Found(u, h) => PlaceOf(u, h) \in Places /\ u.reg[PlaceOf(u, h)].handle = h
      /\ \A p \in Places : u.reg[p].handle = h => p = PlaceOf(u, h)
  BY LookUp
<1> QED
  BY <1>1, <1>2, <1>3 DEF KeptOf

\* The registers that are held stay where they are: their handles are still
\* under their places.
Stay(t, u, m, j) ==
  \A h \in Handles :
    Found(t, h) /\ (KeptOf(t, m, h) > 0 \/ ComingCount(j, h) > 0) =>
      Found(u, h) /\ PlaceOf(u, h) = PlaceOf(t, h)

LEMMA StillTrue ==
  ASSUME NEW t, Sound(t), NEW u, Sound(u), NEW m \in Hmaps, NEW j, JobShapes(j), Stay(t, u, m, j),
         PlacesTrue(t, m), Given(t, j)
  PROVE  PlacesTrue(u, m) /\ Given(u, j)
<1>1. ASSUME NEW l \in Listeners, NEW p \in Places, NEW i \in 1 .. Len(m[l][p])
      PROVE  u.reg[p].handle = m[l][p][i]
  <2>1. PICK s : s = m[l][p]
    OBVIOUS
  <2>2. s \in Seq(Handles) /\ i \in 1 .. Len(s)
    BY <1>1, <2>1 DEF Hmaps
  <2>3. PICK h \in Handles : h = s[i] /\ s # <<>>
    BY <2>2
  <2>4. t.reg[p].handle = h
    BY <1>1, <2>1, <2>3 DEF PlacesTrue
  <2>5. Found(t, h) /\ p = PlaceOf(t, h)
    BY <2>4, LookUp
  <2>6. KeptCount(m, p) \in Nat /\ KeptCount(m, p) # 0
    BY <2>1, <2>3, KeptSome
  <2>7. KeptOf(t, m, h) > 0
    BY <2>5, <2>6 DEF KeptOf
  <2>8. Found(u, h) /\ PlaceOf(u, h) = p
    BY <2>5, <2>7 DEF Stay
  <2> QED
    BY <2>1, <2>3, <2>8, LookUp
<1>2. ASSUME NEW l \in Listeners, j[l].at = "added", NEW i \in 1 .. Len(j[l].hs)
      PROVE  j[l].ptrs[i] \in Places /\ u.reg[j[l].ptrs[i]].handle = j[l].hs[i]
  <2>1. j[l].hs \in Seq(Handles)
    BY <1>2 DEF JobShapes
  <2>2. PICK h \in Handles : h = j[l].hs[i]
    BY <1>2, <2>1
  <2>3. PICK p \in Places : p = j[l].ptrs[i] /\ t.reg[p].handle = h
    BY <1>2, <2>2 DEF Given
  <2>4. Found(t, h) /\ p = PlaceOf(t, h)
    BY <2>3, LookUp
  <2>5. ComingCount(j, h) > 0
    <3>1. i \in DOMAIN j[l].hs
      BY <1>2, <2>1
    <3> QED
      BY <1>2, <2>2, <3>1, ComingSome
  <2>6. Found(u, h) /\ PlaceOf(u, h) = p
    BY <2>4, <2>5 DEF Stay
  <2> QED
    BY <2>2, <2>3, <2>6, LookUp
<1> QED
  BY <1>1, <1>2 DEF PlacesTrue, Given

-----------------------------------------------------------------------------
(* What the steps do to the counts.                                         *)

\* A task is posted that gives nothing back.
LEMMA TaskPosted ==
  ASSUME NEW t, NEW m, NEW j, NEW q, Counting(t, m, j, q),
         NEW x \in Tasks, x.op \notin {"release", "remove_device"}
  PROVE  Counting(t, m, j, Append(q, x))
<1> USE DEF Counting
<1>1. q \in Seq(Tasks)
  BY DEF Shapes
<1>2. PICK r : r = Append(q, x)
  OBVIOUS
<1>3. /\ r \in Seq(Tasks) /\ Len(q) \in Nat /\ Len(r) = Len(q) + 1
      /\ \A i \in 1 .. Len(q) + 1 : r[i] = IF i = Len(q) + 1 THEN x ELSE q[i]
  BY <1>1, <1>2, AppendAt
<1>4. \A h \in Handles : LeavingCount(r, h) = LeavingCount(q, h)
  <2> TAKE h \in Handles
  <2>1. GivesBack(x, h) = {}
    BY DEF GivesBack
  <2>2. Cardinality(GivesBack(x, h)) = 0
    BY <2>1, FS_EmptySet
  <2>3. /\ LeavingCount(q, h) \in Nat
        /\ LeavingCount(r, h) = LeavingCount(q, h) + Cardinality(GivesBack(x, h))
    BY <1>1, <1>2, LeavingAppend
  <2> QED
    BY <2>2, <2>3
<1>5. NoRemoval(r)
  BY <1>3 DEF NoRemoval
<1>6. Balanced(t, m, j, r)
  BY <1>4 DEF Balanced
<1>7. Shapes(t, m, j, r)
  BY <1>3 DEF Shapes
<1> QED
  BY <1>2, <1>5, <1>6, <1>7

\* A task is taken.
LEMMA TaskTaken ==
  ASSUME NEW q \in Seq(Tasks), q # <<>>, NoRemoval(q)
  PROVE  /\ Tail(q) \in Seq(Tasks) /\ NoRemoval(Tail(q))
         /\ Head(q) \in Tasks /\ Head(q).op # "remove_device"
         /\ \A h : /\ LeavingCount(Tail(q), h) \in Nat
                   /\ Head(q).op # "release" => LeavingCount(Tail(q), h) = LeavingCount(q, h)
                   /\ Head(q).op = "release" =>
                        LeavingCount(q, h)
                          = LeavingCount(Tail(q), h) + GivenBack(Head(q).xs, Len(Head(q).xs), h)
<1>1. PICK r : r = Tail(q)
  OBVIOUS
<1>2. /\ r \in Seq(Tasks) /\ Head(q) = q[1] /\ q[1] \in Tasks
      /\ Len(q) \in Nat /\ 1 \in 1 .. Len(q) /\ Len(r) = Len(q) - 1
      /\ \A i \in 1 .. Len(q) - 1 : i + 1 \in 1 .. Len(q) /\ r[i] = q[i + 1]
  BY <1>1, TailAt
<1>3. NoRemoval(r)
  BY <1>2 DEF NoRemoval
<1>4. Head(q).op # "remove_device"
  BY <1>2 DEF NoRemoval
<1>5. ASSUME NEW h
      PROVE  /\ LeavingCount(r, h) \in Nat
             /\ Head(q).op # "release" => LeavingCount(r, h) = LeavingCount(q, h)
             /\ Head(q).op = "release" =>
                  LeavingCount(q, h) = LeavingCount(r, h) + GivenBack(Head(q).xs, Len(Head(q).xs), h)
  <2>1. PICK c, o : c = LeavingCount(q, h) /\ o = LeavingCount(r, h)
    OBVIOUS
  <2>2. o \in Nat /\ c = o + Cardinality(GivesBack(Head(q), h))
    BY <1>1, <2>1, LeavingTail
  <2>3. CASE Head(q).op = "release"
    <3>1. Cardinality(GivesBack(Head(q), h)) = GivenBack(Head(q).xs, Len(Head(q).xs), h)
      BY <2>3 DEF GivesBack, GivenBack
    <3> QED
      BY <2>1, <2>2, <2>3, <3>1
  <2>4. CASE Head(q).op # "release"
    <3>1. Cardinality(GivesBack(Head(q), h)) = 0
      BY <2>4, FS_EmptySet DEF GivesBack
    <3>2. c = o
      BY <2>2, <3>1
    <3> QED
      BY <2>1, <2>2, <2>4, <3>2
  <2> QED
    BY <2>3, <2>4
<1> QED
  BY <1>1, <1>2, <1>3, <1>4, <1>5

\* A task is taken that gives nothing back.
LEMMA OtherTaken ==
  ASSUME NEW t, NEW m, NEW j, NEW q, Counting(t, m, j, q), q # <<>>, Head(q).op # "release"
  PROVE  Counting(t, m, j, Tail(q))
<1> USE DEF Counting
<1>1. q \in Seq(Tasks)
  BY DEF Shapes
<1>2. PICK r : r = Tail(q)
  OBVIOUS
<1>3. /\ r \in Seq(Tasks) /\ NoRemoval(r)
      /\ \A h : LeavingCount(r, h) = LeavingCount(q, h)
  BY <1>1, <1>2, TaskTaken
<1>4. Balanced(t, m, j, r)
  BY <1>3 DEF Balanced
<1>5. Shapes(t, m, j, r)
  BY <1>3 DEF Shapes
<1> QED
  BY <1>2, <1>3, <1>4, <1>5

\* A job begins or ends that brings no registers.
LEMMA OtherJob ==
  ASSUME NEW t, NEW m, NEW j, NEW q, Counting(t, m, j, q), NEW w,
         \A k \in Listeners : w[k] = j[k] \/ (j[k].at # "added" /\ w[k].at # "added")
  PROVE  Counting(t, m, w, q)
<1> USE DEF Counting
<1>1. JobShapes(w)
  BY DEF Shapes, JobShapes
<1>2. Given(t, w)
  BY DEF Given
<1>3. \A h \in Handles : ComingCount(w, h) = ComingCount(j, h)
  <2> TAKE h \in Handles
  <2>1. \A k \in Listeners : Asks(w, h)[k] = Asks(j, h)[k]
    BY DEF Asks
  <2>2. Tagged(Listeners, Asks(w, h)) = Tagged(Listeners, Asks(j, h))
    BY <2>1, TaggedSame
  <2> QED
    BY <2>2 DEF ComingCount
<1>4. Balanced(t, m, w, q)
  BY <1>3 DEF Balanced
<1> QED
  BY <1>1, <1>2, <1>4 DEF Shapes

\* Where all registers stay, and are counted as before.
LEMMA SameCounts ==
  ASSUME NEW t, NEW m, NEW j, NEW q, Counting(t, m, j, q), NEW u, Sound(u),
         \A h \in Handles : /\ Found(u, h) <=> Found(t, h)
                            /\ PlaceOf(u, h) = PlaceOf(t, h) /\ (Found(t, h) => Counted(u, h) = Counted(t, h))
  PROVE  Counting(u, m, j, q)
<1> USE DEF Counting
<1>1. Shapes(u, m, j, q)
  BY DEF Shapes
<1>2. Stay(t, u, m, j)
  BY DEF Stay
<1>3. PlacesTrue(u, m) /\ Given(u, j)
  BY <1>2, StillTrue DEF Shapes
<1>4. Balanced(u, m, j, q)
  BY DEF Balanced, Total, KeptOf
<1> QED
  BY <1>1, <1>3, <1>4

\* t_release_registers: what was given back is counted no more.
LEMMA ReleaseCounted ==
  ASSUME NEW t, NEW m, NEW j, NEW q, Counting(t, m, j, q), q # <<>>, Head(q).op = "release",
         NEW u, ReleasedAll(t, Head(q).xs, u)
  PROVE  Counting(u, m, j, Tail(q))
<1> USE DEF Counting
<1>1. q \in Seq(Tasks) /\ Sound(t) /\ m \in Hmaps /\ JobShapes(j)
  BY DEF Shapes
<1>2. PICK r : r = Tail(q)
  OBVIOUS
<1>3. PICK xs : xs = Head(q).xs
  OBVIOUS
<1>4. /\ r \in Seq(Tasks) /\ NoRemoval(r)
      /\ \A h : /\ LeavingCount(r, h) \in Nat
                /\ LeavingCount(q, h) = LeavingCount(r, h) + GivenBack(xs, Len(xs), h)
  BY <1>1, <1>2, <1>3, TaskTaken
<1>5. Sound(u)
  BY DEF ReleasedAll, AtRest
<1>6. Shapes(u, m, j, r)
  BY <1>1, <1>4, <1>5 DEF Shapes
<1> DEFINE W(h, c, g, k, o, l) ==   \* what is counted of one register
             /\ KeptOf(t, m, h) = k /\ ComingCount(j, h) = o /\ LeavingCount(r, h) = l
             /\ c = k + o + l + g /\ (~Found(t, h) => c = 0)
             /\ Found(u, h) <=> Found(t, h) /\ c - g > 0
             /\ Found(u, h) => PlaceOf(u, h) = PlaceOf(t, h) /\ Counted(u, h) = c - g
<1>7. ASSUME NEW h \in Handles
      PROVE  \E c \in Int, g, k, o, l \in Nat : W(h, c, g, k, o, l)
  <2>1. PICK c \in Int : c = Total(t, h)
    BY <1>1, TotalType
  <2>2. PICK k \in Nat, o \in Nat : k = KeptOf(t, m, h) /\ o = ComingCount(j, h)
    BY CountTypes
  <2>3. PICK l \in Nat : l = LeavingCount(r, h)
    BY <1>4
  <2>4. PICK g \in Nat : g = GivenBack(xs, Len(xs), h)
    BY <1>3 DEF ReleasedAll
  <2>5. c = k + o + LeavingCount(q, h)
    BY <2>1, <2>2 DEF Balanced
  <2>6. c = k + o + l + g
    BY <1>4, <2>2, <2>3, <2>4, <2>5
  <2>7. Found(t, h) => Counted(t, h) = c
    BY <2>1 DEF Total
  <2>8. ~Found(t, h) => c = 0
    BY <2>1 DEF Total
  <2>9. /\ Found(u, h) <=> Found(t, h) /\ Counted(t, h) - g > 0
        /\ Found(u, h) => PlaceOf(u, h) = PlaceOf(t, h) /\ Counted(u, h) = Counted(t, h) - g
    BY <1>3, <2>4 DEF ReleasedAll
  <2>10. /\ Found(u, h) <=> Found(t, h) /\ c - g > 0
         /\ Found(u, h) => PlaceOf(u, h) = PlaceOf(t, h) /\ Counted(u, h) = c - g
    BY <2>7, <2>9
  <2>11. W(h, c, g, k, o, l)
    BY <2>2, <2>3, <2>6, <2>8, <2>10
  <2> QED
    BY <2>11
<1> HIDE DEF W
<1>8. Stay(t, u, m, j)
  <2> SUFFICES ASSUME NEW h \in Handles, Found(t, h), KeptOf(t, m, h) > 0 \/ ComingCount(j, h) > 0
               PROVE  Found(u, h) /\ PlaceOf(u, h) = PlaceOf(t, h)
    BY DEF Stay
  <2>1. PICK c \in Int, g, k, o, l \in Nat : W(h, c, g, k, o, l)
    BY <1>7
  <2>2. (k > 0 \/ o > 0) /\ c = k + o + l + g
    BY <2>1 DEF W
  <2>3. c - g > 0
    BY <2>2
  <2> QED
    BY <2>1, <2>3 DEF W
<1>9. PlacesTrue(u, m) /\ Given(u, j)
  BY <1>1, <1>5, <1>8, StillTrue
<1>10. Balanced(u, m, j, r)
  <2> SUFFICES ASSUME NEW h \in Handles
               PROVE  Total(u, h) = KeptOf(u, m, h) + ComingCount(j, h) + LeavingCount(r, h)
    BY DEF Balanced
  <2>1. KeptOf(u, m, h) = KeptOf(t, m, h)
    BY <1>1, <1>5, <1>9, KeptSame
  <2>5. PICK c \in Int, g, k, o, l \in Nat : W(h, c, g, k, o, l)
    BY <1>7
  <2>2. /\ KeptOf(t, m, h) = k /\ ComingCount(j, h) = o /\ LeavingCount(r, h) = l
        /\ c = k + o + l + g /\ (~Found(t, h) => c = 0)
        /\ Found(u, h) <=> Found(t, h) /\ c - g > 0
        /\ Found(u, h) => Counted(u, h) = c - g
    BY <2>5 DEF W
  <2>3. Total(u, h) = IF Found(t, h) /\ c - g > 0 THEN c - g ELSE 0
    BY <2>2 DEF Total
  <2>4. (IF Found(t, h) /\ c - g > 0 THEN c - g ELSE 0) = k + o + l
    <3>1. CASE Found(t, h)
      BY <2>2, <3>1
    <3>2. CASE ~Found(t, h)
      BY <2>2, <3>2
    <3> QED
      BY <3>1, <3>2
  <2> QED
    BY <2>1, <2>2, <2>3, <2>4
<1> QED
  BY <1>2, <1>4, <1>6, <1>9, <1>10

\* t_add_registers: the registers are counted, and given to the client.
LEMMA AddCounted ==
  ASSUME NEW t, NEW m, NEW j, NEW q, Counting(t, m, j, q), NEW hs \in Seq(Handles),
         NEW u, Added(t, hs, u), NEW l \in Listeners, NEW w,
         j[l].at # "added", w[l].at = "added", w[l].hs = hs,
         \A i \in 1 .. Len(hs) : w[l].ptrs[i] = PlaceOf(u, hs[i]),
         \A k \in Listeners : k # l => w[k] = j[k]
  PROVE  Counting(u, m, w, q)
<1> USE DEF Counting
<1>1. q \in Seq(Tasks) /\ Sound(t) /\ m \in Hmaps /\ JobShapes(j)
  BY DEF Shapes
<1>2. Sound(u)
  BY DEF Added, AtRest
<1>3. JobShapes(w)
  BY <1>1 DEF JobShapes
<1>4. Stay(t, u, m, j)
  BY DEF Stay, Added
<1>5. PlacesTrue(u, m) /\ Given(u, j)
  BY <1>1, <1>2, <1>4, StillTrue
<1>6. Given(u, w)
  <2>1. ASSUME NEW i \in 1 .. Len(hs)
        PROVE  w[l].ptrs[i] \in Places /\ u.reg[w[l].ptrs[i]].handle = hs[i]
    <3>1. PICK h \in Handles : h = hs[i]
      BY <2>1
    <3>2. Found(u, h)
      BY <2>1, <3>1 DEF Added
    <3> QED
      BY <1>2, <2>1, <3>1, <3>2, LookUp
  <2> QED
    BY <1>5, <2>1 DEF Given
<1>7. Balanced(u, m, w, q)
  <2> SUFFICES ASSUME NEW h \in Handles
               PROVE  Total(u, h) = KeptOf(u, m, h) + ComingCount(w, h) + LeavingCount(q, h)
    BY DEF Balanced
  <2>1. KeptOf(u, m, h) = KeptOf(t, m, h)
    BY <1>1, <1>2, <1>5, KeptSame
  <2>2. PICK k \in Nat, o \in Nat, b \in Nat :
          k = KeptOf(t, m, h) /\ o = ComingCount(j, h) /\ b = LeavingCount(q, h)
    BY CountTypes
  <2>3. Total(t, h) = k + o + b
    BY <2>2 DEF Balanced
  <2>4. PICK n : n = Len(hs)
    OBVIOUS
  <2>5. n \in Nat /\ DOMAIN hs = 1 .. n
    BY <2>4
  <2>6. PICK a \in Nat : a = Among(hs, n, h)
    BY <2>5, AmongIs
  <2>7. Total(u, h) = Total(t, h) + a
    BY <2>4, <2>6 DEF Added
  <2>8. Cardinality(Asks(j, h)[l]) = 0
    BY FS_EmptySet DEF Asks
  <2>9. Cardinality(Asks(w, h)[l]) = a
    BY <2>5, <2>6 DEF Asks, Among
  <2>10. /\ ComingCount(w, h) \in Nat
         /\ ComingCount(w, h) + Cardinality(Asks(j, h)[l]) = ComingCount(j, h) + Cardinality(Asks(w, h)[l])
    BY <1>1, <1>3, ComingChange
  <2>11. PICK c \in Nat : c = ComingCount(w, h)
    BY <2>10
  <2>12. c = o + a
    BY <2>2, <2>8, <2>9, <2>10, <2>11
  <2> QED
    BY <2>1, <2>2, <2>3, <2>7, <2>11, <2>12
<1> QED
  BY <1>1, <1>2, <1>3, <1>5, <1>6, <1>7 DEF Shapes

\* The handles a client had coming are under the places it was given.
Stored(m, n, j, l) ==
  \A p \in Places : n[l][p] = m[l][p] \o Picked(j[l].hs, {i \in DOMAIN j[l].hs : j[l].ptrs[i] = p})

\* advise goes on: what was coming is kept.
LEMMA StoreCounted ==
  ASSUME NEW t, NEW m, NEW j, NEW q, Counting(t, m, j, q), NEW l \in Listeners, j[l].at = "added",
         NEW n \in Hmaps, NEW w, w[l].at # "added",
         \A k \in Listeners : k # l => w[k] = j[k] /\ n[k] = m[k], Stored(m, n, j, l)
  PROVE  Counting(t, n, w, q)
<1> USE DEF Counting
<1>1. q \in Seq(Tasks) /\ Sound(t) /\ m \in Hmaps /\ JobShapes(j)
  BY DEF Shapes
<1>2. PICK hs, ptrs : hs \in Seq(Handles) /\ hs = j[l].hs /\ ptrs = j[l].ptrs
  BY <1>1 DEF JobShapes
<1> DEFINE I(p) == {i \in 1 .. Len(hs) : ptrs[i] = p}
<1>3. Len(hs) \in Nat /\ DOMAIN hs = 1 .. Len(hs)
  BY <1>2
<1>4. \A i \in 1 .. Len(hs) : hs[i] \in Handles /\ ptrs[i] \in Places /\ t.reg[ptrs[i]].handle = hs[i]
  BY <1>2 DEF Given
<1>5. \A p \in Places : n[l][p] = m[l][p] \o Picked(hs, I(p))
  BY <1>2, <1>3 DEF Stored
<1>6. ASSUME NEW p \in Places
      PROVE  /\ Len(m[l][p]) \in Nat /\ Cardinality(I(p)) \in Nat
             /\ Len(n[l][p]) = Len(m[l][p]) + Cardinality(I(p))
             /\ \A i \in 1 .. Len(n[l][p]) :
                  \/ \E k \in 1 .. Len(m[l][p]) : n[l][p][i] = m[l][p][k]
                  \/ \E k \in I(p) : n[l][p][i] = hs[k]
  <2>1. PICK x, y, z : x = m[l][p] /\ y = Picked(hs, I(p)) /\ z = n[l][p]
    OBVIOUS
  <2>2. x \in Seq(Handles) /\ z = x \o y
    BY <1>1, <1>5, <2>1 DEF Hmaps
  <2>3. I(p) \in SUBSET (1 .. Len(hs))
    OBVIOUS
  <2> HIDE DEF I
  <2>4. y \in Seq(Handles) /\ IsFiniteSet(I(p)) /\ Len(y) = Cardinality(I(p))
    BY <1>2, <2>1, <2>3, PickedElements
  <2>5. ToSet(y) = {hs[k] : k \in I(p)}
    BY <1>2, <2>1, <2>3, PickedSet
  <2>6. z \in Seq(Handles) /\ ToSet(z) = ToSet(x) \cup ToSet(y)
    BY <2>2, <2>4, ConcatSet
  <2>7. ToSet(x) = {x[k] : k \in 1 .. Len(x)} /\ ToSet(z) = {z[k] : k \in 1 .. Len(z)}
    <3>1. x \in Seq(Handles) /\ z \in Seq(Handles)
      BY <2>2, <2>6
    <3>2. ToSet(x) = {x[k] : k \in 1 .. Len(x)}
      BY <3>1, SetOfSeq
    <3>3. ToSet(z) = {z[k] : k \in 1 .. Len(z)}
      BY <3>1, SetOfSeq
    <3> QED
      BY <3>2, <3>3
  <2>8. Len(z) = Len(x) + Len(y) /\ Len(x) \in Nat /\ Len(y) \in Nat
    <3>1. x \in Seq(Handles) /\ y \in Seq(Handles) /\ z = x \o y
      BY <2>2, <2>4
    <3> QED
      BY ONLY <3>1
  <2>9. \A i \in 1 .. Len(z) : (\E k \in 1 .. Len(x) : z[i] = x[k]) \/ (\E k \in I(p) : z[i] = hs[k])
    <3> TAKE i \in 1 .. Len(z)
    <3>1. z[i] \in ToSet(x) \/ z[i] \in ToSet(y)
      BY <2>6, <2>7
    <3>2. z[i] \in ToSet(x) => \E k \in 1 .. Len(x) : z[i] = x[k]
      BY <2>7
    <3>3. z[i] \in ToSet(y) => \E k \in I(p) : z[i] = hs[k]
      BY <2>5
    <3> QED
      BY <3>1, <3>2, <3>3
  <2> QED
    BY <2>1, <2>4, <2>8, <2>9
<1>7. PlacesTrue(t, n)
  <2> SUFFICES ASSUME NEW k \in Listeners, NEW p \in Places, NEW i \in 1 .. Len(n[k][p])
               PROVE  t.reg[p].handle = n[k][p][i]
    BY DEF PlacesTrue
  <2>1. CASE k # l
    BY <2>1 DEF PlacesTrue
  <2>2. CASE k = l
    <3>1. CASE \E c \in 1 .. Len(m[l][p]) : n[l][p][i] = m[l][p][c]
      BY <2>2, <3>1 DEF PlacesTrue
    <3>2. CASE \E c \in I(p) : n[l][p][i] = hs[c]
      BY <1>4, <2>2, <3>2
    <3> QED
      BY <1>6, <2>2, <3>1, <3>2
  <2> QED
    BY <2>1, <2>2
<1>8. Given(t, w)
  BY DEF Given
<1>9. JobShapes(w)
  BY <1>1 DEF JobShapes
<1>10. Balanced(t, n, w, q)
  <2> SUFFICES ASSUME NEW h \in Handles
               PROVE  Total(t, h) = KeptOf(t, n, h) + ComingCount(w, h) + LeavingCount(q, h)
    BY DEF Balanced
  <2>1. PICK k \in Nat, o \in Nat, b \in Nat :
          k = KeptOf(t, m, h) /\ o = ComingCount(j, h) /\ b = LeavingCount(q, h)
    BY CountTypes
  <2>2. Total(t, h) = k + o + b
    BY <2>1 DEF Balanced
  <2>3. PICK x \in Nat : x = ComingCount(w, h)
    BY <1>1, <1>9, ComingChange
  <2>4. PICK a \in Nat : a = Cardinality(Asks(j, h)[l])
    BY <1>1, <1>9, ComingChange
  <2>5. x + a = o
    <3>1. Cardinality(Asks(w, h)[l]) = 0
      BY FS_EmptySet DEF Asks
    <3>2. ComingCount(w, h) + Cardinality(Asks(j, h)[l])
            = ComingCount(j, h) + Cardinality(Asks(w, h)[l])
      BY <1>1, <1>9, ComingChange
    <3> QED
      BY <2>1, <2>3, <2>4, <3>1, <3>2
  <2>6. Asks(j, h)[l] = {i \in 1 .. Len(hs) : hs[i] = h}
    BY <1>2, <1>3 DEF Asks
  <2>7. CASE Found(t, h)
    <3>1. PICK p \in Places : p = PlaceOf(t, h) /\ t.reg[p].handle = h
      BY <1>1, <2>7, LookUp
    <3>2. \A i \in 1 .. Len(hs) : ptrs[i] = p <=> hs[i] = h
      <4>1. \A r \in Places : t.reg[r].handle = h => r = p
        BY <1>1, <3>1, LookUp
      <4> QED
        BY <1>4, <3>1, <4>1
    <3>3. I(p) = Asks(j, h)[l]
      BY <2>6, <3>2
    <3>4. PICK c, d : c = Len(m[l][p]) /\ d = Len(n[l][p])
      OBVIOUS
    <3>5. c \in Nat /\ d = c + a
      BY <1>6, <2>4, <3>3, <3>4
    <3>6. KeptCount(n, p) + c = KeptCount(m, p) + d /\ KeptCount(n, p) \in Nat /\ KeptCount(m, p) \in Nat
      <4>1. m \in Hmaps
        BY <1>1
      <4> QED
        BY <3>4, <4>1, KeptChange
    <3>7. PICK z \in Nat : z = KeptCount(n, p)
      BY <3>6
    <3>8. k = KeptCount(m, p)
      BY <2>1, <2>7, <3>1 DEF KeptOf
    <3>9. z = k + a
      BY <3>5, <3>6, <3>7, <3>8
    <3>10. KeptOf(t, n, h) = z
      BY <2>7, <3>1, <3>7 DEF KeptOf
    <3> QED
      BY <2>1, <2>2, <2>3, <2>5, <3>9, <3>10
  <2>8. CASE ~Found(t, h)
    <3>1. Asks(j, h)[l] = {}
      <4>1. \A r \in Places : t.reg[r].handle # h
        BY <1>1, <2>8, LookUp
      <4> QED
        BY <1>4, <2>6, <4>1
    <3>2. a = 0
      BY <2>4, <3>1, FS_EmptySet
    <3>3. KeptOf(t, n, h) = 0 /\ k = 0
      BY <2>1, <2>8 DEF KeptOf
    <3> QED
      BY <2>1, <2>2, <2>3, <2>5, <3>2, <3>3
  <2> QED
    BY <2>7, <2>8
<1> QED
  BY <1>1, <1>7, <1>8, <1>9, <1>10 DEF Shapes

\* What they give back of a register is what is kept under its place.
LEMMA EntriesGiveBack ==
  ASSUME NEW v \in [Places -> Seq(Handles)], NEW xs \in Seq(Entries), EntriesOf(v, xs),
         NEW t, Sound(t), \A p \in Places : \A i \in 1 .. Len(v[p]) : t.reg[p].handle = v[p][i],
         NEW h \in Handles
  PROVE  GivenBack(xs, Len(xs), h) = IF Found(t, h) THEN Len(v[PlaceOf(t, h)]) ELSE 0
<1>1. PICK used \in [1 .. Len(xs) -> Places] :
        /\ \A i, k \in 1 .. Len(xs) : used[i] = used[k] => i = k
        /\ \A p \in Places : v[p] # <<>> => \E i \in 1 .. Len(xs) : used[i] = p
        /\ \A i \in 1 .. Len(xs) : /\ v[used[i]] # <<>>
                                   /\ xs[i] = <<Head(v[used[i]]), Len(v[used[i]])>>
  BY DEF EntriesOf
<1>2. \A p \in Places : v[p] # <<>> => Head(v[p]) = t.reg[p].handle
  <2> SUFFICES ASSUME NEW p \in Places, v[p] # <<>>
               PROVE  Head(v[p]) = t.reg[p].handle
    OBVIOUS
  <2>1. PICK s \in Seq(Handles) : s = v[p]
    OBVIOUS
  <2>2. 1 \in 1 .. Len(s) /\ Head(s) = s[1]
    BY <2>1
  <2> QED
    BY <2>1, <2>2
<1>3. \A i \in 1 .. Len(xs) : /\ xs[i][1] = t.reg[used[i]].handle
                              /\ xs[i][2] = Len(v[used[i]]) /\ used[i] \in Places
  BY <1>1, <1>2
<1> DEFINE J == {i \in 1 .. Len(xs) : xs[i][1] = h}
<1>4. Back(xs, Len(xs), h) = UNION {{i} \X (1 .. xs[i][2]) : i \in J}
  BY DEF Back
<1>5. ASSUME J = {} PROVE GivenBack(xs, Len(xs), h) = 0
  <2>1. Back(xs, Len(xs), h) = {}
    BY <1>4, <1>5
  <2> QED
    BY <2>1, FS_EmptySet DEF GivenBack
<1>6. CASE ~Found(t, h)
  <2>1. \A p \in Places : t.reg[p].handle # h
    BY <1>6, LookUp
  <2>2. J = {}
    BY <1>3, <2>1
  <2> QED
    BY <1>5, <1>6, <2>2
<1>7. CASE Found(t, h)
  <2>1. PICK p \in Places : p = PlaceOf(t, h)
    BY <1>7, LookUp
  <2>2. \A r \in Places : t.reg[r].handle = h <=> r = p
    BY <1>7, <2>1, LookUp
  <2>3. \A i \in 1 .. Len(xs) : i \in J <=> used[i] = p
    BY <1>3, <2>2
  <2>4. CASE v[p] = <<>>
    <3>1. J = {}
      BY <1>1, <2>3, <2>4
    <3>2. Len(v[p]) = 0
      BY <2>4
    <3> QED
      BY <1>5, <1>7, <2>1, <3>1, <3>2
  <2>5. CASE v[p] # <<>>
    <3>1. PICK i \in 1 .. Len(xs) : used[i] = p
      BY <1>1, <2>5
    <3>2. J = {i}
      BY <1>1, <2>3, <3>1
    <3>3. PICK c : c = Len(v[p])
      OBVIOUS
    <3>4. c \in Nat /\ xs[i][2] = c
      <4>1. v[p] \in Seq(Handles)
        OBVIOUS
      <4> QED
        BY <1>3, <3>1, <3>3, <4>1
    <3>5. Back(xs, Len(xs), h) = {i} \X (1 .. c)
      BY <1>4, <3>2, <3>4
    <3>6. Cardinality({i} \X (1 .. c)) = c
      BY <3>4, Times
    <3> QED
      BY <1>7, <2>1, <3>3, <3>5, <3>6 DEF GivenBack
  <2> QED
    BY <2>4, <2>5
<1> QED
  BY <1>6, <1>7

\* release_all: what was kept is on its way back.
LEMMA ReturnCounted ==
  ASSUME NEW t, NEW m, NEW j, NEW q, Counting(t, m, j, q), NEW l \in Listeners,
         NEW xs \in Seq(Entries), EntriesOf(m[l], xs),
         NEW n \in Hmaps, \A p \in Places : n[l][p] = <<>>,
         \A k \in Listeners : k # l => n[k] = m[k],
         NEW r \in Tasks, r.op = "release", r.xs = xs
  PROVE  Counting(t, n, j, Append(q, r))
<1> USE DEF Counting
<1>1. q \in Seq(Tasks) /\ Sound(t) /\ m \in Hmaps /\ JobShapes(j)
  BY DEF Shapes
<1>2. PICK v \in [Places -> Seq(Handles)] : v = m[l]
  BY <1>1 DEF Hmaps
<1>3. PICK s : s = Append(q, r)
  OBVIOUS
<1>4. /\ s \in Seq(Tasks) /\ Len(q) \in Nat /\ Len(s) = Len(q) + 1
      /\ \A i \in 1 .. Len(q) + 1 : s[i] = IF i = Len(q) + 1 THEN r ELSE q[i]
  BY <1>1, <1>3, AppendAt
<1>5. NoRemoval(s)
  BY <1>4 DEF NoRemoval
<1>6. PlacesTrue(t, n)
  <2> SUFFICES ASSUME NEW k \in Listeners, NEW p \in Places, NEW i \in 1 .. Len(n[k][p])
               PROVE  t.reg[p].handle = n[k][p][i]
    BY DEF PlacesTrue
  <2>1. CASE k # l
    BY <2>1 DEF PlacesTrue
  <2>2. CASE k = l
    <3>1. Len(n[k][p]) = 0
      BY <2>2
    <3> QED
      BY <3>1
  <2> QED
    BY <2>1, <2>2
<1>7. Balanced(t, n, j, s)
  <2> SUFFICES ASSUME NEW h \in Handles
               PROVE  Total(t, h) = KeptOf(t, n, h) + ComingCount(j, h) + LeavingCount(s, h)
    BY DEF Balanced
  <2>1. PICK k \in Nat, o \in Nat, b \in Nat :
          k = KeptOf(t, m, h) /\ o = ComingCount(j, h) /\ b = LeavingCount(q, h)
    BY CountTypes
  <2>2. Total(t, h) = k + o + b
    BY <2>1 DEF Balanced
  <2>3. PICK g \in Nat : g = GivenBack(xs, Len(xs), h)
    BY BackFinite
  <2>4. LeavingCount(s, h) = b + g
    <3>1. GivesBack(r, h) = Back(xs, Len(xs), h)
      BY DEF GivesBack
    <3>2. LeavingCount(s, h) = LeavingCount(q, h) + Cardinality(GivesBack(r, h))
      BY <1>1, <1>3, LeavingAppend
    <3> QED
      BY <2>1, <2>3, <3>1, <3>2 DEF GivenBack
  <2>5. g = IF Found(t, h) THEN Len(v[PlaceOf(t, h)]) ELSE 0
    <3>1. \A p \in Places : \A i \in 1 .. Len(v[p]) : t.reg[p].handle = v[p][i]
      BY <1>2 DEF PlacesTrue
    <3>2. EntriesOf(v, xs)
      BY <1>2
    <3> QED
      BY <1>1, <2>3, <3>1, <3>2, EntriesGiveBack
  <2>6. CASE Found(t, h)
    <3>1. PICK p \in Places : p = PlaceOf(t, h)
      BY <1>1, <2>6, LookUp
    <3>2. Len(m[l][p]) = g /\ Len(n[l][p]) = 0
      BY <1>2, <2>5, <2>6, <3>1
    <3>3. KeptCount(n, p) + Len(m[l][p]) = KeptCount(m, p) + Len(n[l][p]) /\ KeptCount(n, p) \in Nat
      <4>1. m \in Hmaps
        BY <1>1
      <4> QED
        BY <4>1, KeptChange
    <3>4. PICK z \in Nat : z = KeptCount(n, p)
      BY <3>3
    <3>5. k = KeptCount(m, p) /\ KeptOf(t, n, h) = z
      BY <2>1, <2>6, <3>1, <3>4 DEF KeptOf
    <3>6. z + g = k
      BY <3>2, <3>3, <3>4, <3>5
    <3> QED
      BY <2>1, <2>2, <2>4, <3>5, <3>6
  <2>7. CASE ~Found(t, h)
    <3>1. KeptOf(t, n, h) = 0 /\ k = 0 /\ g = 0
      BY <2>1, <2>5, <2>7 DEF KeptOf
    <3> QED
      BY <2>1, <2>2, <2>4, <3>1
  <2> QED
    BY <2>6, <2>7
<1> QED
  BY <1>1, <1>3, <1>4, <1>5, <1>6, <1>7 DEF Shapes

-----------------------------------------------------------------------------
(* The table and the counts in every step.                                  *)
CountInv == Counting(table, hmap, job, queue)

\* The jobs of the clients bring lists of registers.
LEMMA JobsBringLists ==
  ASSUME ServerTypes
  PROVE  JobShapes(job) /\ hmap \in Hmaps
<1>1. ASSUME NEW l \in Listeners, job[l].at = "added"
      PROVE  job[l].hs \in Seq(Handles)
  <2>1. JobTypes(job[l])
    BY DEF ServerTypes
  <2>2. job[l].hs \in Lists
    BY <1>1, <2>1 DEF JobTypes, Idle
  <2> QED
    BY <2>2, ServerAssumption
<1> QED
  BY <1>1 DEF JobShapes, ServerTypes, Hmaps

\* A task of the worker leaves the table at rest.
LEMMA TaskRests ==
  ASSUME LifeInv, AtRest(table), DoTask
  PROVE  AtRest(table')
<1> DEFINE t == Head(queue)
<1>1. t \in Tasks
  <2>1. queue \in Seq(Tasks) /\ queue # <<>>
    BY DEF DoTask, TakeTask, LifeInv, ServerTypes
  <2> QED
    BY <2>1
<1>2. DoAdd(t) \/ DoRelease(t) \/ DoAddListener(t) \/ DoRemoveListener(t) \/ DoRemoveDevice(t)
  BY DEF DoTask
<1> HIDE DEF t
<1>3. CASE DoAdd(t)
  <2>1. t.op = "add" /\ Cardinality({h \in ToSet(t.hs) : ~Found(table, h)}) <= Len(table.pool)
        /\ table' = AddRegisters(table, t.hs)
    BY <1>3 DEF DoAdd
  <2>2. PICK hs \in Lists : hs = t.hs
    BY <1>1, <2>1, TaskFields
  <2>3. hs \in Seq(Handles)
    BY ServerAssumption
  <2>4. PICK u : u = table'
    OBVIOUS
  <2>5. PICK v : v = table
    OBVIOUS
  <2>6. Added(v, hs, u)
    <3>1. AtRest(v)
      BY <2>5
    <3>2. u = AddRegisters(v, hs) /\ Cardinality({h \in ToSet(hs) : ~Found(v, h)}) <= Len(v.pool)
      BY <2>1, <2>2, <2>4, <2>5
    <3> QED
      BY <2>3, <3>1, <3>2, AddTaskDone
  <2> QED
    BY <2>4, <2>6 DEF Added
<1>4. CASE DoRelease(t)
  <2>1. t.op = "release" /\ table' = ReleaseRegisters(table, t.xs)
    BY <1>4 DEF DoRelease
  <2>2. PICK xs \in Seq(Entries) : xs = t.xs
    BY <1>1, <2>1, TaskFields DEF Entries
  <2>3. PICK u, v : u = table' /\ v = table
    OBVIOUS
  <2>4. ReleasedAll(v, xs, u)
    <3>1. AtRest(v)
      BY <2>3
    <3>2. u = ReleaseRegisters(v, xs)
      BY <2>1, <2>2, <2>3
    <3> QED
      BY <3>1, <3>2, ReleaseTaskDone
  <2> QED
    BY <2>3, <2>4 DEF ReleasedAll
<1>5. CASE DoAddListener(t) \/ DoRemoveListener(t)
  BY <1>5 DEF DoAddListener, DoRemoveListener
<1>6. CASE DoRemoveDevice(t)
  <2>1. t.op = "remove_device" /\ table' = RemoveDevice(table, t.dev_addr)
    BY <1>6 DEF DoRemoveDevice
  <2>2. PICK d \in Devices : d = t.dev_addr
    BY <1>1, <2>1, TaskFields
  <2>3. PICK u, v : u = table' /\ v = table
    OBVIOUS
  <2>4. DeviceRemoved(v, d, u)
    <3>1. AtRest(v)
      BY <2>3
    <3>2. u = RemoveDevice(v, d)
      BY <2>1, <2>2, <2>3
    <3> QED
      BY <3>1, <3>2, RemoveTaskDone
  <2> QED
    BY <2>3, <2>4 DEF DeviceRemoved
<1> QED
  BY <1>2, <1>3, <1>4, <1>5, <1>6

\* What a poll does to the table.
LEMMA PollRests ==
  ASSUME AtRest(table), Poll
  PROVE  Polled(table, table')
<1>1. PICK u, v : u = table' /\ v = table
  OBVIOUS
<1>2. u \in Polls(v) /\ AtRest(v)
  BY <1>1 DEF Poll
<1>3. Polled(v, u)
  BY <1>2, PollDone
<1> QED
  BY <1>1, <1>3

\* Every step leaves the table at rest.
LEMMA RestStep ==
  ASSUME LifeInv, AtRest(table), [Next]_vars
  PROVE  AtRest(table')
<1>1. CASE table' = table
  BY <1>1
<1>2. CASE DoTask
  BY <1>2, TaskRests
<1>3. CASE Poll
  BY <1>3, PollRests DEF Polled
<1>4. ASSUME NEW l \in Listeners, ListenerStep(l)
      PROVE  table' = table
  BY <1>4 DEF ListenerStep, Activate, Advise, Destroy, ReleaseAll, PostLast, StartJob, FinishAdvise,
              ReadRegisters, SendDone, SendFails, worker
<1>5. CASE Notify \/ DeactivateDevice \/ EndDeactivation \/ ActivateDevice
  BY <1>1, <1>5 DEF Notify, DeactivateDevice, EndDeactivation, ActivateDevice, worker
<1>6. CASE UNCHANGED vars
  BY <1>1, <1>6 DEF vars, worker
<1> QED
  BY <1>1, <1>2, <1>3, <1>4, <1>5, <1>6 DEF Next

\* The first half of advise, in its strand, and the other jobs that begin.
LEMMA StartJobCounts ==
  ASSUME LifeInv, CountInv, NEW l \in Listeners, StartJob(l)
  PROVE  CountInv'
<1>1. PICK t, m, j, q : t = table /\ m = hmap /\ j = job /\ q = queue
  OBVIOUS
<1>2. Counting(t, m, j, q)
  BY <1>1 DEF CountInv
<1>3. table' = t /\ hmap' = m /\ j[l] = Idle /\ DOMAIN j = Listeners
  BY <1>1 DEF StartJob, LifeInv, ServerTypes
<1>4. CASE queue' = queue /\ job' = job
  BY <1>1, <1>2, <1>3, <1>4 DEF CountInv
<1>5. CASE StartAdvise(l)
  <2>1. PICK hs : hs = Head(strand[l]).hs
    OBVIOUS
  <2>2. hs \in Lists
    <3>1. strand[l] \in Seq(Jobs) /\ strand[l] # <<>>
      BY DEF LifeInv, ServerTypes, StartJob
    <3>2. Head(strand[l]) \in Jobs /\ Head(strand[l]).op = "advise"
      BY <1>5, <3>1 DEF StartAdvise
    <3> QED
      BY <2>1, <3>2, JobFields
  <2> DEFINE x == [op |-> "add", l |-> l, hs |-> hs]
             w == [j EXCEPT ![l] = [at |-> "adding"]]
  <2>3. CASE queue' = Append(queue, x) /\ Does(l, [at |-> "adding"])
    <3>1. x \in Tasks /\ x.op = "add"
      BY <2>2, Posted
    <3>2. job' = w /\ queue' = Append(q, x)
      BY <1>1, <2>3 DEF Does
    <3>3. \A k \in Listeners : w[k] = j[k] \/ (j[k].at # "added" /\ w[k].at # "added")
      BY <1>3 DEF Idle
    <3> HIDE DEF x, w
    <3>4. Counting(t, m, w, q)
      BY <1>2, <3>3, OtherJob
    <3>5. Counting(t, m, w, Append(q, x))
      BY <3>1, <3>4, TaskPosted
    <3> QED
      BY <1>3, <3>2, <3>5 DEF CountInv
  <2>4. CASE queue' = queue /\ job' = job
    BY <1>4, <2>4
  <2> QED
    BY <1>5, <2>1, <2>3, <2>4 DEF StartAdvise
<1>6. CASE StartProcess(l)
  <2>1. PICK R : R = Head(strand[l]).registers
    OBVIOUS
  <2> DEFINE w == [j EXCEPT ![l] = [at |-> "reading", registers |-> R]]
  <2>2. job' = w /\ queue' = q
    BY <1>1, <1>6, <2>1 DEF StartProcess, Does
  <2>3. \A k \in Listeners : w[k] = j[k] \/ (j[k].at # "added" /\ w[k].at # "added")
    BY <1>3 DEF Idle
  <2> HIDE DEF w
  <2>4. Counting(t, m, w, q)
    BY <1>2, <2>3, OtherJob
  <2> QED
    BY <1>3, <2>2, <2>4 DEF CountInv
<1>7. CASE StartLast(l)
  BY <1>4, <1>7 DEF StartLast
<1> QED
  BY <1>5, <1>6, <1>7 DEF StartJob

\* advise goes on with the pointers it got.
LEMMA FinishAdviseCounts ==
  ASSUME LifeInv, CountInv, NEW l \in Listeners, FinishAdvise(l)
  PROVE  CountInv'
<1>1. PICK t, m, j, q : t = table /\ m = hmap /\ j = job /\ q = queue
  OBVIOUS
<1>2. Counting(t, m, j, q)
  BY <1>1 DEF CountInv
<1>3. PICK n, w : n = hmap' /\ w = job'
  OBVIOUS
<1>4. table' = t /\ queue' = q
  BY <1>1 DEF FinishAdvise, worker
<1>5. j[l].at = "added" /\ DOMAIN j = Listeners /\ m \in Hmaps
  BY <1>1 DEF FinishAdvise, LifeInv, ServerTypes, Hmaps
<1>6. w = [j EXCEPT ![l] = Idle]
  BY <1>1, <1>3 DEF FinishAdvise, Does
<1>7. w[l].at # "added" /\ \A k \in Listeners : k # l => w[k] = j[k]
  BY <1>5, <1>6 DEF Idle
<1>8. n \in Hmaps
  <2>1. LifeInv'
    BY FinishAdviseStep
  <2> QED
    BY <1>3, <2>1 DEF LifeInv, ServerTypes, Hmaps
<1>9. n = [m EXCEPT ![l] =
             [p \in Places |-> @[p] \o Picked(j[l].hs, {i \in DOMAIN j[l].hs : j[l].ptrs[i] = p})]]
  BY <1>1, <1>3 DEF FinishAdvise
<1>10. (\A k \in Listeners : k # l => n[k] = m[k]) /\ Stored(m, n, j, l)
  BY <1>5, <1>9 DEF Hmaps, Stored
<1>11. Counting(t, n, w, q)
  BY <1>2, <1>5, <1>7, <1>8, <1>10, StoreCounted
<1> QED
  BY <1>3, <1>4, <1>11 DEF CountInv

\* release_all.
LEMMA ReleaseAllCounts ==
  ASSUME LifeInv, CountInv, NEW l \in Listeners, ReleaseAll(l)
  PROVE  CountInv'
<1>1. PICK t, m, j, q : t = table /\ m = hmap /\ j = job /\ q = queue
  OBVIOUS
<1>2. Counting(t, m, j, q)
  BY <1>1 DEF CountInv
<1>3. table' = t /\ job' = j
  BY <1>1 DEF ReleaseAll
<1>4. PICK xs \in Seq(Entries) :
        /\ ReleaseTasks(l) = <<[op |-> "release", xs |-> xs], [op |-> "remove_listener", l |-> l]>>
        /\ EntriesOf(m[l], xs)
  BY <1>1, ReleaseTasksAre DEF LifeInv, Entries
<1>5. PICK n : n = hmap'
  OBVIOUS
<1>6. m \in Hmaps /\ q \in Seq(Tasks)
  BY <1>1 DEF LifeInv, ServerTypes, Hmaps
<1>7. n = [m EXCEPT ![l] = [p \in Places |-> <<>>]]
  BY <1>1, <1>5 DEF ReleaseAll
<1>8. /\ n \in Hmaps /\ \A p \in Places : n[l][p] = <<>>
      /\ \A k \in Listeners : k # l => n[k] = m[k]
  BY <1>6, <1>7 DEF Hmaps
<1> DEFINE r == [op |-> "release", xs |-> xs]
           x == [op |-> "remove_listener", l |-> l]
<1>9. r \in Tasks /\ r.op = "release" /\ r.xs = xs /\ x \in Tasks /\ x.op = "remove_listener"
  BY Posted DEF Entries
<1>10. queue' = q \o <<r, x>>
  BY <1>1, <1>4 DEF ReleaseAll
<1> HIDE DEF r, x
<1>11. q \o <<r, x>> = Append(Append(q, r), x)
  BY <1>6, <1>9
<1>12. Counting(t, n, j, Append(q, r))
  BY <1>2, <1>4, <1>8, <1>9, ReturnCounted
<1>13. Counting(t, n, j, Append(Append(q, r), x))
  BY <1>9, <1>12, TaskPosted
<1> QED
  BY <1>3, <1>5, <1>10, <1>11, <1>13 DEF CountInv

\* A job that read the registers, or was sent, ends.
LEMMA SendingCounts ==
  ASSUME LifeInv, CountInv, NEW l \in Listeners, ReadRegisters(l) \/ SendDone(l) \/ SendFails(l)
  PROVE  CountInv'
<1>1. PICK t, m, j, q : t = table /\ m = hmap /\ j = job /\ q = queue
  OBVIOUS
<1>2. Counting(t, m, j, q)
  BY <1>1 DEF CountInv
<1>3. table' = t /\ hmap' = m /\ queue' = q
  BY <1>1 DEF ReadRegisters, SendDone, SendFails, worker
<1>4. DOMAIN j = Listeners /\ j[l].at \in {"reading", "sending"}
  BY <1>1 DEF ReadRegisters, SendDone, SendFails, LifeInv, ServerTypes
<1>5. PICK e : job' = [j EXCEPT ![l] = e] /\ e.at \in {"idle", "sending"}
  <2>1. CASE ReadRegisters(l)
    <3>1. PICK values : values = UNION {{<<h, Told(p)>> : h \in ToSet(hmap[l][p])} : p \in job[l].registers}
      OBVIOUS
    <3> DEFINE e == IF values = {} \/ Deleted(l) THEN Idle ELSE [at |-> "sending", values |-> values]
    <3>2. job' = [j EXCEPT ![l] = e]
      BY <1>1, <2>1, <3>1 DEF ReadRegisters, Does
    <3>3. e.at \in {"idle", "sending"}
      BY DEF Idle
    <3> QED
      BY <3>2, <3>3
  <2>2. CASE SendDone(l) \/ SendFails(l)
    BY <1>1, <2>2 DEF SendDone, SendFails, Does, Idle
  <2> QED
    BY <2>1, <2>2
<1> DEFINE w == [j EXCEPT ![l] = e]
<1>6. \A k \in Listeners : w[k] = j[k] \/ (j[k].at # "added" /\ w[k].at # "added")
  BY <1>4, <1>5
<1> HIDE DEF w
<1>7. Counting(t, m, w, q)
  BY <1>2, <1>6, OtherJob
<1> QED
  BY <1>3, <1>5, <1>7 DEF CountInv, w

\* A task of the worker.
LEMMA DoTaskCounts ==
  ASSUME LifeInv, AtRest(table), CountInv, DoTask
  PROVE  CountInv'
<1>1. PICK t, m, j, q : t = table /\ m = hmap /\ j = job /\ q = queue
  OBVIOUS
<1>2. Counting(t, m, j, q) /\ AtRest(t)
  BY <1>1 DEF CountInv
<1>3. q \in Seq(Tasks) /\ q # <<>> /\ queue' = Tail(q) /\ hmap' = m
  BY <1>1 DEF DoTask, TakeTask, LifeInv, ServerTypes
<1>4. PICK x : x = Head(q)
  OBVIOUS
<1>5. x \in Tasks /\ x.op # "remove_device"
  BY <1>2, <1>3, <1>4, TaskTaken DEF Counting
<1>6. DoAdd(x) \/ DoRelease(x) \/ DoAddListener(x) \/ DoRemoveListener(x) \/ DoRemoveDevice(x)
  BY <1>1, <1>4 DEF DoTask
<1>7. TaskOf(x)
  BY <1>1, <1>4, QueueShorter DEF DoTask
<1>8. CASE DoAdd(x)
  <2>1. /\ x.op = "add" /\ Cardinality({h \in ToSet(x.hs) : ~Found(t, h)}) <= Len(t.pool)
        /\ table' = AddRegisters(t, x.hs)
    BY <1>1, <1>8 DEF DoAdd
  <2>2. PICK hs \in Lists, l \in Listeners : hs = x.hs /\ l = x.l
    BY <1>5, <2>1, TaskFields DEF Awaited
  <2>3. hs \in Seq(Handles) /\ DOMAIN hs = 1 .. Len(hs)
    BY ServerAssumption
  <2>4. PICK u : u = table'
    OBVIOUS
  <2>5. Added(t, hs, u)
    BY <1>2, <2>1, <2>2, <2>3, <2>4, AddTaskDone
  <2>6. PICK ptrs : ptrs = [i \in DOMAIN hs |-> PlaceOf(u, hs[i])]
    OBVIOUS
  <2> DEFINE w == [j EXCEPT ![l] = [at |-> "added", hs |-> hs, ptrs |-> ptrs]]
  <2>7. job' = w
    BY <1>1, <1>8, <2>2, <2>4, <2>6 DEF DoAdd, Does
  <2>8. j[l].at = "adding" /\ DOMAIN j = Listeners
    BY <1>1, <1>7, <2>1, <2>2 DEF TaskOf, LifeInv, ServerTypes
  <2>9. /\ w[l].at = "added" /\ w[l].hs = hs /\ w[l].ptrs = ptrs
        /\ \A k \in Listeners : k # l => w[k] = j[k]
    BY <2>8
  <2> HIDE DEF w
  <2>10. \A i \in 1 .. Len(hs) : w[l].ptrs[i] = PlaceOf(u, hs[i])
    BY <2>3, <2>6, <2>9
  <2>11. PICK r : r = Tail(q)
    OBVIOUS
  <2>12. Counting(t, m, j, r)
    BY <1>2, <1>3, <1>4, <2>1, <2>11, OtherTaken
  <2>13. Counting(u, m, w, r)
    BY <2>3, <2>5, <2>8, <2>9, <2>10, <2>12, AddCounted
  <2> QED
    BY <1>3, <2>4, <2>7, <2>11, <2>13 DEF CountInv
<1>9. CASE DoRelease(x)
  <2>1. x.op = "release" /\ table' = ReleaseRegisters(t, x.xs) /\ job' = j
    BY <1>1, <1>9 DEF DoRelease
  <2>2. PICK u : u = table'
    OBVIOUS
  <2>3. PICK xs \in Seq(Entries) : xs = x.xs
    BY <1>5, <2>1, TaskFields DEF Entries
  <2>4. ReleasedAll(t, xs, u)
    BY <1>2, <2>1, <2>2, <2>3, ReleaseTaskDone
  <2>5. Counting(u, m, j, Tail(q))
    BY <1>2, <1>3, <1>4, <2>1, <2>3, <2>4, ReleaseCounted
  <2> QED
    BY <1>3, <2>1, <2>2, <2>5 DEF CountInv
<1>10. CASE DoAddListener(x) \/ DoRemoveListener(x)
  <2>1. x.op # "release" /\ table' = t /\ job' = j
    BY <1>1, <1>10 DEF DoAddListener, DoRemoveListener
  <2>2. Counting(t, m, j, Tail(q))
    BY <1>2, <1>3, <1>4, <2>1, OtherTaken
  <2> QED
    BY <1>3, <2>1, <2>2 DEF CountInv
<1>11. CASE DoRemoveDevice(x)
  BY <1>5, <1>11 DEF DoRemoveDevice
<1> QED
  BY <1>6, <1>8, <1>9, <1>10, <1>11

\* A poll.
LEMMA PollCounts ==
  ASSUME AtRest(table), CountInv, Poll
  PROVE  CountInv'
<1>1. PICK t, m, j, q, u : t = table /\ m = hmap /\ j = job /\ q = queue /\ u = table'
  OBVIOUS
<1>2. Counting(t, m, j, q)
  BY <1>1 DEF CountInv
<1>3. Polled(t, u)
  BY <1>1, PollRests
<1>4. hmap' = m /\ job' = j /\ queue' = q
  BY <1>1 DEF Poll
<1>5. Counting(u, m, j, q)
  BY <1>2, <1>3, SameCounts DEF Polled, AtRest
<1> QED
  BY <1>1, <1>4, <1>5 DEF CountInv

\* Every step keeps the counts, until a device is deactivated.
LEMMA CountStep ==
  ASSUME LifeInv, AtRest(table), CountInv, removals \in Nat, [Next]_vars, removals' = 0
  PROVE  CountInv'
<1>1. CASE UNCHANGED <<table, hmap, job, queue>>
  BY <1>1 DEF CountInv
<1>2. ASSUME NEW l \in Listeners, ListenerStep(l)
      PROVE  CountInv'
  <2>1. CASE Activate(l)
    <3> DEFINE x == [op |-> "add_listener", l |-> l]
    <3>1. PICK t, m, j, q : t = table /\ m = hmap /\ j = job /\ q = queue
      OBVIOUS
    <3>2. Counting(t, m, j, q)
      BY <3>1 DEF CountInv
    <3>3. table' = t /\ hmap' = m /\ job' = j /\ queue' = Append(q, x)
      BY <2>1, <3>1 DEF Activate
    <3>4. x \in Tasks /\ x.op = "add_listener"
      BY Posted
    <3> HIDE DEF x
    <3>5. Counting(t, m, j, Append(q, x))
      BY <3>2, <3>4, TaskPosted
    <3> QED
      BY <3>3, <3>5 DEF CountInv
  <2>2. CASE Advise(l) \/ Destroy(l) \/ PostLast(l)
    BY <1>1, <2>2 DEF Advise, Destroy, PostLast, worker
  <2>3. CASE ReleaseAll(l)
    BY <2>3, ReleaseAllCounts
  <2>4. CASE StartJob(l)
    BY <2>4, StartJobCounts
  <2>5. CASE FinishAdvise(l)
    BY <2>5, FinishAdviseCounts
  <2>6. CASE ReadRegisters(l) \/ SendDone(l) \/ SendFails(l)
    BY <2>6, SendingCounts
  <2> QED
    BY <1>2, <2>1, <2>2, <2>3, <2>4, <2>5, <2>6 DEF ListenerStep
<1>3. CASE DoTask
  BY <1>3, DoTaskCounts
<1>4. CASE Poll
  BY <1>4, PollCounts
<1>5. CASE Notify \/ EndDeactivation \/ ActivateDevice
  BY <1>1, <1>5 DEF Notify, EndDeactivation, ActivateDevice, worker
<1>6. CASE DeactivateDevice
  BY <1>6 DEF DeactivateDevice
<1>7. CASE UNCHANGED vars
  BY <1>1, <1>7 DEF vars, worker
<1> QED
  BY <1>2, <1>3, <1>4, <1>5, <1>6, <1>7 DEF Next

-----------------------------------------------------------------------------
(* The theorems about registers and clients.                                *)

\* What holds in every state: the table is at rest, and until a device is
\* deactivated its counts are those of what clients hold.
ServerInv ==
  Inv /\ AtRest(table) /\ removals \in Nat /\ (removals = 0 => CountInv)

\* At first nothing is held and nothing is counted.
LEMMA ServerInit == Init => ServerInv
<1> SUFFICES ASSUME Init
             PROVE  ServerInv
  OBVIOUS
<1>1. LifeInv /\ Inv
  BY LifeInit DEF Inv, Init
<1>2. PICK t, m, j, q : t = table /\ m = hmap /\ j = job /\ q = queue
  OBVIOUS
<1>3. t = InitialTable /\ q = <<>> /\ removals = 0
  BY <1>2 DEF Init
<1>4. AtRest(t) /\ \A g \in Handles : ~Found(t, g)
  BY <1>3, InitialAtRest
<1>5. \A l \in Listeners : j[l] = Idle /\ \A p \in Places : m[l][p] = <<>>
  BY <1>2 DEF Init
<1>6. Shapes(t, m, j, q)
  BY <1>1, <1>2, <1>4, JobsBringLists DEF Shapes, AtRest, LifeInv, ServerTypes
<1>7. PlacesTrue(t, m)
  <2>1. \A l \in Listeners, p \in Places : Len(m[l][p]) = 0
    BY <1>5
  <2> QED
    BY <2>1 DEF PlacesTrue
<1>8. Given(t, j)
  BY <1>5 DEF Given, Idle
<1>9. Balanced(t, m, j, q)
  <2> SUFFICES ASSUME NEW h \in Handles
               PROVE  Total(t, h) = KeptOf(t, m, h) + ComingCount(j, h) + LeavingCount(q, h)
    BY DEF Balanced
  <2>1. Total(t, h) = 0 /\ KeptOf(t, m, h) = 0
    BY <1>4 DEF Total, KeptOf
  <2>2. ComingCount(j, h) = 0
    <3>1. \A l \in Listeners : Asks(j, h)[l] = {}
      BY <1>5 DEF Asks, Idle
    <3>2. Tagged(Listeners, Asks(j, h)) = {}
      BY <3>1, TaggedHas
    <3> QED
      BY <3>2, FS_EmptySet DEF ComingCount
  <2>3. LeavingCount(q, h) = 0
    <3>1. DOMAIN q = {}
      BY <1>3
    <3>2. Tagged(DOMAIN q, Backs(q, h)) = {}
      BY <3>1, TaggedHas
    <3> QED
      BY <3>2, FS_EmptySet DEF LeavingCount
  <2> QED
    BY <2>1, <2>2, <2>3
<1>10. NoRemoval(q)
  BY <1>3 DEF NoRemoval
<1>11. CountInv
  BY <1>2, <1>6, <1>7, <1>8, <1>9, <1>10 DEF CountInv, Counting
<1> QED
  BY <1>1, <1>2, <1>3, <1>4, <1>11 DEF ServerInv

\* Devices that were removed are never unremoved.
LEMMA RemovalsStep ==
  ASSUME removals \in Nat, [Next]_vars
  PROVE  removals' \in Nat /\ (removals' = 0 => removals = 0)
<1>1. CASE removals' = removals
  BY <1>1
<1>2. CASE DeactivateDevice
  <2>1. removals' = removals + 1
    BY <1>2 DEF DeactivateDevice
  <2> QED
    BY <2>1
<1>3. ASSUME NEW l \in Listeners, ListenerStep(l)
      PROVE  removals' = removals
  BY <1>3 DEF ListenerStep, Activate, Advise, Destroy, ReleaseAll, PostLast, StartJob, FinishAdvise,
              ReadRegisters, SendDone, SendFails, devices
<1>4. CASE DoTask \/ Poll \/ Notify \/ EndDeactivation \/ ActivateDevice
  BY <1>1, <1>4 DEF DoTask, Poll, Notify, EndDeactivation, ActivateDevice, devices
<1>5. CASE UNCHANGED vars
  BY <1>1, <1>5 DEF vars, devices
<1> QED
  BY <1>1, <1>2, <1>3, <1>4, <1>5 DEF Next

\* Every step keeps it.
LEMMA ServerStep == ServerInv /\ [Next]_vars => ServerInv'
<1> SUFFICES ASSUME ServerInv, [Next]_vars
             PROVE  ServerInv'
  OBVIOUS
<1>1. Inv' /\ LifeInv
  BY LifeStep, BridgesStep DEF ServerInv, Inv
<1>2. AtRest(table') /\ AtRest(table)
  BY <1>1, RestStep DEF ServerInv
<1>3. removals' \in Nat /\ (removals' = 0 => removals = 0)
  BY RemovalsStep DEF ServerInv
<1>4. ASSUME removals' = 0
      PROVE  CountInv'
  <2>1. CountInv /\ removals \in Nat
    BY <1>3, <1>4 DEF ServerInv
  <2> QED
    BY <1>1, <1>2, <1>4, <2>1, CountStep
<1> QED
  BY <1>1, <1>2, <1>3, <1>4 DEF ServerInv

\* Where the counts are right, the handles in a hmap_ are under the places of
\* their registers, and each register is counted for what is held of it.
LEMMA CountsMean ==
  ASSUME LifeInv, CountInv
  PROVE  PointersLive /\ HandlesCounted
<1>1. PICK t, m, j, q : t = table /\ m = hmap /\ j = job /\ q = queue
  OBVIOUS
<1>2. Counting(t, m, j, q)
  BY <1>1 DEF CountInv
<1>3. Sound(t) /\ m \in Hmaps /\ q \in Seq(Tasks)
  BY <1>2 DEF Counting, Shapes
<1>4. PointersLive
  <2> SUFFICES ASSUME NEW l \in Listeners, NEW p \in Places, NEW h \in ToSet(hmap[l][p])
               PROVE  table.reg[p].handle = h
    BY DEF PointersLive
  <2>1. PICK s \in Seq(Handles) : s = m[l][p]
    BY <1>3 DEF Hmaps
  <2>2. ToSet(s) = {s[i] : i \in 1 .. Len(s)}
    BY <2>1, SetOfSeq
  <2>3. PICK i \in 1 .. Len(s) : h = s[i]
    BY <1>1, <2>1, <2>2
  <2> QED
    BY <1>1, <1>2, <2>1, <2>3 DEF Counting, PlacesTrue
<1>5. HandlesCounted
  <2> SUFFICES ASSUME NEW p \in Places, t.reg[p].handle # NoHandle
               PROVE  t.reg[p].ref_cnt = Cardinality(Kept(p)) + Cardinality(Coming(t.reg[p].handle))
                                           + Cardinality(Leaving(q, t.reg[p].handle))
    BY <1>1 DEF HandlesCounted, Live
  <2>1. PICK h \in Handles : h = t.reg[p].handle
    BY <1>3 DEF Sound, TableShape, Registers
  <2>2. Found(t, h) /\ PlaceOf(t, h) = p
    BY <1>3, <2>1, LookUp
  <2>3. t.reg[p].ref_cnt = KeptCount(m, p) + ComingCount(j, h) + LeavingCount(q, h)
    BY <1>2, <2>2 DEF Counting, Balanced, Total, Counted, KeptOf
  <2>4. Cardinality(Kept(p)) = KeptCount(m, p) /\ Cardinality(Coming(h)) = ComingCount(j, h)
    BY <1>1, CountsAre
  <2>5. Cardinality(Leaving(q, h)) = LeavingCount(q, h)
    BY <1>3, LeavingIs
  <2> QED
    BY <2>1, <2>3, <2>4, <2>5
<1> QED
  BY <1>4, <1>5

\* Whatever the clients, the worker and the devices do, the register table of
\* the server is at rest between two steps, and until the first device is
\* deactivated its counts are those of what the clients hold.
THEOREM ServerCounts == Spec => []ServerInv
<1>1. Init => ServerInv
  BY ServerInit
<1>2. ServerInv /\ [Next]_vars => ServerInv'
  BY ServerStep
<1> QED
  BY <1>1, <1>2, PTL DEF Spec

\* Until the first device is deactivated a pointer in a hmap_ is the register
\* of the handles kept under it, however many clients came and went and however
\* often its memory was used again (advise, release_all, release_registers).
THEOREM PointersStayLive == Spec => [](removals = 0 => PointersLive)
<1>1. ServerInv => (removals = 0 => PointersLive)
  BY CountsMean DEF ServerInv, Inv
<1> QED
  BY <1>1, ServerCounts, PTL

\* Until then a register is counted once for each handle that is in a hmap_,
\* on its way there, or on its way back to the worker: none is freed while
\* somebody holds it, and none is polled for nobody.
THEOREM HandlesStayCounted == Spec => [](removals = 0 => HandlesCounted)
<1>1. ServerInv => (removals = 0 => HandlesCounted)
  BY CountsMean DEF ServerInv, Inv
<1> QED
  BY <1>1, ServerCounts, PTL

-----------------------------------------------------------------------------
(* What a client was told.                                                  *)
ToldOf(x) == IF x.op_available = "not_responded" THEN "not_responded" ELSE x.op_value

\* The register at p was read and its client was not told yet: s is its
\* strand, and j what the strand does.
News(U, s, j, p) ==
  \/ p \in U
  \/ \E i \in 1 .. Len(s) : s[i].op = "process" /\ p \in s[i].registers
  \/ j.at = "reading" /\ p \in j.registers

\* Of register h the client was told v last, e being what it was told, or is
\* told so now.
Knows(j, e, h, v) ==
  IF j.at = "sending" /\ \E x \in j.values : x[1] = h
  THEN \A x \in j.values : x[1] = h => x[2] = v
  ELSE e[h] = v

\* What was read of a register that the client advised, it knows or will read.
UpToDate(r, U, s, j, e, m) ==
  \A p \in Places : \A i \in 1 .. Len(m[p]) :
    \/ r[p].op_available = "unknown"
    \/ News(U, s, j, p)
    \/ Knows(j, e, m[p][i], ToldOf(r[p]))

\* A step that tells the client nothing and hides nothing from it.
LEMMA StillUpToDate ==
  ASSUME NEW r, NEW U, NEW s, NEW j, NEW e, NEW m, UpToDate(r, U, s, j, e, m),
         NEW x, NEW V, NEW w, NEW k, NEW n,
         j.at # "sending" \/ k = j, k.at = "sending" => k = j,
         \A p \in Places : News(U, s, j, p) => News(V, w, k, p),
         \A p \in Places : \/ x[p].op_available = "unknown"
                           \/ News(V, w, k, p)
                           \/ n[p] = m[p] /\ StillSaid(r[p], x[p])
  PROVE  UpToDate(x, V, w, k, e, n)
<1> SUFFICES ASSUME NEW p \in Places, NEW i \in 1 .. Len(n[p]),
                    x[p].op_available # "unknown", ~News(V, w, k, p)
             PROVE  Knows(k, e, n[p][i], ToldOf(x[p]))
  BY DEF UpToDate
<1>1. n[p] = m[p] /\ StillSaid(r[p], x[p]) /\ ~News(U, s, j, p)
  OBVIOUS
<1>2. ToldOf(x[p]) = ToldOf(r[p]) /\ r[p].op_available # "unknown"
  BY <1>1 DEF StillSaid, ToldOf
<1>3. Knows(j, e, n[p][i], ToldOf(x[p]))
  BY <1>1, <1>2 DEF UpToDate
<1> QED
  BY <1>3 DEF Knows

\* A job is posted.
LEMMA NewsPosted ==
  ASSUME NEW U, NEW s \in Seq(Jobs), NEW x \in Jobs, NEW j, NEW p
  PROVE  /\ News(U, s, j, p) => News(U, Append(s, x), j, p)
         /\ x.op = "process" /\ p \in x.registers => News(U, Append(s, x), j, p)
<1>1. /\ Len(s) \in Nat /\ Len(Append(s, x)) = Len(s) + 1
      /\ \A i \in 1 .. Len(s) + 1 : Append(s, x)[i] = IF i = Len(s) + 1 THEN x ELSE s[i]
  BY AppendAt
<1>2. PICK w, n : w = Append(s, x) /\ n = Len(s)
  OBVIOUS
<1>3. Len(w) = n + 1 /\ w[n + 1] = x /\ n + 1 \in 1 .. n + 1
      /\ \A i \in 1 .. n : w[i] = s[i] /\ i \in 1 .. n + 1
  BY <1>1, <1>2
<1>4. News(U, s, j, p) => News(U, w, j, p)
  BY <1>2, <1>3 DEF News
<1>5. x.op = "process" /\ p \in x.registers => News(U, w, j, p)
  BY <1>3 DEF News
<1> QED
  BY <1>2, <1>4, <1>5

\* A job starts: what it will read is still news.
LEMMA NewsStarted ==
  ASSUME NEW U, NEW s \in Seq(Jobs), s # <<>>, NEW j, NEW k, NEW p, j = Idle,
         s[1].op = "process" => k.at = "reading" /\ k.registers = s[1].registers
  PROVE  News(U, s, j, p) => News(U, Tail(s), k, p)
<1>1. PICK w, n : w = Tail(s) /\ n = Len(s)
  OBVIOUS
<1>2. /\ n \in Nat /\ Len(w) = n - 1
      /\ \A i \in 1 .. n - 1 : i + 1 \in 1 .. n /\ w[i] = s[i + 1]
  BY <1>1, TailAt
<1>3. SUFFICES ASSUME News(U, s, j, p)
               PROVE  News(U, w, k, p)
  BY <1>1
<1>4. j.at = "idle"
  BY DEF Idle
<1>5. CASE p \in U
  BY <1>5 DEF News
<1>6. ASSUME NEW i \in 1 .. n, s[i].op = "process", p \in s[i].registers
      PROVE  News(U, w, k, p)
  <2>1. CASE i = 1
    BY <1>6, <2>1 DEF News
  <2>2. CASE i # 1
    <3>1. i - 1 \in 1 .. n - 1 /\ w[i - 1] = s[i]
      <4>1. i - 1 \in 1 .. n - 1 /\ (i - 1) + 1 = i
        BY <1>2, <2>2
      <4> QED
        BY <1>2, <4>1
    <3> QED
      BY <1>2, <1>6, <3>1 DEF News
  <2> QED
    BY <2>1, <2>2
<1> QED
  BY <1>1, <1>3, <1>4, <1>5, <1>6 DEF News

\* What process_registers takes from hmap_ and the registers.
ValuesOf(r, m, R) == UNION {{<<h, ToldOf(r[p])>> : h \in ToSet(m[p])} : p \in R}

\* process_registers: what was news is sent now, and what is sent of a register
\* is its value.
LEMMA NewsRead ==
  ASSUME NEW t, Sound(t), NEW U, NEW s, NEW j, NEW e, NEW m \in [Places -> Seq(Handles)],
         \A p \in Places : \A i \in 1 .. Len(m[p]) : t.reg[p].handle = m[p][i],
         UpToDate(t.reg, U, s, j, e, m), j.at = "reading", j.registers \subseteq Places,
         NEW vs, vs = ValuesOf(t.reg, m, j.registers),
         NEW k, k = IF vs = {} THEN Idle ELSE [at |-> "sending", values |-> vs]
  PROVE  UpToDate(t.reg, U, s, k, e, m)
<1> SUFFICES ASSUME NEW p \in Places, NEW i \in 1 .. Len(m[p]),
                    t.reg[p].op_available # "unknown", ~News(U, s, k, p)
             PROVE  Knows(k, e, m[p][i], ToldOf(t.reg[p]))
  BY DEF UpToDate
<1>1. PICK c : c = m[p]
  OBVIOUS
<1>2. c \in Seq(Handles) /\ i \in 1 .. Len(c)
  BY <1>1
<1>3. PICK h \in Handles : h = c[i]
  BY <1>2
<1>4. t.reg[p].handle = h /\ h = m[p][i]
  BY <1>1, <1>3
<1>5. ASSUME NEW x \in vs, x[1] = h
      PROVE  x[2] = ToldOf(t.reg[p])
  <2>1. PICK q \in j.registers : x \in {<<g, ToldOf(t.reg[q])>> : g \in ToSet(m[q])}
    BY <1>5 DEF ValuesOf
  <2>2. PICK g \in ToSet(m[q]) : x = <<g, ToldOf(t.reg[q])>>
    BY <2>1
  <2>3. g = h /\ q \in Places
    BY <1>5, <2>2
  <2>4. PICK d : d = m[q]
    OBVIOUS
  <2>5. d \in Seq(Handles)
    BY <2>3, <2>4
  <2>6. PICK n \in 1 .. Len(d) : g = d[n]
    BY <2>2, <2>4, <2>5, SetOfSeq
  <2>7. t.reg[q].handle = h
    BY <2>3, <2>4, <2>6
  <2>8. q = p
    BY <1>4, <2>3, <2>7, LookUp
  <2> QED
    BY <2>2, <2>8
<1>6. CASE p \in j.registers
  <2>1. h \in ToSet(c)
    BY <1>2, <1>3, SetOfSeq
  <2>2. <<h, ToldOf(t.reg[p])>> \in vs
    BY <1>1, <1>6, <2>1 DEF ValuesOf
  <2>3. k.at = "sending" /\ k.values = vs
    BY <2>2
  <2> QED
    BY <1>4, <1>5, <2>2, <2>3 DEF Knows
<1>7. CASE p \notin j.registers
  <2>1. ~News(U, s, j, p)
    BY <1>7 DEF News
  <2>2. e[h] = ToldOf(t.reg[p])
    BY <1>4, <2>1 DEF UpToDate, Knows
  <2>3. k.at = "sending" => k.values = vs
    BY DEF Idle
  <2> QED
    BY <1>4, <1>5, <2>2, <2>3 DEF Knows
<1> QED
  BY <1>6, <1>7

\* What a client that knew e was told last when the values of j were sent.
ToldOnce(j, e) ==
  [h \in Handles |-> LET new == {x \in j.values : x[1] = h}
                      IN IF new = {} THEN e[h] ELSE (CHOOSE x \in new : TRUE)[2]]

\* What a client knows when OnDataChanged came back.
LEMMA NewsSent ==
  ASSUME NEW r, NEW U, NEW s, NEW j, NEW e, NEW m \in [Places -> Seq(Handles)],
         UpToDate(r, U, s, j, e, m), j.at = "sending",
         NEW f, f = ToldOnce(j, e)
  PROVE  UpToDate(r, U, s, Idle, f, m)
<1> SUFFICES ASSUME NEW p \in Places, NEW i \in 1 .. Len(m[p]),
                    r[p].op_available # "unknown", ~News(U, s, Idle, p)
             PROVE  Knows(Idle, f, m[p][i], ToldOf(r[p]))
  BY DEF UpToDate
<1>1. PICK c : c = m[p]
  OBVIOUS
<1>2. c \in Seq(Handles) /\ i \in 1 .. Len(c)
  BY <1>1
<1>3. PICK h \in Handles : h = m[p][i]
  BY <1>1, <1>2
<1>4. PICK v : v = ToldOf(r[p])
  OBVIOUS
<1>5. Knows(j, e, h, v)
  BY <1>3, <1>4 DEF UpToDate, News
<1> DEFINE new == {x \in j.values : x[1] = h}
<1>6. f[h] = IF new = {} THEN e[h] ELSE (CHOOSE x \in new : TRUE)[2]
  BY DEF ToldOnce
<1>7. f[h] = v
  <2>1. CASE new = {}
    BY <1>5, <1>6, <2>1 DEF Knows
  <2>2. CASE new # {}
    <3>1. PICK y : y = CHOOSE x \in new : TRUE
      OBVIOUS
    <3>2. y \in new
      BY <2>2, <3>1
    <3>3. y[2] = v
      BY <1>5, <3>2 DEF Knows
    <3> QED
      BY <1>6, <2>2, <3>1, <3>3
  <2> QED
    BY <2>1, <2>2
<1> QED
  BY <1>3, <1>4, <1>7 DEF Knows, Idle

\* Nothing is kept for a listener before it is there, and a place was given
\* for each register that was asked for.
ToldInv ==
  /\ DOMAIN seen = Listeners
  /\ \A l \in Listeners :
       /\ stage[l] \in {"absent", "activating"} => \A p \in Places : hmap[l][p] = <<>>
       /\ job[l].at = "added" => DOMAIN job[l].ptrs = DOMAIN job[l].hs

\* Whoever missed no call knows what was read of the registers it advised, or
\* will be told.
FreshInv ==
  \A l \in listeners \ failed : ~Deleted(l) =>
    UpToDate(table.reg, updated, strand[l], job[l], seen[l], hmap[l])

\* Every step keeps ToldInv.
LEMMA ToldStep ==
  ASSUME LifeInv, ToldInv, [Next]_vars
  PROVE  ToldInv'
<1> DEFINE OthersSame(l) == \A k \in Listeners : k # l =>
                          job'[k] = job[k] /\ stage'[k] = stage[k] /\ hmap'[k] = hmap[k]
<1>1. DOMAIN seen' = Listeners
  <2>1. CASE seen' = seen
    BY <2>1 DEF ToldInv
  <2>2. ASSUME NEW l \in Listeners, ListenerStep(l)
        PROVE  DOMAIN seen' = Listeners
    <3>1. CASE SendDone(l)
      BY <3>1 DEF SendDone, ToldInv
    <3>2. CASE ~SendDone(l)
      BY <2>1, <2>2, <3>2 DEF ListenerStep, Activate, Advise, Destroy, ReleaseAll, PostLast, StartJob,
                              FinishAdvise, ReadRegisters, SendFails, client
    <3> QED
      BY <3>1, <3>2
  <2>3. CASE DoTask \/ Poll \/ Notify \/ DeactivateDevice \/ EndDeactivation \/ ActivateDevice
    BY <2>1, <2>3 DEF DoTask, Poll, Notify, DeactivateDevice, EndDeactivation, ActivateDevice, client
  <2>4. CASE UNCHANGED vars
    BY <2>1, <2>4 DEF vars, client
  <2> QED
    BY <2>2, <2>3, <2>4 DEF Next
<1>2. /\ DOMAIN job = Listeners /\ DOMAIN stage = Listeners /\ DOMAIN hmap = Listeners
      /\ \A l \in Listeners : DOMAIN hmap[l] = Places
  BY DEF LifeInv, ServerTypes
<1>3. CASE UNCHANGED <<job, stage, hmap>>
  BY <1>1, <1>3 DEF ToldInv
<1>4. ASSUME NEW l \in Listeners, OthersSame(l),
             stage'[l] \in {"absent", "activating"} =>
               stage[l] \in {"absent", "activating"} /\ hmap'[l] = hmap[l],
             job'[l].at = "added" => DOMAIN job'[l].ptrs = DOMAIN job'[l].hs
      PROVE  ToldInv'
  BY <1>1, <1>4 DEF ToldInv
<1>5. ASSUME NEW l \in Listeners, ListenerStep(l)
      PROVE  ToldInv'
  <2>1. CASE Activate(l)
    <3>1. /\ OthersSame(l) /\ job'[l] = job[l] /\ hmap'[l] = hmap[l] /\ stage[l] = "absent"
      BY <1>2, <2>1 DEF Activate, Stage
    <3> QED
      BY <1>4, <3>1 DEF ToldInv
  <2>2. CASE Advise(l) \/ Destroy(l) \/ PostLast(l)
    <3>1. OthersSame(l) /\ job'[l] = job[l] /\ stage'[l] \notin {"absent", "activating"}
      BY <1>2, <2>2 DEF Advise, Destroy, PostLast, Stage, worker
    <3> QED
      BY <1>4, <3>1 DEF ToldInv
  <2>3. CASE ReleaseAll(l)
    <3>1. OthersSame(l) /\ job'[l] = job[l] /\ stage'[l] \notin {"absent", "activating"}
      BY <1>2, <2>3 DEF ReleaseAll, Stage
    <3> QED
      BY <1>4, <3>1 DEF ToldInv
  <2>4. CASE StartJob(l)
    <3>1. /\ OthersSame(l) /\ hmap'[l] = hmap[l]
          /\ job'[l] = job[l] \/ job'[l].at # "added"
          /\ stage'[l] = stage[l] \/ stage'[l] \notin {"absent", "activating"}
      <4>1. hmap' = hmap
        BY <2>4 DEF StartJob
      <4>2. CASE StartAdvise(l)
        BY <1>2, <4>1, <4>2 DEF StartAdvise, Does, Stage
      <4>3. CASE StartProcess(l)
        BY <1>2, <4>1, <4>3 DEF StartProcess, Does
      <4>4. CASE StartLast(l)
        BY <1>2, <4>1, <4>4 DEF StartLast, Stage
      <4> QED
        BY <2>4, <4>2, <4>3, <4>4 DEF StartJob
    <3> QED
      BY <1>4, <3>1 DEF ToldInv
  <2>5. CASE FinishAdvise(l)
    <3>1. OthersSame(l) /\ job'[l].at # "added" /\ stage'[l] \notin {"absent", "activating"}
      BY <1>2, <2>5 DEF FinishAdvise, Does, Stage, Idle
    <3> QED
      BY <1>4, <3>1
  <2>6. CASE ReadRegisters(l)
    <3>1. OthersSame(l) /\ stage'[l] = stage[l] /\ hmap'[l] = hmap[l] /\ job'[l].at # "added"
      <4>1. stage' = stage /\ hmap' = hmap
        BY <2>6 DEF ReadRegisters, client
      <4>2. PICK e : job' = [job EXCEPT ![l] = e] /\ e.at # "added"
        <5>1. PICK vs : vs = UNION {{<<h, Told(p)>> : h \in ToSet(hmap[l][p])} : p \in job[l].registers}
          OBVIOUS
        <5> DEFINE e == IF vs = {} \/ Deleted(l) THEN Idle ELSE [at |-> "sending", values |-> vs]
        <5>2. job' = [job EXCEPT ![l] = e]
          BY <2>6, <5>1 DEF ReadRegisters, Does
        <5>3. e.at # "added"
          BY DEF Idle
        <5> QED
          BY <5>2, <5>3
      <4> QED
        BY <1>2, <4>1, <4>2
    <3> QED
      BY <1>4, <3>1
  <2>7. CASE SendDone(l) \/ SendFails(l)
    <3>1. OthersSame(l) /\ stage'[l] = stage[l] /\ hmap'[l] = hmap[l] /\ job'[l].at # "added"
      BY <1>2, <2>7 DEF SendDone, SendFails, Does, Idle
    <3> QED
      BY <1>4, <3>1
  <2> QED
    BY <1>5, <2>1, <2>2, <2>3, <2>4, <2>5, <2>6, <2>7 DEF ListenerStep
<1>6. CASE DoTask
  <2>1. PICK t : t = Head(queue)
    OBVIOUS
  <2>2. t \in Tasks /\ TaskOf(t) /\ hmap' = hmap
    BY <1>6, <2>1, QueueShorter DEF DoTask
  <2>3. DoAdd(t) \/ DoRelease(t) \/ DoAddListener(t) \/ DoRemoveListener(t) \/ DoRemoveDevice(t)
    BY <1>6, <2>1 DEF DoTask
  <2>4. CASE DoAdd(t)
    <3>1. PICK l \in Listeners, hs \in Lists : l = t.l /\ hs = t.hs
      BY <2>2, <2>4, TaskFields DEF DoAdd, Awaited
    <3>2. PICK ptrs : ptrs = [i \in DOMAIN hs |-> PlaceOf(table', hs[i])]
      OBVIOUS
    <3>3. job' = [job EXCEPT ![l] = [at |-> "added", hs |-> hs, ptrs |-> ptrs]] /\ stage' = stage
      BY <2>4, <3>1, <3>2 DEF DoAdd, Does
    <3>4. job'[l].hs = hs /\ job'[l].ptrs = ptrs /\ OthersSame(l)
      BY <1>2, <2>2, <3>3
    <3>5. DOMAIN ptrs = DOMAIN hs
      BY <3>2
    <3> QED
      BY <1>4, <2>2, <3>3, <3>4, <3>5
  <2>5. CASE DoAddListener(t) \/ DoRemoveListener(t)
    <3>1. PICK l \in Listeners : l = t.l
      BY <2>2, <2>5, TaskFields DEF DoAddListener, DoRemoveListener, Awaited
    <3>2. OthersSame(l) /\ job'[l] = job[l] /\ stage'[l] \notin {"absent", "activating"}
      BY <1>2, <2>2, <2>5, <3>1 DEF DoAddListener, DoRemoveListener, Stage
    <3> QED
      BY <1>4, <3>2 DEF ToldInv
  <2>6. CASE DoRelease(t) \/ DoRemoveDevice(t)
    BY <1>3, <2>2, <2>6 DEF DoRelease, DoRemoveDevice
  <2> QED
    BY <2>3, <2>4, <2>5, <2>6
<1>7. CASE Poll \/ Notify \/ DeactivateDevice \/ EndDeactivation \/ ActivateDevice
  BY <1>3, <1>7 DEF Poll, Notify, DeactivateDevice, EndDeactivation, ActivateDevice, client
<1>8. CASE UNCHANGED vars
  BY <1>3, <1>8 DEF vars, client
<1> QED
  BY <1>5, <1>6, <1>7, <1>8 DEF Next

\* A step of one listener: the others know what they knew.
LEMMA OneListener ==
  ASSUME LifeInv, ToldInv, FreshInv, NEW l \in Listeners, failed \subseteq failed',
         UNCHANGED <<table, updated, listeners>>,
         \A k \in Listeners : k # l => /\ strand'[k] = strand[k] /\ job'[k] = job[k] /\ seen'[k] = seen[k]
                                       /\ hmap'[k] = hmap[k] /\ stage'[k] = stage[k],
         l \in listeners /\ l \notin failed' /\ ~Deleted(l)' =>
           UpToDate(table.reg, updated, strand'[l], job'[l], seen'[l], hmap'[l])
  PROVE  FreshInv'
<1> SUFFICES ASSUME NEW k \in listeners', k \notin failed', ~Deleted(k)'
             PROVE  UpToDate(table'.reg, updated', strand'[k], job'[k], seen'[k], hmap'[k])
  BY DEF FreshInv
<1>1. k \in Listeners /\ k \in listeners /\ k \notin failed
  BY DEF LifeInv, ServerTypes
<1>2. CASE k = l
  BY <1>1, <1>2
<1>3. CASE k # l
  <2>1. ~Deleted(k)
    BY <1>1, <1>3 DEF Deleted
  <2>2. UpToDate(table.reg, updated, strand[k], job[k], seen[k], hmap[k])
    BY <1>1, <2>1 DEF FreshInv
  <2> QED
    BY <1>1, <1>3, <2>2
<1> QED
  BY <1>2, <1>3

\* The strand of a listener starts a job.
LEMMA StartJobFresh ==
  ASSUME LifeInv, ToldInv, FreshInv, NEW l \in Listeners, StartJob(l)
  PROVE  FreshInv'
<1>1. /\ UNCHANGED <<table, updated, listeners, hmap, seen, failed>> /\ job[l] = Idle
      /\ strand[l] # <<>> /\ strand' = [strand EXCEPT ![l] = Tail(@)]
  BY DEF StartJob
<1>2. /\ DOMAIN strand = Listeners /\ strand[l] \in Seq(Jobs) /\ DOMAIN job = Listeners
      /\ DOMAIN stage = Listeners
  BY DEF LifeInv, ServerTypes
<1>3. PICK s : s = strand[l]
  OBVIOUS
<1>4. s \in Seq(Jobs) /\ s # <<>> /\ strand'[l] = Tail(s) /\ Head(s) = s[1]
  BY <1>1, <1>2, <1>3, TailAt
<1>5. /\ \A k \in Listeners : k # l => job'[k] = job[k] /\ stage'[k] = stage[k]
      /\ job'[l].at # "sending" \/ job'[l] = job[l]
      /\ s[1].op = "process" => job'[l].at = "reading" /\ job'[l].registers = s[1].registers
      /\ Deleted(l) => Deleted(l)' \/ s[1].op = "advise"
  <2>1. CASE StartAdvise(l)
    BY <1>1, <1>2, <1>3, <1>4, <2>1 DEF StartAdvise, Does, Stage
  <2>2. CASE StartProcess(l)
    BY <1>1, <1>2, <1>3, <1>4, <2>2 DEF StartProcess, Does, Deleted
  <2>3. CASE StartLast(l)
    BY <1>1, <1>2, <1>3, <1>4, <2>3 DEF StartLast, Stage, Deleted
  <2> QED
    BY <2>1, <2>2, <2>3 DEF StartJob
<1>6. s[1].op = "advise" => ~Deleted(l)
  <2>1. 1 \in 1 .. Len(s)
    BY <1>4, TailAt
  <2> QED
    BY <1>3, <2>1 DEF LifeInv, StrandInv, Deleted
<1>7. ASSUME l \in listeners, l \notin failed', ~Deleted(l)'
      PROVE  UpToDate(table.reg, updated, strand'[l], job'[l], seen'[l], hmap'[l])
  <2>1. PICK r, U, w, j, k, e, m : /\ r = table.reg /\ U = updated /\ w = Tail(s) /\ j = job[l]
                                   /\ k = job'[l] /\ e = seen[l] /\ m = hmap[l]
    OBVIOUS
  <2>2. UpToDate(r, U, s, j, e, m)
    BY <1>1, <1>3, <1>5, <1>6, <1>7, <2>1 DEF FreshInv
  <2>3. j = Idle /\ j.at # "sending" /\ (k.at = "sending" => k = j)
        /\ (s[1].op = "process" => k.at = "reading" /\ k.registers = s[1].registers)
    BY <1>1, <1>5, <2>1 DEF Idle
  <2>4. \A p \in Places : News(U, s, j, p) => News(U, w, k, p)
    BY <1>4, <2>1, <2>3, NewsStarted
  <2>5. \A p \in Places : StillSaid(r[p], r[p])
    BY DEF StillSaid
  <2>6. UpToDate(r, U, w, k, e, m)
    BY <2>2, <2>3, <2>4, <2>5, StillUpToDate
  <2> QED
    BY <1>1, <1>4, <2>1, <2>6
<1> QED
  BY <1>1, <1>2, <1>5, <1>7, OneListener

\* advise goes on with the pointers it got: what is known of them is sent.
LEMMA FinishAdviseFresh ==
  ASSUME LifeInv, CountInv, ToldInv, FreshInv, NEW l \in Listeners, FinishAdvise(l)
  PROVE  FreshInv'
<1>1. /\ UNCHANGED <<table, updated, listeners, seen, failed>>
      /\ job[l].at = "added" /\ job' = [job EXCEPT ![l] = Idle] /\ stage' = [stage EXCEPT ![l] = "ready"]
  BY DEF FinishAdvise, Does, Stage, worker
<1>2. PICK hs, ptrs : hs = job[l].hs /\ ptrs = job[l].ptrs
  OBVIOUS
<1>3. PICK now : now = SendsNow(ptrs)
  OBVIOUS
<1> DEFINE x == [op |-> "process", registers |-> now]
<1>4. /\ hmap' = [hmap EXCEPT ![l] = [p \in Places |-> @[p] \o Picked(hs, {i \in DOMAIN hs : ptrs[i] = p})]]
      /\ strand' = [strand EXCEPT ![l] = IF now = {} THEN @ ELSE Append(@, x)]
  BY <1>2, <1>3 DEF FinishAdvise
<1>5. x \in Jobs /\ x.op = "process" /\ x.registers = now
  <2>1. now \subseteq Places
    BY <1>3 DEF SendsNow
  <2> QED
    BY <2>1, Posted
<1> HIDE DEF x
<1>6. /\ DOMAIN strand = Listeners /\ strand[l] \in Seq(Jobs) /\ DOMAIN job = Listeners
      /\ DOMAIN stage = Listeners /\ DOMAIN hmap = Listeners /\ hmap[l] \in [Places -> Seq(Handles)]
  BY DEF LifeInv, ServerTypes
<1>7. hs \in Seq(Handles) /\ DOMAIN hs = 1 .. Len(hs) /\ DOMAIN ptrs = DOMAIN hs
  <2>1. hs \in Seq(Handles)
    BY <1>1, <1>2, JobsBringLists DEF LifeInv, JobShapes
  <2> QED
    BY <1>1, <1>2, <2>1 DEF ToldInv
<1>8. ASSUME NEW p \in Places, p \notin now, table.reg[p].op_available # "unknown"
      PROVE  hmap'[l][p] = hmap[l][p]
  <2>1. p \notin ToSet(ptrs)
    BY <1>3, <1>8 DEF SendsNow
  <2>2. \A i \in DOMAIN hs : ptrs[i] # p
    BY <1>7, <2>1 DEF ToSet
  <2>3. {i \in DOMAIN hs : ptrs[i] = p} = {}
    BY <2>2
  <2>4. PICK z : z = Picked(hs, {})
    OBVIOUS
  <2>5. z = <<>>
    <3>1. {} \in SUBSET (1 .. Len(hs))
      OBVIOUS
    <3>2. z \in Seq(Handles) /\ Len(z) = Cardinality({})
      BY <1>7, <2>4, <3>1, PickedElements
    <3>3. Len(z) = 0
      BY <3>2, FS_EmptySet
    <3> QED
      BY <3>2, <3>3
  <2>6. hmap'[l][p] = hmap[l][p] \o z
    BY <1>4, <1>6, <2>3, <2>4
  <2> QED
    BY <1>6, <2>5, <2>6
<1>9. ASSUME l \in listeners, l \notin failed', ~Deleted(l)'
      PROVE  UpToDate(table.reg, updated, strand'[l], job'[l], seen'[l], hmap'[l])
  <2>1. PICK r, U, s, w, j, e, m, n :
               /\ r = table.reg /\ U = updated /\ s = strand[l] /\ w = strand'[l] /\ j = job[l]
               /\ e = seen[l] /\ m = hmap[l] /\ n = hmap'[l]
    OBVIOUS
  <2>2. stage[l] = "advising"
    BY <1>1 DEF LifeInv, StageInv
  <2>3. UpToDate(r, U, s, j, e, m)
    BY <1>1, <1>9, <2>1, <2>2 DEF FreshInv, Deleted
  <2>4. s \in Seq(Jobs) /\ w = IF now = {} THEN s ELSE Append(s, x)
    BY <1>4, <1>6, <2>1
  <2>5. j.at = "added" /\ Idle.at = "idle"
    BY <1>1, <2>1 DEF Idle
  <2>6. \A p \in Places : /\ News(U, s, j, p) => News(U, w, Idle, p)
                          /\ p \in now => News(U, w, Idle, p)
    <3> TAKE p \in Places
    <3>1. News(U, s, j, p) => News(U, s, Idle, p)
      BY <2>5 DEF News
    <3>2. CASE now = {}
      BY <2>4, <3>1, <3>2
    <3>3. CASE now # {}
      BY <1>5, <2>4, <3>1, <3>3, NewsPosted
    <3> QED
      BY <3>2, <3>3
  <2>7. \A p \in Places : \/ r[p].op_available = "unknown"
                          \/ News(U, w, Idle, p)
                          \/ n[p] = m[p] /\ StillSaid(r[p], r[p])
    BY <1>8, <2>1, <2>6 DEF StillSaid
  <2>8. UpToDate(r, U, w, Idle, e, n)
    BY <2>3, <2>5, <2>6, <2>7, StillUpToDate
  <2> QED
    BY <1>1, <1>6, <2>1, <2>8
<1> QED
  BY <1>1, <1>4, <1>6, <1>9, OneListener

\* The calls of a client: an advise is posted, or the listener is deleted.
LEMMA CallFresh ==
  ASSUME LifeInv, ToldInv, FreshInv, NEW l \in Listeners,
         Activate(l) \/ Advise(l) \/ Destroy(l) \/ ReleaseAll(l) \/ PostLast(l)
  PROVE  FreshInv'
<1>1. /\ DOMAIN strand = Listeners /\ strand[l] \in Seq(Jobs) /\ DOMAIN stage = Listeners
      /\ DOMAIN hmap = Listeners
  BY DEF LifeInv, ServerTypes
<1>2. UNCHANGED <<table, updated, listeners, job, seen, failed>>
  BY DEF Activate, Advise, Destroy, ReleaseAll, PostLast, worker
<1>3. CASE Activate(l)
  <2>1. strand' = strand /\ hmap' = hmap /\ stage[l] = "absent"
        /\ \A k \in Listeners : k # l => stage'[k] = stage[k]
    BY <1>1, <1>3 DEF Activate, Stage
  <2>2. l \notin listeners
    BY <2>1 DEF LifeInv, StageInv
  <2> QED
    BY <1>2, <2>1, <2>2, OneListener
<1>4. CASE Advise(l)
  <2>1. PICK hs \in Lists : strand' = [strand EXCEPT ![l] = Append(@, [op |-> "advise", hs |-> hs])]
    BY <1>4 DEF Advise
  <2> DEFINE x == [op |-> "advise", hs |-> hs]
  <2>2. x \in Jobs
    BY Posted
  <2>3. strand' = [strand EXCEPT ![l] = Append(@, x)]
    BY <2>1
  <2> HIDE DEF x
  <2>4. /\ hmap' = hmap /\ stage[l] = "ready" /\ strand'[l] = Append(strand[l], x)
        /\ \A k \in Listeners : k # l => stage'[k] = stage[k] /\ strand'[k] = strand[k]
    BY <1>1, <1>4, <2>3 DEF Advise, Stage
  <2>5. ASSUME l \in listeners, l \notin failed'
        PROVE  UpToDate(table.reg, updated, strand'[l], job'[l], seen'[l], hmap'[l])
    <3>1. PICK r, U, s, w, j, e, m : /\ r = table.reg /\ U = updated /\ s = strand[l] /\ w = strand'[l]
                                     /\ j = job[l] /\ e = seen[l] /\ m = hmap[l]
      OBVIOUS
    <3>2. UpToDate(r, U, s, j, e, m)
      BY <1>2, <2>4, <2>5, <3>1 DEF FreshInv, Deleted
    <3>3. s \in Seq(Jobs) /\ w = Append(s, x)
      BY <1>1, <2>4, <3>1
    <3>4. \A p \in Places : News(U, s, j, p) => News(U, w, j, p)
      BY <2>2, <3>3, NewsPosted
    <3>5. \A p \in Places : StillSaid(r[p], r[p])
      BY DEF StillSaid
    <3>6. UpToDate(r, U, w, j, e, m)
      BY <3>2, <3>4, <3>5, StillUpToDate
    <3> QED
      BY <1>2, <2>4, <3>1, <3>6
  <2> QED
    BY <1>2, <2>4, <2>5, OneListener
<1>5. CASE Destroy(l) \/ ReleaseAll(l) \/ PostLast(l)
  <2>1. /\ Deleted(l)'
        /\ \A k \in Listeners : k # l => stage'[k] = stage[k] /\ hmap'[k] = hmap[k] /\ strand'[k] = strand[k]
    BY <1>1, <1>5 DEF Destroy, ReleaseAll, PostLast, Stage, Deleted, worker
  <2> QED
    BY <1>2, <2>1, OneListener
<1> QED
  BY <1>3, <1>4, <1>5

\* process_registers and OnDataChanged.
LEMMA SendingFresh ==
  ASSUME LifeInv, CountInv, ToldInv, FreshInv, NEW l \in Listeners,
         ReadRegisters(l) \/ SendDone(l) \/ SendFails(l)
  PROVE  FreshInv'
<1>1. DOMAIN job = Listeners /\ DOMAIN seen = Listeners
  BY DEF LifeInv, ServerTypes, ToldInv
<1>2. UNCHANGED <<table, updated, listeners, strand, hmap, stage>> /\ failed \subseteq failed'
  BY DEF ReadRegisters, SendDone, SendFails, worker, client
<1>3. ASSUME NEW k \in Listeners, k # l
      PROVE  job'[k] = job[k] /\ seen'[k] = seen[k]
  <2>1. CASE ReadRegisters(l)
    BY <1>1, <1>3, <2>1 DEF ReadRegisters, Does, client
  <2>2. CASE SendDone(l) \/ SendFails(l)
    BY <1>1, <1>3, <2>2 DEF SendDone, SendFails, Does
  <2> QED
    BY <2>1, <2>2
<1>4. PICK t, U, s, j, e, m : /\ t = table /\ U = updated /\ s = strand[l] /\ j = job[l] /\ e = seen[l]
                              /\ m = hmap[l]
  OBVIOUS
<1>5. /\ Sound(t) /\ m \in [Places -> Seq(Handles)]
      /\ \A p \in Places : \A i \in 1 .. Len(m[p]) : t.reg[p].handle = m[p][i]
  BY <1>4 DEF CountInv, Counting, Shapes, PlacesTrue, Hmaps
<1>6. l \in listeners /\ l \notin failed /\ ~Deleted(l) => UpToDate(t.reg, U, s, j, e, m)
  BY <1>4 DEF FreshInv
<1>7. ASSUME l \in listeners, l \notin failed', ~Deleted(l)'
      PROVE  UpToDate(table.reg, updated, strand'[l], job'[l], seen'[l], hmap'[l])
  <2>1. UpToDate(t.reg, U, s, j, e, m) /\ ~Deleted(l)
    BY <1>2, <1>6, <1>7 DEF Deleted
  <2>2. CASE ReadRegisters(l)
    <3>1. j.at = "reading" /\ j.registers \subseteq Places
      <4>1. JobTypes(j) /\ j.at = "reading"
        BY <1>4, <2>2 DEF ReadRegisters, LifeInv, ServerTypes
      <4> QED
        BY <4>1 DEF JobTypes, Idle
    <3>2. PICK vs : vs = ValuesOf(t.reg, m, j.registers)
      OBVIOUS
    <3>3. vs = UNION {{<<h, Told(p)>> : h \in ToSet(hmap[l][p])} : p \in job[l].registers}
      BY <1>4, <3>2 DEF ValuesOf, Told, ToldOf
    <3> DEFINE k == IF vs = {} THEN Idle ELSE [at |-> "sending", values |-> vs]
    <3>4. job' = [job EXCEPT ![l] = k] /\ seen' = seen
      BY <2>1, <2>2, <3>3 DEF ReadRegisters, Does, client
    <3> HIDE DEF k
    <3>5. UpToDate(t.reg, U, s, k, e, m)
      BY <1>5, <2>1, <3>1, <3>2, NewsRead DEF k
    <3> QED
      BY <1>1, <1>2, <1>4, <3>4, <3>5
  <2>3. CASE SendDone(l)
    <3> DEFINE f == ToldOnce(j, e)
    <3>1. seen' = [seen EXCEPT ![l] = f] /\ job' = [job EXCEPT ![l] = Idle] /\ j.at = "sending"
      BY <1>4, <2>3 DEF SendDone, Does, ToldOnce
    <3> HIDE DEF f
    <3>3. f = ToldOnce(j, e)
      BY DEF f
    <3>4. PICK r : r = t.reg
      OBVIOUS
    <3>2. UpToDate(t.reg, U, s, Idle, f, m)
      BY <1>5, <2>1, <3>1, <3>3, <3>4, NewsSent
    <3> QED
      BY <1>1, <1>2, <1>4, <3>1, <3>2
  <2>4. CASE SendFails(l)
    BY <1>7, <2>4 DEF SendFails
  <2> QED
    BY <2>2, <2>3, <2>4
<1> QED
  BY <1>2, <1>3, <1>7, OneListener

\* A task of the worker.
LEMMA DoTaskFresh ==
  ASSUME LifeInv, AtRest(table), CountInv, ToldInv, FreshInv, DoTask
  PROVE  FreshInv'
<1>1. PICK x : x = Head(queue)
  OBVIOUS
<1>2. /\ x \in Tasks /\ TaskOf(x)
      /\ updated = {} /\ UNCHANGED <<updated, strand, hmap, seen, failed>>
  BY <1>1, QueueShorter DEF DoTask, TakeTask
<1>3. x.op # "remove_device"
  <2>1. PICK t, m, j, q : t = table /\ m = hmap /\ j = job /\ q = queue
    OBVIOUS
  <2>2. Counting(t, m, j, q) /\ q # <<>>
    BY <2>1 DEF CountInv, DoTask, TakeTask
  <2> QED
    BY <1>1, <2>1, <2>2, TaskTaken DEF Counting, Shapes
<1>4. DoAdd(x) \/ DoRelease(x) \/ DoAddListener(x) \/ DoRemoveListener(x) \/ DoRemoveDevice(x)
  BY <1>1 DEF DoTask
<1>5. DOMAIN job = Listeners /\ DOMAIN stage = Listeners
  BY DEF LifeInv, ServerTypes
<1>6. ASSUME SaidStill(table, table'), listeners' = listeners, stage' = stage,
             \A k \in Listeners : job'[k] = job[k] \/ (job[k].at = "adding" /\ job'[k].at = "added")
      PROVE  FreshInv'
  <2> SUFFICES ASSUME NEW l \in listeners', l \notin failed', ~Deleted(l)'
               PROVE  UpToDate(table'.reg, updated', strand'[l], job'[l], seen'[l], hmap'[l])
    BY DEF FreshInv
  <2>1. PICK r, y, U, s, j, k, e, m : /\ r = table.reg /\ y = table'.reg /\ U = updated /\ s = strand[l]
                                      /\ j = job[l] /\ k = job'[l] /\ e = seen[l] /\ m = hmap[l]
    OBVIOUS
  <2>2. l \in Listeners /\ l \in listeners /\ l \notin failed /\ ~Deleted(l)
    BY <1>2, <1>6 DEF LifeInv, ServerTypes, Deleted
  <2>3. UpToDate(r, U, s, j, e, m)
    BY <2>1, <2>2 DEF FreshInv
  <2>4. k = j \/ (j.at = "adding" /\ k.at = "added")
    BY <1>6, <2>1, <2>2
  <2>5. \A p \in Places : News(U, s, j, p) => News(U, s, k, p)
    BY <2>4 DEF News
  <2>6. \A p \in Places : StillSaid(r[p], y[p])
    BY <1>6, <2>1 DEF SaidStill
  <2>7. UpToDate(y, U, s, k, e, m)
    BY <2>3, <2>4, <2>5, <2>6, StillUpToDate
  <2> QED
    BY <1>2, <2>1, <2>7
<1>7. CASE DoAdd(x)
  <2>1. /\ x.op = "add" /\ Cardinality({h \in ToSet(x.hs) : ~Found(table, h)}) <= Len(table.pool)
        /\ table' = AddRegisters(table, x.hs) /\ UNCHANGED <<listeners, stage>>
    BY <1>7 DEF DoAdd
  <2>2. PICK hs \in Lists, l \in Listeners : hs = x.hs /\ l = x.l
    BY <1>2, <2>1, TaskFields DEF Awaited
  <2>3. hs \in Seq(Handles)
    BY ServerAssumption
  <2>4. PICK t, u : t = table /\ u = table'
    OBVIOUS
  <2>5. Sound(t) /\ Cardinality({h \in ToSet(hs) : ~Found(t, h)}) <= Len(t.pool) /\ u = AddRegisters(t, hs)
    BY <2>1, <2>2, <2>4 DEF AtRest
  <2>6. SaidStill(t, u)
    BY <2>3, <2>5, AddTaskSaid
  <2>7. job[l].at = "adding"
    BY <1>2, <2>1, <2>2 DEF TaskOf
  <2>8. PICK ptrs : ptrs = [i \in DOMAIN x.hs |-> PlaceOf(table', x.hs[i])]
    OBVIOUS
  <2>9. job' = [job EXCEPT ![l] = [at |-> "added", hs |-> hs, ptrs |-> ptrs]]
    BY <1>7, <2>2, <2>8 DEF DoAdd, Does
  <2>10. \A k \in Listeners : job'[k] = job[k] \/ (job[k].at = "adding" /\ job'[k].at = "added")
    BY <1>5, <2>7, <2>9
  <2> QED
    BY <1>6, <2>1, <2>4, <2>6, <2>10
<1>8. CASE DoRelease(x)
  <2>1. x.op = "release" /\ table' = ReleaseRegisters(table, x.xs) /\ UNCHANGED <<listeners, job, stage>>
    BY <1>8 DEF DoRelease
  <2>2. PICK xs \in Seq(Entries) : xs = x.xs
    BY <1>2, <2>1, TaskFields DEF Entries
  <2>3. PICK t, u : t = table /\ u = table'
    OBVIOUS
  <2>4. SaidStill(t, u)
    BY <2>1, <2>2, <2>3, ReleaseTaskSaid DEF AtRest
  <2> QED
    BY <1>6, <2>1, <2>3, <2>4
<1>9. CASE DoAddListener(x)
  <2>1. PICK l \in Listeners : l = x.l /\ stage[l] = "activating"
    BY <1>2, <1>9, TaskFields DEF DoAddListener, TaskOf, Awaited
  <2>2. UNCHANGED <<table, job>> /\ listeners' = listeners \cup {l}
        /\ \A k \in Listeners : k # l => stage'[k] = stage[k]
    BY <1>5, <1>9, <2>1 DEF DoAddListener, Stage
  <2>3. ASSUME NEW k \in listeners', k \notin failed', ~Deleted(k)'
        PROVE  UpToDate(table'.reg, updated', strand'[k], job'[k], seen'[k], hmap'[k])
    <3>1. CASE k = l
      <4>1. \A p \in Places : hmap[l][p] = <<>>
        BY <2>1 DEF ToldInv
      <4>2. \A p \in Places : Len(hmap'[k][p]) = 0
        BY <1>2, <3>1, <4>1
      <4> QED
        BY <4>2 DEF UpToDate
    <3>2. CASE k # l
      <4>1. k \in listeners /\ k \in Listeners
        BY <2>2, <3>2 DEF LifeInv, ServerTypes
      <4>2. ~Deleted(k)
        BY <2>2, <2>3, <3>2, <4>1 DEF Deleted
      <4>3. UpToDate(table.reg, updated, strand[k], job[k], seen[k], hmap[k])
        BY <1>2, <2>3, <4>1, <4>2 DEF FreshInv
      <4> QED
        BY <1>2, <2>2, <4>3
    <3> QED
      BY <3>1, <3>2
  <2> QED
    BY <2>3 DEF FreshInv
<1>10. CASE DoRemoveListener(x)
  <2>1. PICK l \in Listeners : l = x.l
    BY <1>2, <1>10, TaskFields DEF DoRemoveListener, Awaited
  <2>2. UNCHANGED <<table, job>> /\ listeners' = listeners \ {l}
        /\ \A k \in Listeners : k # l => stage'[k] = stage[k]
    BY <1>5, <1>10, <2>1 DEF DoRemoveListener, Stage
  <2>3. ASSUME NEW k \in listeners', k \notin failed', ~Deleted(k)'
        PROVE  UpToDate(table'.reg, updated', strand'[k], job'[k], seen'[k], hmap'[k])
    <3>1. k \in listeners /\ k \in Listeners /\ k # l
      BY <2>2 DEF LifeInv, ServerTypes
    <3>2. ~Deleted(k)
      BY <2>2, <2>3, <3>1 DEF Deleted
    <3>3. UpToDate(table.reg, updated, strand[k], job[k], seen[k], hmap[k])
      BY <1>2, <2>3, <3>1, <3>2 DEF FreshInv
    <3> QED
      BY <1>2, <2>2, <3>3
  <2> QED
    BY <2>3 DEF FreshInv
<1>11. CASE DoRemoveDevice(x)
  BY <1>3, <1>11 DEF DoRemoveDevice
<1> QED
  BY <1>4, <1>7, <1>8, <1>9, <1>10, <1>11

\* A poll: what changed is in updated_registers.
LEMMA PollFresh ==
  ASSUME LifeInv, AtRest(table), ToldInv, FreshInv, Poll
  PROVE  FreshInv'
<1>1. /\ updated = {} /\ table' \in Polls(table) /\ updated' = Updated(table, table')
      /\ UNCHANGED <<listeners, strand, job, hmap, stage, seen, failed>>
  BY DEF Poll, client
<1> SUFFICES ASSUME NEW l \in listeners', l \notin failed', ~Deleted(l)'
             PROVE  UpToDate(table'.reg, updated', strand'[l], job'[l], seen'[l], hmap'[l])
  BY DEF FreshInv
<1>2. PICK t, u : t = table /\ u = table'
  OBVIOUS
<1>3. PICK V, s, j, e, m : /\ V = updated' /\ s = strand[l] /\ j = job[l]
                           /\ e = seen[l] /\ m = hmap[l]
  OBVIOUS
<1>4. UpToDate(t.reg, {}, s, j, e, m)
  <2>1. l \in listeners /\ l \notin failed /\ ~Deleted(l)
    BY <1>1 DEF Deleted
  <2> QED
    BY <1>1, <1>2, <1>3, <2>1 DEF FreshInv
<1>5. \A p \in Places : p \in V \/ StillSaid(t.reg[p], u.reg[p])
  <2>1. Sound(t) /\ u \in Polls(t) /\ V = Updated(t, u)
    BY <1>1, <1>2, <1>3 DEF AtRest
  <2> QED
    BY <2>1, PollSaid
<1>6. \A p \in Places : /\ News({}, s, j, p) => News(V, s, j, p)
                        /\ p \in V => News(V, s, j, p)
  BY DEF News
<1>7. PICK r, y : r = t.reg /\ y = u.reg
  OBVIOUS
<1>8. UpToDate(y, V, s, j, e, m)
  <2>1. \A p \in Places : \/ y[p].op_available = "unknown"
                          \/ News(V, s, j, p)
                          \/ m[p] = m[p] /\ StillSaid(r[p], y[p])
    BY <1>5, <1>6, <1>7
  <2>2. UpToDate(r, {}, s, j, e, m)
    BY <1>4, <1>7
  <2> QED
    BY <1>6, <2>1, <2>2, StillUpToDate
<1> QED
  BY <1>1, <1>2, <1>3, <1>7, <1>8

\* notify_listeners: what was in updated_registers is posted to every strand.
LEMMA NotifyFresh ==
  ASSUME LifeInv, ToldInv, FreshInv, Notify
  PROVE  FreshInv'
<1> DEFINE x == [op |-> "process", registers |-> updated]
<1>1. UNCHANGED <<table, listeners, job, hmap, stage, seen, failed>> /\ updated' = {}
  BY DEF Notify, client
<1>2. strand' = [l \in Listeners |-> IF l \in listeners THEN Append(strand[l], x) ELSE strand[l]]
  BY DEF Notify
<1>3. x \in Jobs /\ x.op = "process" /\ x.registers = updated
  BY Posted DEF LifeInv, ServerTypes
<1> HIDE DEF x
<1> SUFFICES ASSUME NEW l \in listeners', l \notin failed', ~Deleted(l)'
             PROVE  UpToDate(table'.reg, updated', strand'[l], job'[l], seen'[l], hmap'[l])
  BY DEF FreshInv
<1>4. l \in Listeners /\ l \in listeners /\ ~Deleted(l)
  BY <1>1 DEF LifeInv, ServerTypes, Deleted
<1>5. PICK r, U, s, w, j, e, m : /\ r = table.reg /\ U = updated /\ s = strand[l] /\ w = strand'[l]
                                 /\ j = job[l] /\ e = seen[l] /\ m = hmap[l]
  OBVIOUS
<1>6. UpToDate(r, U, s, j, e, m) /\ s \in Seq(Jobs) /\ w = Append(s, x)
  BY <1>1, <1>2, <1>4, <1>5 DEF FreshInv, LifeInv, ServerTypes
<1>7. \A p \in Places : News(U, s, j, p) => News({}, w, j, p)
  <2> SUFFICES ASSUME NEW p \in Places, News(U, s, j, p)
               PROVE  News({}, w, j, p)
    OBVIOUS
  <2>1. /\ News({}, s, j, p) => News({}, w, j, p)
        /\ p \in U => News({}, w, j, p)
    BY <1>3, <1>5, <1>6, NewsPosted
  <2>2. p \in U \/ News({}, s, j, p)
    BY DEF News
  <2> QED
    BY <2>1, <2>2
<1>8. \A p \in Places : StillSaid(r[p], r[p])
  BY DEF StillSaid
<1>9. UpToDate(r, {}, w, j, e, m)
  BY <1>6, <1>7, <1>8, StillUpToDate
<1> QED
  BY <1>1, <1>5, <1>9

\* Every step keeps the clients up to date, until a device is deactivated.
LEMMA FreshStep ==
  ASSUME LifeInv, AtRest(table), CountInv, ToldInv, FreshInv, [Next]_vars
  PROVE  FreshInv'
<1>1. CASE UNCHANGED <<table, updated, listeners, strand, job, hmap, stage, seen, failed>>
  BY <1>1 DEF FreshInv, Deleted
<1>2. ASSUME NEW l \in Listeners, ListenerStep(l)
      PROVE  FreshInv'
  BY <1>2, CallFresh, StartJobFresh, FinishAdviseFresh, SendingFresh DEF ListenerStep
<1>3. CASE DoTask
  BY <1>3, DoTaskFresh
<1>4. CASE Poll
  BY <1>4, PollFresh
<1>5. CASE Notify
  BY <1>5, NotifyFresh
<1>6. CASE DeactivateDevice \/ EndDeactivation \/ ActivateDevice
  BY <1>1, <1>6 DEF DeactivateDevice, EndDeactivation, ActivateDevice, worker, client
<1>7. CASE UNCHANGED vars
  BY <1>1, <1>7 DEF vars, worker, client
<1> QED
  BY <1>2, <1>3, <1>4, <1>5, <1>6, <1>7 DEF Next

\* What holds in every state of what clients are told.
ClientsInv == ServerInv /\ ToldInv /\ (removals = 0 => FreshInv)

\* Who is up to date, and was told everything, knows what was read.
LEMMA UpToDateMeans ==
  ASSUME ServerInv, CountInv, FreshInv
  PROVE  Fresh
<1> SUFFICES ASSUME NEW l \in listeners, l \notin failed, ~Deleted(l), strand[l] = <<>>, job[l] = Idle,
                    updated = {}, NEW p \in Places, NEW h \in ToSet(hmap[l][p]),
                    table.reg[p].op_available # "unknown"
             PROVE  seen[l][h] = Told(p)
  BY DEF Fresh
<1>1. UpToDate(table.reg, updated, strand[l], job[l], seen[l], hmap[l])
  BY DEF FreshInv
<1>2. ~News(updated, strand[l], job[l], p)
  BY DEF News, Idle
<1>3. l \in Listeners /\ hmap[l][p] \in Seq(Handles)
  BY DEF ServerInv, Inv, LifeInv, ServerTypes
<1>4. PICK c : c = hmap[l][p]
  OBVIOUS
<1>5. PICK i \in 1 .. Len(c) : h = c[i]
  BY <1>3, <1>4, SetOfSeq
<1>6. Knows(job[l], seen[l], h, ToldOf(table.reg[p]))
  BY <1>1, <1>2, <1>4, <1>5 DEF UpToDate
<1>7. seen[l][h] = ToldOf(table.reg[p])
  BY <1>6 DEF Knows, Idle
<1> QED
  BY <1>7 DEF Told, ToldOf

\* Until the first device is deactivated a client that was told everything that
\* was posted for it, and missed no call, has the current value of every
\* register it advised, though the worker polls while it advises (advise,
\* read_advised, t_process_registers).
THEOREM ClientsStayFresh == Spec => [](removals = 0 => Fresh)
<1>1. Init => ClientsInv
  <2> SUFFICES ASSUME Init
               PROVE  ClientsInv
    OBVIOUS
  <2>1. ServerInv /\ listeners = {}
    BY ServerInit DEF Init
  <2>2. ToldInv
    BY DEF Init, ToldInv, Idle
  <2> QED
    BY <2>1, <2>2 DEF ClientsInv, FreshInv
<1>2. ClientsInv /\ [Next]_vars => ClientsInv'
  <2> SUFFICES ASSUME ClientsInv, [Next]_vars
               PROVE  ClientsInv'
    OBVIOUS
  <2>1. ServerInv' /\ ServerInv
    BY ServerStep DEF ClientsInv
  <2>2. LifeInv /\ AtRest(table) /\ removals \in Nat /\ ToldInv
    BY <2>1 DEF ClientsInv, ServerInv, Inv
  <2>3. ToldInv'
    BY <2>2, ToldStep
  <2>4. ASSUME removals' = 0
        PROVE  FreshInv'
    <3>1. removals = 0
      BY <2>2, <2>4, RemovalsStep
    <3>2. CountInv /\ FreshInv
      BY <2>1, <3>1 DEF ClientsInv, ServerInv
    <3> QED
      BY <2>2, <3>2, FreshStep
  <2> QED
    BY <2>1, <2>3, <2>4 DEF ClientsInv
<1>3. ClientsInv => (removals = 0 => Fresh)
  BY UpToDateMeans DEF ClientsInv, ServerInv
<1> QED
  BY <1>1, <1>2, <1>3, PTL DEF Spec
=============================================================================
