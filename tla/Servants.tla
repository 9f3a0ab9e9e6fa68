------------------------------- MODULE Servants -------------------------------
(***************************************************************************)
(* The life of nprpc's transient servants: PoaImpl, ObjectGuard, the        *)
(* reference lists of the server's sessions and Session::handle_request.    *)
(* A servant lives as long as some session has a reference to it; who finds *)
(* it in the POA's table keeps it from being destroyed with in_use_cnt_.    *)
(*                                                                          *)
(* A session handles one request at a time, on one of the io threads; what  *)
(* a handler does between two accesses to memory that other threads change  *)
(* is one action.  The table is that of IdToPtr, with its operations        *)
(* atomic.  Once a handler has used a servant that was destroyed anything   *)
(* may happen: dangling is set and the model stops.                         *)
(***************************************************************************)
EXTENDS Naturals, FiniteSets

CONSTANTS
  Sessions,
  Objects,        \* servants
  NoObject,
  MaxReferences,  \* max_references_per_session
  MaxIoThreads    \* bound: threads that run the io_context

ASSUME ServantsAssumption ==
  /\ IsFiniteSet(Sessions)
  /\ NoObject \notin Objects
  /\ MaxReferences \in Nat
  /\ MaxIoThreads \in Nat \ {0}

VARIABLES
  io_threads,  \* threads that run the io_context, which the program chooses
  table,       \* servants that id_to_ptr_ has
  activated,   \* servants that exist or have existed
  destroyed,
  ref_cnt,
  in_use_cnt,
  to_delete,
  posted,      \* servant -> delete_object calls posted to the io_context
  refs,        \* session -> refs_ of its list
  open,        \* sessions whose connection stands
  at,          \* session -> where its handler is
  obj,         \* session -> the servant it is about
  req,         \* session -> the request it handles
  told,        \* history: servants for which AddReference was answered Success
  dangling     \* a destroyed servant was used

counts == <<ref_cnt, in_use_cnt>>
handler == <<at, obj, req>>
vars == <<io_threads, table, activated, destroyed, counts, to_delete, posted, refs, open, handler,
          told, dangling>>

Stages == {"idle", "got", "guarded", "using", "leaving", "unreferenced", "deactivated",
           "closing"}

-----------------------------------------------------------------------------
\* an io thread is free to start a handler
ThreadFree == ~dangling /\ Cardinality({x \in Sessions : at[x] # "idle"}) < io_threads

Goes(x, stage) == at' = [at EXCEPT ![x] = stage]
\* the handler has answered, or the destructor goes on with its list
Return(x) == IF x \in open THEN "idle" ELSE "closing"

\* the handler uses the servant it has a pointer to
Uses(x) == ~dangling /\ dangling' = (obj[x] \in destroyed)

\* ReferenceListImpl::add_ref, which rejects a reference over the limit
Full(x) == Cardinality(refs[x]) >= MaxReferences
\* mutant: add_ref() of the servant comes before the test of the limit
AddRefFirst(x, o) ==
  IF o \in refs[x]
  THEN UNCHANGED <<refs, ref_cnt>>
  ELSE /\ refs' = IF Full(x) THEN refs ELSE [refs EXCEPT ![x] = @ \cup {o}]
       /\ ref_cnt' = [ref_cnt EXCEPT ![o] = @ + 1]
AddRef(x, o) ==
  IF Full(x) \/ o \in refs[x]
  THEN UNCHANGED <<refs, ref_cnt>>
  ELSE /\ refs' = [refs EXCEPT ![x] = @ \cup {o}]
       /\ ref_cnt' = [ref_cnt EXCEPT ![o] = @ + 1]

\* activate_object for a call that session x makes: nobody knows the servant's
\* id yet
Activate(x, o) ==
  /\ at[x] = "idle" /\ x \in open /\ ThreadFree
  /\ o \notin activated
  /\ activated' = activated \cup {o}
  /\ table' = table \cup {o}
  /\ AddRef(x, o)
  /\ UNCHANGED <<io_threads, destroyed, in_use_cnt, to_delete, posted, open, handler, told,
                 dangling>>

\* get_object: the pointer is read from the table
GetObject(x, o, r) ==
  /\ at[x] = "idle" /\ x \in open /\ ThreadFree
  /\ o \in table
  /\ Goes(x, "got")
  /\ obj' = [obj EXCEPT ![x] = o]
  /\ req' = [req EXCEPT ![x] = r]
  /\ UNCHANGED <<io_threads, table, activated, destroyed, counts, to_delete, posted, refs, open,
                 told, dangling>>

\* ObjectGuard::ObjectGuard
Guard(x) ==
  /\ at[x] = "got"
  /\ in_use_cnt' = [in_use_cnt EXCEPT ![obj[x]] = @ + 1]
  /\ Goes(x, "guarded")
  /\ Uses(x)
  /\ UNCHANGED <<io_threads, table, activated, destroyed, ref_cnt, to_delete, posted, refs,
                 open, obj, req, told>>

\* ObjectGuard::get: a servant about to be deleted is not used
CheckStage(x) == IF to_delete[obj[x]] THEN "leaving" ELSE "using"
Check(x) ==
  /\ at[x] = "guarded"
  /\ Goes(x, CheckStage(x))
  /\ Uses(x)
  /\ UNCHANGED <<io_threads, table, activated, destroyed, counts, to_delete, posted, refs, open,
                 obj, req, told>>

\* the call is dispatched
Dispatch(x) ==
  /\ at[x] = "using" /\ req[x] = "FunctionCall"
  /\ Goes(x, "leaving")
  /\ Uses(x)
  /\ UNCHANGED <<io_threads, table, activated, destroyed, counts, to_delete, posted, refs, open,
                 obj, req, told>>

\* AddReference is answered with Success, whatever add_ref did
AddReference(x) ==
  /\ at[x] = "using" /\ req[x] = "AddReference"
  /\ AddRef(x, obj[x])
  /\ told' = [told EXCEPT ![x] = @ \cup {obj[x]}]
  /\ Goes(x, "leaving")
  /\ Uses(x)
  /\ UNCHANGED <<io_threads, table, activated, destroyed, in_use_cnt, to_delete, posted, open,
                 obj, req>>

\* mutant: a guard that was moved from, or found to_delete_, is not counted down
GuardsLeftIfUsed(x) == IF to_delete[obj[x]] THEN in_use_cnt[obj[x]] ELSE in_use_cnt[obj[x]] - 1
GuardsLeft(x) == in_use_cnt[obj[x]] - 1
\* ObjectGuard::~ObjectGuard
Leave(x) ==
  /\ at[x] = "leaving"
  /\ in_use_cnt' = [in_use_cnt EXCEPT ![obj[x]] = GuardsLeft(x)]
  /\ Goes(x, "idle")
  /\ Uses(x)
  /\ UNCHANGED <<io_threads, table, activated, destroyed, ref_cnt, to_delete, posted, refs,
                 open, obj, req, told>>

-----------------------------------------------------------------------------
\* mutant: fetch_sub is taken to return the new count
LastReferenceEarly(o) == ref_cnt[o] <= 2
LastReference(o) == ref_cnt[o] = 1
\* remove_ref, or the list's destructor, and ObjectServant::release
Release(x, o) ==
  /\ ~dangling
  /\ refs' = [refs EXCEPT ![x] = @ \ {o}]
  /\ told' = [told EXCEPT ![x] = @ \ {o}]
  /\ obj' = [obj EXCEPT ![x] = o]
  /\ ref_cnt' = [ref_cnt EXCEPT ![o] = @ - 1]
  /\ dangling' = (o \in destroyed)
  /\ Goes(x, IF LastReference(o) THEN "unreferenced" ELSE Return(x))
  /\ UNCHANGED <<io_threads, table, activated, destroyed, in_use_cnt, to_delete, posted, open,
                 req>>

ReleaseObject(x, o) ==
  /\ at[x] = "idle" /\ x \in open /\ ThreadFree
  /\ o \in refs[x]
  /\ Release(x, o)

\* mutant: the slot is kept
DeactivateKeepsSlot(x) ==
  /\ at[x] = "unreferenced"
  /\ to_delete' = [to_delete EXCEPT ![obj[x]] = TRUE]
  /\ Goes(x, "deactivated")
  /\ Uses(x)
  /\ UNCHANGED <<io_threads, table, activated, destroyed, counts, posted, refs, open, obj, req,
                 told>>
\* deactivate_object; a servant that the table no longer has is left as it is
Deactivate(x) ==
  /\ at[x] = "unreferenced"
  /\ IF obj[x] \in table
     THEN /\ to_delete' = [to_delete EXCEPT ![obj[x]] = TRUE]
          /\ table' = table \ {obj[x]}
     ELSE UNCHANGED <<to_delete, table>>
  /\ Goes(x, "deactivated")
  /\ Uses(x)
  /\ UNCHANGED <<io_threads, activated, destroyed, counts, posted, refs, open, obj, req, told>>

\* mutant: a servant in use is only reported
NotReposted(o) == posted[o]
Reposted(o) == posted[o] + 1
\* delete_object: destroyed now, or tried again later
DeleteObject(x) ==
  /\ at[x] = "deactivated"
  /\ IF in_use_cnt[obj[x]] = 0
     THEN destroyed' = destroyed \cup {obj[x]} /\ UNCHANGED posted
     ELSE posted' = [posted EXCEPT ![obj[x]] = Reposted(obj[x])] /\ UNCHANGED destroyed
  /\ Goes(x, Return(x))
  /\ Uses(x)
  /\ UNCHANGED <<io_threads, table, activated, counts, to_delete, refs, open, obj, req, told>>

\* the posted delete_object, when the servant is not in use any more (if it is,
\* it posts itself again)
DeletePosted(o) ==
  /\ posted[o] > 0 /\ ThreadFree
  /\ in_use_cnt[o] = 0
  /\ posted' = [posted EXCEPT ![o] = @ - 1]
  /\ destroyed' = destroyed \cup {o}
  /\ dangling' = (o \in destroyed)
  /\ UNCHANGED <<io_threads, table, activated, counts, to_delete, refs, open, handler, told>>

\* the connection is lost: the session is destroyed, and its list with it
CloseSession(x) ==
  /\ at[x] = "idle" /\ x \in open /\ ThreadFree
  /\ open' = open \ {x}
  /\ Goes(x, "closing")
  /\ UNCHANGED <<io_threads, table, activated, destroyed, counts, to_delete, posted, refs, obj,
                 req, told, dangling>>
ReleaseNext(x) ==
  /\ at[x] = "closing"
  /\ \E o \in refs[x] : Release(x, o)
Closed(x) ==
  /\ ~dangling /\ at[x] = "closing" /\ refs[x] = {}
  /\ Goes(x, "idle")
  /\ told' = [told EXCEPT ![x] = {}]
  /\ UNCHANGED <<io_threads, table, activated, destroyed, counts, to_delete, posted, refs, open,
                 obj, req, dangling>>

-----------------------------------------------------------------------------
Init ==
  /\ io_threads \in 1 .. MaxIoThreads
  /\ table = {} /\ activated = {} /\ destroyed = {}
  /\ ref_cnt = [o \in Objects |-> 0]
  /\ in_use_cnt = [o \in Objects |-> 0]
  /\ to_delete = [o \in Objects |-> FALSE]
  /\ posted = [o \in Objects |-> 0]
  /\ refs = [x \in Sessions |-> {}]
  /\ open = Sessions
  /\ at = [x \in Sessions |-> "idle"]
  /\ obj = [x \in Sessions |-> NoObject]
  /\ req = [x \in Sessions |-> "FunctionCall"]
  /\ told = [x \in Sessions |-> {}]
  /\ dangling = FALSE

Continue(x) ==
  \/ Guard(x) \/ Check(x) \/ Dispatch(x) \/ AddReference(x) \/ Leave(x)
  \/ Deactivate(x) \/ DeleteObject(x) \/ ReleaseNext(x) \/ Closed(x)

Start(x) ==
  \/ \E o \in Objects :
       \/ Activate(x, o) \/ ReleaseObject(x, o)
       \/ \E r \in {"FunctionCall", "AddReference"} : GetObject(x, o, r)
  \/ CloseSession(x)

Next ==
  \/ \E x \in Sessions : Start(x) \/ Continue(x)
  \/ \E o \in Objects : DeletePosted(o)

Spec == Init /\ [][Next]_vars

\* A handler that has begun goes on, and the io_context runs what was posted.
FairSpec ==
  /\ Spec
  /\ \A x \in Sessions : WF_vars(Continue(x))
  /\ \A o \in Objects : SF_vars(DeletePosted(o))

-----------------------------------------------------------------------------
Holders(o) == {x \in Sessions : o \in refs[x]}
Guarding == {"guarded", "using", "leaving"}
Guards(o) == {x \in Sessions : obj[x] = o /\ at[x] \in Guarding}

TypeOK ==
  /\ io_threads \in 1 .. MaxIoThreads
  /\ table \subseteq Objects /\ activated \subseteq Objects /\ destroyed \subseteq Objects
  /\ ref_cnt \in [Objects -> Nat] /\ in_use_cnt \in [Objects -> Nat]
  /\ to_delete \in [Objects -> BOOLEAN]
  /\ posted \in [Objects -> Nat]
  /\ refs \in [Sessions -> SUBSET Objects]
  /\ open \subseteq Sessions
  /\ at \in [Sessions -> Stages]
  /\ obj \in [Sessions -> Objects \cup {NoObject}]
  /\ req \in [Sessions -> {"FunctionCall", "AddReference"}]
  /\ told \in [Sessions -> SUBSET Objects]
  /\ dangling \in BOOLEAN

\* The reference count of a servant is the number of sessions that have it in
\* their list, and its use count the number of guards, for any number of
\* threads: no request, in any order, counts one twice or loses one.
ReferencesCounted ==
  \A o \in Objects : ref_cnt[o] = Cardinality(Holders(o)) /\ in_use_cnt[o] = Cardinality(Guards(o))

\* With one io thread no handler, list or posted delete_object ever uses a
\* servant that was destroyed, and none is destroyed twice.
NeverDangling == io_threads = 1 => ~dangling

\* With one io thread a session that has a reference can call the servant: it is
\* in the table and not about to be deleted, whatever other sessions release.
ReferencedIsServed ==
  io_threads = 1 =>
    \A x \in Sessions : \A o \in refs[x] : o \in table /\ ~to_delete[o] /\ o \notin destroyed

\* When nothing is going on, every servant that has not been destroyed is in the
\* list of an open session: none is left behind when its sessions are gone, but
\* those whose first reference was rejected when they were activated.
NoneLeftBehind ==
  ((\A x \in Sessions : at[x] = "idle") /\ (\A o \in Objects : posted[o] = 0)) =>
    \A o \in activated \ destroyed :
      \/ \E x \in open : o \in refs[x]
      \/ o \in table /\ ref_cnt[o] = 0

\* A servant that was deactivated is destroyed in the end, though calls that
\* found it earlier still use it when it is (unless one uses it too late).
DeactivatedIsDestroyed ==
  \A o \in Objects : to_delete[o] ~> (o \in destroyed \/ dangling)

\* rpc_impl.cpp:195: a reference over the session's limit is rejected.  What the
\* client was told it has is what the session holds for it.
ToldIsHeld == \A x \in open : told[x] \subseteq refs[x]
=============================================================================
