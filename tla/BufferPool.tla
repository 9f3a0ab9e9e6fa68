----------------------------- MODULE BufferPool -----------------------------
(***************************************************************************)
(* npdatabase's BufferPoolManager with its LRUReplacer and DiskManager: a   *)
(* fixed number of frames that cache the pages of one file.  Every method   *)
(* holds latch_ from beginning to end and is one action here; what the      *)
(* threads do between two calls, writing through the pointers that          *)
(* FetchPage and NewPage gave them, is not protected by it.                 *)
(*                                                                          *)
(* pins, wrote and ptr are what the threads know.  That a thread unpins     *)
(* what it has pinned, and says is_dirty when it has written, is the        *)
(* contract of UnpinPage and is in Step, not in UnpinPage.                  *)
(***************************************************************************)
EXTENDS Naturals, SequencesExt

CONSTANTS
  Threads,
  PoolSize,    \* pool_size_
  MaxPages,    \* bound: pages of the file
  MaxPins,     \* bound: pins a thread has on one page
  InitialSize, \* pages the file has when it is opened first, all zeros
  Data,        \* page contents
  Zero,        \* the content of a page of zeros
  MayFail      \* whether the device may refuse a read or a write

ASSUME PoolAssumption ==
  /\ IsFiniteSet(Threads)
  /\ PoolSize \in Nat \ {0}
  /\ MaxPages \in Nat
  /\ MaxPins \in Nat \ {0}
  /\ InitialSize \in 0 .. MaxPages
  /\ Zero \in Data
  /\ MayFail \in BOOLEAN

VARIABLES
  pages,         \* frame -> Page
  page_table,    \* page id -> frame
  free_list,
  lru_list,      \* frames that may be evicted, the most recent first
  disk,          \* page id -> content in the file, zeros beyond its end
  file_size,     \* in pages
  failed,        \* failbit of db_file_: set by an error, never cleared
  next_page_id,
  pins,          \* pins each thread has on each page
  ptr,           \* the frame of the Page* it got for it
  wrote,         \* the pages it has written to since it pinned them
  given,         \* history: page ids given out, those lost in a fault left out
  lossy          \* history: what was written may be lost, since the device
                 \* refused a write or the stream was closed in failure

pool == <<pages, page_table, free_list, lru_list>>
store == <<disk, file_size, failed>>
threads == <<pins, ptr, wrote>>
vars == <<pool, store, next_page_id, threads, given, lossy>>

-----------------------------------------------------------------------------
Frames == 0 .. PoolSize - 1
NoFrame == PoolSize            \* nullptr, SIZE_MAX, page_table_.end()
PageIds == 0 .. MaxPages - 1
ResetPage == [page_id |-> 0, pin_count |-> 0, is_dirty |-> FALSE, data |-> Zero]

Cached(p) == page_table[p] # NoFrame
Of(p) == pages[page_table[p]]
Dirty == {p \in PageIds : Cached(p) /\ Of(p).is_dirty}

\* LRUReplacer::Pin and Unpin
Pin(f) ==
  IF \E i \in 1 .. Len(lru_list) : lru_list[i] = f
  THEN RemoveAt(lru_list, CHOOSE i \in 1 .. Len(lru_list) : lru_list[i] = f)
  ELSE lru_list
Unpin(f) ==
  IF \E i \in 1 .. Len(lru_list) : lru_list[i] = f THEN lru_list ELSE <<f>> \o lru_list

\* DiskManager::ReadPage: a failed stream says its size is -1
ReadPage(p) == IF failed \/ p >= file_size THEN Zero ELSE disk[p]

\* DiskManager::WritePage.  A page reaches the device in write(), which is
\* checked, as libstdc++ keeps back no block of 1 KiB or more; flush(), which is
\* not checked, finds nothing to write.
WritePage(p, d) ==
  /\ ~failed
  /\ disk' = [disk EXCEPT ![p] = d]
  /\ file_size' = Max({file_size, p + 1})
  /\ UNCHANGED <<failed, lossy>>
WriteFails(p) ==
  /\ failed \/ MayFail
  /\ failed' = TRUE
  /\ lossy' = TRUE
  /\ UNCHANGED <<disk, file_size>>
NoWrite == UNCHANGED <<store, lossy>>

-----------------------------------------------------------------------------
\* FindFreeFrame returns f: a free frame, or the victim, written if dirty
FindFreeFrame(f) ==
  \/ /\ free_list # <<>>
     /\ f = Head(free_list)
     /\ free_list' = Tail(free_list)
     /\ UNCHANGED lru_list
     /\ NoWrite
  \/ /\ free_list = <<>> /\ lru_list # <<>>
     /\ f = Last(lru_list)
     /\ lru_list' = Front(lru_list)
     /\ UNCHANGED free_list
     /\ \/ pages[f].is_dirty /\ WritePage(pages[f].page_id, pages[f].data)
        \/ ~pages[f].is_dirty /\ NoWrite

\* page_table_ after that: EvictPage has erased the victim's page
TableWithout(f) ==
  [p \in PageIds |->
     IF free_list = <<>> /\ p = pages[f].page_id THEN NoFrame ELSE page_table[p]]

\* FindFreeFrame returns SIZE_MAX: all pinned, or the victim, the only one
\* that is tried, cannot be written
NoFreeFrame ==
  /\ free_list = <<>>
  /\ \/ lru_list = <<>> /\ UNCHANGED lru_list /\ NoWrite
     \/ /\ lru_list # <<>>
        /\ pages[Last(lru_list)].is_dirty
        /\ WriteFails(pages[Last(lru_list)].page_id)
        /\ lru_list' = <<Last(lru_list)>> \o Front(lru_list)
  /\ UNCHANGED <<pages, page_table, free_list>>

\* thread t has one more pin on page p, which is in frame f
Pinned(t, p, f) ==
  /\ pins' = [pins EXCEPT ![t][p] = @ + 1]
  /\ ptr' = [ptr EXCEPT ![t][p] = f]
  /\ UNCHANGED wrote

-----------------------------------------------------------------------------
(* FetchPage                                                                *)

\* mutant: the frame stays in the replacer
FetchHitUnpinned(t, p) ==
  /\ Cached(p)
  /\ pages' = [pages EXCEPT ![page_table[p]].pin_count = @ + 1]
  /\ Pinned(t, p, page_table[p])
  /\ UNCHANGED <<page_table, free_list, lru_list, store, next_page_id, given, lossy>>

FetchHit(t, p) ==
  /\ Cached(p)
  /\ pages' = [pages EXCEPT ![page_table[p]].pin_count = @ + 1]
  /\ lru_list' = Pin(page_table[p])
  /\ Pinned(t, p, page_table[p])
  /\ UNCHANGED <<page_table, free_list, store, next_page_id, given, lossy>>

FetchMiss(t, p) ==
  /\ ~Cached(p)
  /\ \E f \in Frames :
       /\ FindFreeFrame(f)
       /\ page_table' = [TableWithout(f) EXCEPT ![p] = f]
       /\ pages' = [pages EXCEPT ![f] =
            [page_id |-> p, pin_count |-> 1, is_dirty |-> FALSE, data |-> ReadPage(p)]]
       /\ Pinned(t, p, f)
  /\ UNCHANGED <<next_page_id, given>>

\* returns nullptr
FetchNoFrame(t, p) ==
  /\ ~Cached(p)
  /\ NoFreeFrame
  /\ UNCHANGED <<next_page_id, threads, given>>

\* the read throws: the frame, emptied if it was a victim, is free again
FetchThrows(t, p) ==
  /\ ~Cached(p)
  /\ MayFail /\ ~failed /\ p < file_size
  /\ \E f \in Frames :
       /\ IF free_list = <<>>
          THEN /\ lru_list # <<>> /\ f = Last(lru_list)
               /\ lru_list' = Front(lru_list)
               /\ free_list' = <<f>>
               /\ IF pages[f].is_dirty
                  THEN /\ disk' = [disk EXCEPT ![pages[f].page_id] = pages[f].data]
                       /\ file_size' = Max({file_size, pages[f].page_id + 1})
                  ELSE UNCHANGED <<disk, file_size>>
          ELSE /\ f = Head(free_list)
               /\ UNCHANGED <<lru_list, free_list, disk, file_size>>
       /\ page_table' = TableWithout(f)
       /\ pages' = [pages EXCEPT ![f] = ResetPage]
  /\ failed' = TRUE
  /\ UNCHANGED <<next_page_id, threads, given, lossy>>

FetchPage(t, p) ==
  \/ FetchHit(t, p)
  \/ FetchMiss(t, p)
  \/ FetchNoFrame(t, p)
  \/ FetchThrows(t, p)

-----------------------------------------------------------------------------
\* mutant: the last caller's word counts
DirtyAfterLast(p, is_dirty) == is_dirty

DirtyAfter(p, is_dirty) == Of(p).is_dirty \/ is_dirty

\* thread t has one pin less on page p, if it had one
Unpinned(t, p) ==
  /\ pins' = [pins EXCEPT ![t][p] = IF @ > 0 THEN @ - 1 ELSE @]
  /\ ptr' = [ptr EXCEPT ![t][p] = IF pins[t][p] > 1 THEN @ ELSE NoFrame]
  /\ wrote' = [wrote EXCEPT ![t] = @ \ {p}]

UnpinPage(t, p, is_dirty) ==
  /\ Cached(p) /\ Of(p).pin_count > 0
  /\ pages' = [pages EXCEPT
       ![page_table[p]].pin_count = @ - 1,
       ![page_table[p]].is_dirty = DirtyAfter(p, is_dirty)]
  /\ lru_list' = IF Of(p).pin_count = 1 THEN Unpin(page_table[p]) ELSE lru_list
  /\ Unpinned(t, p)
  /\ UNCHANGED <<page_table, free_list, store, next_page_id, given, lossy>>

\* returns false
UnpinRefused(p) ==
  /\ Cached(p) => Of(p).pin_count = 0
  /\ UNCHANGED vars

\* mutant: a new page is clean
NewIsDirtyNever == FALSE

NewIsDirty == TRUE

AllocatePage == next_page_id

NewPage(t) ==
  /\ next_page_id < MaxPages
  /\ \E f \in Frames :
       /\ FindFreeFrame(f)
       /\ page_table' = [TableWithout(f) EXCEPT ![AllocatePage] = f]
       /\ pages' = [pages EXCEPT ![f] =
            [page_id |-> AllocatePage, pin_count |-> 1, is_dirty |-> NewIsDirty, data |-> Zero]]
       /\ Pinned(t, AllocatePage, f)
  /\ next_page_id' = next_page_id + 1
  /\ given' = given \cup {AllocatePage}

NewNoFrame(t) ==
  /\ next_page_id < MaxPages
  /\ NoFreeFrame
  /\ UNCHANGED <<next_page_id, threads, given>>

\* the page leaves the pool before the file is written, which may throw
DeletePage(p) ==
  /\ \/ ~Cached(p) /\ UNCHANGED pool
     \/ /\ Cached(p) /\ Of(p).pin_count = 0
        /\ page_table' = [page_table EXCEPT ![p] = NoFrame]
        /\ lru_list' = Pin(page_table[p])
        /\ pages' = [pages EXCEPT ![page_table[p]] = ResetPage]
        /\ free_list' = <<page_table[p]>> \o free_list
  /\ WritePage(p, Zero) \/ WriteFails(p)
  /\ UNCHANGED <<next_page_id, threads, given>>

\* returns false: somebody uses the page
DeleteRefused(p) ==
  /\ Cached(p) /\ Of(p).pin_count > 0
  /\ UNCHANGED vars

FlushPage(p) ==
  /\ p \in Dirty
  /\ \/ /\ WritePage(p, Of(p).data)
        /\ pages' = [pages EXCEPT ![page_table[p]].is_dirty = FALSE]
     \/ WriteFails(p) /\ UNCHANGED pages
  /\ UNCHANGED <<page_table, free_list, lru_list, next_page_id, threads, given>>

\* the loop of FlushAllPages: the pages of W are written; when they are not
\* all, a write failed on the way and so did those that came after it
FlushDirty(W) ==
  /\ disk' = [p \in PageIds |-> IF p \in W THEN Of(p).data ELSE disk[p]]
  /\ file_size' = Max({file_size} \cup {p + 1 : p \in W})
  /\ \/ W = Dirty /\ ~failed
     \/ W = {} /\ failed
     \/ W # Dirty /\ MayFail /\ ~failed

FlushAllPages ==
  /\ \E W \in SUBSET Dirty :
       /\ FlushDirty(W)
       /\ failed' = (failed \/ W # Dirty)
       /\ lossy' = (lossy \/ W # Dirty)
       /\ pages' = [f \in Frames |->
            IF \E p \in W : page_table[p] = f THEN [pages[f] EXCEPT !.is_dirty = FALSE] ELSE pages[f]]
  /\ UNCHANGED <<page_table, free_list, lru_list, next_page_id, threads, given>>

FreshPool ==
  /\ pages' = [f \in Frames |-> ResetPage]
  /\ page_table' = [p \in PageIds |-> NoFrame]
  /\ free_list' = [i \in 1 .. PoolSize |-> i - 1]
  /\ lru_list' = <<>>

\* the destructor, which flushes, and a new manager on the same file, which
\* continues with the ids behind its end
Reopen ==
  /\ \A t \in Threads, p \in PageIds : pins[t][p] = 0
  /\ \E W \in SUBSET Dirty :
       /\ FlushDirty(W)
       /\ lossy' = (failed \/ W # Dirty)
  /\ failed' = FALSE
  /\ next_page_id' = file_size'
  /\ given' = IF lossy' THEN 0 .. file_size' - 1 ELSE given
  /\ FreshPool
  /\ UNCHANGED threads

-----------------------------------------------------------------------------
\* a thread writes through the pointer it has
WriteData(t, p, d) ==
  /\ pins[t][p] > 0
  /\ pages' = [pages EXCEPT ![ptr[t][p]].data = d]
  /\ wrote' = [wrote EXCEPT ![t] = @ \cup {p}]
  /\ UNCHANGED <<page_table, free_list, lru_list, store, next_page_id, pins, ptr, given, lossy>>

Init ==
  /\ pages = [f \in Frames |-> ResetPage]
  /\ page_table = [p \in PageIds |-> NoFrame]
  /\ free_list = [i \in 1 .. PoolSize |-> i - 1]
  /\ lru_list = <<>>
  /\ disk = [p \in PageIds |-> Zero]
  /\ file_size = InitialSize
  /\ failed = FALSE
  /\ next_page_id = InitialSize
  /\ pins = [t \in Threads |-> [p \in PageIds |-> 0]]
  /\ ptr = [t \in Threads |-> [p \in PageIds |-> NoFrame]]
  /\ wrote = [t \in Threads |-> {}]
  /\ given = 0 .. InitialSize - 1
  /\ lossy = FALSE

Step(t, p) ==
  \/ p < next_page_id /\ pins[t][p] < MaxPins /\ FetchPage(t, p)
  \/ pins[t][p] > 0 /\ UnpinPage(t, p, p \in wrote[t])
  \/ \E d \in Data : WriteData(t, p, d)
  \/ p < next_page_id /\ DeletePage(p)
  \/ DeleteRefused(p)
  \/ FlushPage(p)

Next ==
  \/ \E t \in Threads : NewPage(t) \/ NewNoFrame(t) \/ \E p \in PageIds : Step(t, p)
  \/ FlushAllPages
  \/ Reopen

Spec == Init /\ [][Next]_vars

-----------------------------------------------------------------------------
\* the frames the table refers to, and the pins all threads have on page p
Used == {page_table[p] : p \in PageIds} \ {NoFrame}
PinsOn(p) == {k \in Threads \X (1 .. MaxPins) : k[2] <= pins[k[1]][p]}

(* Every frame is in one place only: free, or evictable with an unpinned    *)
(* page, or pinned, and in the table exactly when it is not free.  The      *)
(* lists and the table are changed in a dozen places, some after an error.  *)
FramesPartitioned ==
  /\ IsInjective(free_list) /\ IsInjective(lru_list)
  /\ ToSet(free_list) = Frames \ Used
  /\ ToSet(lru_list) = {f \in Used : pages[f].pin_count = 0}
  /\ \A p \in PageIds : Cached(p) => Of(p).page_id = p

(* A Page* stays good while the thread that has it keeps its pin: no        *)
(* eviction, deletion or reuse of the frame by another thread comes first.  *)
PointersStayGood ==
  /\ \A t \in Threads, p \in PageIds : pins[t][p] > 0 => Cached(p) /\ page_table[p] = ptr[t][p]
  /\ \A p \in PageIds : Cached(p) => Of(p).pin_count = Cardinality(PinsOn(p))

(* No id is given out twice while the device refuses nothing, also after    *)
(* the manager was closed and opened again: the ids continue behind the     *)
(* file's end, and closing has written every page that was ever new.  The   *)
(* pages that a fault had it lose are given again (Reopen takes them out of *)
(* given); those that are in the file are not.                              *)
IdsAreNew == [][next_page_id' = next_page_id + 1 => AllocatePage \notin given]_vars

(* The cache cannot be seen: what is in the frame of a page, or in the file *)
(* when it has none, changes only when a thread writes or deletes the page, *)
(* whatever is evicted, flushed, closed and opened, until a fault.          *)
Pages == INSTANCE PageStore WITH
  content <- [p \in PageIds |-> IF Cached(p) THEN Of(p).data ELSE disk[p]],
  faulty <- failed \/ lossy
ImplementsPageStore == Pages!Spec
=============================================================================
