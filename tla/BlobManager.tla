---------------------------- MODULE BlobManager ----------------------------
(***************************************************************************)
(* npdatabase's BlobManager on top of the buffer pool: a blob is a chain of *)
(* overflow pages, and the manager keeps, in memory only, where each blob   *)
(* begins.  Every call of the pool is a step, because other threads may use *)
(* the pool between two of them.                                            *)
(*                                                                          *)
(* The content of an overflow page is its header: the blob, the chunk and   *)
(* the next page.  The bytes of a blob are what the chunks say.             *)
(***************************************************************************)
EXTENDS BufferPool

CONSTANTS
  MaxBlobs,     \* bound: blobs ever stored
  MaxChunks,    \* bound: pages of a blob
  MaxCalls      \* bound: calls in a behaviour

\* device errors are BufferPool's subject
ASSUME BlobAssumption == MayFail = FALSE

VARIABLES
  next_blob_id,
  blob_cache,   \* blob id -> its metadata
  pc,
  blob,         \* the blob a call is about, with its metadata
  page_ids,     \* the call's vector of page ids
  current,      \* current_page_id of ReadPageChain, or the loop index
  result,       \* the chunks GetBlob has copied
  calls         \* calls made so far

locals == <<pc, blob, page_ids, current, result>>
manager == <<next_blob_id, blob_cache>>
blob_vars == <<manager, locals, calls>>

BlobIds == 1 .. MaxBlobs
NoBlob == [blob_id |-> 0, first_page_id |-> 0, num_pages |-> 0]
Chunk(b, i, n) == [blob_id |-> b, chunk_index |-> i, next_page_id |-> n]
IsValid(d) == d # Zero

Goto(t, to) == pc' = [pc EXCEPT ![t] = to]
Header(t, p) == pages[ptr[t][p]].data

\* a pool call, and the manager's state around it
Fetched(t, p) == FetchHit(t, p) \/ FetchMiss(t, p)
Unpins(t, p, is_dirty) == UnpinPage(t, p, is_dirty) \/ UnpinRefused(p)
Deletes(p) == DeletePage(p) \/ DeleteRefused(p)

\* the call ends
Return(t) ==
  /\ Goto(t, "idle")
  /\ blob' = [blob EXCEPT ![t] = NoBlob]
  /\ page_ids' = [page_ids EXCEPT ![t] = <<>>]
  /\ current' = [current EXCEPT ![t] = 0]
  /\ result' = [result EXCEPT ![t] = <<>>]
Local(t, to) == Goto(t, to) /\ UNCHANGED <<blob, page_ids, current, result>>

Call(t) ==
  /\ pc[t] = "idle"
  /\ calls < MaxCalls
  /\ calls' = calls + 1
  /\ UNCHANGED vars

-----------------------------------------------------------------------------
(* StoreBlob: AllocatePageChain, WritePageChain, and the metadata           *)

StoreBlob(t, n) ==
  /\ Call(t)
  /\ next_blob_id <= MaxBlobs
  /\ next_blob_id' = next_blob_id + 1
  /\ blob' = [blob EXCEPT ![t] = [blob_id |-> next_blob_id, first_page_id |-> 0, num_pages |-> n]]
  /\ Goto(t, "alloc")
  /\ UNCHANGED <<blob_cache, page_ids, current, result>>

AllocNew(t) ==
  /\ pc[t] = "alloc"
  /\ Len(page_ids[t]) < blob[t].num_pages
  /\ NewPage(t)
  /\ page_ids' = [page_ids EXCEPT ![t] = Append(@, AllocatePage)]
  /\ Goto(t, "alloc_unpin")
  /\ UNCHANGED <<manager, blob, current, result, calls>>

AllocUnpin(t) ==
  /\ pc[t] = "alloc_unpin"
  /\ Unpins(t, Last(page_ids[t]), FALSE)
  /\ Local(t, "alloc")
  /\ UNCHANGED <<manager, calls>>

\* no frame: the pages allocated so far are deleted and StoreBlob throws
AllocFails(t) ==
  /\ pc[t] = "alloc"
  /\ Len(page_ids[t]) < blob[t].num_pages
  /\ NewNoFrame(t)
  /\ Local(t, "free")
  /\ UNCHANGED <<manager, calls>>

AllocDone(t) ==
  /\ pc[t] = "alloc"
  /\ Len(page_ids[t]) = blob[t].num_pages
  /\ current' = [current EXCEPT ![t] = 1]
  /\ Goto(t, "write")
  /\ UNCHANGED <<vars, manager, blob, page_ids, result, calls>>

WriteFetch(t) ==
  /\ pc[t] = "write"
  /\ \/ Fetched(t, page_ids[t][current[t]]) /\ Local(t, "write_page")
     \/ FetchNoFrame(t, page_ids[t][current[t]]) /\ Local(t, "free")
  /\ UNCHANGED <<manager, calls>>

\* mutant: every page is the last of its chain
NoSuccessor(ids, i) == 0
Successor(ids, i) == IF i < Len(ids) THEN ids[i + 1] ELSE 0

WriteChunk(t) ==
  LET i == current[t]
      p == page_ids[t][i]
  IN  /\ pc[t] = "write_page"
      /\ WriteData(t, p, Chunk(blob[t].blob_id, i - 1, Successor(page_ids[t], i)))
      /\ Local(t, "write_unpin")
      /\ UNCHANGED <<manager, calls>>

\* mutant: the page is unpinned as clean
WriteUnpinClean(t) ==
  /\ pc[t] = "write_unpin"
  /\ Unpins(t, page_ids[t][current[t]], FALSE)
  /\ IF current[t] < Len(page_ids[t])
     THEN Goto(t, "write") /\ current' = [current EXCEPT ![t] = @ + 1]
     ELSE Goto(t, "cache") /\ UNCHANGED current
  /\ UNCHANGED <<manager, blob, page_ids, result, calls>>

WriteUnpin(t) ==
  /\ pc[t] = "write_unpin"
  /\ Unpins(t, page_ids[t][current[t]], TRUE)
  /\ IF current[t] < Len(page_ids[t])
     THEN Goto(t, "write") /\ current' = [current EXCEPT ![t] = @ + 1]
     ELSE Goto(t, "cache") /\ UNCHANGED current
  /\ UNCHANGED <<manager, blob, page_ids, result, calls>>

StoreReturns(t) ==
  /\ pc[t] = "cache"
  /\ blob_cache' = [blob_cache EXCEPT ![blob[t].blob_id] =
       [blob[t] EXCEPT !.first_page_id = page_ids[t][1]]]
  /\ Return(t)
  /\ UNCHANGED <<vars, next_blob_id, calls>>

\* FreePageChain; what DeletePage returns is ignored
Free(t) ==
  /\ pc[t] = "free"
  /\ page_ids[t] # <<>>
  /\ Deletes(Head(page_ids[t]))
  /\ page_ids' = [page_ids EXCEPT ![t] = Tail(@)]
  /\ UNCHANGED <<manager, pc, blob, current, result, calls>>

FreeDone(t) ==
  /\ pc[t] = "free"
  /\ page_ids[t] = <<>>
  /\ Return(t)
  /\ UNCHANGED <<vars, manager, calls>>

-----------------------------------------------------------------------------
(* ReadPageChain, for GetBlob ("get_") and DeleteBlob ("del_")              *)

GetBlob(t, b) ==
  /\ Call(t)
  /\ blob_cache[b] # NoBlob
  /\ blob' = [blob EXCEPT ![t] = blob_cache[b]]
  /\ current' = [current EXCEPT ![t] = blob_cache[b].first_page_id]
  /\ Goto(t, "get_chain")
  /\ UNCHANGED <<manager, page_ids, result>>

DeleteBlob(t, b) ==
  /\ Call(t)
  /\ blob_cache[b] # NoBlob
  /\ blob' = [blob EXCEPT ![t] = blob_cache[b]]
  /\ current' = [current EXCEPT ![t] = blob_cache[b].first_page_id]
  /\ blob_cache' = [blob_cache EXCEPT ![b] = NoBlob]
  /\ Goto(t, "del_chain")
  /\ UNCHANGED <<next_blob_id, page_ids, result>>

InChain(t) == pc[t] \in {"get_chain", "del_chain"}
InNext(t) == pc[t] \in {"get_next", "del_next"}
IsGet(t) == pc[t] \in {"get_chain", "get_next"}

\* an exception in ReadPageChain: DeleteBlob puts the metadata back
ChainThrows(t) ==
  /\ blob_cache' = IF IsGet(t) THEN blob_cache ELSE [blob_cache EXCEPT ![blob[t].blob_id] = blob[t]]
  /\ Return(t)
  /\ UNCHANGED <<next_blob_id, calls>>

ChainFetch(t) ==
  /\ InChain(t)
  /\ current[t] # 0
  /\ \/ /\ Fetched(t, current[t])
        /\ page_ids' = [page_ids EXCEPT ![t] = Append(@, current[t])]
        /\ Goto(t, IF IsGet(t) THEN "get_next" ELSE "del_next")
        /\ UNCHANGED <<manager, blob, current, result, calls>>
     \/ FetchNoFrame(t, current[t]) /\ ChainThrows(t)

\* current_page_id becomes the next page, and that is what is unpinned
ChainNext(t) ==
  /\ InNext(t)
  /\ IsValid(Header(t, current[t]))
  /\ LET next == Header(t, current[t]).next_page_id
     IN  /\ current' = [current EXCEPT ![t] = next]
         /\ Unpins(t, next, FALSE)
  /\ Goto(t, IF IsGet(t) THEN "get_chain" ELSE "del_chain")
  /\ UNCHANGED <<manager, blob, page_ids, result, calls>>

ChainInvalid(t) ==
  /\ InNext(t)
  /\ ~IsValid(Header(t, current[t]))
  /\ Unpins(t, current[t], FALSE)
  /\ ChainThrows(t)

ChainDone(t) ==
  /\ InChain(t)
  /\ current[t] = 0
  /\ Goto(t, IF IsGet(t) THEN "read" ELSE "free")
  /\ UNCHANGED <<vars, manager, blob, page_ids, current, result, calls>>

-----------------------------------------------------------------------------
(* the rest of GetBlob                                                      *)

ReadFetch(t) ==
  /\ pc[t] = "read"
  /\ page_ids[t] # <<>>
  /\ \/ Fetched(t, Head(page_ids[t])) /\ Local(t, "read_page")
     \/ FetchNoFrame(t, Head(page_ids[t])) /\ Return(t)
  /\ UNCHANGED <<manager, calls>>

Belongs(d, b) == IsValid(d) /\ d.blob_id = b

ReadPageOf(t) ==
  LET p == Head(page_ids[t])
  IN  /\ pc[t] = "read_page"
      /\ Unpins(t, p, FALSE)
      /\ \/ /\ Belongs(Header(t, p), blob[t].blob_id)
            /\ result' = [result EXCEPT ![t] = Append(@, Header(t, p))]
            /\ page_ids' = [page_ids EXCEPT ![t] = Tail(@)]
            /\ Goto(t, "read")
            /\ UNCHANGED <<blob, current>>
         \/ ~Belongs(Header(t, p), blob[t].blob_id) /\ Return(t)
      /\ UNCHANGED <<manager, calls>>

GetReturns(t) ==
  /\ pc[t] = "read"
  /\ page_ids[t] = <<>>
  /\ Return(t)
  /\ UNCHANGED <<vars, manager, calls>>

-----------------------------------------------------------------------------
BlobInit ==
  /\ Init
  /\ next_blob_id = 1
  /\ blob_cache = [b \in BlobIds |-> NoBlob]
  /\ pc = [t \in Threads |-> "idle"]
  /\ blob = [t \in Threads |-> NoBlob]
  /\ page_ids = [t \in Threads |-> <<>>]
  /\ current = [t \in Threads |-> 0]
  /\ result = [t \in Threads |-> <<>>]
  /\ calls = 0

BlobStep(t) ==
  \/ \E n \in 1 .. MaxChunks : StoreBlob(t, n)
  \/ AllocNew(t) \/ AllocUnpin(t) \/ AllocFails(t) \/ AllocDone(t)
  \/ WriteFetch(t) \/ WriteChunk(t) \/ WriteUnpin(t) \/ StoreReturns(t)
  \/ Free(t) \/ FreeDone(t)
  \/ \E b \in BlobIds : GetBlob(t, b) \/ DeleteBlob(t, b)
  \/ ChainFetch(t) \/ ChainNext(t) \/ ChainInvalid(t) \/ ChainDone(t)
  \/ ReadFetch(t) \/ ReadPageOf(t) \/ GetReturns(t)

BlobNext == \E t \in Threads : BlobStep(t)

BlobSpec == BlobInit /\ [][BlobNext]_<<vars, blob_vars>>

-----------------------------------------------------------------------------
Content(p) == IF Cached(p) THEN Of(p).data ELSE disk[p]

(* The chain of every blob that can be found is whole: from its first page  *)
(* on, chunk follows chunk and the last one ends it, while another caller   *)
(* allocates, evicts, pins, unpins and deletes pages.  So it is with two    *)
(* threads in a file whose page 0 belongs to no blob.  In a new file, or    *)
(* with a third thread, it is violated: a reader unpins the page that       *)
(* another thread is writing to.                                            *)
ChainsWhole ==
  \A b \in BlobIds :
    LET meta == blob_cache[b]
        page[k \in 0 .. MaxChunks - 1] ==
          IF k = 0 THEN meta.first_page_id
          ELSE IF IsValid(Content(page[k - 1])) THEN Content(page[k - 1]).next_page_id ELSE 0
    IN  meta # NoBlob =>
          \A k \in 0 .. meta.num_pages - 1 :
            Content(page[k]) = Chunk(b, k, IF k = meta.num_pages - 1 THEN 0 ELSE page[k + 1])

(* "Retrieve a blob by its ID" (blob_manager.hpp:72): what GetBlob returns  *)
(* is all the chunks of the blob it was asked for, in order.  It is         *)
(* violated twice: in a new file the first page of the first blob is page   *)
(* 0, which ends a chain; and of three threads one reader unpins the page   *)
(* that another one reads, so that the frame goes to a third one's page.    *)
GetsTheBlob ==
  \A t \in Threads :
    pc[t] = "read" /\ page_ids[t] = <<>> =>
      /\ Len(result[t]) = blob[t].num_pages
      /\ \A k \in 1 .. Len(result[t]) :
           result[t][k].blob_id = blob[t].blob_id /\ result[t][k].chunk_index = k - 1

(* "Unpin the page" (blob_manager.cpp:255): a call that has returned has    *)
(* unpinned what it fetched.  It is violated: ReadPageChain unpins the page *)
(* after the one that it fetched.                                           *)
PinsReturned == \A t \in Threads, p \in PageIds : pc[t] = "idle" => pins[t][p] = 0

(* "Delete a blob and free its pages" (blob_manager.hpp): no page keeps a   *)
(* chunk of a blob that is gone.                                            *)
NoOrphans ==
  \A p \in PageIds :
    IsValid(Content(p)) =>
      LET b == Content(p).blob_id
      IN  blob_cache[b] # NoBlob \/ \E t \in Threads : blob[t].blob_id = b
=============================================================================
