# npsystem in TLA+

npsystem is a distributed control system: editors and web views (clients) see
and change variables of AVR controllers through `npserver`, which polls the
controllers over UDP; everything talks over `nprpc`, an RPC library with
servants, references, sessions and several transports; `npdatabase` is a small
paged store. This directory holds TLA+ models of the parts of that system whose
correctness depends on order: what several threads, processes or clients do to
shared state, and what happens when a call fails in the middle.

`PROJECT.json` lists the components, the runs, the mutants (a plausible bug for
every property, under which the property fails), the source lines behind every
definition, the hazards and the theorems. Paths below are under
`src/`.

## 1. Inventory

| part | state | operations | what is hard | what makes it correct |
|---|---|---|---|---|
| **shared memory ring** `nprpc/src/lock_free_ring_buffer.cpp` | two indices and bytes in shared memory, a mutex and a condition | `try_write`, `read_with_timeout` | two processes, two loads that are not atomic, wrap-around, wake-ups | a FIFO channel: nothing lost, torn, doubled or forgotten |
| **object table** `nprpc/include/nprpc/impl/id_to_ptr.hpp` | slots with generation and value, a head word | `add`, `remove`, `get` | lock-free, ABA, reuse of slots | one owner per slot, live ids found, removed ones not |
| **servants and references** `nprpc/src/rpc_impl.cpp`, `nprpc.cpp`, `session.cpp` | reference counts, guards, lists per session | `activate_object`, requests, `AddReference`, `ReleaseObject`, end of a session | look-up against destruction | referenced servants are served, unreferenced ones destroyed once |
| **client connection over TCP** `nprpc/src/client_socket_connection.cpp`, `impl/session.hpp` | work queue, socket, timer | `send_receive`, `send_receive_async`, reconnect, timeout | resets and timeouts against a queue of calls without ids | every call ends, with its own answer, and is carried out once |
| **shared memory channel and connection** `nprpc/src/shared_memory_*.cpp`, `rpc_impl.cpp` | accept ring, two rings per session, list of sessions, work queue, timer | connect, accept, send, receive, timeout, close | several processes in one accept ring, a list erased by endpoint, a mutex held over callbacks | as for TCP, and a session whose close has returned is not handed out again |
| **WebSocket session** `nprpc/src/websocket_session.cpp` | pending requests by number, queue of writes, flags | send, receive, close, on both ends | two operations that fail apart, posts after the end | each call carried out and ended at most once, one write at a time |
| HTTP `nprpc/src/http_server.cpp`, connecting over WebSocket | - | - | input and output | - |
| name server, uuid, helpers, npidl, nprpc_js | - | - | sequential | - |
| **register table and worker** `npserver/src/protocol.cpp` | sorted rows, requests, place of the poll, task queue | add, release, remove device, poll | long sequences of tasks; raw pointers in rows and requests | rows sorted, requests read exactly the rows, every register polled |
| **item managers** `npserver/src/itemmgr.cpp`, `listener.cpp` | map of registers per client, strand, io threads | `Activate`, `Advise`, `OnDataChanged`, `destroy` | worker, strands and callers share registers without a lock; blocking waits in io threads | no dangling pointer, counts right, no missed value, every call returns |
| bridges, history, controllers, main `npserver/src` | one socket with a deadline; files | request and answer | late answers | - |
| **buffer pool** `npdatabase/src/buffer_pool_manager.cpp`, `disk_manager.cpp` | frames, page table, LRU list, file | fetch, new, unpin, flush, delete, close, open | eviction against pins, I/O errors, reopening | the cache cannot be seen |
| **blobs** `npdatabase/src/blob_manager.cpp` | chains of pages, directory in memory | store, get, delete | several pool calls per operation, eviction in between | a blob is whole or absent |
| trees and documents `npdatabase` | - | - | not compiled | - |
| **AVR firmware network** `avr_firmware/src/net_c.c`, `pc_link.c` | access counter, timer, status flags, the packet in transit | turns by silence, sync frames, request and answer, transit | real time, tasks that delay it, noise, restarts | one frame at a time, turns for all, every transit ends |
| simulator, compiler, npsystem editor, npdb, npsys, npwebserver, tools | - | - | sequential, user interface or generated | - |

Bold parts are modelled. How they interact: an nprpc **session** (of any
transport) reads a request, looks the servant up in the **object table**, and
calls it; a server's answer returns on the same transport. Clients keep servants
alive through their sessions' **reference lists**. `npserver`'s **item managers**
are such servants; their methods hand tasks to the **worker** thread, which posts
what it has polled to the strands of the item managers, which call the clients
back over nprpc. The rings carry the messages of the shared memory transport, and
one more takes the handshakes of all clients of a listener. `npserver` reaches the
controllers through the **link**, a controller that puts the packets of the PC on
the **bus** when it has its turn.
**Blobs** live in pages of the **buffer pool**.

## 2. Modules

| module | what it is | uses |
|---|---|---|
| `FifoChannel` | abstract: a FIFO channel of messages | |
| `RingBuffer` | the ring, one action per step between accesses to shared memory | refines `FifoChannel` |
| `IdToPtr` | the object table, one action per access to shared words | |
| `Servants` | servants, guards, reference lists, sessions, over an atomic table | |
| `ObjectProofs` | the proofs about the object table and the servants | extends both |
| `SocketConnection`, `SocketProofs` | the TCP client connection, the socket and a server session; their proofs | |
| `SharedMemorySession` | clients, accept ring, listener, sessions and server over shared memory | its rings are FIFO channels, as `RingBuffer` shows |
| `ChannelProofs` | the proofs about the ring and the channel over shared memory | extends both |
| `RemoteCalls` | abstract: calls that are carried out and answered at most once | |
| `WebSocketSession`, `WebSocketProofs` | both ends of a WebSocket connection; their proofs | refines `RemoteCalls` |
| `MarkerBus` | the controllers on their bus, in ticks of their timers | |
| `PageStore` | abstract: pages that keep what was written, until a fault | |
| `BufferPool`, `BufferPoolProofs` | pool, replacer and file; their proofs | refines `PageStore` |
| `BlobManager` | blobs, every pool call a step | extends `BufferPool` |
| `RegisterTable` | npserver's table as a record, its operations as functions | |
| `ProtocolWorker` | the worker with arbitrary tasks | extends `RegisterTable` |
| `TableProofs` | what the operations of the table do to it; the proofs about the worker | extends `ProtocolWorker` |
| `ItemServer` | worker, strands, io threads and clients together | extends `RegisterTable` |
| `ItemServerProofs` | the proofs about worker, strands and clients | extends `ItemServer`, `TableProofs` |
| `Lemmas` | facts about numbers, sequences and finite sets, which the proofs share | |
| `MC...` | instances for TLC | |

Definitions keep the names of the code (`wq_` is `wq`, `op_available` is
`op_available`); a comment names the method when they differ. A definition that
is introduced by `\* mutant:` is not part of the model: it is the wrong version
of the definition after it.

**RingBuffer.** `data_region`, `write_idx`, `read_idx`, `mutex` are the shared
memory; the `w...` and `r...` variables are the locals of `try_write` and of the
reader's loop. A byte is a byte of a header or of a payload, so that a torn or
overwritten record shows. `used_bytes` is evaluated in one step although it loads
the indices one after the other: each end owns one index, which does not move
while it evaluates, and loads the other end's once. Notification and waiting are
steps under the mutex. `sent` and `delivered` are history. With several writers
(the accept ring) the same module shows what goes wrong, see the observations.

**IdToPtr.** Each load, compare-and-swap and store of `add` and `remove` is an
action; `get` is an operator (its two reads are not separated). `free` is the
history of the chain. Memory is sequentially consistent.

**Servants.** What a handler does between two accesses that other threads can
disturb is one action: get, guard, use, leave; release, deactivate, delete.
`io_threads`, which a program chooses before it starts, is how many handlers can
be under way. The model stops when a destroyed servant was used.

**SocketConnection.** The strand's handlers, the timer's handler, and what a
caller does between two waits are actions. Messages are the id of their request;
`rx_size` and the pieces of an answer are what the client sees of them, so that
an answer can be misread. `Reconnect` replaces the socket in one step.

**SharedMemorySession.** Two threads call an endpoint, blocking or not, another
process connects, and a server answers. `Claim`, `CopyHandshake` and
`PublishHandshake` are
the parts of `try_write` that two processes can interleave in the accept ring. A
session is a record; the list of `RpcImpl` is `pool`. A session's destructor, its
timer and its queue `wq_` act where the code calls them, and a thread that waits
for a mutex that it holds itself stays where it is. `close()` is two steps
wherever it is called: `SetClosed` stores `closed_` without a lock, and
`CloseSession` (in `Erase` and `TimerErase`) erases by endpoint under
`connections_mut_`; between them `GetSession` may return the closed session. The
timer has no `shared_ptr`, so its second step can come when the session is gone.
Any call may have a request larger than the ring: a blocking one fails with
`on_failed`, and the `on_failed` of an asynchronous one locks the `mutex_` that the
handler holds (`stuck`).

**WebSocketSession.** Both ends are the same code with the same actions. The
handlers of an end run on the strand of its socket; the callers are other
threads. What has been written reaches the other end at once, in order, and may
be answered before `on_write` has run.

**MarkerBus.** A device is a record of what `net_c.c` keeps: `ptf` is the function
that the next event calls, `ocr` and `tcnt` are the timer, `ibbpc_ev` its events.
`Tick` advances all timers to the next event or edge of the carrier, once every
event has been handled by `net_poll`; only a device in a `Task` is late. The
carrier is noticed `Delay` ticks after it changes, and a device can begin to
transmit in that time. A frame has a kind, a master and a slave; its length does
not matter, as timers stand still while it is heard. `rx` is the receiver: off while
a device transmits, and from a frame that was for the device until the next
`net_poll`, so that a device in a task misses what comes meanwhile. What a damaged frame
leaves is less than a header, one byte with its high bit set, which is taken for
a sync frame (`net_c.c:416`), or a frame that does not pass the check; all devices
hear the same. A device that restarts while a frame is on the air hears nothing of it,
or a last byte that it takes for a sync frame. `misled` is history: bytes were
taken for a sync frame, or a device has missed a frame or its beginning.

**BufferPool.** Each method is one action, as it holds `latch_`. Between calls
threads write through their pointers. `failed` is the failbit of the stream, which
only opening the file again clears; `lossy` is history: what was written may be
lost. `Reopen` destroys the pool and opens the file again; a crash is not modelled.

**BlobManager.** Each loop over the chain is cut into one action per pool call.

**RegisterTable, ProtocolWorker, ItemServer.** `dev_reqs_[d].r` and `.q` are
`row` and `req`, pointers are places of the pool that `Register::operator new`
uses, and a freed place keeps its old contents. Each task is one action of the
worker because only that thread touches the table; the table and the number of
removed devices are variables of `RegisterTable`, so that what is proved of its
operations serves both systems. In `ItemServer` a client's
stages are the lines of `ItemManagerImpl` between waits; `strand[l]` is what is
posted to its strand and `job[l]` what the strand is doing; `ThreadFree` counts
the io threads that are blocked or busy. `release_all` and `process_registers`
can touch `hmap_` at the same time in the code (`HmapInStrand`); as that is
undefined, the model then lets the later one wait. A listener is destroyed only
after its client's calls have returned, which the guards of `Servants` ensure.
A poll with a null bridge, where the program ends, is not a step.

## 3. What the runs check

Deadlock is checked in `ring`, `id_table`, `pool` and `bus`. The other systems may
really stop, when every call was made or every task of the bound was given.

| run | bounds | what it shows |
|---|---|---|
| `ring` | 9 bytes, headers of 2, messages of 1, 2 and 3, reads of up to 2, 5 messages | nothing is overwritten before it is read, empty and full are kept apart, no wake-up is lost, and the ring implements `FifoChannel` with its liveness |
| `id_table` | 3 threads, 2 slots, 2 values, 6 swaps, counter of 8 values | every slot has one owner; live ids are found and removed ones are not |
| `pool` | 2 threads, 2 frames, 3 pages, 2 contents, 1 pin per thread and page, any read or write may fail | frames and pointers stay right, ids are new, and the pool implements `PageStore` |
| `blobs` | 2 threads, 2 frames, 5 pages (page 0 is in the file), 2 blobs of up to 2 chunks, 4 calls | with two threads, in a file whose page 0 no blob has, chains are whole whatever the pool evicts; it does not hold otherwise (section 4, *Pins* and *Blobs*) |
| `servants` | 2 sessions, 2 servants, limit of 1 reference, 1 or 2 io threads | counts and guards are right, no use of a destroyed servant on one thread, none left behind, each deactivated one destroyed |
| `socket` | 2 blocking and 1 asynchronous call, bodies in 2 pieces, 1 reset, timeouts at any time | the queue never stalls, nothing is carried out twice, answers reach their calls until a timeout expires, every call ends until a failed blocking one closes the connection |
| `shared_memory` | 2 threads of a client and one of another process, two asynchronous calls, an oversized request of each kind, an oversized answer, one timeout | an answer is that to the call, a session that was closed has left the list when `close()` has returned, a lone client is not forgotten, every call ends but for the causes named below |
| `websocket` | 2 calls of the client, 1 of the server, the connection may break | one write at a time; the sessions implement `RemoteCalls`; every call ends but those queued after the end |
| `bus` | devices 1 (the link), 2 and 3, intervals of the firmware at 16 MHz, sync frames after 10 and 14 intervals instead of 36 and 50, 1 packet from the PC, 1 fault: a damaged frame, or a restart or long task of device 3 | no two frames at once but sync frames, unless a device was misled by a false sync frame or by one that it missed, and then not for ever; every device has its turn again and again, a transit ends |
| `worker` | 4 registers of 2 devices, 3 places of memory, 3 tasks of up to 2 registers, 1 removal, requests of up to 2 registers | rows, places and requests agree after every task, counts are right, every register is polled |
| `items` | 2 clients, 2 registers, 3 io threads, 1 `Advise` each, 1 job in a strand before the worker waits | pointers live, counts right, nothing missed, the last job is last |
| `items_calls` | 1 client, 1 register, 3 io threads, 2 `Advise`, 1 removal, failing callbacks | every call returns |

Why these bounds are enough to see the interesting cases. In the ring a record
takes 3 to 5 of the 9 bytes, so that in five messages both parts of a record wrap
at every offset and the ring is full and empty several times; messages of 3 bytes
do not fit the buffer of the reads and block those behind. Six swaps let a slot
go twice round the free chain between a load and a compare-and-swap of another
thread, and the counter cannot go round. Three pages in two frames make every
fetch of the third one an eviction. In `servants` two sessions can release,
reference and call the same servant at once while a third handler, the posted
deletion, is pending, and a limit of one reference is reached. Two pieces of an
answer leave a half read body behind a reset. Three places for four registers
make the worker reuse the memory of a deleted register, and two neighbours in
two sizes make rows that are and are not runs of bytes. Two registers, two clients
and one poll between jobs let a register die in one client's hands and its memory
come back in the other's. On the bus addresses are small, so that a sync frame
after ten silent intervals comes after every turn as one after 36 does for the
addresses in use; the fault can come at every event, and the devices then have to
find together from any phase. What the bounds cut off is length: a long run repeats
these situations, and the theorems of section 5 say for all systems but the blobs
and the bus that it adds nothing. `MaxPins` is one pin of a thread on a page; TLC has also passed
with two, and the theorems are about any number.

**Fairness.** `RingBuffer`: the reader's thread and a writer in `notify` are kept
running by the operating system; nobody has to write. `SocketConnection`: the io
threads run ready handlers, among them the timer's, and the operating system
reports a broken socket; nothing makes a server answer; a blocked thread goes on
when it is released. `SharedMemorySession` and `WebSocketSession`: threads, strands
and read loops go on; no call need be made and no connection break. `MarkerBus`:
time passes, and the main loop of a device runs again and again, whatever its
tasks. `Servants`: a handler
that has begun goes on, and what is posted to the io_context gets a thread again
and again (strong fairness, since a thread is free only now and then).
`ProtocolWorker`: the worker polls whenever no task comes, which the bound on
tasks ensures; in the code every task moves the deadline, so tasks without end
would keep it from polling. `ItemServer`: ready jobs are run in the order they
were posted, so each gets a free io thread (strong fairness of `StartJob`); the
worker takes a waiting task after a poll at the latest; callbacks return, with an
answer or an error; `release_all` is only kept waiting for moments. Nothing makes
the worker poll or a client call.

**Mutants.** `PROJECT.json` names for every property of a passing run a definition
and a wrong version of it (marked `\* mutant:`) with which TLC finds the property
violated, for instance a room check without the free byte, a generation that is
not raised, a dirty flag that the last user clears, a queue whose next call is
not started, a request list that is not rebuilt.

## 4. Disagreements

None has a run of its own. Each is the named property or configuration, and TLC
finds a counterexample in seconds to minutes.

- *Pins.* `PinsReturned` of `BlobManager` is violated: `ReadPageChain` moves
  `current_page_id` on before it unpins it (`npdatabase/src/blob_manager.cpp:250-257`).
  The page it read keeps its pin and another one is unpinned, or none. With one
  reader at a time that only costs frames. With three threads and blobs of three
  pages (`Threads = {t1, t2, t3}`, `MaxChunks = 3`) it costs data: while a reader
  has page 2 of a blob, a second one leaves page 1 and unpins page 2, a store takes
  its frame, and the first reader goes on with the header of the new page.
  `GetsTheBlob` is then violated (2 frames and 5 pages, 20 seconds): `GetBlob`
  returns the first two pages as the blob, and no error. So is `ChainsWhole` (3
  frames and 7 pages): the reader of the wrong header unpins the page that the
  store is writing to, and the store writes into the frame of another blob. In a new
  file (`InitialSize = 0`) two threads are enough for that, as the end of a chain
  unpins page 0, which another thread may be writing to.
- *Retry.* `RetriesTheRequest` of `SocketConnection` is violated: `send_receive`
  posts its buffer again after a reset (`nprpc/src/client_socket_connection.cpp:77-79`),
  but `do_read_size` has emptied it for the answer: the retry sends nothing, or the
  beginning of an answer.
- *Accept ring.* With `Writers = {w1, w2}` `DeliveredInOrder` of `RingBuffer` is
  violated: the header says "single producer, single consumer"
  (`lock_free_ring_buffer.hpp:16`), while every connecting client writes to the
  accept ring of a listener (`shared_memory_listener.cpp:198`).
- *More than one io thread.* Without `io_threads = 1` both `NeverDangling` and
  `ReferencedIsServed` of `Servants` are violated: between `get_object` and its
  guard the last reference can go. `npserver` runs seven threads.
- *Limit of references.* `ToldIsHeld` of `Servants` is violated: over the limit
  `AddReference` is answered with Success (`session.cpp:107`), and the log says
  "rejecting" (`rpc_impl.cpp:195`). A servant whose first reference is rejected
  at activation is never destroyed; `NoneLeftBehind` leaves it out.
- *Late answers.* Without its condition `OwnAnswer` of `SocketConnection` is violated:
  after an asynchronous call has timed out its answer is read by the next call.
- *Unwatched calls.* Without `closed` `EveryCallEnds` of `SocketConnection` is
  violated: `close()` stops the timer for ever and leaves the queue (`session.hpp:51`).
- *No answer, no error.* A blocking call whose second try fails returns normally
  with whatever its buffer holds (`client_socket_connection.cpp:80`); `OwnAnswer`
  allows it.
- *Shared memory.* `EveryCallEnds` of `SharedMemorySession` names what keeps a call
  from ending (`CannotEnd`). A message of its session is dropped: an answer larger
  than the ring, though within `max_message_size`, or a request that comes before
  the server has set its receiver (the comment of `shared_memory_listener.cpp:157`
  says that it is set before any message arrives, but the read thread starts in
  the constructor). A thread waits for a mutex that it holds: `mutex_` in the
  handler of an answered asynchronous call (`shared_memory_connection.cpp:149`)
  or of one that is refused as too large (`:141`, from `add_work` at `:17` or from
  the end of the call before), or `connections_mut_` in the destructor that runs inside the `erase` of
  `rpc_impl.cpp:147`. The timer is never disarmed: an idle session closes itself,
  and `close_session` then erases whatever session has the endpoint; the timeout
  of a call closes its session and leaves the call waiting for the answer. Without
  `InClose` `PoolUsable` is violated: between `nprpc_impl.hpp:357` and the lock of
  `rpc_impl.cpp:146` another thread is handed the session that is being closed. The
  timer's `close()` goes on in freed memory when the last caller has left
  meanwhile.
- *WebSocket.* `EveryCallEnds` without `late`: a request that is queued after
  `close` stays pending for ever (`websocket_session.cpp:112`). `timeout_action`
  never runs, since nobody starts its timer. A blocking call from a handler of the
  same strand waits for itself. `get_session` connects while it holds
  `connections_mut_`.
- *Bus.* Without `misled` `NoCollision` is violated in two ways. The link asks
  device 3, and a damaged answer leaves one byte with its high bit set: devices 1
  and 2 take it for a sync frame and count from 0, device 3, which sent it, from 1;
  the link passes its turn, and devices 3 and 2 transmit 370 and 373 ticks after the frame,
  before they notice each other. And a device in a long task whose receiver is still off
  from the frame before misses one that others count from. In both cases the next
  sync frame or silence ends it (`CollisionsEnd`). With addresses up to 4 and `SyncMaster = 9` `NoCollision` is violated: the
  last master sends a sync frame in another's turn. With 36 the
  same distance is address 31, and nothing bounds addresses. Two sync frames at once are heard as one. The
  answer in transit is passed on without a look at its CRC (`net_c.c:431`), and
  garbage of less than four bytes makes the link send the request again.
- *Blobs.* `NoOrphans` is violated, since a page that is still pinned is not
  deleted and nobody looks (`blob_manager.cpp:264`). In a new file
  (`InitialSize = 0`) `GetsTheBlob` is violated by one thread, since 0 is both the
  first page of a new file and the end of a chain (`blob_manager.cpp:238`):
  `GetBlob` returns nothing of the first blob, and no error.
- *Failed stream.* After one refused write nothing can be written or read until
  the file is opened again, although `FlushAllPages` says "continue flushing
  other pages" (`buffer_pool_manager.cpp:208`), and `ReadPage` takes every page
  for one beyond the file and returns zeros (`disk_manager.cpp:82-86`). The model
  has both, and `PageStore` promises nothing while it lasts. `flush()` at
  `disk_manager.cpp:67` is not checked. libstdc++ has passed the page on in
  `write()` by then, which is; with a stream that keeps a whole page back an error would
  show at the next call only and the page count as written, which the model does
  not have.
- *Reused registers.* `RespondedWasRead` of `ItemServer` is violated: a job that
  was posted for a released register finds the one that has its memory now, and
  sends what lies there as a value of the device (`listener.cpp:99`).
- *hmap_ outside of its strand.* `HmapInStrand` is violated (`itemmgr.cpp:66`).
- *Removed devices.* With `MaxRemovals = 1` `PointersLive` is violated: nothing
  tells the clients that `remove_device` has deleted their registers
  (`protocol.cpp:137`).
- *Too few io threads.* `CallsReturn` fails with fewer than 2N + 1 threads for N
  clients: each may block one thread in `Advise` while its strand waits in a
  second one for a callback, whose answer a third one has to read. Six io threads
  and the main one of `npserver` are enough for three clients.

## 5. Proofs

TLAPS checks eight modules; every leaf is proved, nothing is assumed but the named
assumptions on constants, which TLC evaluates in the runs. `Lemmas` has the facts
that several of them need: the arithmetic of `%` for the ring, what `Tail`,
`Front`, `Append`, `\o` and `RemoveAt` do to the set of a sequence without
repetitions, for queues and lists, and `UpTo`: a set of numbers that has 0 and
with each number the next one has all of them, which takes the place of induction
over an operator. Each invariant below was checked by TLC on the
run's instance before it was proved.

**The ring** (`ChannelProofs`), for every ring size, header size, message size
and number of writes, with one writer.
The invariants of the runs are not inductive: that a writer overwrites nothing
depends on the room it found some steps ago still being there. `IInv` adds
`Layout` (records follow each other without gap), `Window` (the indices are the
byte counts of the histories, reduced, and less than a lap apart), `WriterInv`
(past the room check the room is there and what was stored is still there) and
`ReaderInv` (the reader's locals are those of the next record). All is said of
positions, counts of bytes since the creation; that different positions within a
lap are different cells is the lemma about `%` that everything rests on. From
`IInv` follow `TypeOK`, `RecordsIntact`, `DeliveredInOrder` and
`EmptyMeansDrained`, and, step by step, that the ring implements `FifoChannel`
up to liveness: the store of `write_idx` is the send, that of `read_idx` the
receive, everything else stutters. `NoLostWakeup` is inductive with the places
of the writers alone, whatever the indices mean and however many writers there
are: a writer that stores `write_idx` still has to notify.

**The object table** (`ObjectProofs`), for any number of threads and slots, as
long as there are fewer swaps than the counter has values
(`MaxSwaps < CntMod`), which is what keeps ABA away. `TableInv` says that the chain
through `next` is the history `free`, that each slot is free, held by one thread
or live, that the counter of the head is the number of swaps, so that a thread
that finds its `old_free` unchanged knows that nothing happened (`Counted`,
`Progress`), and that generations only grow (`Generations`, `Ages`). All five
invariants of `id_table` follow.

**Servants** (`ObjectProofs`), for any sessions, servants, limit and io threads:
type correctness and `ReferencesCounted`, with `HasObject` (a handler that is
under way has a servant) as the only strengthening. Adding and removing one
member changes a cardinality by one; every other step leaves both sets alone.
`NoneLeftBehind` needs `LeftInv`: a session whose connection is gone takes no more
requests and goes on until its list is empty, and a servant that left the table
and still exists is about to be destroyed. On one io thread `AloneInv` says that
there is one handler at most, that lists hold servants of the table only, and that
the servant a handler has found is still there; `NeverDangling` and
`ReferencedIsServed` follow, and with more threads they are false.

**The connection over TCP** (`SocketProofs`), for any callers, calls, pieces of an
answer and resets, in three layers. `Inv` has the types and the queue: the works
that are posted or queued are those of the callers that wait, each once, and the
handler, read or write that is under way is that of the front (`QueueServed`).
`OnceInv` follows the buffer of a call: as long as it still is the request it was
never written, but for the front's whose `on_write` has not run, so a second
write of it carries something else (`AtMostOnce`). `AnswerInv` follows the
stream: until a timeout expires, a connection that is up and not in use has
nothing in it, and one in use has the request of the front or the rest of the
answer to it, and a caller whose call is over without an error keeps its answer
(`OwnAnswer`).

**The channel over shared memory** (`ChannelProofs`), for any callers,
calls, sessions, other processes, oversized messages and timeouts, in three
layers. `HandshakeInv` stands alone: while clients have connected one at a time
`write_idx` is the number of handshakes published, the one client in `try_write`
has it in its local, and the slots between the indices are those of the clients
that wait (`HandshakeKept`). For that other processes have to be finitely many,
which the assumption says. `SessionInv`: a session that is connecting is made by
the thread that holds `connections_mut_`, and the list is empty meanwhile; so it
has one session at most, and whatever `close_session` erases by endpoint is that
one. As `close()` is two steps, a closed session can be in the list, but only
while some thread or timer is between them (`InClose`); when the last of them has
returned it is out, and sessions do not come back (`PoolUsable`,
`ClosedSessionsLeave`). A work is posted or queued in one place, and its caller waits for
it in that session. `FlightInv`: whatever is in the rings, posted or handled for
a session is one message, the request of the front of `wq_` or the answer to it,
and what a servant works on is still in `rx_buffer_` when it is done; so
`OwnReply` although messages carry no number.

**The WebSocket sessions** (`WebSocketProofs`), for any calls of both ends: one
async_write at a time, and that the sessions implement `RemoteCalls`. The first is
inductive together with the types. The second rests on `Travelling`, which speaks
of `Out(e)`, everything the peer of `e` may still read: the wire and the queue
without its front, which the socket has, and nothing of the queue once the session
is closed. All in it are requests of calls not carried out, no two of one call, or
answers to calls that were. A step takes from `Out`, moves within it or adds one
message, which `Sub` (one sequence found in another, each element once) says.
`Numbers` and `Waiting` make a number find no handler but that of its call.
`OnRequest` is `Serve`, `OnAnswer` is `Answer` or a stutter, and a session that
closes is `Fail`; everything else stutters.

**The buffer pool** (`BufferPoolProofs`), for any threads, frames, pages, pins,
contents and faults: all four properties of the run. `PoolInv` is about frames
and pins and does not look at contents: `FramesPartitioned` and
`PointersStayGood`, with the types and `WrotePinned` (a page that a thread has
written to is pinned by it). Each method takes a frame, frees one, or moves one in
or out of the replacer, and a lemma for each says what that does to the parts.
`StoreInv` relates frames and file: an id that was not given has no frame, the
file has only zeros beyond its end, an id that was given is below `next_page_id`
and, without a fault, in the file or dirty, so that it is below the `next_page_id`
of the pool that is opened next (`IdsAreNew`; the ids that a fault has lost are
given again, and the theorem leaves them out); and a clean page that nobody is
writing to is what the file has. So an eviction is not seen: every step changes
the content of one page, as `PageStore` does, or of none, or is a fault, which is
`ImplementsPageStore`.

**The register table and its worker** (`TableProofs`), for any registers,
devices, places, limit of a request, tasks and removals: `TableSound` and
`TableRequested`. The loops of the operations are recursive functions, and what
holds after `k` passes is shown to be in a set of numbers that `UpTo` fills
(`EachRuns` and the lemmas named `...Next`). A table is `Sound` when every place is
free or in the row of its register's device and rows are sorted; then binary search
finds exactly what is there (`LookUp`). Each operation keeps it, and says which
registers are found afterwards, where, and with what count. `AtRest` adds what is
true between two tasks only: a device is valid while it has registers, and a
register is there while its count is above zero, which the rebuild at the end of
a task restores (`WorkerAtRest`). For `TableRequested` each row is cut: the function
`first` of `RequestsOf` begins a request at a register that does not follow the
last one or finds it full (`Runs`), so that the pieces between the beginnings
are runs that are not too long, and `FlattenSeq` puts them together to the row
again (`Cuts`). While an `add` is going on this is true of the devices that
`tag_changed` does not name, a rebuild makes it true of all, and the poll then
begins at the first of them.

**The item managers** (`ItemServerProofs`), for any clients, registers, places,
values, io threads, jobs and calls: all four invariants of `items`, `Fresh`,
`HandlesCounted` and `PointersLive` for as long as no device is removed, which is
every state when `MaxRemovals = 0`, as in the run; `LastJob` always. `LifeInv` follows
a client: what stage it is in and what its strand is doing exclude each other (`StageInv`), the
tasks in the queue are those of callers that wait (`QueueInv`), and what is posted
to a strand is posted once and before the job that destroys the listener
(`StrandInv`); from it `LastJob`. `CountInv` says where each handle of a register is:
in a client's `hmap_`, in a task that gives it back, or with a caller that has
been given it and has not stored it yet. The count in the register is the sum of
the three (`Balanced`), each a set of pairs so that moving a handle from one place to another
leaves the sum alone; for that, `hmap_` lists handles under the place that they were given with
(`PlacesTrue`, `Given`), and nothing was taken away from under clients
(`NoRemoval`). A register that some client points to has a handle, so its count is
above zero, so `AtRest` keeps it. `Fresh` rests on `FreshInv`, which says it for
each client and register apart: what was read is on its way to the client, as an
updated register, a job posted to its strand or one that is reading the register now, or the
client has it, or it is being sent; every step of the worker leaves what is known of a
register or names it in `updated_registers` (`SaidStill`, `PollSaid`), and
a register that comes back in the memory of another one has nothing known of it.

**Only model-checked.** Everything about liveness (the fair part of
`ImplementsFifo`, `EveryCallEnds`, `DeactivatedIsDestroyed`,
`EveryRegisterPolled`, `EveryTurn`, `CollisionsEnd`, `TransitEnds`, `CallsReturn`) is beyond this
prover. `NoCollision` is not proved: it is about the intervals of `config.h`
added up over several turns, with a fault in between, and an invariant has to
list how far apart the timers of two devices can be in each pair of stages; nor
is it true of all addresses (see *Bus*). `ChainsWhole` is not
true of every number of threads, nor of a new file: the attempt to find what keeps a
reader's frame showed that nothing does (see *Pins*). `GetsTheBlob` is checked by no run: it
holds in the cases of `blobs`, but these leave out what would break it.

## 6. What is not modelled

The components with status `not_modelled` in `PROJECT.json`, each with its reason:
compilers, generators, the simulator and the user interfaces are sequential or
generated; input and output of the HTTP server and drivers have no protocol state.
Within the modelled parts: weak memory (atomics are sequentially consistent),
crashes of a process with dirty pages or a locked ring, the 32 bits of the
table's generations, persistent servants and session-specific activation,
`Reconnect` beside the strand, TCP splitting the four bytes of a size, rows of
more than 1024 registers and more than 128 requests of a device (the arrays of
`protocol_base.h:137-138`, which nothing guards; the model's have no limit), time
synchronisation and the shutdown of npserver.

## 7. Plan

Done: the modules above. Next, in this order:

1. Proofs: `NoCollision` of the bus. `ChainsWhole` waits for `ReadPageChain` to
   unpin the page that it read, and for chains that do not end in a page.
2. The bridges over UDP with late answers, in front of `MarkerBus`.
3. Connecting over WebSocket and the HTTP client.
4. A crash action for the buffer pool and the blobs.
