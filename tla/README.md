# TLA+ models of Hermes (NDv2)

Hermes is a message transport over RDMA (NetworkDirect v2). An application
creates sockets, listens, accepts or connects, and sends messages of up to
1023 MB; the library copies each message, packet by packet, into a ring and has
the adapter write it into the peer's ring. This directory holds models of the
library, the TLC runs that check them and TLAPS proofs about them. Source paths
below are relative to the repository's `src/`.

## 1. The system

| Component | State | Operations | Talks to |
| --- | --- | --- | --- |
| Ring frame layout (`hermes/HermesFixedRIO.hpp`, `LocateInRingBuf`; packet arithmetic of `ProcessSendQ`) | none | place header, data and footer of a packet in a ring; split a message into packets | send path, receive path |
| Send path of a `Terminal` (`HermesFixedRIO.cpp`, `Send`, `ProcessSendQ`; `.hpp`, `ReadRmtEdge`) | `m_sndQue`, `m_sndLock`, `m_sndRunning`, `m_mSndIdx`, `m_sndEnd`, `m_pendingRead`, the send ring | queue a request, send packets while there is room, read the remote edge, resume when a read completes | user threads, the adapter, `VerbCompletion`, the peer |
| Receive path (`Poller`, `Conveyor`) | `m_rcvEnd`, `m_mRcvIdx`, `m_mRcvSize`, `m_rcvBuf`, the receive ring | poll for a frame whose header and footer agree, reassemble, deliver, free room | `RcvNotifier`; the remote sender reads `m_rcvEnd.TrailingEdge` |
| Socket table and connection set-up | `m_sockTbl`, `m_sockPool`, `m_connPool`, `m_pListen`, `m_closing` | `CreateSocket`, `Listen`, `Accept`, `Connect`, `CloseSocket`, `TryCloseSocket`, the destructor; `ProcessConnReq`, `OnConnAck`, `OnConnAccepted` on IOCP threads | users, adapter, `TerminalCloser` |
| Closing (`TerminalCloser`, `m_pDisconnectCont`) | the terminal and its socket | triggered by `NotifyDisconnect` or `TryCloseSocket` | socket table, send path, `ConnectionNotifier` |
| Memory regions and handshake (`CreateMemRegions`, `OnTagRegistered`, `OnMemRegistered`, `PrepareHandShakeData`) | `m_pMemRegion`, `m_pTagRegion`, the tokens the peers hold | register two regions asynchronously, busy-wait for them, send their tokens, inherit them after a failed attempt | adapter, connection set-up |
| ND objects of a terminal (`NDUtils.cpp`, `InitQues`; `Cleanup`) | completion queue, queue pair, connector | create, fail half way, release | `AllocTerminal`, `FreeTerminal` |
| Overlapped objects and object pools (`HOverlapPool`, `ObjectPool`) | free lists | one object per asynchronous call, freed after its handler | everything asynchronous, the 8 IOCP threads |
| Buffer slicing (factory, `SliceNregister`, `GetBufPair`, `LargePageBuffer`) | one large page divided by terminal | check sizes, divide | adapter, rings |
| Message CRC (`ComputeCRC`, both overloads) | none | copy a packet and sample it; sample it again at the receiver | send path, receive path |
| Buffer manager (`FixMem.cpp`) | free queues of three pools, sizes of the buffers | `Allocate` on a receiving thread, `Dispose` on a sending one | applications |
| `Pingpong` | `g_numTests`, the buffer under way | client sends, server echoes, both exit on a lost connection | the library, buffer manager |
| `UtilitiesWin.cpp`, `ndv2lib` | | list addresses, load the provider | constructor |

The repository declares but does not contain the bodies of `Poller::Run`,
`Conveyor::OnReady`, `TerminalCloser::OnReady` and `VerbCompletion::operator()`.
The models take them as external: each is reduced to what the code that triggers
it relies on, and is marked so in the modules and in `PROJECT.json`.

### What is hard here

* **Several threads send on one terminal**, with an unlocked flag hand-over in the
  full-ring branch and an unlocked read of the vector that others insert into.
* **RDMA writes are fire and forget**: `ProcessSendQ` calls the completion callback
  before the adapter has read the ring; only flow control protects the bytes.
* **Flow control by stale copies**: the trailing edge arrives by RDMA reads, of
  which several are under way, and doubles as the only wake-up of a blocked sender.
* **Frames cut by the ring's end** are two writes, in reverse order.
* **Socket state is not locked.** Users, IOCP handlers, closers and the destructor
  test and set `m_state`, `m_term`, `m_pListen` of slots that are reused.
* **Ends of connections** at every moment: a disconnection before, between and
  after the steps of set-up, and a terminal that serves the next connection.
* **Registrations outlive the attempt that asked for them.** A terminal is freed
  and allocated again while they are under way, and their handlers wait busily, on
  the few threads that also run the handlers they wait for.
* **Sizes are multiplied in 32 bits** where the page is measured in 64.

`PROJECT.json` lists these hazards with their lines and the properties on them.

### What makes each component correct

* Layout: header, data and footer are where a ring has them, never overlap, are
  never written outside the frame, and are all written.
* Send path: one sender at a time, nothing the peer has not consumed overwritten,
  requests completed once and in order, whole messages delivered once and in order,
  nobody left waiting while the connection lasts.
* Socket table: a slot, a terminal or a listener reference is never freed twice,
  lost, or used by another's handler; transition states end; shutdown ends.
* Slicing: an object that comes out of the factory has buffers that overlap neither
  each other nor the tables; a peer's writes stay inside the receive buffer.
* CRC: the whole packet is copied, and sender and receiver sample the same units.
* Terminal set-up: no token is held by two peers, a pooled terminal is left alone,
  ND and overlapped objects come back on every path, busy waits end.
* Buffers and Pingpong: no buffer is lost, used twice or used after its release;
  one message at a time; all round trips are made.

## 2. Modules

| Module | Models |
| --- | --- |
| `RingFrame` | layout and packet arithmetic, as operators over lengths in units of 16 bytes (`MSG_ALIGN`, which `Send` enforces) |
| `Slicing` | the factory's checks, the size of the large page and `SliceNregister` with its getters, in arithmetic modulo the word |
| `FrameCopy` | copying a packet into the ring and both overloads of `ComputeCRC`; the pair of CRCs is the sequence of units folded into it |
| `MCRingFrame` | composes the three: the factory gets any arguments and succeeds or ends the process; a connection then puts messages of any length one after another into its ring, so that frames start at every place; layout, writes and copies are compared with references (unit number `k` of a frame lies at `(edge + k) % ring`) |
| `SendPath` | the send direction of one terminal: threads, queue pair, completion queue, peer, disconnection, reuse |
| `MsgChannel` | the abstract specification: messages are accepted, completed and delivered, each once and in order, and keep being so while the channel is up |
| `SocketTable` | sockets, terminals, listeners and their pools, the API calls, handlers, closer and destructor |
| `TerminalSetup` | `AllocTerminal` with `InitQues`, `CreateMemRegions`, the handshake, and all asynchronous calls from `Accept` and `Connect` to the disconnection, as users of regions, ND objects, overlapped objects and IOCP threads |
| `BufferPool` | the buffer manager of `FixMem.cpp`, as actions for its users |
| `Pingpong` | the sample's client and server |
| `MCSendPath`, `MCSocketTable`, `MCTerminalSetup` | sizes of messages, symmetry sets and model values for TLC |
| `PoolQueue` | a pool as a queue without repetitions, with the lemmas about taking, adding and scanning; used by `SocketTable` and `TerminalSetup` |
| `RingFrameProofs`, `MCRingFrameProofs`, `SendPathProofs`, `SendDataProofs`, `SocketTableProofs`, `TerminalSetupProofs`, `PingpongProofs` | theorems and their proofs |

`SendPath` extends `RingFrame`, and instantiates `MsgChannel` with `up` mapped to
"the queue pair is connected and the socket open" and the histories to themselves.
`Pingpong` composes what the parts promise: two instances of `MsgChannel`, one for
each direction, and two of `BufferPool`, one for each process. `SocketTable` and
`TerminalSetup` model the same handlers from two sides: the former keeps the state of
sockets and takes the set-up of a terminal as one step that succeeds or fails, the
latter opens that step and leaves the sockets out.

Definitions labelled *Slip* stand directly before the definition they vary. They
are plausible mistakes in that piece of code, used by no specification; each
property is known to fail when the matching slip is put in.

### SendPath and the code

Variables carry the names of the fields without `m_`. A thread's `pc` marks
the points between accesses to state that others touch:

| Action | Code (`HermesFixedRIO.cpp` unless noted) |
| --- | --- |
| `SendBegin`, `SendInsert` | checks of `Send` and the lock; insert, test and set of `m_sndRunning`, unlock |
| `SendTop` | `back()`, `subspan`, the room test; if it fits, the frame and `WriteEdge += pktSize` |
| `SendFull`, then `ReadRmtEdge`/`IssueRead` from `fullEdge` | flag cleared, *then* the read of the remote edge, return |
| `SendToken` | `m_rmtMemToken == 0`: clear the flag and drop everything |
| `SendWrite` | the one or two `Write` calls, with their different treatment of `ND_CANCELED` |
| `ReadRmtEdge`, `IssueRead` (`.hpp`) | test of `m_pendingRead`; increment and `Read` (two steps, as in the source) |
| `SendNext` | next packet, or reset `m_mSndIdx` and call the callback |
| `SendPop` | the last critical section with its race assertion |
| `StartTerminal` | the fields it sets for the next connection |
| `NicWrite`, `NicRead`, `NicReadLands` (external) | the adapter executes requests of a queue pair in order, reads the *local* ring when it executes a write, fetches the peer's trailing edge when it executes a read, and delivers it later |
| `CompleteRead`, `ResumeSend` (external) | `VerbCompletion`: count the read off, and become sender if the queue is not empty and nobody is |
| `Receive` (external) | the peer consumes a frame whose header and footer are both there, clears it and moves its edges |
| `Disconnect`, `CloseTerminal` (external) | the queue pair goes down; tokens are zeroed and the socket leaves `Connected` |

A frame's CRC is represented by the message it covers; a ring unit holds nothing,
a header/footer, or a given unit of a given message, so torn, stale or misplaced
data would be seen by `Receive` and by the channel specification.

The unlocked `m_sndQue.back()` is a data race. With `TornBack = FALSE` the copy is
atomic; with `TRUE` it may return any request that a concurrent insert is moving.
Every property but the one of `send_torn_back` is checked and proved (where noted)
with `FALSE`.

### SocketTable and the code

A slot has a state, a generation (the upper half of the handle), a terminal and
a listener. `call` holds what each user thread and the destructor is doing: the call
(`op`), where it is in it (`pc`, a label before the next access), its handle and the
slot, terminal and listener it has read. `ops` holds the asynchronous calls under
way, each with the slot and terminal its handler keeps.

Nothing here is locked, so every access of a thread to `m_state`, `m_term` or
`m_pListen`, and every call on a listener or to another thread's terminal, is a step
that all others may come between. An assertion goes with the access after it, and the
test of a pointer or terminal number with the use that follows.

| Call | Steps (lines of `HermesFixedRIO.cpp` unless noted) |
| --- | --- |
| `AllocateSocket` (`.hpp` 410) | `TakeSlot` (`Get`), `Publish` (assertions, `Disconnected`) |
| `Listen` | `ListenBegin`, `ListenCheck` (231), `ListenSet` (239), `ListenAgain` (252), `CreateListener` (publishes `m_pListen`, 258), `BindListener` (272, 279), `ListenEnd` (282) |
| its scope guard | `UndoListen` (`Disconnected`, 242), `UndoListener` (`Release`, 244), `ClearListener` (247) |
| `Accept` | `AcceptBegin`, `AcceptCheck` (317), `AcceptSock` (327), `Publish`, `Accept1` (340), `AcceptListen` (342), `AcceptRef` (348), `TakeTerm`, `Prepared` or `PrepareFails` |
| its scope guard | `GiveBack` |
| `Connect` | `ConnectBegin`, `ConnectCheck` (598), `ConnectSet` (607), `ConnectAgain` (626), `TakeTerm`, `Prepared` or `PrepareFails`, `Bind` (with the asynchronous `Connect`) |
| its scope guard | `UndoConnect` (`Disconnected`, 613), `UndoTerm` (`FreeTerminal`, 615), `ClearTerm` (617) |
| `AllocTerminal` (`.hpp` 467) | `TakeTerm` (`Get` and the assertions), then `PrepareFails` (`FreeTerminal`) or `Prepared` (`m_handle`, `m_term`, callbacks; in `Accept` also the asynchronous call) |
| `CloseSocket` | `CloseBegin` (the handle, once), `CloseRead` or `CloseGiveUp` in each round |
| destructor | `Shutdown`, `ShutdownRead` |
| `TryCloseSocket` | `StopIdle`, `GiveBack`; `ReadTerm` (990), `PostClose` (993); `ReadListener` (999), `Unlisten` (1002), `StopListening` (1003), `ReleaseListener` (1005), `GiveBack` |
| handlers | `ProcessConnReq`, `OnConnAck`, `OnConnAccepted`, then `Settle` (551), `Connected` (554), `Tell` (564) |
| external | `PeerDisconnect`, `CloserBegin`, `CloserEnd` |

The three tests of `m_state` in a round of `TryCloseSocket` are one step, as a branch
is taken on one of them alone and a round in which none holds changes nothing.
Handlers up to `NotifyDisconnect` are one step: their socket is in a transition state,
in which every other thread only waits.

A failing assertion sets `failed` and everything stops. `AuditsHold` is about those that
say what others must not have done. Not among them are the assertion of line 551,
which a disconnection may overtake, and that of line 990 (finding 4).

**What callers may overlap.** The source has no locks around the table and states no
rule for concurrent calls, and without any rule the table is not sound. The constant
`Contract` makes callers keep the rules of `MayCall`:

1. Calls on one handle do not overlap, except `Accept` with `Accept`. (Otherwise one
   call frees the slot, the listener or the terminal that the other's scope guard,
   `AddRef` or assertion comes to.)
2. The handle of a connection, one that came to be with `Connect` or from `Accept`, is
   only closed.
3. While a thread closes a connection, no other creates a socket, accepts or connects.
   (`CloseSocket` compares the handle once, before its loop: a slot that the
   connection's closer frees and `AllocateSocket` hands out meanwhile is seen as
   `Disconnected` (`.hpp` 428) and freed again, before `Accept` writes `Accept1` (340).)

Apart from that, calls, handlers, closers and the destructor interleave without
restriction. With any one of the three rules dropped from `MayOverlap` or `MayCall`,
TLC finds `SlotsConserved` and `AuditsHold` violated in the instance of `socket_safety`; an
`Accept` that overlaps the `CloseSocket` of its listening socket alone reaches a listener
that is gone. The rules are therefore what an application must keep to use
the library as it is, and nothing the library enforces.

`Torn` is about the end of `OnConnAccepted`: a disconnection may come after
`NotifyDisconnect`, before the assertion (`Settle` fails) or after the assignment; with
`Torn` also between the two, and the handler then marks a slot `Connected` that the closer
has freed. Whether `TerminalCloser` can be so early its missing body decides. With
`Torn = TRUE`, `SlotsConserved` is violated too. All runs have `Contract = TRUE` and `Torn = FALSE`; the
two findings hold even so.

A listener's `refs` are the count and, as a history, the references lost on the way
out of `Accept` when `AllocTerminal` fails after `AddRef`: `ListenersCounted` is exact.

`ProcessConnReq` happens when a client asks for the connection or the request fails;
neither need ever be, so a slot may wait in `Accept1` for ever.

### TerminalSetup and the code

A thread inside the library is the stack of the calls it is in: an asynchronous call
that returns at once runs its handler on top of its caller, as `Run` and the
`ND_PENDING` tests of the source have it. `ops` holds an overlapped object for each
call under way until its handler has returned. `att` numbers the calls of
`AllocTerminal`, so that a registration left over from an earlier use of a terminal
is told from those of the current one, and a region is known by the attempt it was
made for. `live` (ND objects not released) and `handed` (tokens that left the process)
are histories. An assertion that fails sets `failed` and stops the model.

| Action | Code (`HermesFixedRIO.cpp` unless noted) |
| --- | --- |
| `AllocTerminal`, `FreeTerminal`, `Cleanup` (`.hpp`) | pool, `InitQues` whole or half done, release if there is a connector |
| `Inherit`, `RegisterTag`, `RegisterMem` | `CreateMemRegions` |
| `OnTagRegistered`, `MemWait`, `OnMemRegistered` | its two handlers and the busy wait of the second |
| `GetConnectionRequest`, `Bind`, `Connect` | the rest of `Accept` and of `Connect`; `Connect` and `ConnectorAccept` wait as `PrepareHandShakeData` does |
| `ProcessConnReq`, `ConnectorAccept`, `OnConnAck`, `OnConnAccepted`, `OnDisconnect` | the handlers, with each call they make |
| `CloserCancel`, `CloserEnd`, `OnVerbCancelled` (external) | `TerminalCloser` cancels what is under way, waits for it, gives up regions and terminal |

### Pingpong and the code

`ClientConnected`, `OnClientReceive`, `OnServerReceive`, `OnEchoFinish`, `OnConnect` are the
callbacks; `ClientReturns` is the main thread's loop on `g_numTests`. A buffer is given
back in two steps (fields cleared, then added to the free queue), which the other
threads may interleave. A failing `Send` goes unnoticed, as in the source. Receiving
allocates a buffer and calls the notifier, one message at a time (external). That a
lost connection is reported once no receive notifier is running and with the
socket already free is assumed of `TerminalCloser`.

## 3. Runs

| Run | Bounds | Shows |
| --- | --- | --- |
| `ring_frame` | connection buffers 4 to 64 units, one no power of 2; 1 to 32 connections, one no power of 2; a word of 256 units, so that admitted products wrap; packets 2, 4, 8; messages to 11 units; edges to 40 | for every combination `FrameLayout`, `FrameWrites`, `MessageCount`, `FrameCopied`, `CrcAgrees`, `SlicesSound`, `RemoteWritesInside` |
| `send_safety` | 2 senders + completion thread; messages of 3, 1 and 0 units (two packets, one, and an empty one); packets of 2; ring 8; 2 reads; 2 connections | invariants below, and that `SendPath` implements `MsgChannel!Safety` |
| `send_progress` | 2 senders, messages of 3 and 1 units, ring 4 = one full packet | while the connection lasts everything accepted is completed and delivered |
| `socket_safety` | 2 sockets, 2 terminals, 1 listener, 2 users that keep the Contract + destructor, each slot handed out twice | conservation of slots, terminals, listener references; handlers find their own socket; no `Audit` about what others may have done fails |
| `socket_progress` | the same with 1 terminal and 1 user | transition states end, shutdown ends |
| `terminal_setup` | 2 terminals, 3 calls of `AllocTerminal`, 1 user, 5 IOCP threads, 8 overlapped objects | tokens not shared, pooled terminals quiet, regions agree, ND and overlapped objects come back, busy waits end |
| `pingpong` | 1 to 3 tests, messages of 0 to 9 units served by each pool and the heap, 2 buffers each | lockstep, buffers conserved, pools suffice, all tests made |
| the five `violation` runs | as small as the case needs | findings, section 5 |

Invariants of `send_safety`: `SenderExclusive` (one thread between taking and
giving up `m_sndRunning`, and the flag says exactly that), `CompletionOrder`
(accepted = completed, then the queue), `PacketInBounds` (`m_mSndIdx` lies within
the message at the queue's end, across waits and changes of thread), `FlowControl`
(edges in order, on their way back too), `PendingWritesStable` (no posted write's
cells are overwritten before it is executed), `ReadAccounting` (`m_pendingRead`
never counts too few reads, and exactly the reads under way on a first connection
that is up), `PendingReadBound` (the bound of reads is exceeded by at most the
threads that overlap in `ReadRmtEdge`).

Properties of `terminal_setup`: `PooledQuiet` (nothing but registrations nobody waits for
touches a pooled terminal), `TokensNotShared` (a region's token goes out for one attempt
only, though regions are inherited), `RegionsMatch` (the assertion of `CreateMemRegions`
holds), `NdReleased` (only an `InitQues` that failed half way loses ND objects),
`OverlapBound` (a terminal at rest holds at most two overlapped objects, and at most one
before it is started, so no path forgets to free one; whether the 1 Ki objects of the
source are enough for up to 64 Ki connections is another question, which the
property does not answer),
`SetupEnds`.

### Why the bounds are enough

The ring of 8 units holds two full frames of 4 (header, 2 data, footer), or several
short ones; with three messages, one longer than a packet and one empty, the ring
fills, blocks in the middle of a message, wraps with frames cut at every place, and
drains. A ring of 4 makes every packet wait for the one before. Two reads allow
both the bound and two responses under way. Two connections cover a terminal whose
queue, index and counters come from an earlier life. The edge width of 64 bits
cannot be exhausted; lengths fit 32 bits by `MAX_MSG_SIZE`; that the packet count
fits `int16_t` is theorem `SeqBound`.

Two sockets let a listening socket and the connection it accepts coexist, and two
connections. Two terminals let one be taken while the other is given back; the runs
with one terminal, with twice as many sockets as in the source, let the terminals
run out. One listener is enough to be released and made again. Two generations let a
stale handle meet a newer one.

In `ring_frame` a word of 256 units stands to buffers and connections as 4 GiB does to
the largest arguments the factory admits: products wrap around, and to 0.

In `terminal_setup` three attempts on two terminals let one terminal be used twice while
another is being set up. A busy wait occupies a thread, so `SetupEnds` needs more IOCP
threads than handlers that can wait: five are enough here and four are not. The
source has 8 threads whatever the number of terminals, so with 8 handlers
waiting at once (connections set up together whose buffer registrations complete
before their tag registrations) the same standstill is possible there; the run
shows that nothing else keeps a set-up from ending. `QueuePool` is `FALSE` since `InitQues` then has more ways to fail half way.

In `pingpong` two buffers are the fewest that suffice: the server allocates for the next
request while the completion of the last echo is still on its way.

Symmetry is used only in runs without temporal properties; the threads, sockets,
terminals and users it permutes are never told apart by the specifications.

### Fairness

`SendPath`: weak fairness of each thread inside `Send` or `ProcessSendQ`, of the
completion thread, of the adapter and of the peer's receiver. None for the call of
`Send`, for a disconnection or for starting another connection.
`SocketTable`: weak fairness of each call under way, of the destructor's loop, and for
each terminal of its handlers and of its closer. None for users, clients and peers.
`CloseGiveUp` (10000 rounds used up) may happen at any moment the slot is in a
transition state but need not.

`TerminalSetup`: weak fairness of `Advance`, that is of some thread, registration,
cancelled call or closer taking its next step; steps never wait for users or remote
ends. None for those.
`Pingpong`: weak fairness of each callback and of the main thread, and of the channels
while the connection is up, as `send_progress` shows of `SendPath`. None for `Disconnect`.

Deadlock is not checked in `ring_frame`, whose specification enumerates inputs and then
stops, in `terminal_setup` and `term_duplicate_init`, where everybody may wait for a remote
end, and in `pingpong`, whose programs end. In the others `Rest` is the only way to stand still: the last
connection closed with all threads idle, or the destructor done.

## 4. Proofs

All for arbitrary constants, under the named assumptions of the modules, which TLC
evaluates in the runs: `RingPower2` and positive sizes, finite sets of threads,
sockets and terminals, at least one user, labels that are no thread or message.

**Ring and slices.** `RingFrameProofs`: `LayoutTheorem`, `WritesTheorem` (any ring,
edge and frame that fits), `CountTheorem`, `SeqBound`. `MCRingFrameProofs` lifts
them to the seven invariants of `ring_frame`, for any buffers, connections, packets,
messages and edges: `FramesLaidOut`, `FramesWritten`, `MessagesCounted`, `FramesCopied`,
`CrcsAgree`, `SlicesAreSound`, `WritesStayInside`. They rest on `SlicingTheorem` (what
passes the factory's and the constructor's checks in arithmetic modulo the word is
disjoint in unbounded arithmetic, since the page of 64-bit size was found large
enough), `CopyTheorem` (the ring after a packet, cell by cell) and `CrcTheorem`. The
invariant is that the object came out of these checks, that the packet's rest is
within its message, and nothing about edges: frames start anywhere.

**Send path.** `SendPathProofs`: `TypeCorrect` and `SenderIsExclusive`, from the
inductive `SenderInv` = `TypeOK` /\ `SenderExclusive` /\ `LocalsOK`. `SenderExclusive`
alone is not inductive: `LocalsOK` says what the locals of a thread are at each label
(the request a thread holds, that only an inserting thread holds the lock), without
which a step may append a request that is none. Types alone are not inductive
either: `pop_back` on an empty queue has no type, and that the queue is not empty
follows from exclusivity.
In the same module are `FlowControlled`; `CompletionInOrder` and `PacketsInBounds` under
`~TornBack`. `OrderInv` adds that the request a sender works on is the one at the
queue's end and that its rest is what `m_mSndIdx` leaves of it; this is what the
unlocked read breaks when it tears, so the assumption cannot be dropped
(`send_torn_back` is the counterexample).
Last, `ReadsAccounted` and `ReadsBounded`. The bound holds although the test
and the increment of `m_pendingRead` are apart: a thread that passes the test has seen
it below the bound, and with itself at most all threads are then between the two.

**Contents of the rings.** `SendDataProofs`, under `~TornBack`: `WritesStable`
(`PendingWritesStable`) and `ChannelImplemented` (`ChannelSafety`: every step is one of
`MsgChannel` or a stutter). Both rest on `DataInvariant`. `DataInv` says that there is
a set of frames, posted and not yet received, and a set of ring positions already
brought over, such that
* the frames lie one after another from the peer's write edge to the sender's, each
  the packet that follows the one before in the sequence of accepted messages,
* a position is brought over exactly if no write in the queue pair has it, the peer's
  ring holds there what the frame has there, and zero everywhere else,
* each write in the queue pair belongs to one frame and has its header or its footer,
  and the sender's ring still holds what it is to bring,
* the sender goes on where the last frame ends, and the peer has of the message at its
  end exactly the packets before the first frame.

The third item is what the reverse order of the two writes of a cut frame is for: when
header and footer are both there, no write of the frame is left, so the whole frame
is. The first, with `FlowControlled`, keeps frames within one turn of the ring, where no
two positions share a cell: a new frame therefore touches none that a write still
has to read, although `Send` was completed long before. When the link goes down
the writes are gone and the sender's ring says nothing any more, but the peer goes on
with what had arrived whole; the invariant keeps that part.

**Socket table.** `SocketTableProofs`: `TableTypeOK`, `SlotsTheorem`, `TerminalsTheorem`,
`HandlersTheorem`, `ListenersTheorem`, `AuditsTheorem`, for any number of slots, terminals,
listeners, users and generations. All assume `Contract` and `~Torn` (section 2); nothing
else about the order of steps. The inductive invariant `TableSafe` has three parts.

`SlotInv` says what the code relies on and never tests. Of each thread, by its label: what
state, terminal and listener its slot has there, and that the slot is out of the
pool (`Owned`); of two threads in the middle of calls: that their slots differ (`Apart`).
Of each asynchronous call: the state its handler will find, and that slot and
terminal belong together. Of each terminal: whose it is, and what its closer may
still do. That two threads stay apart is where the rules of the Contract are used: a
handle is compared when a call begins, so a thread has its slot to itself exactly as
long as nobody else frees it. A thread that closes a connection has no such slot;
rule 3 keeps what it still reads from becoming another's.

`CountInv` counts the holders of each listener: the socket (unless its guard has just
released), the threads between `AddRef` and `GetConnectionRequest` or between `Unlisten`
and `Release`, the pending requests. A step adds or removes one holder or hands one on.

`AuditsHold` is then that no step makes one of the assertions fail: each is looked at
in the state the thread's label and slot have in `SlotInv`, after any steps of others
since that thread last looked.

**Terminal set-up.** `TerminalSetupProofs`: `SetupTypeOK`, `RegionsTheorem`,
`TokensTheorem`, `ReleaseTheorem`, `PoolTheorem`, `OverlapTheorem`, for any number of
terminals, threads, attempts and overlapped objects. The inductive invariant is
`SetupInv`: stacks are never empty and no call or operation is on them twice
(`StacksOK`); a handler holds its overlapped object until it returns (`HandlersHold`); a
terminal has one call at a time that decides what becomes of it, while handlers on
their way out come before it (`OneCurrent`, `FreeingOrder`) and a user setting it up has
it alone (`ActiveOwns`); each region is registered once per allocation (`RegionsOnce`)
and its tokens go out only when nothing but the closer can end that use of the
terminal (`HandedLate`), which is why an inherited region is never shared.

`PoolQueue` holds the lemmas about pools both components use. In both, a step is
first shown to be *local* (it changes one slot, one terminal, one stack), then to
preserve what the invariant says of those, and a lemma of its own carries the rest.

**Pingpong.** `PingpongProofs`: `SampleTypes`, `SampleLockstep`, `SampleBuffers`,
`SamplePools`, for any number of tests, message sizes and pools of two buffers or more
(`FixMem.cpp` has 1024; with one, `PoolsSuffice` is false). `PoolKept` says of any buffer
manager, its buffers in use and its buffers being released that each pooled buffer
is in its queue once or is one of those; `KeptTake`, `KeptClear` and `KeptBack` show
that `Allocate` and the two steps of `Release` move one buffer from one to the next.
The inductive invariant `SampleInv` adds the counters (`CountInv`: the four stations
of a round are within one of each other, as far as the connection lets them), the
numbering of requests and echoes (`ContentInv`), where the two notifiers are
(`HandlerInv`), and the buffers of the server that a refused `Send` has left to nobody
(`SrvHeld`), of which there is none unless the connection is gone. That the pools
suffice follows from the counters: when the next request arrives at the server, at
most one echo is not completed.

The proofs have assumptions the source does not guarantee: `~TornBack` excludes the race
of finding 1; `Contract` is up to the application, and `~Torn` to `TerminalCloser`.

Only model-checked: liveness (`ChannelProgress`, `TransitionsEnd` and `ShutdownEnds` of the
socket table, `SetupEnds`, `TestsFinish`), which is outside this prover's reach. Every
invariant and every safety property of the passing runs is a theorem.

## 5. Findings

Each has a run in which TLC finds the quoted statement violated.

1. `send_torn_back`: the unlocked `back()` can make the race assertion of
   `ProcessSendQ` fail.
2. `send_small_ring`: the factory admits rings of 4 Ki to 32 Ki, on which a message
   that does not fit with its header and footer is accepted and never completed,
   and blocks those after it. (Ring and packet of 4 units.)
3. `socket_connect_refused`: a failed asynchronous `Connect` ends the process
   instead of being reported.
4. `socket_close_race`: `TryCloseSocket` reads `m_state` and `m_term` apart; a closer
   in between makes its assertion fail, whatever rules callers keep.
5. `term_duplicate_init`: a terminal whose `Bind` failed is used again before its
   registrations are done; it registers anew instead of inheriting, and the second
   tag registration to complete ends the process.

Two more behaviours are in the models without a run of their own: `ND_CANCELED` from
the second half of a cut frame ends the process while from the first it is accepted
(`SendWrite`), and `CloseSocket`, which compares its handle once, may close the slot's
next owner (`CloseRead`; rule 3 of the Contract keeps callers from it). `PROJECT.json` lists them as hazards.

## 6. Not modelled, and what the models assume

* `TerminalCloser` waits until no thread is inside the terminal before it is
  started again. If it does not, a `Send` overtaken by a close can queue its request
  on the next connection; the repository cannot decide it.
* Nothing in the repository resets `m_pendingRead`. `SendPath` keeps it across
  connections; `ReadAccounting` says by which cases it can be too high.
* Users do not call the library while its destructor runs, and keep the Contract of
  section 2. `TerminalCloser` does not come between lines 552 and 554 (`Torn`).
* The adapter executes the requests of a queue pair in order and does not lose them
  while connected (reliable RDMA). Its failures other than `ND_CANCELED` end the
  process in the source and are not modelled, nor is the re-arming of the
  completion queue (`Notify`).
* The constructor's opening of the adapter, its IOCP and the pool of queue pairs
  (`GetQuePairPoolInterface`, the constant `QueuePool`): each failure ends the process.
* `Pingpong` started with 0 tests: its counter wraps around at the first echo. A
  connection request that fails makes `ProcessConnReq` call the notifier, and
  so `exit`, before it frees the socket for which the destructor then waits; the
  model begins with an established connection.
* `ndv2lib` loads the provider while the library is constructed; its headers declare
  the interface and the status codes. `ListIpAddresses` and `EnableLargePages` pass on
  what the operating system says. None keeps state the library depends on later.
* Logging, addresses and ports, parsing of command lines.

## 7. Plan

Done: `RingFrame`, `MsgChannel`, `SendPath`, `SocketTable`, then `Slicing`, `FrameCopy`,
`TerminalSetup`, `BufferPool` and `Pingpong`, from the bytes outwards, and the proofs
above. What is left, in this order:

1. `SocketTable` without the Contract: what still holds when one of the three rules is
   dropped (the types of slots and terminals, `HandlersFindSocket` for slots that were never
   closed), and a lock in the source that would make the rules unnecessary.
2. `Pingpong`'s use of the channels: that its two instances of `MsgChannel` take only
   steps of `MsgChannel!Next`, as a theorem.
3. `SendPath` with `TornBack`: that no other property than the order of completion
   and what rests on it depends on the copy being whole.
