# A verification development for HeadWrite_muduo_epoll_Cpp11

The repository is a C++11 rewrite of the muduo network library: a main reactor
accepts connections and hands each to one of several sub reactors, every
reactor being a thread that runs one `EventLoop` over one epoll instance. The
modules here model the parts of it that carry its correctness, the event loop,
the poller, the thread that runs a loop, the TCP connection and its buffer, and
the server that puts them together, as TLA+ state machines; TLC checks them on
small instances, TLAPS proves every safety property of theirs, and the three
refinements, for every value of the constants. File names below are relative to
`src/handWriteMuduo/`.

Contents: 1 the system, 2 the modules, 3 the runs, 4 bounds and environment,
5 fairness, 6 the proofs, 7 what the code does against its documentation,
8 what is not modelled, 9 the plan.

## 1. The system

| component | state it keeps | operations | talks to |
|---|---|---|---|
| `EventLoop` | `quit_`, `pendingFunctors_` under `mutex_`, `callingPendingFunctors_`, the eventfd `wakeupFd_`, `activeChannels_` | `loop`, `quit`, `runInLoop`, `queueInLoop`, `doPendingFunctors`, `wakeup`, `handleRead` | called by every thread; calls channels and functors |
| `Channel` | `fd_`, `events_`, `revents_`, `index_`, `tie_` | `enable*`, `disable*`, `remove`, `handleEvent` | updates the poller through its loop; calls back its owner |
| `EPollPoller`, `Poller` | `channels_`, `events_`, the kernel's interest list | `poll`, `updateChannel`, `removeChannel`, `hasChannel` | the kernel |
| `TcpConnection` | `state_` (atomic), `outputBuffer_`, `inputBuffer_`, its channel and socket | `send`, `shutdown` (any thread), `sendInLoop`, `shutdownInLoop`, `handleRead/Write/Close/Error`, `connectEstablished`, `connectDestoryed` (the loop's thread) | its loop, its channel, the user's callbacks, `TcpServer` |
| `TcpServer` | `connections_`, the acceptor, the pool | `setThreadNum`, `start`, `newConnection`, `removeConnection`, `removeConnectionInLoop`, destructor | the base loop, the loops of the connections |
| `Acceptor` | the listening channel | `listen`, `handleRead` | `TcpServer::newConnection` |
| `EventLoopThread`, `Thread` | `loop_` under `mutex_` and `cond_`, a semaphore, `started_`, `joined_` | `startLoop`, `threadFunc`, destructor | one `EventLoop` on the new thread's stack |
| `EventLoopThreadPool` | `threads_`, `loops_`, `next_` | `start`, `getNextLoop` | `EventLoopThread` |
| `Buffer` | `buffer_`, `readerIndex_`, `writerIndex_` | `append`, `retrive*`, `makeSpace`, `readFd`, `writeFd` | `TcpConnection` |
| `Socket`, `InetAddress`, `Timestamp`, `CurrentThread`, `Logger` | a descriptor, values, the log level | system calls, formatting | everybody |

How they interact: threads reach a loop only by queueing functors and writing
its eventfd; a loop reaches its channels through the pointers epoll returns; a
channel calls its `TcpConnection`; a connection that ends tells the user, then
`TcpServer` on the base loop, which erases it and queues `connectDestoryed`
back to the connection's loop.

What makes each component correct, and what is hard about it:

* **EventLoop.** No functor is slept on, no `quit()` is slept through, functors
  run once and in order, a batch of them ends. Hard because `queueInLoop`,
  `quit` and the loop each act in two steps, and the eventfd is reset before
  the functors run.
* **Channel and poller.** `index_`, `channels_` and the kernel's list agree;
  epoll never returns a pointer to a destroyed channel; no legal sequence of
  calls makes `epoll_ctl` refuse an ADD or MOD (which ends the process). Hard
  because descriptors are reused and a channel dies with the last reference to
  its owner, on any thread.
* **TcpConnection.** Bytes leave in order and none is left behind; the
  half-close follows the last byte; the user hears of the end once; the end of
  the peer leads to the end of the connection. Hard because one poll can report
  several events, sends and closes come from other threads, and a close
  overlaps with all of them.
* **EventLoopThread.** `startLoop` returns a loop that is ready and stays so
  until its owner stops it; the destructor returns and leaves no thread behind.
  Hard because `loop_` is handed over under a mutex and read without one in the
  destructor, `quit()` goes on with the loop after it has told it to stop, and
  the loop lives on its thread's stack.
* **Buffer.** Bytes come out once each and in order; the indices stay in order;
  freed room is used again. Hard because room is made in two ways, chosen by one
  inequality on three indices, and a read fills the memory in two parts.
* **TcpServer, Acceptor, EventLoopThreadPool.** Connections go round the loops;
  the user is told "up" once and "down" once; a connection lives until it has
  left epoll and no longer than its peer; nothing calls into a server that is
  gone; the destructor ends, as far as its joins do. Hard because a connection
  is kept alive by references in the map, in functors of two loops and in the
  hands of the user, because its end crosses two loops and back, because
  `~TcpServer` does the same again for every connection while the io loops still
  run, and because it may come before their threads have entered `loop()`.

## 2. The modules

| module | models |
|---|---|
| `TaskQueue` | the abstract promise of a loop: functors run first in first out, once, until it stops |
| `EventLoop` | `EventLoop.cc` with any number of threads calling it; `Queue == INSTANCE TaskQueue` is the refinement mapping |
| `MCPoller`, `MCBuffer` | symmetry sets and chunks for the runs |
| `EventLoopProofs` | theorems about `EventLoop` |
| `Poller` | channels, `EPollPoller` and the kernel's epoll instance, across reuse |
| `PollerProofs` | theorems about `Poller` |
| `EventLoopThread` | a parent that starts, quits and joins workers; the threads they start, and the loop on the stack of each |
| `EventLoopThreadProofs` | theorems about `EventLoopThread` |
| `TcpConnection` | one connection, its loop, other threads, the socket and the peer |
| `TcpConnectionProofs` | theorems about `TcpConnection` |
| `ConnectionLife` | what a server promises about each connection: told up, told down, freed, in this order |
| `TcpServer` | `TcpServer.cc`, `Acceptor.cc`, `EventLoopThreadPool.cc` and the ends of a connection's life, over the base loop and the io loops; `Life == INSTANCE ConnectionLife` is the refinement mapping |
| `TcpServerProofs` | theorems about `TcpServer`: the round robin, who outlives whom |
| `ConnectionLifeProofs` | that `TcpServer` implements `ConnectionLife`; extends `TcpServerProofs` |
| `ByteQueue` | the abstract promise of a buffer: bytes come out as they went in |
| `Buffer` | `Buffer.h` and `Buffer.cc`: the memory and its two indices; `Queue == INSTANCE ByteQueue` is the refinement mapping |
| `BufferProofs` | theorems about `Buffer` |

### EventLoop

`phase` is where the loop's thread is: `"unstarted"` (its creator's code before
`loop()`), `"while"` (the test of `quit_`), `"polling"`, `"dispatch"`,
`"callback"`, `"running"` (between two functors), `"functor"`, `"stopped"`.
`pending` and `functors` are `pendingFunctors_` and the local vector of
`doPendingFunctors`; `calling`, `quit` the two atomics; `wakeup` says that the
eventfd's counter is not zero (the counter's value is never used). A step ends
wherever another thread could notice: `QueueInLoop` is the critical section of
`queueInLoop`, `QueueWakeup` its end; `Quit` and `QuitWakeup` likewise. In
"unstarted", "callback" and "functor" the loop's thread may itself call the
loop. `SwapPending` sets the flag and swaps in one step: only the loop's own
thread reads the flag, and it is in neither. `submitted`, `early` and `done`
are history: `early` holds what the owner queued before `loop()`, for which the
code writes no wakeup.

### Poller

Per channel `fd` (or none: no such object), `events`, `index`; per descriptor
`channels` (the map) and `epoll` (the kernel's entry with the pointer stored in
it). `AddChannel`, `ChangeChannel`, `DropChannel` are the branches of
`updateChannel`; `CtlAdd`, `CtlMod`, `CtlDel` are `update` with its error
handling, so a refused ADD sets `fatal` instead of being impossible. The guards
state the contract that the owners in the code keep (`removed` is what they
have done): `remove` is called from a functor, a channel is destroyed only
after `remove`, by any thread at any time, and a descriptor has one channel at
a time; `Destroy` closes the descriptor, and `Construct` may take it again.

### EventLoopThread

`child` is where a worker's thread is, from the lambda of `Thread::start`
("born") through `threadFunc` to its end ("over"); `parent` is where the one
thread that owns the objects is, in `startLoop` ("semWait", "locking",
"waiting") or in the destructor ("quitting", "waking", "joining"). `published`
is `loop_`, `alive` says that the `EventLoop` on the child's stack exists. The
steps are cut at the semaphore, at the critical sections of `mutex_`, and
between the store to `quit_` and the rest of `quit()`. The last critical section
of `threadFunc` ends when `lock` is destroyed, before `loop` is (the order
opposite to their declarations), hence `ClearLoop`, `Unlock`, `DestroyLoop`.
What a loop does while it runs is `EventLoop`'s business; here it leaves when it
sees `quit_`, and code on its own thread may set that (`OwnQuit`). For a loop
that quits itself the class promises little: it may be gone before `startLoop`
looks, or before the destructor tests `loop_`; the properties exempt it and the
hazards name it.

### Buffer

`buf` is the record of `buffer_` and the two indices, counted from 0 as in the
code. The methods are operators on such records (`MakeSpace` with its branches
`Grown` and `Compacted`, `Received` for `readFd`, `Retrived`), and an action per
method applies one. `ReadFd` takes what arrives as one chunk of at most the
room `readv` is offered (`Capacity`), the free memory first and then
`extrabuf`. A failed `readv`, and `writeFd`, change nothing in the buffer.

### TcpConnection

The loop's thread runs, one at a time: the callbacks that `handleEvent` has
still to call (`todo`, in the order of `handleEventWithGuard`), the loop's
functors (`tasks`), and the user's code (`user` names the callback it is in;
between two steps it may also be anybody's else callback on that loop).
`OwnerSend` and `OwnerShutdown` are calls on that thread. `SendChecked`/
`SendQueued` and `ShutdownChecked`/`ShutdownStored`/`ShutdownQueued` are the
same calls from another thread, cut at each access to `state_`. `SendInLoop` is
`sendInLoop` with its outcomes: give up, write fails, all written, part
written, buffered. The channel's registration (`events`, `index`) follows
`Poller`, and the loop is what `TaskQueue` promises. A message is a sequence of
two units, so that a `::write` can take all, one or none of it. `wire`,
`accepted`, `downs`, `revived` are history. `removing`, `serverUp` and
`destroyed` are the part `TcpServer` plays on the base loop, another thread.

### TcpServer

It composes what the other modules promise: a loop that polls, dispatches and
runs its functors in batches (`EventLoop`; a loop may poll here whenever it
likes, so a wakeup is never missing), threads whose loop is published when
`startLoop` returns (`EventLoopThread`), a connection without its bytes
(`TcpConnection`). What it adds is who holds a connection.

* `place[l]` is where loop `l`'s thread is; `active`, `queue`, `batch`, `ran` are
  `activeChannels_`, `pendingFunctors_`, the local vector of `doPendingFunctors`
  and how far it has got. Loop 0 is the base loop, the others the pool's.
* `Start` leaves the workers `"outside"` `loop()`, where `startLoop` leaves them:
  it waits for the publication only. `EnterLoop` is the entry, with its
  `quit_ = false`, and `FirstTest` the first `while(!quit_)`; `asked` is the
  workers that `~EventLoopThread` has called `quit()` on, once each. A `quit()`
  that comes before `EnterLoop` is therefore lost, and the join then never ends,
  as in `loopthread_lostquit`; `QuitLost` names the state, and both liveness
  properties exempt it.
* `Alive(c)` is the reference count being positive, derived from where
  `shared_ptr`s are: the map `connections`, functors bound to a
  `TcpConnectionPtr` (in `queue` and in `batch` up to the end of the batch,
  since the local vector is only then destroyed), the `connPtr` of a
  `handleClose` that is under way (`closing`), a thread of the user's. Functors
  bound to a raw `this` (`RawOps`) hold nothing. A connection that is not alive
  has closed its descriptor (`OpenFiles`). `watched` is what the pollers'
  `channels_` point at, be it a channel that is gone; epoll itself only has those
  of it whose descriptor is open (`Polled`), since the close takes the entry out.
* `NewConnection` is `Acceptor::handleRead` with `TcpServer::newConnection`:
  the round robin (`NextLoop`, `Advanced`), the map, and `connectEstablished` at
  once when the loop is the base loop, as a functor otherwise. `AcceptFails` is
  an accept that the limit of descriptors refuses: `LOG_FATAL` ends the process.
* `HandleClose` is `handleClose` up to the call of `closeCallback_`,
  `CloseCallback` the rest: `removeConnectionInLoop` at once on the base loop, as
  a functor otherwise. `FinishBatch` ends a round and tests `quit_` (`TestsQuit`);
  a worker that leaves also destroys its `EventLoop`, with the functors it never
  ran.
* `BeginDestroy`, `DestroyConnection`, `DropMap` are the body of `~TcpServer` and
  the destruction of `connections_`; `QuitWorker`, `PoolGone` the pool's, one
  thread joined before the next is told; `CloseAcceptor` the acceptor's;
  `DestroyBaseLoop` the base loop's own, which must come later.
* `SharedNext` adds a thread of the user's that was handed the pointer in a
  callback: `send()` and `shutdown()` there test `state_` in one step and push
  the functor with the raw `this` in another. `RunRaw` is that functor on a
  connection that lives, `RunRawFreed` one of the things it may do to one that
  does not, an `epoll_ctl` that ends the process.

Abstractions: a message is only reported to a connection in `kConnected`, since
the only thing its callback does here is to shut down; the write-complete
functor, which holds a reference for one more round of the connection's own
loop, is left out; the end of the peer's stream and its hang-up are one event
(`TcpConnection` tells them apart); a worker's loop is only quit by the pool.
A server is destroyed on the base loop's thread after `loop()` has returned, as
in `example/testserver.cc`, where it is declared after the loop.

## 3. The runs

| run | properties | what it shows |
|---|---|---|
| `eventloop` | `IndInv` `NoLostWakeup` `QuitWakes` `BatchClosed` `ImplementsTaskQueue` `TimeoutRunsTheRest` `RunsPromptly` `QuitStops` | a loop in `epoll_wait` has no work and no stop nobody is waking it for; a batch never grows; the two vectors and the swap behave as one queue; work and stops are served without the help of the 10 s timeout of `epoll_wait`, and with it what was queued before `loop()` too |
| `poller` | `IndInv` `NoDangling` `NeverFatal` | the three books agree and no stale pointer is followed, whoever destroys what and when |
| `loopthread` | `IndInv` `HandsOutLiveLoops` `LeavesNoOrphan` `StartReturns` `JoinReturns` | the handshake misses no notify, the loop handed out is ready and stays; the destructor comes back and leaves no thread |
| `loopthread_lostquit` | `DestructorReturns` (violated) | see 7 |
| `loopthread_deadloop` | `QuitUsesLiveLoop` (violated) | see 7 |
| `buffer` | `IndInv` `GrowsOnlyWhenFull` `ImplementsByteQueue` | no byte lost, doubled or overwritten by growing, compacting or a read in two parts; freed room is used again |
| `connection_safety` | `IndInv` `StreamInOrder` `NothingStuck` `DownOnce` `NeverAddsNothing` `FinAfterData` | order and completeness of the stream, one end per connection, the half-close after the data |
| `connection_live` | `PeerCloseDestroys` `ShutdownCompletes` | the peer's end destroys the connection; a shutdown is carried out |
| `connection_revived` | `GivesUpWriting` (violated) | see 7 |
| `connection_string` | `SendsWhatItWasGiven` (violated) | see 7 |
| `server` | `TypeOK` `FairTurns` `HandlesLiveOnly` `LeavesPollerFirst` `ServerUsedAlive` `DownUnlessLeft` `ImplementsConnectionLife` `PeerCloseFrees` `DestructionEnds` | connections go round the loops; no loop handles the channel of a connection that is gone, and no poller keeps a pointer to it; no connection calls a server that is gone; told up, told down, freed, in this order, and whom nobody is told the end of; unless a `quit()` is lost before `loop()` is entered, a peer's close frees connection and descriptor and the destructors end |
| `server_shared` | `HandlesLiveOnly` (violated) | see 7 |

Every property of a run that passes is broken by a plausible fault put into the
model (a dropped wakeup, a callback order changed, a half-close that does not
wait...); the faulty variants stand in the modules before the definitions they
replace, and `PROJECT.json` lists the pairs. The connection, thread and server
runs do not check for deadlock: a destroyed connection or server, or a parent
whose workers are all gone, has nothing left to do.

`DownUnlessLeft` names the two ways in which a connection that was told "up" goes
without a "down": it was being shut down (`kDisconnecting`) when the server was
destroyed, for which `connectDestoryed` has no word, or its `connectDestoryed`
was still queued in a loop that quits, which drops its functors.

`DestructionEnds` and `PeerCloseFrees` promise nothing once a `quit()` has been
lost (`QuitLost`): the destructor then waits in a join for ever, with the worker
polling on and the functors it sends to the stopped base loop left lying, which
is the finding of `loopthread_lostquit`. Such states are in the run; they are
reached when `~TcpServer` overtakes a worker on its way into `loop()`. What the
two still say is that nothing else keeps the destructor or a connection waiting.

## 4. Bounds and environment

* **EventLoop**: three functors, each queued at most once, two calling threads,
  one I/O channel. Two callers and the
  owner give every race of two pushes with the swap, and of a push with a quit;
  three functors give a batch of two with one more behind it. The proofs lift
  all of these bounds.
* **Poller**: three channels on three descriptors, two events. A race of reuse
  needs two channels and one descriptor, a bystander makes the third. Also
  proved for any number.
* **TcpConnection**: two messages of two units, another thread that both sends
  and shuts down; the invariants about order need two messages (one buffered
  while another is sent), partial writes need two units. Liveness is checked
  with one message. The peer may send one piece of data at a time, close or
  reset. The safety properties are proved for any set of messages (of two
  units) and any threads.
* **EventLoopThread**: two workers; one parent serves one at a time, so a second
  one shows that they do not disturb each other. Each is started at most once
  (`Thread::start` is called from nowhere else). Proved for any number.
* **Buffer**: one byte kept free in front, room for two, an `extrabuf` of two,
  chunks of up to three bytes, at most four readable (`MaxReadable`). The memory
  must grow, can be compacted with data in it, and is filled exactly, in one
  part and in two. Proved for any sizes.
* **TcpServer**: none, one or two io loops, three connections, two descriptors
  for connections. The third connection wraps the round robin, shares a loop
  with the first, and finds the descriptors used up unless one has been closed.
  Each worker may enter `loop()` at any time after `start()`, so a `quit()` finds
  it outside, entered, and in any part of a round (154,799 states). The safety
  properties are proved for any numbers. `server_shared` is a
  counterexample and needs one of each: one io loop, one connection and one
  thread of the user's.
* **The environment**: any subset of what is ready may be reported by a poll,
  an interrupted or timed-out poll reports nothing; an entry without interest
  still reports errors and hang-ups; a socket may be full at any time; a peer
  may reset at any time. The process is taken to ignore SIGPIPE: the library
  does not do so itself, and without it the EPIPE branch of `sendInLoop` could
  not be reached. The write-complete and high-water callbacks are taken to be
  set. Names and logging play no part.

## 5. Fairness

* `ThreadFairness` (EventLoop): a thread inside `queueInLoop` or `quit` gets to
  its end (weak: nothing disables it), and user code returns. User code is
  strong: between two of its steps it may call the loop, which disables its
  return for a while.
* `Spec` (EventLoop) adds weak fairness of the loop's own steps, but a poll need
  only return when the eventfd is readable: `epoll_wait` is not counted on to
  time out, so that a lost wakeup would show. `TimeoutFires` is the help that
  `kPollTimeMs` gives besides, weak fairness of the whole loop body;
  `TimeoutRunsTheRest` says what it is good for: under it the loop keeps the
  fairness of `TaskQueue`, that every functor is run.
* EventLoopThread: threads are scheduled (weak fairness of each thread's own
  steps; the mutex is held for one bounded section only). Spurious wakeups are
  allowed and not counted on, and nobody is made to start, quit or destroy
  anything.
* TcpConnection: a level-triggered poll keeps reporting a ready channel and the
  loop runs its functors in each round (`LoopFairness`; strong, since the loop
  alternates between the two and user code comes between). `PeerReads` assumes
  that a peer which does not reset goes on reading, so that the socket becomes
  writable again and again; only `ShutdownCompletes` needs it. Nothing is
  assumed of when the peer closes, of the user calling anything, or of the
  other threads beginning a call.
* TcpServer: every loop's thread is scheduled, a worker's also on its way into
  `loop()` (after `startLoop` nothing stands between), and its `epoll_wait`
  returns; a hung-up connection is reported by each poll (level-triggered); the base
  loop's thread goes on to the destructors once `loop()` has returned. Nobody
  need start the server, connect, hang up, or enter or quit the base loop.

## 6. The proofs

All seven proof modules are checked by TLAPS to the last leaf. Assumptions:
`ThreadAssumption` (the loop's thread is not one of the others),
`ChannelAssumption` (`wakeupChannel_` is not one of the others),
`NoneAssumption` (the null value is none of the others), `GarbageAssumption` (what
a dead string leaves behind is none of the messages), `BufferAssumption` (the
sizes are naturals, chunks are sequences of bytes), `ThreadsAssumption` and
`ConnsAssumption` (the bounds of the server are naturals). Nothing is assumed of the
number of functors, connections, threads, channels, descriptors or workers, nor of the size
of a buffer, its chunks or `extrabuf`.

| theorem | statement |
|---|---|
| `TypeCorrect` | `SafeSpec => []TypeOK` |
| `InductiveInvariant` | `SafeSpec => []IndInv` |
| `WakeupNeverLost` | `SafeSpec => []NoLostWakeup` |
| `QuitNeverSleptThrough` | `SafeSpec => []QuitWakes` |
| `BatchOnlyShrinks` | `SafeSpec => BatchClosed` |
| `RefinesTaskQueue` | `SafeSpec => ImplementsTaskQueue` |
| `PollerInvariant` | `Spec => []IndInv` |
| `NeverEndsTheProcess` | `Spec => []NeverFatal` |
| `FollowsNoDanglingPointer` | `Spec => []NoDangling` |
| `ThreadInvariant` | `SafeSpec => []IndInv` |
| `LoopsHandedOutLive` | `SafeSpec => []HandsOutLiveLoops` |
| `NoOrphanLeft` | `SafeSpec => []LeavesNoOrphan` |
| `BufferInvariant` | `Spec => []IndInv` |
| `GrowsNoMoreThanNeeded` | `Spec => GrowsOnlyWhenFull` |
| `RefinesByteQueue` | `Spec => ImplementsByteQueue` |
| `Inductive` | `SafeSpec => []IndInv` |
| `InOrder` | `SafeSpec => []StreamInOrder` |
| `BufferedDataIsFlushed` | `SafeSpec => []NothingStuck` |
| `EndsOnce` | `SafeSpec => []DownOnce` |
| `RegisteredWithInterest` | `SafeSpec => []NeverAddsNothing` |
| `HalfCloseIsLast` | `SafeSpec => FinAfterData` |
| `TypeCorrect` | `SafeSpec => []TypeOK` |
| `RoundRobinIsFair` | `SafeSpec => []FairTurns` |
| `ServerOutlivesItsCallers` | `SafeSpec => []ServerUsedAlive` |
| `NoDeadConnectionIsHandled` | `SafeSpec => []HandlesLiveOnly` |
| `ChannelsLeaveFirst` | `SafeSpec => []LeavesPollerFirst` |
| `EndIsToldUnlessLeft` | `SafeSpec => DownUnlessLeft` |
| `RefinesConnectionLife` | `SafeSpec => ImplementsConnectionLife` |

(in the order of `EventLoopProofs`, `PollerProofs`, `EventLoopThreadProofs`,
`BufferProofs`, `TcpConnectionProofs`, `TcpServerProofs` and
`ConnectionLifeProofs`, which has the last two).

**Why the loop needs a stronger invariant.** `NoLostWakeup` speaks of
`epoll_wait` only; it says nothing in the phases that lead there. What the code
maintains is `Covered`: in every phase *but the dispatch of a poll's channels*,
functors waiting in `pendingFunctors_` imply that the eventfd is readable or
that a thread is on its way to write it, and the loop's own thread is such a
thread only while `callingPendingFunctors_` is set. The dispatch is the
exception because `handleRead` resets the eventfd there, and it always ends in
the swap, after which nothing is pending. `PhaseDiscipline` ties the flag to
the phase. The proof goes action by action: a push creates the debt
(`PushCovered`), `QueueWakeup` pays it, the swap cancels it.

**The refinement** maps the abstract queue to `functors \o pending`: a push
appends to the right part, the swap is a stutter because `functors` is empty
then, a start takes from the left part.

**The poller's invariant** adds to the two properties that each live channel's
kernel entry is exactly what `index_` and `events_` say (`KernelAgrees`), that
the map has a channel iff its index is not `kNew` (`MapAgrees`), that a
descriptor has one channel, that an entry belongs to the channel it points at,
and that a channel whose last use was `remove` is in neither the kernel's list
nor the active one (`RemovedIsOut`): that is what makes destroying it safe.

**The thread's invariant** says what exists by where the child is
(`ChildTells`), that a loop nobody on its own thread has quit stops only after
the parent's store (`StopsWhenTold`), and which workers the parent has started,
returned and joined (`ParentKnows`). The semaphore is the link between the two:
the parent is in `sem_wait` until the child has posted, so the semaphore on its
stack outlives its use.

**The buffer's proof** is compositional: one lemma for each operator
(`GrownSound`, `CompactedSound`, `EnsuredSound`, `WrittenSound`, ...) says that
it keeps the indices in order and what it makes of the readable bytes; a step
lemma then follows without opening the operators. `RefinesByteQueue` is a whole
refinement, the specification having no liveness part.

**The connection's invariant.** `StreamInOrder` is inductive by itself; the
others lean on each other. That data is never left without `EPOLLOUT`
(`NothingStuck`) needs that a live, established connection is registered
(`Registered`), and that nothing is sent before `connectEstablished`
(`BeforeEstablished`, which also says that it runs once and first). That the end
is told once (`DownOnce`) needs that one `handleEvent` runs at most one callback
that can close, and runs it on a channel epoll knows (`ClosesOnce`: the hang-up is
only acted on where there is nothing to read), and that nobody asks for an
interest again afterwards (`DeafWhenDown`). `revived` exempts the connection
whose `kDisconnected` a racing `shutdown()` has overwritten; the theorems hold of
everything else, with other threads sending and shutting down at every step.

**The server's invariants** come in layers. `TurnInv` says which loop each of the
last `numLoops` connections was given to, counted back from `next_` and round the
end (`LastTurns`): any two of them differ, and the next one differs from all. It
needs that `start()` finds no connection there, hence `Idle`: before `start()`
nothing is listened to, polled or queued. `PlacesTell` ties the server's life to
the places of the loops' threads: the destructor runs where the base loop has
stopped with its batch done, and the server is gone only after every thread of
the pool has been joined, so nobody is left in a close callback.

`LiveInv` is for `HandlesLiveOnly` and `LeavesPollerFirst`. A channel holds no reference to its
connection, so something else must, for as long as the channel is in a poller.
`Kept` says what: a connection that is in the map no more, or that `~TcpServer`
has dealt with, is `Provided` for: a `connectDestoryed`, whose functor holds it,
is still to run in the connection's own loop if the channel is in the poller
there, and behind each `connectEstablished` that would put it there. That functor
is let go of at the end of its batch only, when it has been called and the
channel is gone. It needs that functors are queued in the loop they belong to
(`OnlyKnown`), and that the active channels are in the poller (`LoopsTidy`): no
callback of another channel takes them out, which is what one loop per connection
gives.

`LifeInv` adds what the user is told. `ToldTells`: `state_` says exactly what the
user has heard. `EstablishedOnce`: one `connectEstablished` is queued for a
connection, and finds it in `kConnecting`. `Watches`: only a connection that is up
is in a poller, and one in `kConnected` is in its poller while its loop runs.
`Ended`: before `~TcpServer`, a connection leaves the map through `handleClose`
only. `FaresStep` then lists what a step can do to a connection (nothing, begin
it, shut it down, end it), `AliveStep` the three steps that let go of one (the
map's destruction, the base loop's, a loop's test of `quit_` with the end of a
batch before it), and `FreedStep` what is
let go of in them: a connection that was told "down", or one of a server that is
being destroyed. Both last theorems follow: `EndIsToldUnlessLeft` from
`FreedStep`, `RefinesConnectionLife` by taking the steps that tell something
(`TellingImplements`), that tell nothing (`QuietImplements`: a release of the
connections let go of, or a stutter), that accept and that end the process.
It is a whole refinement: `ConnectionLife` has no liveness part.

**Only model-checked**: liveness (`RunsPromptly`, `QuitStops`, `StartReturns`,
`JoinReturns`, `PeerCloseDestroys`, `ShutdownCompletes`, `TimeoutRunsTheRest`,
`PeerCloseFrees`, `DestructionEnds`), which TLAPS does not reach since it rests
on fairness, and so on `ENABLED`. Not proved for `SharedSpec`, the server with
user threads: `HandlesLiveOnly` fails there (see 7).

## 7. Where the code and its documentation differ

1. `EventLoop.cc:96` says `quit()` may come from any thread. `loop()` begins
   with `quit_ = false` (line 70) after the loop has been published by
   `EventLoopThread.cc:53`, so a `quit()` in between is lost, and
   `~EventLoopThread` then waits in `join()` for ever (`loopthread_lostquit`).
2. `EventLoop.cc:101-105`: `quit()` of another thread wakes the loop after it
   has told it to stop. The loop may have stopped and been destroyed on its
   thread's stack by then (`loopthread_deadloop`).
3. `TcpConnection.cc:83-86`: a disconnected connection gives up writing. A
   `shutdown()` on another thread that tested `state_` before the close stores
   `kDisconnecting` after it, and a queued `sendInLoop` writes again (`connection_revived`).
4. `TcpConnection.cc:66-70`: `send()` from another thread queues the address of
   the caller's characters, not the data (`connection_string`).
5. `Channel.h:33` and `TcpConnection.cc:139-141`: `tie()` is to keep a removed
   channel from carrying out callbacks of a connection that is gone. The channel
   is a member of the connection, so `tie_` goes with it. The functor of a
   `send()` on another thread holds a raw `this` and is run without a new test
   of `kConnected`. In the run `server_shared`, `~TcpServer` queues
   `connectDestoryed` and the user's thread a `send()` behind it; the io loop
   takes both; the user's `shutdown()` stores `kDisconnecting`; `connectDestoryed`
   takes the channel out of epoll, `sendInLoop` passes its test and, with bytes
   left over, puts it back; epoll reports the peer's hang-up; and before the loop
   has come to that channel the user lets go of the last pointer. `handleEvent`
   is called on a channel that no longer exists. (Between the release and the
   next poll alone nothing would happen: the descriptor is closed, and epoll
   forgets it.) With calls from the connection's own loop only, this cannot
   happen (`server`).

Modelling also showed, without a run of its own, that `queueInLoop` of the owner
before `loop()` writes no wakeup, against `EventLoop.h:33`, and `loop()` polls
first (the history variable `early` keeps such functors apart); that
`TcpConnection.cc:173` and `example/testserver.cc:44` take the half-close to
bring the close event, which in fact comes when the peer closes too, so that a
peer that never does keeps its connection for ever; that the copy in the loop of
`~TcpServer` leaves the map's reference where it was, against `TcpServer.cc:44`,
which is harmless (`DropMap`); that `TcpConnection.h:71` takes a connection's loop
never to be the base loop, which it is in a server without threads; that the
high-water test compares the free space of `outputBuffer_` where its readable
bytes are meant (`TcpConnection.cc:122`); and that `connectDestoryed` of a connection in
`kDisconnecting` neither tells the user nor disables the channel
(`TcpConnection.cc:151`), which happens when a server is destroyed after a
`shutdown()`; the properties of the connection exempt a destroyed one.

## 8. Not modelled

`DefaultPoller` (no state), `InetAddress`, `Timestamp`, `CurrentThread`,
`Callbacks`, `noncopyable` (values and names), `Logger` (its level is a shared
variable: the race mislabels messages and nothing else; its `LOG_FATAL` is in
`Poller` and `TcpServer`), `Socket`'s options and `bind`,
the example server (a client, within what the user's code of `TcpConnection`
may do), the build files and the binaries in `lib/`, `example/` and `build/`.
In the modelled parts: the growth of `events_`, the contents of `inputBuffer_`,
the numeric test of the high-water mark and its callback, which nobody tests for
being set (`TcpConnection.cc:124`); a server destroyed while its base loop still
runs, from a callback or another thread; an io loop quit by a callback on its own
thread, for which the pool promises little (see EventLoopThread).
In `TcpConnection`, a functor left on the base loop when the server is
destroyed is taken not to run, and connections are on another loop than the
base loop; `TcpServer` has both cases.

## 9. The plan

Done: `TaskQueue`, `EventLoop`, `Poller`, `TcpConnection`, `EventLoopThread`,
`ByteQueue`, `Buffer`, `ConnectionLife`, `TcpServer`, in that order: every other
component stands on the first three, the connection is where user-visible
behaviour is decided, the next ones are what it is run by and made of, and the
server is where they meet.

Proved: every safety invariant and action property of a run that passes, and the
refinements of `TaskQueue`, `ByteQueue` and `ConnectionLife`.

Next, in order:

1. Proofs: what of the server's properties survives user threads. `FairTurns` and
   `ServerUsedAlive` should hold under `SharedSpec` too, where `HandlesLiveOnly`
   does not.
2. The high-water mark with real lengths: `Buffer`'s operators inside
   `TcpConnection`, or a small module of its own that sets the two side by side.
