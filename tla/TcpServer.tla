----------------------------- MODULE TcpServer -----------------------------
(***************************************************************************)
(* A TcpServer with its Acceptor, its EventLoopThreadPool, the base loop,  *)
(* the io loops and the connections (TcpServer.cc, Acceptor.cc,            *)
(* EventLoopThreadPool.cc; the ends of TcpConnection.cc's life).           *)
(*                                                                         *)
(* The subject is who holds a TcpConnection, for how long, and which loop  *)
(* runs what on it: a connection lives while a shared_ptr to it does, and  *)
(* these sit in the map, in functors of either loop, in a handleEvent's    *)
(* guard and with the user.  Bytes are TcpConnection's matter; how a loop  *)
(* is woken is EventLoop's, so a loop here may poll whenever it likes; how *)
(* a loop thread starts is EventLoopThread's, of which start() has one     *)
(* promise: the loop is published.  Its thread may enter loop() later.     *)
(***************************************************************************)
EXTENDS Integers, Sequences, FiniteSets

CONSTANTS
  MaxThreads,       \* bound on setThreadNum
  MaxConns,         \* bound on the connections ever accepted
  MaxFiles          \* descriptors left to the process for connections

ASSUME ThreadsAssumption == MaxThreads \in Nat
ASSUME ConnsAssumption == MaxConns \in Nat
ASSUME FilesAssumption == MaxFiles \in Nat

Base == 0                       \* baseLoop_
Workers == 1 .. MaxThreads      \* loops_[i - 1] is worker i
Loops == {Base} \union Workers
Conns == 1 .. MaxConns          \* a connection is its nextConnId_
Acceptor == 0                   \* acceptChannel_ among the channels
None == 0                       \* no connection

VARIABLES
  \* the TcpServer, owned by the base loop's thread
  stage,            \* its life, one of Stages
  listening,        \* acceptChannel_ is in the base loop's poller
  numLoops,         \* loops_.size()
  next,             \* next_ of the pool
  nextConnId,       \* nextConnId_
  connections,      \* connections_
  sweep,            \* items ~TcpServer has still to visit
  asked,            \* workers whose ~EventLoopThread has called quit()
  \* the connections
  loopOf,           \* loop_
  state,            \* state_
  watched,          \* connections whose channel is in channels_ of their
                    \* loop's poller, be it a stale pointer
  told,             \* history: what the connection callback was told
  \* the loops
  place,            \* where the loop's thread is, one of Places
  active,           \* activeChannels_ not yet dispatched
  closing,          \* the connection handleClose is closing, or None
  queue,            \* pendingFunctors_
  batch,            \* the local vector of doPendingFunctors
  ran,              \* how many of it have been called
  quit,             \* quit_
  \* the surroundings
  hungUp,           \* connections whose peer has closed
  user              \* per connection, what a user thread is doing with it

serverVars == <<stage, listening, numLoops, next, nextConnId, connections,
                sweep, asked, loopOf>>
turnVars == <<numLoops, next, nextConnId, asked, loopOf>>
connVars == <<state, watched, told, user>>
loopVars == <<place, active, closing, batch, ran, quit>>
vars == <<serverVars, connVars, loopVars, queue, hungUp>>

Stages ==
  {"built", "started", "destroying", "joining", "gone", "over", "exited"}
States == {"kConnecting", "kConnected", "kDisconnecting", "kDisconnected"}
Places == {"outside", "entered", "poll", "dispatch", "close", "batch", "stopped"}
Uses == {"none", "holds", "sending", "shutting"}

(* Functors bound to a TcpConnectionPtr keep the connection alive; send()  *)
(* and shutdown() bind a raw this.                                         *)
StrongOps == {"establish", "destroy", "remove"}
RawOps == {"send", "shutdown", "listen"}
Functors == [op : StrongOps \union RawOps, conn : Conns \union {None}]
Functor(op, c) == [op |-> op, conn |-> c]

TypeOK ==
  /\ stage \in Stages /\ listening \in BOOLEAN
  /\ numLoops \in 0 .. MaxThreads /\ next \in Nat
  /\ nextConnId \in 1 .. MaxConns + 1
  /\ connections \subseteq Conns /\ sweep \subseteq Conns
  /\ asked \subseteq Workers /\ loopOf \in [Conns -> Loops]
  /\ state \in [Conns -> States] /\ watched \subseteq Conns
  /\ told \in [Conns -> Seq({"up", "down"})]
  /\ place \in [Loops -> Places]
  /\ active \in [Loops -> SUBSET (Conns \union {Acceptor})]
  /\ closing \in [Loops -> Conns \union {None}]
  /\ queue \in [Loops -> Seq(Functors)] /\ batch \in [Loops -> Seq(Functors)]
  /\ ran \in [Loops -> Nat] /\ quit \in [Loops -> BOOLEAN]
  /\ hungUp \subseteq Conns /\ user \in [Conns -> Uses]

Init ==
  /\ stage = "built" /\ listening = FALSE
  /\ numLoops = 0 /\ next = 0 /\ nextConnId = 1
  /\ connections = {} /\ sweep = {} /\ asked = {}
  /\ loopOf = [c \in Conns |-> Base]
  /\ state = [c \in Conns |-> "kConnecting"] /\ watched = {}
  /\ told = [c \in Conns |-> << >>]
  /\ place = [l \in Loops |-> "outside"] /\ quit = [l \in Loops |-> FALSE]
  /\ active = [l \in Loops |-> {}] /\ closing = [l \in Loops |-> None]
  /\ queue = [l \in Loops |-> << >>] /\ batch = [l \in Loops |-> << >>]
  /\ ran = [l \in Loops |-> 0]
  /\ hungUp = {} /\ user = [c \in Conns |-> "none"]

-----------------------------------------------------------------------------
(* Who is alive.                                                           *)

Holds(f, c) == f.conn = c /\ f.op \in StrongOps

InFunctor(c) ==
  \E l \in Loops :
    \/ \E i \in 1 .. Len(queue[l]) : Holds(queue[l][i], c)
    \/ \E i \in 1 .. Len(batch[l]) : Holds(batch[l][i], c)

(* Some shared_ptr to the connection exists.                               *)
Alive(c) ==
  \/ c \in connections
  \/ \E l \in Loops : closing[l] = c
  \/ InFunctor(c)
  \/ user[c] # "none"

OpenFiles == {c \in Conns : Alive(c)}

ServerLives == stage \notin {"gone", "over"}

Goes(l, to) == place' = [place EXCEPT ![l] = to]

Push(l, f) == queue' = [queue EXCEPT ![l] = Append(@, f)]

-----------------------------------------------------------------------------
(* TcpServer::setThreadNum, start and the loops it starts.                 *)

(* setThreadNum(n), then start(): n threads have each published a loop and *)
(* are on their way into loop(); the acceptor listens at once on the base  *)
(* loop's thread, or by a functor if another thread calls.  Later calls    *)
(* find started_ # 0 and do nothing.                                       *)
Start(n) ==
  /\ stage = "built"
  /\ place[Base] # "stopped"
  /\ stage' = "started"
  /\ numLoops' = n
  /\ \/ /\ place[Base] \notin {"entered", "poll"}
        /\ listening' = TRUE
        /\ UNCHANGED queue
     \/ Push(Base, Functor("listen", None)) /\ UNCHANGED listening
  /\ UNCHANGED <<next, nextConnId, connections, sweep, asked, loopOf, connVars,
                 loopVars, hungUp>>

(* A loop's thread calls loop(), which overwrites quit_.                   *)
EnterLoop(l) ==
  /\ l \in Base .. numLoops
  /\ place[l] = "outside"
  /\ Goes(l, "entered")
  /\ quit' = [quit EXCEPT ![l] = FALSE]
  /\ UNCHANGED <<serverVars, connVars, active, closing, queue, batch, ran,
                 hungUp>>

(* Somebody calls quit() on the base loop.                                 *)
QuitBase ==
  /\ place[Base] \notin {"outside", "stopped"}
  /\ quit' = [quit EXCEPT ![Base] = TRUE]
  /\ UNCHANGED <<serverVars, connVars, place, active, closing, queue, batch,
                 ran, hungUp>>

-----------------------------------------------------------------------------
(* TcpConnection: the calls that begin and end its life.                   *)

(* In a callback the user may call shutdown(), which leaves kConnected.    *)
MayShutdown(s) == IF s = "kConnected" THEN {s, "kDisconnecting"} ELSE {s}

(* connectEstablished; the callback may shut down.                         *)
ConnectEstablished(c) ==
  /\ \E s \in MayShutdown("kConnected") : state' = [state EXCEPT ![c] = s]
  /\ watched' = watched \union {c}
  /\ told' = [told EXCEPT ![c] = Append(@, "up")]
  /\ UNCHANGED user

(* Faulty variant: channel_->remove() goes with disableAll().              *)
WithoutChannelIfConnected(c) ==
  IF state[c] = "kConnected" THEN watched \ {c} ELSE watched

(* channel_->remove(), which works on a disabled channel too.              *)
WithoutChannel(c) == watched \ {c}

(* Faulty variant: the connection callback is forgotten.                   *)
EndUntold(c) == told[c]

EndTold(c) == Append(told[c], "down")

(* connectDestoryed: "down" is told only to a connection in kConnected;    *)
(* the channel leaves the poller in any case.                              *)
ConnectDestoryed(c) ==
  /\ IF state[c] = "kConnected"
     THEN /\ state' = [state EXCEPT ![c] = "kDisconnected"]
          /\ told' = [told EXCEPT ![c] = EndTold(c)]
     ELSE UNCHANGED <<state, told>>
  /\ watched' = WithoutChannel(c)
  /\ UNCHANGED user

-----------------------------------------------------------------------------
(* Acceptor::handleRead and TcpServer::newConnection.                      *)

AcceptorActive ==
  /\ place[Base] = "dispatch"
  /\ Acceptor \in active[Base]
  /\ active' = [active EXCEPT ![Base] = @ \ {Acceptor}]

(* getNextLoop, the answer.                                                *)
NextLoop == IF numLoops = 0 THEN Base ELSE next + 1

(* Faulty variant: next_ wraps one loop early.                             *)
AdvancedEarly == IF next + 1 >= numLoops - 1 THEN 0 ELSE next + 1

(* Faulty variant: next_ is let run to loops_.size().                      *)
AdvancedLate == IF next + 1 > numLoops THEN 0 ELSE next + 1

(* getNextLoop, the turn.                                                  *)
Advanced == IF next + 1 >= numLoops THEN 0 ELSE next + 1

(* newConnection: the connection enters the map, and its establishment     *)
(* runs in its loop: at once in a server without threads.                  *)
NewConnection(c) ==
  /\ AcceptorActive
  /\ c = nextConnId
  /\ Cardinality(OpenFiles) < MaxFiles
  /\ next' = IF numLoops = 0 THEN next ELSE Advanced
  /\ nextConnId' = nextConnId + 1
  /\ loopOf' = [loopOf EXCEPT ![c] = NextLoop]
  /\ connections' = connections \union {c}
  /\ IF NextLoop = Base
     THEN ConnectEstablished(c) /\ UNCHANGED queue
     ELSE /\ Push(NextLoop, Functor("establish", c))
          /\ UNCHANGED connVars
  /\ UNCHANGED <<stage, listening, numLoops, sweep, asked, place, closing,
                 batch, ran, quit, hungUp>>

(* LOG_FATAL ends the process and all its threads.                         *)
LogFatal ==
  /\ stage' = "exited"
  /\ place' = [l \in Loops |-> "stopped"]

(* accept4 fails, here with EMFILE.                                        *)
AcceptFails ==
  /\ AcceptorActive
  /\ Cardinality(OpenFiles) >= MaxFiles
  /\ LogFatal
  /\ UNCHANGED <<listening, turnVars, connections, sweep, connVars, closing,
                 queue, batch, ran, quit, hungUp>>

-----------------------------------------------------------------------------
(* The loops.                                                              *)

(* channels_ of the loop's poller.                                         *)
ConnsOf(l) == {c \in watched : loopOf[c] = l}

(* What epoll still has of them: ~Socket closes the descriptor of a        *)
(* connection that goes, and the kernel forgets it.                        *)
Polled(l) == ConnsOf(l) \intersect OpenFiles

(* Channels whose event would have an effect here: a client to accept, a   *)
(* hang-up, a message while the message callback can still shut down.      *)
Reportable(l) ==
  {c \in Polled(l) : c \in hungUp \/ state[c] = "kConnected"}
    \union IF l = Base /\ listening /\ nextConnId \in Conns THEN {Acceptor} ELSE {}

(* epoll_wait: every hung-up connection of the loop is reported; a message *)
(* or a client may or may not have come.                                   *)
Poll(l) ==
  /\ place[l] = "poll"
  /\ \E ready \in SUBSET Reportable(l) :
       /\ Polled(l) \intersect hungUp \subseteq ready
       /\ active' = [active EXCEPT ![l] = ready]
  /\ Goes(l, "dispatch")
  /\ UNCHANGED <<serverVars, connVars, closing, queue, batch, ran, quit,
                 hungUp>>

(* handleEvent of a connection's channel begins.                           *)
Dispatches(l, c) ==
  /\ place[l] = "dispatch"
  /\ c \in active[l] \ {Acceptor}
  /\ active' = [active EXCEPT ![l] = @ \ {c}]

(* handleRead with data: the message callback may shut down.               *)
HandleMessage(l, c) ==
  /\ Dispatches(l, c)
  /\ c \notin hungUp
  /\ \E s \in MayShutdown(state[c]) : state' = [state EXCEPT ![c] = s]
  /\ UNCHANGED <<serverVars, watched, told, user, place, closing, queue, batch,
                 ran, quit, hungUp>>

(* Faulty variant: handleClose leaves state_ to connectDestoryed.          *)
ClosedStateKept(c) == state[c]

ClosedState(c) == "kDisconnected"

(* handleClose up to the connection callback; connPtr holds on.            *)
HandleClose(l, c) ==
  /\ Dispatches(l, c)
  /\ c \in hungUp
  /\ state' = [state EXCEPT ![c] = ClosedState(c)]
  /\ watched' = watched \ {c}
  /\ told' = [told EXCEPT ![c] = Append(@, "down")]
  /\ closing' = [closing EXCEPT ![l] = c]
  /\ Goes(l, "close")
  /\ UNCHANGED <<serverVars, user, queue, batch, ran, quit, hungUp>>

(* Faulty variant: the map is left alone.                                  *)
NotErased(c) == connections

Erased(c) == connections \ {c}

RemoveConnectionInLoop(c) ==
  /\ connections' = Erased(c)
  /\ Push(loopOf[c], Functor("destroy", c))

(* closeCallback_, the TcpServer's removeConnection; handleEvent returns.  *)
CloseCallback(l) ==
  /\ place[l] = "close"
  /\ IF l = Base
     THEN RemoveConnectionInLoop(closing[l])
     ELSE /\ Push(Base, Functor("remove", closing[l]))
          /\ UNCHANGED connections
  /\ closing' = [closing EXCEPT ![l] = None]
  /\ Goes(l, "dispatch")
  /\ UNCHANGED <<stage, listening, turnVars, sweep, connVars, active, batch,
                 ran, quit, hungUp>>

SwapPending(l) ==
  /\ place[l] = "dispatch"
  /\ active[l] = {}
  /\ batch' = [batch EXCEPT ![l] = queue[l]]
  /\ queue' = [queue EXCEPT ![l] = << >>]
  /\ Goes(l, "batch")
  /\ UNCHANGED <<serverVars, connVars, active, closing, ran, quit, hungUp>>

(* The next functor of the batch is a call of op on c.                     *)
Calls(l, op, c) ==
  /\ place[l] = "batch"
  /\ ran[l] < Len(batch[l])
  /\ batch[l][ran[l] + 1] = Functor(op, c)
  /\ ran' = [ran EXCEPT ![l] = @ + 1]
  /\ UNCHANGED <<stage, turnVars, sweep, place, active, closing, batch, quit,
                 hungUp>>

RunEstablish(l, c) ==
  /\ Calls(l, "establish", c)
  /\ ConnectEstablished(c)
  /\ UNCHANGED <<queue, connections, listening>>

RunDestroy(l, c) ==
  /\ Calls(l, "destroy", c)
  /\ ConnectDestoryed(c)
  /\ UNCHANGED <<queue, connections, listening>>

RunRemove(l, c) ==
  /\ Calls(l, "remove", c)
  /\ RemoveConnectionInLoop(c)
  /\ UNCHANGED <<connVars, listening>>

(* Acceptor::listen: listen(2) and enableReading.                          *)
RunListen(l) ==
  /\ Calls(l, "listen", None)
  /\ listening' = TRUE
  /\ UNCHANGED <<connVars, queue, connections>>

(* A shutdown() on another thread has stored kDisconnecting and its        *)
(* shutdownInLoop has not run.                                             *)
ShutdownPending(c) ==
  \/ user[c] = "shutting"
  \/ \E l \in Loops :
       \/ \E i \in 1 .. Len(queue[l]) : queue[l][i] = Functor("shutdown", c)
       \/ \E i \in ran[l] + 1 .. Len(batch[l]) :
            batch[l][i] = Functor("shutdown", c)

(* The functors with a raw this.  sendInLoop gives up in kDisconnected;    *)
(* else bytes the kernel does not take make it enableWriting, which puts a *)
(* removed channel back into the poller.  In kConnected the channel is     *)
(* there; once shutdownInLoop has run, either the write fails or           *)
(* isWriting() holds, and nothing is enabled.                              *)
RunRaw(l, c) ==
  \E op \in {"send", "shutdown"} :
    /\ Calls(l, op, c)
    /\ \/ UNCHANGED watched
       \/ /\ op = "send" /\ Alive(c)
          /\ state[c] = "kDisconnecting" /\ ShutdownPending(c)
          /\ watched' = watched \union {c}
    /\ UNCHANGED <<state, told, user, queue, connections, listening>>

(* On a connection that is gone, whatever state_ reads in the freed memory,*)
(* the enableWriting may be an epoll_ctl of a closed descriptor: LOG_FATAL.*)
RunRawFreed(l, c) ==
  /\ place[l] = "batch"
  /\ ran[l] < Len(batch[l])
  /\ batch[l][ran[l] + 1] = Functor("send", c)
  /\ ~Alive(c)
  /\ LogFatal
  /\ UNCHANGED <<listening, turnVars, connections, sweep, connVars, active,
                 closing, queue, batch, ran, quit, hungUp>>

(* while(!quit_).  A worker that leaves loop() returns from threadFunc:    *)
(* the EventLoop on its stack goes, with its poller and the functors it    *)
(* never ran.                                                              *)
TestsQuit(l) ==
  /\ Goes(l, IF quit[l] THEN "stopped" ELSE "poll")
  /\ IF quit[l] /\ l # Base
     THEN /\ queue' = [queue EXCEPT ![l] = << >>]
          /\ watched' = watched \ ConnsOf(l)
     ELSE UNCHANGED <<queue, watched>>
  /\ UNCHANGED <<serverVars, state, told, user, active, closing, quit, hungUp>>

(* The test of a loop that has just been entered.                          *)
FirstTest(l) ==
  /\ place[l] = "entered"
  /\ TestsQuit(l)
  /\ UNCHANGED <<batch, ran>>

(* The local vector and the references in its functors go; the next test.  *)
FinishBatch(l) ==
  /\ place[l] = "batch"
  /\ ran[l] = Len(batch[l])
  /\ batch' = [batch EXCEPT ![l] = << >>]
  /\ ran' = [ran EXCEPT ![l] = 0]
  /\ TestsQuit(l)

-----------------------------------------------------------------------------
(* ~TcpServer, on the base loop's thread after loop() has returned.        *)

BeginDestroy ==
  /\ place[Base] = "stopped"
  /\ stage \in {"built", "started"}
  /\ stage' = "destroying"
  /\ sweep' = connections
  /\ UNCHANGED <<listening, turnVars, connections, connVars, loopVars, queue,
                 hungUp>>

(* One item: connectDestoryed in the connection's loop.  item is a copy,   *)
(* so the map keeps its reference.                                         *)
DestroyConnection(c) ==
  /\ stage = "destroying"
  /\ c \in sweep
  /\ sweep' = sweep \ {c}
  /\ IF loopOf[c] = Base
     THEN ConnectDestoryed(c) /\ UNCHANGED queue
     ELSE Push(loopOf[c], Functor("destroy", c)) /\ UNCHANGED connVars
  /\ UNCHANGED <<stage, listening, turnVars, connections, loopVars, hungUp>>

(* Faulty variant: the body waits for removeConnectionInLoop to have       *)
(* emptied the map, as its comment says happens.                           *)
SweptAndErased == sweep = {} /\ connections = {}

Swept == sweep = {}

(* The body is done and connections_ is destroyed.                         *)
DropMap ==
  /\ stage = "destroying"
  /\ Swept
  /\ connections' = {}
  /\ stage' = "joining"
  /\ UNCHANGED <<listening, turnVars, sweep, connVars, loopVars, queue,
                 hungUp>>

Joined(l) == place[l] = "stopped"

(* threadPool_ is destroyed: each thread's loop is quit, once, the threads *)
(* before it having been joined.                                           *)
QuitWorker(l) ==
  /\ stage = "joining"
  /\ l \in 1 .. numLoops \ asked
  /\ \A k \in 1 .. l - 1 : Joined(k)
  /\ asked' = asked \union {l}
  /\ quit' = [quit EXCEPT ![l] = TRUE]
  /\ UNCHANGED <<stage, listening, numLoops, next, nextConnId, connections,
                 sweep, loopOf, connVars, place, active, closing, queue, batch,
                 ran, hungUp>>

(* Faulty variant: the threads are told to quit but not joined.            *)
PoolToldToQuit == 1 .. numLoops \subseteq asked

PoolGone == \A l \in 1 .. numLoops : Joined(l)

(* ~Acceptor, and the TcpServer is gone.                                   *)
CloseAcceptor ==
  /\ stage = "joining"
  /\ PoolGone
  /\ listening' = FALSE
  /\ stage' = "gone"
  /\ UNCHANGED <<turnVars, connections, sweep, connVars, loopVars, queue,
                 hungUp>>

(* The base EventLoop is destroyed, with the functors it never ran.        *)
DestroyBaseLoop ==
  /\ stage = "gone"
  /\ stage' = "over"
  /\ queue' = [queue EXCEPT ![Base] = << >>]
  /\ watched' = watched \ ConnsOf(Base)
  /\ UNCHANGED <<listening, turnVars, connections, sweep, state, told, user,
                 loopVars, hungUp>>

-----------------------------------------------------------------------------
(* The surroundings.                                                       *)

(* The end of the peer's stream, or its hang-up, is what c's loop sees of  *)
(* the socket next.                                                        *)
PeerCloses(c) ==
  /\ c \in OpenFiles \ hungUp
  /\ hungUp' = hungUp \union {c}
  /\ UNCHANGED <<serverVars, connVars, loopVars, queue>>

(* Other threads of the user's, to which a callback has given the pointer. *)
UserGoes(c, from, to) ==
  /\ stage # "exited"
  /\ user[c] = from
  /\ user' = [user EXCEPT ![c] = to]
  /\ UNCHANGED <<serverVars, watched, told, loopVars, hungUp>>

UserTakes(c) ==
  /\ UserGoes(c, "none", "holds")
  /\ told[c] # << >> /\ Alive(c)
  /\ UNCHANGED <<state, queue>>

(* send(): the test of state_ ...                                          *)
UserSends(c) ==
  /\ UserGoes(c, "holds", "sending")
  /\ state[c] = "kConnected"
  /\ UNCHANGED <<state, queue>>

(* ... shutdown(): its test and store ...                                  *)
UserShutsDown(c) ==
  /\ UserGoes(c, "holds", "shutting")
  /\ state[c] = "kConnected"
  /\ state' = [state EXCEPT ![c] = "kDisconnecting"]
  /\ UNCHANGED queue

(* ... and the push of the functor with the raw this.                      *)
UserPushes(c) ==
  /\ \/ UserGoes(c, "sending", "holds") /\ Push(loopOf[c], Functor("send", c))
     \/ UserGoes(c, "shutting", "holds") /\ Push(loopOf[c], Functor("shutdown", c))
  /\ UNCHANGED state

UserReleases(c) ==
  /\ UserGoes(c, "holds", "none")
  /\ UNCHANGED <<state, queue>>

-----------------------------------------------------------------------------
LoopStep(l) ==
  \/ Poll(l) \/ CloseCallback(l)
  \/ SwapPending(l) \/ RunListen(l) \/ FinishBatch(l) \/ FirstTest(l)
  \/ \E c \in Conns :
       \/ HandleMessage(l, c) \/ HandleClose(l, c)
       \/ RunEstablish(l, c) \/ RunDestroy(l, c) \/ RunRemove(l, c)

Accepts == AcceptFails \/ \E c \in Conns : NewConnection(c)

Destruction ==
  \/ BeginDestroy \/ DropMap \/ CloseAcceptor \/ DestroyBaseLoop
  \/ \E c \in Conns : DestroyConnection(c)
  \/ \E l \in Workers : QuitWorker(l)

Next ==
  \/ \E n \in 0 .. MaxThreads : Start(n)
  \/ QuitBase
  \/ \E l \in Loops : EnterLoop(l) \/ LoopStep(l)
  \/ Accepts
  \/ Destruction
  \/ \E c \in Conns : PeerCloses(c)

SafeSpec == Init /\ [][Next]_vars

(* Every thread of the pool is scheduled, into loop() and through it, and  *)
(* so is the base loop's once its owner has called loop(); epoll_wait      *)
(* returns; the base loop's thread goes on after loop().  Nobody need      *)
(* start the server, call or quit the base loop, connect or hang up.       *)
Spec ==
  /\ SafeSpec
  /\ \A l \in Workers : WF_vars(EnterLoop(l) \/ LoopStep(l))
  /\ WF_vars(LoopStep(Base) \/ Accepts)
  /\ WF_vars(Destruction)

(* With send() and shutdown() called from threads other than the loop's,   *)
(* which the functors with a raw this are for.                             *)
SharedNext ==
  \/ Next
  \/ \E l \in Loops, c \in Conns : RunRaw(l, c) \/ RunRawFreed(l, c)
  \/ \E c \in Conns : \/ UserTakes(c) \/ UserSends(c) \/ UserShutsDown(c)
                      \/ UserPushes(c) \/ UserReleases(c)

SharedSpec == Init /\ [][SharedNext]_vars

-----------------------------------------------------------------------------
(* Safety *)

(* The round robin: any numLoops connections accepted in a row are given   *)
(* to different loops.                                                     *)
FairTurns ==
  \A c, d \in Conns :
    c < d /\ d < nextConnId /\ d - c < numLoops => loopOf[c] # loopOf[d]

(* handleEvent is only called on the channel of a connection that lives:   *)
(* channel_ is a member of the connection, so the weak pointer tie_ can    *)
(* not protect a channel whose connection goes between poll and dispatch.  *)
HandlesLiveOnly ==
  \A l \in Loops : place[l] # "stopped" =>
    \A c \in active[l] \ {Acceptor} : Alive(c)

(* A connection is not let go of before its channel has left its loop's    *)
(* poller, whichever loop, functor or destructor has the last reference:   *)
(* channels_ holds no pointer to a channel that is gone.                   *)
LeavesPollerFirst ==
  \A l \in Loops : place[l] # "stopped" => \A c \in ConnsOf(l) : Alive(c)

(* The raw TcpServer bound in closeCallback_ and removeConnectionInLoop is *)
(* there when they are called.                                             *)
ServerUsedAlive ==
  /\ \A l \in Loops : place[l] = "close" => ServerLives
  /\ \A i \in 1 .. Len(batch[Base]) :
       batch[Base][i].op = "remove" => ServerLives

(* Whom the user is not told the end of: a connection freed while it       *)
(* counts as up was being shut down when the server was destroyed, or its  *)
(* loop quit with its connectDestoryed still queued.                       *)
LeftUntold(c) ==
  \/ state[c] = "kDisconnecting"
  \/ \E l \in Workers : place[l] # "stopped" /\ place'[l] = "stopped"
                        /\ \E i \in 1 .. Len(queue[l]) :
                             queue[l][i] = Functor("destroy", c)

DownUnlessLeft ==
  [][\A c \in Conns :
       told[c] = << "up" >> /\ Alive(c) /\ ~Alive(c)' => LeftUntold(c)]_vars

(* The abstract life of a connection.                                      *)
LifeOf(c) ==
  IF c >= nextConnId THEN "none"
  ELSE IF stage = "exited" \/ ~Alive(c) THEN "freed"
  ELSE IF told[c] = << >> THEN "accepted"
  ELSE IF told[c] = << "up" >> THEN "up"
  ELSE IF told[c] = << "up", "down" >> THEN "down" ELSE "told too often"

Life == INSTANCE ConnectionLife
          WITH life <- [c \in Conns |-> LifeOf(c)],
               closing <- stage \notin {"built", "started"}

(* The server keeps the promise about its connections' lives.              *)
ImplementsConnectionLife == Life!SafeSpec

(* Liveness *)

(* loop() has overwritten the quit() of ~EventLoopThread, which came       *)
(* between the publication of the loop and the thread's entry into loop(): *)
(* the thread will never be joined.  Once true it stays true.              *)
QuitLost == \E l \in asked : ~quit[l]

(* A peer's close takes the connection out of both loops and gives its     *)
(* descriptor back, if ~TcpServer is not caught in a join.                 *)
PeerCloseFrees ==
  \A c \in Conns : c \in hungUp ~> (stage = "exited" \/ ~Alive(c) \/ QuitLost)

(* ~TcpServer and then the base loop's destructor come to an end, whatever *)
(* the io loops are doing, unless a quit() has been lost.                  *)
DestructionEnds == (stage = "destroying") ~> (stage = "over" \/ QuitLost)
=============================================================================
