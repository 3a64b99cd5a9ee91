--------------------------- MODULE TcpConnection ---------------------------
(***************************************************************************)
(* One TcpConnection, from its connectEstablished to its connectDestoryed  *)
(* (TcpConnection.cc), on the loop of its own thread.                      *)
(*                                                                         *)
(* The loop's thread runs the callbacks of the connection's channel, the   *)
(* functors of the loop, and the user's code, inside the connection's      *)
(* callbacks or anyone else's on that loop.  Senders and Closers are other *)
(* threads that call send() and shutdown(); of what they do only the read  *)
(* and the write of state_ and the push of a functor are seen by the loop. *)
(* The loop is what TaskQueue promises, the channel's registration what    *)
(* Poller shows of index_; the peer and the kernel's socket are environment*)
(* (a write on a broken socket fails with EPIPE or ECONNRESET; the process *)
(* is taken to ignore SIGPIPE, or it would not live to see EPIPE).         *)
(***************************************************************************)
EXTENDS Naturals, Sequences

CONSTANTS
  Messages,         \* strings; each is given to send() at most once
  Garbage,          \* what is read through a pointer to a string that is gone
  Senders,          \* other threads that call send()
  Closers           \* other threads that call shutdown()

ASSUME GarbageAssumption == Garbage \notin Messages

Size == 2                           \* the length of every message (a bound)
Units == (Messages \union {Garbage}) \X (1 .. Size)
Others == Senders \union Closers

VARIABLES
  state,            \* state_
  events,           \* channel_'s events_
  index,            \* channel_'s index_: epoll knows the fd iff "kAdded"
  out,              \* outputBuffer_
  tasks,            \* the loop's functors, oldest first
  todo,             \* callbacks of the handleEvent in progress, in order
  user,             \* the callback whose user code is running, or "none"
  call,             \* per other thread: the call it is inside of
  submitted,        \* history: messages given to send()
  gone,             \* messages whose string the caller has destroyed
  peer,             \* the other end: "open", "fin" (closed) or "reset"
  inbound,          \* the socket has unread data
  soError,          \* the socket has a pending error
  wrShut,           \* shutdown(SHUT_WR) was called
  wire,             \* history: what the kernel has accepted, in order
  accepted,         \* history: what sendInLoop has not refused, in order
  downs,            \* history: connectionCallback_ calls that said "down"
  revived,          \* history: a shutdown() took state_ out of kDisconnected
  removing,         \* removeConnectionInLoop functors on the base loop
  serverUp,         \* ~TcpServer has not run
  destroyed         \* connectDestoryed has run to its end

channel == <<events, index>>
socket == <<peer, inbound, soError, wrShut>>
history == <<submitted, downs, revived>>
stream == <<out, wire, accepted>>
base == <<removing, serverUp, destroyed>>
vars == <<state, channel, stream, tasks, todo, user, call, gone, socket,
          history, base>>

States == {"kDisconnected", "kConnecting", "kConnected", "kDisconnecting"}
Functors == {"connectEstablished", "sendInLoop", "shutdownInLoop",
             "writeComplete", "highWaterMark", "connectDestoryed"}
Callbacks == {"close", "error", "read", "write"}
Tasks == [fn : Functors, msg : Messages \union {Garbage}]
Idle == [at |-> "outside", msg |-> Garbage]

Task(name) == [fn |-> name, msg |-> Garbage]

(* The types, and that every functor and callback there is has a name the  *)
(* loop knows.                                                             *)
TypeOK ==
  /\ state \in States
  /\ events \subseteq {"read", "write"}
  /\ index \in {"kNew", "kAdded", "kDeleted"}
  /\ out \in Seq(Units) /\ wire \in Seq(Units) /\ accepted \in Seq(Units)
  /\ tasks \in Seq(Tasks)
  /\ todo \in Seq(Callbacks)
  /\ user \in {"none", "up", "message", "functor", "down", "last"}
  /\ call \in [Others -> [at : {"outside", "sending", "shutting", "stored"},
                         msg : Messages \union {Garbage}]]
  /\ submitted \subseteq Messages /\ gone \subseteq Messages
  /\ peer \in {"open", "fin", "reset"}
  /\ {inbound, soError, wrShut, revived, serverUp, destroyed} \subseteq BOOLEAN
  /\ downs \in Nat /\ removing \in Nat

(* TcpServer::newConnection has built the connection, put it in its map    *)
(* and handed connectEstablished to the loop.                              *)
Init ==
  /\ state = "kConnecting"
  /\ events = {} /\ index = "kNew"
  /\ out = << >> /\ wire = << >> /\ accepted = << >>
  /\ tasks = << Task("connectEstablished") >>
  /\ todo = << >> /\ user = "none"
  /\ call = [t \in Others |-> Idle]
  /\ submitted = {} /\ gone = {}
  /\ peer = "open" /\ inbound = FALSE /\ soError = FALSE /\ wrShut = FALSE
  /\ downs = 0 /\ revived = FALSE
  /\ removing = 0 /\ serverUp = TRUE /\ destroyed = FALSE

-----------------------------------------------------------------------------
(* Channel and Socket, as the connection uses them.                        *)

IsWriting == "write" \in events

(* events_ becomes wanted and EPollPoller::updateChannel follows.          *)
Update(wanted) ==
  /\ events' = wanted
  /\ index' = IF index = "kAdded" /\ wanted = {} THEN "kDeleted" ELSE "kAdded"

Broken == wrShut \/ peer = "reset"

UnitsOf(m) == [i \in 1 .. Size |-> <<m, i>>]

(* Faulty variant: a functor bound to a callback nobody has set.           *)
PushedEmpty(queue, name) == Append(queue, [fn |-> "empty", msg |-> Garbage])

Pushed(queue, name) == Append(queue, Task(name))

-----------------------------------------------------------------------------
(* sendInLoop, with rest the loop's functors apart from this one.          *)

(* Faulty variant: what waits in outputBuffer_ is not looked at.           *)
DirectWriteAlways == TRUE

DirectWrite == ~IsWriting /\ out = << >>

GivesUp(rest) ==
  /\ state = "kDisconnected"
  /\ tasks' = rest
  /\ UNCHANGED <<stream, channel, soError>>

WriteFails(rest) ==
  /\ DirectWrite /\ Broken
  /\ soError' = FALSE
  /\ tasks' = rest
  /\ UNCHANGED <<stream, channel>>

WriteWhole(data, rest) ==
  /\ DirectWrite /\ ~Broken
  /\ wire' = wire \o data
  /\ accepted' = accepted \o data
  /\ tasks' = Pushed(rest, "writeComplete")
  /\ UNCHANGED <<out, channel, soError>>

(* Faulty variant: nobody asks for EPOLLOUT.                               *)
KeepSilently(data, n, rest) ==
  /\ wire' = wire \o SubSeq(data, 1, n)
  /\ out' = out \o SubSeq(data, n + 1, Len(data))
  /\ accepted' = accepted \o data
  /\ tasks' \in {rest, Pushed(rest, "highWaterMark")}
  /\ UNCHANGED <<channel, soError>>

(* The first n units are written and the others wait for EPOLLOUT; n is 0  *)
(* too when the socket is full, or when ::write was not tried.  Whether    *)
(* the high-water mark is met is left open.                                *)
Keep(data, n, rest) ==
  /\ wire' = wire \o SubSeq(data, 1, n)
  /\ out' = out \o SubSeq(data, n + 1, Len(data))
  /\ accepted' = accepted \o data
  /\ tasks' \in {rest, Pushed(rest, "highWaterMark")}
  /\ IF IsWriting THEN UNCHANGED channel ELSE Update(events \union {"write"})
  /\ UNCHANGED soError

WritePart(data, rest) ==
  /\ DirectWrite /\ ~Broken
  /\ \E n \in 0 .. Len(data) - 1 : Keep(data, n, rest)

Buffered(data, rest) == ~DirectWrite /\ Keep(data, 0, rest)

SendInLoop(data, rest) ==
  \/ GivesUp(rest)
  \/ /\ state # "kDisconnected"
     /\ \/ WriteFails(rest)
        \/ WriteWhole(data, rest)
        \/ WritePart(data, rest)
        \/ Buffered(data, rest)

(* Faulty variant: the half-close does not wait for outputBuffer_.         *)
ShutdownInLoopAtOnce == wrShut' = TRUE

ShutdownInLoop == wrShut' = (wrShut \/ ~IsWriting)

-----------------------------------------------------------------------------
(* The user's code on the loop's thread: in one of the connection's own    *)
(* callbacks, or, between two of the loop's steps, in somebody else's.     *)

UserCode == user # "none" \/ todo = << >>

OwnerSend(m) ==
  /\ UserCode
  /\ state = "kConnected"
  /\ m \notin submitted
  /\ submitted' = submitted \union {m}
  /\ SendInLoop(UnitsOf(m), tasks)
  /\ UNCHANGED <<state, todo, user, call, gone, peer, inbound, wrShut, downs,
                 revived, base>>

OwnerShutdown ==
  /\ UserCode
  /\ state = "kConnected"
  /\ state' = "kDisconnecting"
  /\ ShutdownInLoop
  /\ UNCHANGED <<channel, stream, tasks, todo, user, call, gone, peer,
                 inbound, soError, history, base>>

(* A callback's user code returns: after "down" handleClose goes on to     *)
(* closeCallback_, TcpServer::removeConnection; after "last" connect-      *)
(* Destoryed goes on to channel_->remove().                                *)
UserReturns ==
  /\ user # "none"
  /\ user' = "none"
  /\ removing' = IF user = "down" THEN removing + 1 ELSE removing
  /\ destroyed' = (destroyed \/ user = "last")
  /\ index' = IF user = "last" THEN "kNew" ELSE index
  /\ UNCHANGED <<state, events, stream, tasks, todo, call, gone, socket,
                 history, serverUp>>

-----------------------------------------------------------------------------
(* Calls from other threads.                                               *)

SendChecked(t, m) ==
  /\ t \in Senders
  /\ call[t] = Idle
  /\ state = "kConnected"
  /\ m \notin submitted
  /\ submitted' = submitted \union {m}
  /\ call' = [call EXCEPT ![t] = [at |-> "sending", msg |-> m]]
  /\ UNCHANGED <<state, channel, stream, tasks, todo, user, gone, socket,
                 downs, revived, base>>

(* The functor holds the address of the caller's characters, not a copy.   *)
SendQueued(t) ==
  /\ call[t].at = "sending"
  /\ tasks' = Append(tasks, [fn |-> "sendInLoop", msg |-> call[t].msg])
  /\ call' = [call EXCEPT ![t] = Idle]
  /\ UNCHANGED <<state, channel, stream, todo, user, gone, socket, history,
                 base>>

(* Once send() has returned the caller may destroy its string, before the  *)
(* functor has read it.                                                    *)
StringDestroyed(m) ==
  /\ m \notin gone
  /\ \E i \in 1 .. Len(tasks) : tasks[i] = [fn |-> "sendInLoop", msg |-> m]
  /\ gone' = gone \union {m}
  /\ UNCHANGED <<state, channel, stream, tasks, todo, user, call, socket,
                 history, base>>

ShutdownChecked(t) ==
  /\ t \in Closers
  /\ call[t] = Idle
  /\ state = "kConnected"
  /\ call' = [call EXCEPT ![t] = [at |-> "shutting", msg |-> Garbage]]
  /\ UNCHANGED <<state, channel, stream, tasks, todo, user, gone, socket,
                 history, base>>

ShutdownStored(t) ==
  /\ call[t].at = "shutting"
  /\ state' = "kDisconnecting"
  /\ revived' = (revived \/ state = "kDisconnected")
  /\ call' = [call EXCEPT ![t] = [at |-> "stored", msg |-> Garbage]]
  /\ UNCHANGED <<channel, stream, tasks, todo, user, gone, socket, submitted,
                 downs, base>>

ShutdownQueued(t) ==
  /\ call[t].at = "stored"
  /\ tasks' = Pushed(tasks, "shutdownInLoop")
  /\ call' = [call EXCEPT ![t] = Idle]
  /\ UNCHANGED <<state, channel, stream, todo, user, gone, socket, history,
                 base>>

-----------------------------------------------------------------------------
(* Channel::handleEvent on the loop's thread.                              *)

LoopIdle == todo = << >> /\ user = "none"

EpollIn == "read" \in events /\ (inbound \/ peer # "open")
EpollHup == peer = "reset" \/ (peer = "fin" /\ wrShut)
EpollErr == peer = "reset" /\ soError

(* Faulty variant: a hang-up closes even if there is something to read.    *)
ReportedHupFirst(writable) ==
  (IF EpollHup THEN << "close" >> ELSE << >>) \o
  (IF EpollErr THEN << "error" >> ELSE << >>) \o
  (IF EpollIn THEN << "read" >> ELSE << >>) \o
  (IF writable THEN << "write" >> ELSE << >>)

(* Which callbacks run, in the order of handleEventWithGuard.  EPOLLPRI is *)
(* not told from EPOLLIN.                                                  *)
Reported(writable) ==
  (IF EpollHup /\ ~EpollIn THEN << "close" >> ELSE << >>) \o
  (IF EpollErr THEN << "error" >> ELSE << >>) \o
  (IF EpollIn THEN << "read" >> ELSE << >>) \o
  (IF writable THEN << "write" >> ELSE << >>)

PolledEvents(writable) ==
  /\ LoopIdle
  /\ index = "kAdded"
  /\ writable => IsWriting
  /\ todo' = Reported(writable)
  /\ todo' # << >>
  /\ UNCHANGED <<state, channel, stream, tasks, user, call, gone, socket,
                 history, base>>

HandleEvent == \E writable \in BOOLEAN : PolledEvents(writable)

Callback(name) ==
  /\ user = "none"
  /\ todo # << >>
  /\ Head(todo) = name
  /\ todo' = Tail(todo)

(* Faulty variant: the channel stays registered.                           *)
HandleCloseEnabled ==
  /\ state' = "kDisconnected"
  /\ user' = "down"
  /\ downs' = downs + 1
  /\ UNCHANGED channel

HandleClose ==
  /\ state' = "kDisconnected"
  /\ Update({})
  /\ downs' = downs + 1
  /\ user' = "down"

CloseEvent ==
  /\ Callback("close")
  /\ HandleClose
  /\ UNCHANGED <<stream, tasks, call, gone, socket, submitted, revived,
                 base>>

ErrorEvent ==
  /\ Callback("error")
  /\ soError' = FALSE
  /\ UNCHANGED <<state, channel, stream, tasks, user, call, gone, peer,
                 inbound, wrShut, history, base>>

(* readFd returned data, 0, or an error.                                   *)
ReadData ==
  /\ Callback("read")
  /\ inbound
  /\ inbound' = FALSE
  /\ user' = "message"
  /\ UNCHANGED <<state, channel, stream, tasks, call, gone, peer, soError,
                 wrShut, history, base>>

(* Faulty variant: an end of file is not a close.                          *)
ReadEndIgnored ==
  /\ Callback("read")
  /\ ~inbound /\ ~soError
  /\ UNCHANGED <<state, channel, stream, tasks, user, call, gone, socket,
                 history, base>>

ReadEnd ==
  /\ Callback("read")
  /\ ~inbound /\ ~soError
  /\ HandleClose
  /\ UNCHANGED <<stream, tasks, call, gone, socket, submitted, revived,
                 base>>

ReadError ==
  /\ Callback("read")
  /\ ~inbound /\ soError
  /\ soError' = FALSE
  /\ UNCHANGED <<state, channel, stream, tasks, user, call, gone, peer,
                 inbound, wrShut, history, base>>

(* Faulty variant: the drained buffer does not remember the shutdown().    *)
WriteSomeOnly(n) ==
  /\ Callback("write")
  /\ IsWriting /\ ~Broken
  /\ wire' = wire \o SubSeq(out, 1, n)
  /\ out' = SubSeq(out, n + 1, Len(out))
  /\ IF n < Len(out)
     THEN UNCHANGED <<channel, tasks>>
     ELSE Update(events \ {"write"}) /\ tasks' = Pushed(tasks, "writeComplete")
  /\ UNCHANGED <<state, accepted, user, call, gone, socket, history, base>>

(* handleWrite: n > 0 units leave outputBuffer_.                           *)
WriteSome(n) ==
  /\ Callback("write")
  /\ IsWriting /\ ~Broken
  /\ wire' = wire \o SubSeq(out, 1, n)
  /\ out' = SubSeq(out, n + 1, Len(out))
  /\ IF n < Len(out)
     THEN UNCHANGED <<channel, tasks, wrShut>>
     ELSE /\ Update(events \ {"write"})
          /\ tasks' = Pushed(tasks, "writeComplete")
          /\ wrShut' = (wrShut \/ state = "kDisconnecting")
  /\ UNCHANGED <<state, accepted, user, call, gone, peer, inbound, soError,
                 history, base>>

(* handleWrite after a close in the same handleEvent, or ::write failed.   *)
WriteNothing ==
  /\ Callback("write")
  /\ ~IsWriting \/ Broken
  /\ soError' = (soError /\ ~IsWriting)
  /\ UNCHANGED <<state, channel, stream, tasks, user, call, gone, peer,
                 inbound, wrShut, history, base>>

HandleWrite == WriteNothing \/ \E n \in 1 .. Len(out) : WriteSome(n)

-----------------------------------------------------------------------------
(* The loop's functors.                                                    *)

Functor(name) ==
  /\ LoopIdle
  /\ tasks # << >>
  /\ Head(tasks).fn = name

ConnectEstablished ==
  /\ Functor("connectEstablished")
  /\ tasks' = Tail(tasks)
  /\ state' = "kConnected"
  /\ Update(events \union {"read"})
  /\ user' = "up"
  /\ UNCHANGED <<stream, todo, call, gone, socket, history, base>>

(* The characters are read now; if the string is gone they can be anything.*)
RunSendInLoop ==
  /\ Functor("sendInLoop")
  /\ LET m == Head(tasks).msg
     IN  \E data \in {UnitsOf(m)} \union
                     (IF m \in gone THEN {UnitsOf(Garbage)} ELSE {}) :
           SendInLoop(data, Tail(tasks))
  /\ UNCHANGED <<state, todo, user, call, gone, peer, inbound, wrShut,
                 history, base>>

RunShutdownInLoop ==
  /\ Functor("shutdownInLoop")
  /\ tasks' = Tail(tasks)
  /\ ShutdownInLoop
  /\ UNCHANGED <<state, channel, stream, todo, user, call, gone, peer,
                 inbound, soError, history, base>>

(* writeCompleteCallback_ and highWaterMarkCallback_ are the user's.       *)
RunUserFunctor ==
  /\ Functor("writeComplete") \/ Functor("highWaterMark")
  /\ tasks' = Tail(tasks)
  /\ user' = "functor"
  /\ UNCHANGED <<state, channel, stream, todo, call, gone, socket, history,
                 base>>

ConnectDestoryed ==
  /\ Functor("connectDestoryed")
  /\ tasks' = Tail(tasks)
  /\ \/ /\ state = "kConnected"
        /\ state' = "kDisconnected"
        /\ Update({})
        /\ downs' = downs + 1
        /\ user' = "last"
        /\ UNCHANGED destroyed
     \/ /\ state # "kConnected"
        /\ index' = "kNew"
        /\ destroyed' = TRUE
        /\ UNCHANGED <<state, events, downs, user>>
  /\ UNCHANGED <<stream, todo, call, gone, socket, submitted, revived,
                 removing, serverUp>>

RunFunctor == \/ ConnectEstablished
              \/ RunSendInLoop
              \/ RunShutdownInLoop
              \/ RunUserFunctor
              \/ ConnectDestoryed

-----------------------------------------------------------------------------
(* TcpServer on the base loop, and the other end.                          *)

RemoveConnectionInLoop ==
  /\ serverUp
  /\ removing > 0
  /\ removing' = removing - 1
  /\ tasks' = Pushed(tasks, "connectDestoryed")
  /\ UNCHANGED <<state, channel, stream, todo, user, call, gone, socket,
                 history, serverUp, destroyed>>

(* ~TcpServer, with the connection still in its map.                       *)
ServerDestroyed ==
  /\ serverUp
  /\ \A i \in 1 .. Len(tasks) : tasks[i].fn # "connectDestoryed"
  /\ ~destroyed /\ user # "last"
  /\ serverUp' = FALSE
  /\ tasks' = Pushed(tasks, "connectDestoryed")
  /\ UNCHANGED <<state, channel, stream, todo, user, call, gone, socket,
                 history, removing, destroyed>>

PeerSends ==
  /\ peer = "open"
  /\ ~inbound
  /\ inbound' = TRUE
  /\ UNCHANGED <<state, channel, stream, tasks, todo, user, call, gone, peer,
                 soError, wrShut, history, base>>

PeerCloses ==
  /\ peer = "open"
  /\ peer' = "fin"
  /\ UNCHANGED <<state, channel, stream, tasks, todo, user, call, gone,
                 inbound, soError, wrShut, history, base>>

PeerResets ==
  /\ peer # "reset"
  /\ peer' = "reset"
  /\ soError' = TRUE
  /\ UNCHANGED <<state, channel, stream, tasks, todo, user, call, gone,
                 inbound, wrShut, history, base>>

-----------------------------------------------------------------------------
LoopCallback == \/ CloseEvent
                \/ ErrorEvent
                \/ ReadData
                \/ ReadEnd
                \/ ReadError
                \/ HandleWrite

ForeignCall(t) == SendQueued(t) \/ ShutdownStored(t) \/ ShutdownQueued(t)

Peer == PeerSends \/ PeerCloses \/ PeerResets

Next ==
  \/ OwnerShutdown \/ UserReturns
  \/ \E m \in Messages : OwnerSend(m) \/ StringDestroyed(m)
  \/ \E t \in Others, m \in Messages : SendChecked(t, m)
  \/ \E t \in Others : ForeignCall(t) \/ ShutdownChecked(t)
  \/ HandleEvent
  \/ LoopCallback
  \/ RunFunctor
  \/ RemoveConnectionInLoop \/ ServerDestroyed
  \/ Peer

SafeSpec == Init /\ [][Next]_vars

(* A level-triggered poll reports the channel, and the loop runs its       *)
(* functors, in every round; callbacks return; the other threads end the   *)
(* calls they are in; the base loop runs its functors.                     *)
LoopFairness ==
  /\ SF_vars(HandleEvent)
  /\ SF_vars(RunFunctor)
  /\ WF_vars(LoopCallback)
  /\ WF_vars(UserReturns)
  /\ \A t \in Others : WF_vars(ForeignCall(t))
  /\ WF_vars(RemoveConnectionInLoop)

(* The peer goes on reading, so the socket is writable again and again.    *)
PeerReads == SF_vars(PolledEvents(TRUE))

Spec == SafeSpec /\ LoopFairness /\ PeerReads

-----------------------------------------------------------------------------
(* Safety *)

(* What the kernel was given and what waits in outputBuffer_ is, in order  *)
(* and without a gap, what sendInLoop took: no direct write overtakes      *)
(* buffered data, no partial write repeats or skips a byte.                *)
StreamInOrder == wire \o out = accepted

(* As long as the connection lives, buffered data is never left without    *)
(* the EPOLLOUT that will flush it.                                        *)
NothingStuck ==
  out # << >> /\ downs = 0 /\ ~destroyed => IsWriting /\ index = "kAdded"

(* The user hears of the end of the connection at most once, and then the  *)
(* channel is out of epoll for good -- as long as no shutdown() of another *)
(* thread took state_ back out of kDisconnected.                           *)
DownOnce ==
  ~revived => downs <= 1 /\ (downs = 1 => index # "kAdded")

(* updateChannel would ADD, not DEL, a channel of no interest that it had  *)
(* already dropped (EPollPoller.cc:72-79): handleClose never does that to  *)
(* it, not even when the connection is closed twice.                       *)
NeverAddsNothing == index = "kAdded" => events # {}

(* The inductive invariant *)

(* Until connectEstablished has run, it is what the loop does next, and    *)
(* nothing else has happened; it runs once.                                *)
BeforeEstablished ==
  /\ state = "kConnecting" =>
       /\ tasks # << >> /\ Head(tasks).fn = "connectEstablished"
       /\ index = "kNew" /\ events = {} /\ out = << >>
       /\ todo = << >> /\ user = "none" /\ downs = 0 /\ ~destroyed
       /\ removing = 0 /\ \A t \in Others : call[t] = Idle
  /\ \A i \in 1 .. Len(tasks) :
       tasks[i].fn = "connectEstablished" => i = 1 /\ state = "kConnecting"

(* From then to its end the channel reads, and epoll knows it; the end is  *)
(* counted before the user hears of it.                                    *)
Registered ==
  /\ user \in {"down", "last"} => downs > 0
  /\ state = "kConnected" => downs = 0 /\ ~destroyed
  /\ downs = 0 /\ ~destroyed /\ state # "kConnecting" =>
       "read" \in events /\ index = "kAdded"

Closing == {"close", "read"}

(* One handleEvent has one callback that can close, and it runs on a       *)
(* channel epoll knows; so does one that can write, and that one is last.  *)
ClosesOnce ==
  /\ \A i, j \in 1 .. Len(todo) :
       i < j /\ todo[i] \in Closing => todo[j] \notin Closing
  /\ \A i \in 1 .. Len(todo) : todo[i] \in Closing => index = "kAdded"
  /\ \A i \in 1 .. Len(todo) : todo[i] = "write" => i = Len(todo)
  /\ todo # << >> => user # "last" /\ (IsWriting => index = "kAdded")

(* Once down, and not revived, the channel wants nothing more.             *)
DeafWhenDown ==
  ~revived /\ downs = 1 => events = {} /\ state = "kDisconnected"

IndInv ==
  /\ TypeOK /\ StreamInOrder /\ NothingStuck /\ DownOnce /\ NeverAddsNothing
  /\ BeforeEstablished /\ Registered /\ ClosesOnce /\ DeafWhenDown

(* Half-closing waits for outputBuffer_, whoever called shutdown() and     *)
(* whether the buffer drains before or after.                              *)
FinAfterData == [][wrShut' /\ ~wrShut => out' = << >> \/ downs > 0 \/ destroyed]_vars

(* Liveness *)

(* The end of the other side ends the connection: it is taken out of the   *)
(* server, out of epoll, and connectDestoryed runs.                        *)
PeerCloseDestroys == peer # "open" ~> destroyed

(* A shutdown() is followed by the half-close, or by the connection's end. *)
ShutdownCompletes ==
  state = "kDisconnecting" ~> (wrShut \/ state = "kDisconnected" \/ destroyed)

-----------------------------------------------------------------------------
(* What the documentation says and the code does not do *)

(* TcpConnection.cc:83-86: once disconnected, give up writing.             *)
GivesUpWriting == [][downs > 0 => wire' = wire]_vars

(* TcpConnection.cc:66: a send() from another thread has its sendInLoop    *)
(* carried out by the loop -- of the characters it was given.              *)
SendsWhatItWasGiven ==
  \A i \in 1 .. Len(wire) : wire[i][1] \in submitted
=============================================================================
