------------------------------- MODULE Poller -------------------------------
(***************************************************************************)
(* The channels of one EventLoop, its EPollPoller and the kernel's epoll   *)
(* instance (Channel.h, Channel.cc, EPollPoller.cc).                       *)
(*                                                                         *)
(* Three parties remember which descriptors are watched: a channel's own   *)
(* index_, the poller's map channels_, and the kernel.  Their owners       *)
(* (TcpConnection, Acceptor, EventLoop) use a channel under one contract,  *)
(* which the guards of Construct, RemoveChannel and Destroy state: a       *)
(* descriptor has one channel at a time, update and remove are called on   *)
(* the loop's thread, remove outside the dispatch of a poll (it is         *)
(* connectDestoryed's, a functor), and a channel is destroyed and its      *)
(* descriptor closed only after remove -- by whichever thread drops the    *)
(* last reference, at any time.                                            *)
(***************************************************************************)
EXTENDS FiniteSets

CONSTANTS
  Channels,         \* Channel objects; destroyed, one may be built anew
  Fds,              \* descriptors, reused once closed
  None              \* no descriptor, no channel, no epoll entry

EventTypes == {"read", "write"}     \* kReadEvent, kWriteEvent
Entries == [events : SUBSET EventTypes, ptr : Channels]

ASSUME NoneAssumption ==
  None \notin Channels /\ None \notin Fds /\ None \notin Entries

VARIABLES
  fd,               \* per channel: fd_, or None while there is no such object
  events,           \* per channel: events_
  index,            \* per channel: index_
  removed,          \* per channel: remove() was its last use
  channels,         \* channels_: per descriptor, the channel or None
  epoll,            \* the kernel's interest list: per descriptor, an entry
  active,           \* activeChannels_ not yet dispatched
  phase,            \* what the loop's thread is doing
  fatal             \* LOG_FATAL has ended the process

vars == <<fd, events, index, removed, channels, epoll, active, phase, fatal>>

Indices == {"kNew", "kAdded", "kDeleted"}

TypeOK ==
  /\ fd \in [Channels -> Fds \union {None}]
  /\ events \in [Channels -> SUBSET EventTypes]
  /\ index \in [Channels -> Indices]
  /\ removed \in [Channels -> BOOLEAN]
  /\ channels \in [Fds -> Channels \union {None}]
  /\ epoll \in [Fds -> Entries \union {None}]
  /\ active \subseteq Channels
  /\ phase \in {"polling", "dispatch", "functors"}
  /\ fatal \in BOOLEAN

(* A loop before loop(): the owner's code runs as a functor would.         *)
Init ==
  /\ fd = [ch \in Channels |-> None]
  /\ events = [ch \in Channels |-> {}]
  /\ index = [ch \in Channels |-> "kNew"]
  /\ removed = [ch \in Channels |-> TRUE]
  /\ channels = [f \in Fds |-> None]
  /\ epoll = [f \in Fds |-> None]
  /\ active = {}
  /\ phase = "functors"
  /\ fatal = FALSE

Alive(ch) == fd[ch] # None

-----------------------------------------------------------------------------
(* EPollPoller::update, that is epoll_ctl: ADD and MOD end the process     *)
(* when the kernel refuses them, a refused DEL is only logged.             *)

CtlAdd(ch) ==
  IF epoll[fd[ch]] = None
  THEN /\ epoll' = [epoll EXCEPT ![fd[ch]] = [events |-> events'[ch], ptr |-> ch]]
       /\ fatal' = fatal
  ELSE epoll' = epoll /\ fatal' = TRUE

CtlMod(ch) ==
  IF epoll[fd[ch]] # None
  THEN /\ epoll' = [epoll EXCEPT ![fd[ch]] = [events |-> events'[ch], ptr |-> ch]]
       /\ fatal' = fatal
  ELSE epoll' = epoll /\ fatal' = TRUE

CtlDel(ch) ==
  /\ epoll' = [epoll EXCEPT ![fd[ch]] = None]
  /\ fatal' = fatal

-----------------------------------------------------------------------------
(* EPollPoller::updateChannel, after the channel's events_ became wanted.  *)

AddChannel(ch) ==
  /\ index[ch] # "kAdded"
  /\ channels' = IF index[ch] = "kNew"
                 THEN [channels EXCEPT ![fd[ch]] = ch] ELSE channels
  /\ index' = [index EXCEPT ![ch] = "kAdded"]
  /\ CtlAdd(ch)

ChangeChannel(ch) ==
  /\ index[ch] = "kAdded"
  /\ events'[ch] # {}
  /\ CtlMod(ch)
  /\ UNCHANGED <<channels, index>>

(* Faulty variant: the channel is not marked kDeleted.                     *)
DropChannelUnmarked(ch) ==
  /\ index[ch] = "kAdded"
  /\ events'[ch] = {}
  /\ CtlDel(ch)
  /\ UNCHANGED <<channels, index>>

DropChannel(ch) ==
  /\ index[ch] = "kAdded"
  /\ events'[ch] = {}
  /\ CtlDel(ch)
  /\ index' = [index EXCEPT ![ch] = "kDeleted"]
  /\ UNCHANGED channels

UpdateChannel(ch, wanted) ==
  /\ ~fatal
  /\ Alive(ch)
  /\ phase # "polling"
  /\ events' = [events EXCEPT ![ch] = wanted]
  /\ AddChannel(ch) \/ ChangeChannel(ch) \/ DropChannel(ch)
  /\ removed' = [removed EXCEPT ![ch] = FALSE]
  /\ UNCHANGED <<fd, active, phase>>

EnableReading(ch) == UpdateChannel(ch, events[ch] \union {"read"})
DisableReading(ch) == UpdateChannel(ch, events[ch] \ {"read"})
EnableWriting(ch) == UpdateChannel(ch, events[ch] \union {"write"})
DisableWriting(ch) == UpdateChannel(ch, events[ch] \ {"write"})
DisableAll(ch) == UpdateChannel(ch, {})

(* Faulty variant: the descriptor stays in the kernel's list.              *)
RemoveChannelNoDel(ch) ==
  /\ ~fatal
  /\ Alive(ch)
  /\ phase = "functors"
  /\ channels' = [channels EXCEPT ![fd[ch]] = None]
  /\ index' = [index EXCEPT ![ch] = "kNew"]
  /\ removed' = [removed EXCEPT ![ch] = TRUE]
  /\ UNCHANGED <<fd, events, epoll, active, phase, fatal>>

(* Faulty variant: the poller's map keeps the channel.                     *)
RemoveChannelMapped(ch) ==
  /\ ~fatal
  /\ Alive(ch)
  /\ phase = "functors"
  /\ IF index[ch] = "kAdded" THEN CtlDel(ch) ELSE UNCHANGED <<epoll, fatal>>
  /\ index' = [index EXCEPT ![ch] = "kNew"]
  /\ removed' = [removed EXCEPT ![ch] = TRUE]
  /\ UNCHANGED <<fd, events, channels, active, phase>>

(* EPollPoller::removeChannel.                                             *)
RemoveChannel(ch) ==
  /\ ~fatal
  /\ Alive(ch)
  /\ phase = "functors"
  /\ channels' = [channels EXCEPT ![fd[ch]] = None]
  /\ IF index[ch] = "kAdded" THEN CtlDel(ch) ELSE UNCHANGED <<epoll, fatal>>
  /\ index' = [index EXCEPT ![ch] = "kNew"]
  /\ removed' = [removed EXCEPT ![ch] = TRUE]
  /\ UNCHANGED <<fd, events, active, phase>>

(* Poller::hasChannel.                                                     *)
HasChannel(ch) == Alive(ch) /\ channels[fd[ch]] = ch

-----------------------------------------------------------------------------
(* The life of a channel and of its descriptor.                            *)

Construct(ch, f) ==
  /\ ~fatal
  /\ ~Alive(ch)
  /\ \A other \in Channels : fd[other] # f
  /\ fd' = [fd EXCEPT ![ch] = f]
  /\ events' = [events EXCEPT ![ch] = {}]
  /\ index' = [index EXCEPT ![ch] = "kNew"]
  /\ removed' = [removed EXCEPT ![ch] = FALSE]
  /\ UNCHANGED <<channels, epoll, active, phase, fatal>>

(* The owner's destructor: the channel goes, the descriptor is closed, and *)
(* the kernel forgets what it watched of it.                               *)
Destroy(ch) ==
  /\ ~fatal
  /\ Alive(ch)
  /\ removed[ch]
  /\ epoll' = [epoll EXCEPT ![fd[ch]] = None]
  /\ fd' = [fd EXCEPT ![ch] = None]
  /\ UNCHANGED <<events, index, removed, channels, active, phase, fatal>>

-----------------------------------------------------------------------------
(* The loop's thread: poll, dispatch, functors.                            *)

FillActiveChannels(ready) == {epoll[f].ptr : f \in ready}

(* epoll_wait reports some of the entries -- an entry with no events still *)
(* reports errors and hang-ups.  (events_ grows when it was filled; a      *)
(* smaller report is one of the subsets.)                                  *)
Poll ==
  /\ ~fatal
  /\ phase = "polling"
  /\ \E ready \in SUBSET {f \in Fds : epoll[f] # None} :
       active' = FillActiveChannels(ready)
  /\ phase' = "dispatch"
  /\ UNCHANGED <<fd, events, index, removed, channels, epoll, fatal>>

(* The loop calls handleEvent through the pointer of one active channel.   *)
(* What its callbacks do to channels are steps of their own.               *)
HandleEvent(ch) ==
  /\ ~fatal
  /\ phase = "dispatch"
  /\ ch \in active
  /\ active' = active \ {ch}
  /\ UNCHANGED <<fd, events, index, removed, channels, epoll, phase, fatal>>

RunFunctors ==
  /\ ~fatal
  /\ phase = "dispatch"
  /\ active = {}
  /\ phase' = "functors"
  /\ UNCHANGED <<fd, events, index, removed, channels, epoll, active, fatal>>

GoRound ==
  /\ ~fatal
  /\ phase = "functors"
  /\ phase' = "polling"
  /\ UNCHANGED <<fd, events, index, removed, channels, epoll, active, fatal>>

Update(ch) == \/ EnableReading(ch)
              \/ DisableReading(ch)
              \/ EnableWriting(ch)
              \/ DisableWriting(ch)
              \/ DisableAll(ch)

Next ==
  \/ \E ch \in Channels, f \in Fds : Construct(ch, f)
  \/ \E ch \in Channels :
       Update(ch) \/ RemoveChannel(ch) \/ Destroy(ch) \/ HandleEvent(ch)
  \/ Poll
  \/ RunFunctors
  \/ GoRound

Spec == Init /\ [][Next]_vars

-----------------------------------------------------------------------------
(* Safety *)

(* The kernel never refuses an ADD or a MOD: no sequence of legal uses of  *)
(* the channels, across the reuse of descriptors, ends the process.        *)
NeverFatal == ~fatal

(* No pointer the loop is going to follow, from the kernel's list or from  *)
(* activeChannels_, is to a destroyed channel, whichever thread destroyed  *)
(* it and when.                                                            *)
NoDangling ==
  /\ \A f \in Fds : epoll[f] # None => Alive(epoll[f].ptr)
  /\ \A ch \in active : Alive(ch)

(* index_, the kernel and channels_ tell one story.                        *)
KernelAgrees ==
  \A ch \in Channels : Alive(ch) =>
    epoll[fd[ch]] = IF index[ch] = "kAdded"
                    THEN [events |-> events[ch], ptr |-> ch] ELSE None

MapAgrees ==
  /\ \A ch \in Channels : Alive(ch) =>
       (HasChannel(ch) <=> index[ch] # "kNew")
  /\ \A f \in Fds : channels[f] # None => fd[channels[f]] = f

(* The rest of the inductive invariant: a descriptor has one channel, an   *)
(* entry of the kernel has its channel's descriptor, and a channel whose   *)
(* last use was remove is out of the poller and out of the dispatch.       *)
OneChannelPerFd ==
  \A c1, c2 \in Channels : Alive(c1) /\ fd[c1] = fd[c2] => c1 = c2

EntriesOwned ==
  \A f \in Fds : epoll[f] # None => fd[epoll[f].ptr] = f

RemovedIsOut ==
  \A ch \in Channels : removed[ch] => index[ch] = "kNew" /\ ch \notin active

(* The inductive invariant of the poller: the channel's index_, the map    *)
(* channels_ and the kernel's list never disagree, across every reuse of a *)
(* descriptor (EPollPoller.cc:68-111).                                     *)
IndInv ==
  /\ TypeOK
  /\ NeverFatal
  /\ NoDangling
  /\ KernelAgrees
  /\ MapAgrees
  /\ OneChannelPerFd
  /\ EntriesOwned
  /\ RemovedIsOut
  /\ phase # "dispatch" => active = {}
=============================================================================
