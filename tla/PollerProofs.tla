---------------------------- MODULE PollerProofs ----------------------------
(***************************************************************************)
(* Theorems about Poller, for any number of channels and descriptors.      *)
(***************************************************************************)
EXTENDS Poller, TLAPS

LEMMA InitInv == Init => IndInv
BY NoneAssumption
   DEF Init, IndInv, TypeOK, NeverFatal, NoDangling, KernelAgrees, MapAgrees,
       OneChannelPerFd, EntriesOwned, RemovedIsOut, Alive, HasChannel, Indices

(* What KernelAgrees and EntriesOwned say of one channel and of one entry. *)
LEMMA NotAddedNoEntry ==
  ASSUME IndInv, NEW ch \in Channels, Alive(ch), index[ch] # "kAdded"
  PROVE  epoll[fd[ch]] = None
BY DEF IndInv, KernelAgrees

LEMMA EntryIsAdded ==
  ASSUME IndInv, NEW f \in Fds, epoll[f] # None
  PROVE  /\ epoll[f].ptr \in Channels
         /\ Alive(epoll[f].ptr)
         /\ index[epoll[f].ptr] = "kAdded"
<1>1. epoll[f].ptr \in Channels /\ Alive(epoll[f].ptr)
  BY DEF IndInv, TypeOK, Entries, NoDangling
<1>2. fd[epoll[f].ptr] = f
  BY DEF IndInv, EntriesOwned
<1> QED
  BY <1>1, <1>2, NotAddedNoEntry

(* The three ways an update can go, for any wanted events.                 *)
LEMMA UpdateInv ==
  ASSUME IndInv, NEW ch \in Channels, NEW wanted \in SUBSET EventTypes,
         UpdateChannel(ch, wanted)
  PROVE  IndInv'
<1> USE DEF IndInv, Alive
<1>1. /\ fd[ch] \in Fds
      /\ events' = [events EXCEPT ![ch] = wanted]
      /\ removed' = [removed EXCEPT ![ch] = FALSE]
      /\ UNCHANGED <<fd, active, phase>>
      /\ phase # "polling"
      /\ events'[ch] = wanted
  BY DEF UpdateChannel, TypeOK
<1> USE NoneAssumption DEF TypeOK, NeverFatal, NoDangling, KernelAgrees,
        MapAgrees, OneChannelPerFd, EntriesOwned, RemovedIsOut, HasChannel,
        Indices, Entries
<1>2. CASE AddChannel(ch)
  <2>1. epoll[fd[ch]] = None
    <3>1. index[ch] # "kAdded"
      BY <1>2 DEF AddChannel
    <3>2. Alive(ch)
      BY DEF UpdateChannel
    <3> QED
      BY <3>1, <3>2, NotAddedNoEntry
  <2>2. /\ epoll' = [epoll EXCEPT ![fd[ch]] = [events |-> wanted, ptr |-> ch]]
        /\ fatal' = fatal
        /\ index' = [index EXCEPT ![ch] = "kAdded"]
        /\ channels' = IF index[ch] = "kNew"
                       THEN [channels EXCEPT ![fd[ch]] = ch] ELSE channels
    BY <1>1, <1>2, <2>1 DEF AddChannel, CtlAdd
  <2>3. channels'[fd[ch]] = ch
    BY <1>1, <2>2
  <2> QED
    BY <1>1, <2>2, <2>3
<1>3. CASE ChangeChannel(ch)
  <2>1. /\ epoll' = [epoll EXCEPT ![fd[ch]] = [events |-> wanted, ptr |-> ch]]
        /\ fatal' = fatal
        /\ UNCHANGED <<channels, index>>
        /\ index[ch] = "kAdded"
    <3>1. index[ch] = "kAdded" /\ CtlMod(ch) /\ UNCHANGED <<channels, index>>
      BY <1>3 DEF ChangeChannel
    <3>2. epoll[fd[ch]] = [events |-> events[ch], ptr |-> ch]
      BY <1>1, <3>1
    <3>3. epoll[fd[ch]] # None
      BY <3>2
    <3> QED
      BY <1>1, <3>1, <3>3 DEF CtlMod
  <2> QED
    BY <1>1, <2>1
<1>4. CASE DropChannel(ch)
  <2>1. /\ epoll' = [epoll EXCEPT ![fd[ch]] = None]
        /\ fatal' = fatal
        /\ index' = [index EXCEPT ![ch] = "kDeleted"]
        /\ channels' = channels
        /\ index[ch] = "kAdded"
    BY <1>1, <1>4 DEF DropChannel, CtlDel
  <2> QED
    BY <1>1, <2>1
<1> QED
  BY <1>2, <1>3, <1>4 DEF UpdateChannel

LEMMA RemoveInv ==
  ASSUME IndInv, NEW ch \in Channels, RemoveChannel(ch)
  PROVE  IndInv'
<1> USE NoneAssumption
    DEF IndInv, Alive, TypeOK, NeverFatal, NoDangling, KernelAgrees, MapAgrees,
        OneChannelPerFd, EntriesOwned, RemovedIsOut, HasChannel, Indices,
        Entries
<1>1. /\ fd[ch] \in Fds
      /\ epoll' = [epoll EXCEPT ![fd[ch]] = None]
      /\ fatal' = fatal
  <2>1. Alive(ch) /\ fd[ch] \in Fds
    BY DEF RemoveChannel
  <2>2. CASE index[ch] = "kAdded"
    BY <2>1, <2>2 DEF RemoveChannel, CtlDel
  <2>3. CASE index[ch] # "kAdded"
    <3>1. epoll[fd[ch]] = None
      BY <2>1, <2>3, NotAddedNoEntry
    <3> QED
      BY <2>1, <2>3, <3>1 DEF RemoveChannel
  <2> QED
    BY <2>2, <2>3
<1> QED
  BY <1>1 DEF RemoveChannel

LEMMA ConstructInv ==
  ASSUME IndInv, NEW ch \in Channels, NEW f \in Fds, Construct(ch, f)
  PROVE  IndInv'
BY NoneAssumption
   DEF Construct, IndInv, Alive, TypeOK, NeverFatal, NoDangling, KernelAgrees,
       MapAgrees, OneChannelPerFd, EntriesOwned, RemovedIsOut, HasChannel,
       Indices, Entries

LEMMA DestroyInv ==
  ASSUME IndInv, NEW ch \in Channels, Destroy(ch)
  PROVE  IndInv'
<1> USE NoneAssumption
    DEF IndInv, Alive, TypeOK, NeverFatal, NoDangling, KernelAgrees, MapAgrees,
        OneChannelPerFd, EntriesOwned, RemovedIsOut, HasChannel, Indices,
        Entries
<1>1. epoll[fd[ch]] = None /\ channels[fd[ch]] # ch /\ ch \notin active
  BY DEF Destroy
<1>2. epoll' = epoll
  BY <1>1 DEF Destroy
<1> QED
  BY <1>1, <1>2 DEF Destroy

LEMMA LoopInv ==
  ASSUME IndInv,
         Poll \/ RunFunctors \/ GoRound \/ \E ch \in Channels : HandleEvent(ch)
  PROVE  IndInv'
<1> USE DEF IndInv, Alive, TypeOK, NeverFatal, NoDangling, KernelAgrees,
            MapAgrees, OneChannelPerFd, EntriesOwned, RemovedIsOut, HasChannel
<1>1. CASE Poll
  <2>1. active' \subseteq Channels /\ \A ch \in active' : Alive(ch) /\ ~removed[ch]
    <3>1. PICK ready \in SUBSET {f \in Fds : epoll[f] # None} :
            active' = {epoll[f].ptr : f \in ready}
      BY <1>1 DEF Poll, FillActiveChannels
    <3>2. \A f \in ready : /\ epoll[f].ptr \in Channels
                           /\ Alive(epoll[f].ptr)
                           /\ ~removed[epoll[f].ptr]
      BY EntryIsAdded
    <3> QED
      BY <3>1, <3>2
  <2> QED
    BY <1>1, <2>1 DEF Poll
<1>2. CASE RunFunctors \/ GoRound
  BY <1>2 DEF RunFunctors, GoRound
<1>3. CASE \E ch \in Channels : HandleEvent(ch)
  BY <1>3 DEF HandleEvent
<1> QED
  BY <1>1, <1>2, <1>3

(* The inductive invariant: index_, channels_ and the kernel's list agree, *)
(* a removed channel is out of all three and of activeChannels_.           *)
THEOREM PollerInvariant == Spec => []IndInv
<1>1. IndInv /\ [Next]_vars => IndInv'
  <2> SUFFICES ASSUME IndInv, [Next]_vars
               PROVE  IndInv'
    OBVIOUS
  <2>1. ASSUME NEW ch \in Channels, Update(ch)
        PROVE  IndInv'
    <3>1. events[ch] \in SUBSET EventTypes
      BY DEF IndInv, TypeOK
    <3> QED
      BY <2>1, <3>1, UpdateInv
         DEF Update, EnableReading, DisableReading, EnableWriting,
             DisableWriting, DisableAll, EventTypes
  <2>2. CASE UNCHANGED vars
    BY <2>2 DEF vars, IndInv, Alive, TypeOK, NeverFatal, NoDangling,
                KernelAgrees, MapAgrees, OneChannelPerFd, EntriesOwned,
                RemovedIsOut, HasChannel
  <2> QED
    BY <2>1, <2>2, RemoveInv, ConstructInv, DestroyInv, LoopInv DEF Next
<1> QED
  BY <1>1, InitInv, PTL DEF Spec

(* No legal use of the channels makes the kernel refuse an ADD or a MOD,   *)
(* which would end the process (EPollPoller.cc:150-160).                   *)
THEOREM NeverEndsTheProcess == Spec => []NeverFatal
  BY PollerInvariant, PTL DEF IndInv

(* The loop follows no pointer to a destroyed channel, although any thread *)
(* may destroy one between a poll and its dispatch (EPollPoller.cc:118).   *)
THEOREM FollowsNoDanglingPointer == Spec => []NoDangling
  BY PollerInvariant, PTL DEF IndInv
=============================================================================
