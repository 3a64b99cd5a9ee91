------------------------ MODULE ConnectionLifeProofs ------------------------
(***************************************************************************)
(* That TcpServer keeps the promise of ConnectionLife, for any number of   *)
(* threads and connections: what the user is told of a connection, and     *)
(* when the last reference to it may go.                                   *)
(***************************************************************************)
EXTENDS TcpServerProofs

Up == {"kConnected", "kDisconnecting"}

(* A loop's thread enters loop(), or tests quit_ there.                    *)
Enters == \E k \in Loops : EnterLoop(k)
Tests(l) == FinishBatch(l) \/ FirstTest(l)

(* state_ tells what the user has been told.                               *)
ToldTells ==
  \A c \in Conns :
    /\ state[c] = "kConnecting" => told[c] = << >>
    /\ state[c] \in Up => told[c] = << "up" >>
    /\ state[c] = "kDisconnected" => told[c] = << "up", "down" >>

(* Only an established connection is in a poller, and one that is not      *)
(* being shut down stays there while its loop runs.                        *)
Watches ==
  \A c \in Conns :
    /\ c \in watched => state[c] \in Up
    /\ state[c] = "kConnected" /\ place[loopOf[c]] # "stopped" => c \in watched

(* connectEstablished of c is yet to run in l at most once.                *)
OnceIn(l, c) ==
  /\ \A i \in 1 .. Len(queue[l]) : queue[l][i] = Functor("establish", c) =>
       /\ state[c] = "kConnecting"
       /\ \A j \in 1 .. Len(queue[l]) :
            queue[l][j] = Functor("establish", c) => i = j
       /\ \A j \in ran[l] + 1 .. Len(batch[l]) :
            batch[l][j] # Functor("establish", c)
  /\ \A i \in ran[l] + 1 .. Len(batch[l]) : batch[l][i] = Functor("establish", c) =>
       /\ state[c] = "kConnecting"
       /\ \A j \in ran[l] + 1 .. Len(batch[l]) :
            batch[l][j] = Functor("establish", c) => i = j

EstablishedOnce ==
  \A c \in Conns : /\ c \notin Known => state[c] = "kConnecting"
                   /\ \A l \in Loops : OnceIn(l, c)

(* Some loop has the functor, called or not.                               *)
Held(f) ==
  \E l \in Loops : \/ \E i \in 1 .. Len(queue[l]) : queue[l][i] = f
                   \/ \E i \in 1 .. Len(batch[l]) : batch[l][i] = f

(* Only handleClose has a connection removed from the map before ~TcpServer*)
(* and what ~TcpServer destroys in the base loop is not up any more.       *)
Ended ==
  \A c \in Conns :
    /\ Held(Functor("remove", c)) => state[c] = "kDisconnected"
    /\ \A l \in Loops : closing[l] = c => state[c] = "kDisconnected"
    /\ stage \in {"built", "started"} /\ c \in Known \ connections =>
         state[c] = "kDisconnected"
    /\ Ending /\ loopOf[c] = Base /\ (stage = "destroying" => c \notin sweep) =>
         state[c] # "kConnected"

(* The course of the server's life.                                        *)
Course ==
  /\ stage = "destroying" => sweep \subseteq connections
  /\ \A l \in Workers : quit[l] \/ place[l] = "stopped" =>
       stage \in {"joining", "gone", "over", "exited"}
  /\ \A l \in Loops : place[l] # "close" /\ stage # "exited" => closing[l] = None
  /\ \A c \in Conns : user[c] = "none"

LifeInv == LiveInv /\ ToldTells /\ Watches /\ EstablishedOnce /\ Ended /\ Course

LEMMA InitLife == Init => ToldTells /\ Watches /\ EstablishedOnce /\ Ended /\ Course
<1> SUFFICES ASSUME Init
             PROVE  ToldTells /\ Watches /\ EstablishedOnce /\ Ended /\ Course
  OBVIOUS
<1>1. \A l \in Loops : Len(queue[l]) = 0 /\ Len(batch[l]) = 0 /\ ran[l] = 0
  BY DEF Init
<1>2. ToldTells /\ Watches
  BY DEF Init, ToldTells, Watches, Up
<1>3. EstablishedOnce
  BY <1>1 DEF Init, EstablishedOnce, OnceIn
<1>4. Ended
  BY <1>1 DEF Init, Ended, Held, Known, Conns, Ending, None
<1>5. Course
  BY DEF Init, Course, Workers, Loops
<1> QED BY <1>2, <1>3, <1>4, <1>5

(* What the invariants proved so far say after the step too.               *)
LEMMA LiveStep == LiveInv /\ [Next]_vars => LiveInv'
  BY StepTyped, IdleStep, PlacesStep, KnownStep, TidyStep, KeptStep DEF LiveInv

-----------------------------------------------------------------------------
(* What a step does to one connection.                                     *)

Stays(c) ==
  /\ state'[c] = state[c] /\ told'[c] = told[c]
  /\ c \in watched' => c \in watched
  /\ c \in watched /\ state[c] = "kConnected" /\ place'[loopOf[c]] # "stopped" =>
       c \in watched'

Begins(c) ==
  /\ state[c] = "kConnecting" /\ state'[c] \in Up /\ c \in watched'
  /\ told'[c] = Append(told[c], "up")

ShutsDown(c) ==
  /\ state[c] = "kConnected" /\ state'[c] = "kDisconnecting"
  /\ told'[c] = told[c] /\ (c \in watched' => c \in watched)

Ends(c) ==
  /\ state[c] \in Up /\ state'[c] = "kDisconnected" /\ c \notin watched'
  /\ told'[c] = Append(told[c], "down")

Fares(c) == Stays(c) \/ Begins(c) \/ ShutsDown(c) \/ Ends(c)

LEMMA EstablishedFares ==
  ASSUME TypeOK, NEW d \in Conns, ConnectEstablished(d), state[d] = "kConnecting"
  PROVE  Begins(d) /\ \A c \in Conns : c # d => Stays(c)
  BY DEF TypeOK, ConnectEstablished, MayShutdown, Begins, Stays, Up

LEMMA DestoryedFares ==
  ASSUME TypeOK, NEW d \in Conns, ConnectDestoryed(d)
  PROVE  /\ IF state[d] = "kConnected" THEN Ends(d) ELSE Stays(d)
         /\ \A c \in Conns : c # d => Stays(c)
<1>1. watched' = watched \ {d}
  BY DEF ConnectDestoryed, WithoutChannel
<1>2. CASE state[d] = "kConnected"
  <2>1. /\ state' = [state EXCEPT ![d] = "kDisconnected"]
        /\ told' = [told EXCEPT ![d] = Append(told[d], "down")]
    BY <1>2 DEF ConnectDestoryed, EndTold
  <2> QED BY <1>1, <1>2, <2>1 DEF TypeOK, Ends, Stays, Up
<1>3. CASE state[d] # "kConnected"
  BY <1>1, <1>3 DEF ConnectDestoryed, Stays
<1> QED BY <1>2, <1>3

(* Every functor of a batch that says connectEstablished finds kConnecting.*)
LEMMA EstablishFindsConnecting ==
  ASSUME LifeInv, NEW l \in Loops, NEW c \in Conns, RunEstablish(l, c)
  PROVE  /\ state[c] = "kConnecting" /\ l = loopOf[c] /\ c \in Known
         /\ ran[l] + 1 \in 1 .. Len(batch[l])
         /\ batch[l][ran[l] + 1] = Functor("establish", c)
<1>1. /\ ran[l] + 1 \in 1 .. Len(batch[l]) /\ l = loopOf[c] /\ c \in Known
      /\ batch[l][ran[l] + 1] = Functor("establish", c)
  BY CallKnown DEF LifeInv, LiveInv, RunEstablish, StrongOps
<1>2. ran[l] + 1 \in ran[l] + 1 .. Len(batch[l])
  BY <1>1 DEF LifeInv, LiveInv, Typed, TypeOK
<1> QED BY <1>1, <1>2 DEF LifeInv, EstablishedOnce, OnceIn

LEMMA FaresStep ==
  ASSUME LifeInv, Next, NEW c \in Conns
  PROVE  Fares(c)
<1>0. TypeOK
  BY DEF LifeInv, LiveInv, Typed
<1> USE DEF serverVars, connVars, loopVars, turnVars, Goes
<1>1. CASE UNCHANGED <<state, told, watched>>
  BY <1>1 DEF Fares, Stays
<1>2. ASSUME NEW d \in Conns, NewConnection(d) PROVE Fares(c)
  <2>1. state[d] = "kConnecting"
    BY <1>2 DEF NewConnection, LifeInv, EstablishedOnce, Known, Conns
  <2>2. ConnectEstablished(d) \/ UNCHANGED <<state, told, watched>>
    BY <1>2 DEF NewConnection
  <2> QED BY <1>0, <1>1, <2>1, <2>2, EstablishedFares DEF Fares
<1>3. ASSUME NEW d \in Conns, DestroyConnection(d) PROVE Fares(c)
  <2>1. ConnectDestoryed(d) \/ UNCHANGED <<state, told, watched>>
    BY <1>3 DEF DestroyConnection
  <2> QED BY <1>0, <1>1, <2>1, DestoryedFares DEF Fares
<1>4. ASSUME NEW l \in Loops, LoopStep(l) PROVE Fares(c)
  <2>1. CASE Poll(l) \/ CloseCallback(l) \/ SwapPending(l) \/ RunListen(l)
             \/ \E d \in Conns : RunRemove(l, d)
    BY <1>1, <2>1 DEF Poll, CloseCallback, SwapPending, RunListen, RunRemove
  <2>2. CASE Tests(l)
    <3>1. /\ UNCHANGED <<state, told>>
          /\ place' = [place EXCEPT ![l] = IF quit[l] THEN "stopped" ELSE "poll"]
          /\ watched' = watched \/ (quit[l] /\ watched' = watched \ ConnsOf(l))
      BY <2>2, TestsTidy DEF LifeInv, LiveInv, Tests
    <3>2. watched' = watched \/ loopOf[c] # l => (c \in watched => c \in watched')
      BY <3>1 DEF ConnsOf
    <3>3. watched' # watched => place'[l] = "stopped"
      BY <1>0, <3>1 DEF TypeOK
    <3> QED BY <3>1, <3>2, <3>3 DEF Fares, Stays
  <2>3. ASSUME NEW d \in Conns, HandleMessage(l, d) PROVE Fares(c)
    <3>1. /\ UNCHANGED <<told, watched>>
          /\ \E s \in MayShutdown(state[d]) : state' = [state EXCEPT ![d] = s]
      BY <2>3 DEF HandleMessage
    <3> QED BY <1>0, <3>1 DEF Fares, Stays, ShutsDown, MayShutdown, TypeOK
  <2>4. ASSUME NEW d \in Conns, HandleClose(l, d) PROVE Fares(c)
    <3>1. d \in watched /\ state[d] \in Up
      BY <2>4 DEF HandleClose, Dispatches, LifeInv, LiveInv, LoopsTidy, ConnsOf,
         Watches
    <3>2. /\ state' = [state EXCEPT ![d] = "kDisconnected"]
          /\ told' = [told EXCEPT ![d] = Append(told[d], "down")]
          /\ watched' = watched \ {d}
      BY <2>4 DEF HandleClose, ClosedState
    <3> QED BY <1>0, <3>1, <3>2 DEF Fares, Stays, Ends, TypeOK
  <2>5. ASSUME NEW d \in Conns, RunEstablish(l, d) PROVE Fares(c)
    BY <1>0, <2>5, EstablishFindsConnecting, EstablishedFares
       DEF RunEstablish, Fares
  <2>6. ASSUME NEW d \in Conns, RunDestroy(l, d) PROVE Fares(c)
    BY <1>0, <2>6, DestoryedFares DEF RunDestroy, Fares
  <2> QED BY <1>4, <2>1, <2>2, <2>3, <2>4, <2>5, <2>6 DEF LoopStep, Tests
<1>5. CASE DestroyBaseLoop
  <2>1. UNCHANGED <<state, told, place>> /\ watched' = watched \ ConnsOf(Base)
        /\ stage = "gone"
    BY <1>5 DEF DestroyBaseLoop
  <2>2. place'[Base] = "stopped"
    BY <2>1 DEF LifeInv, LiveInv, PlacesTell, Ending
  <2> QED BY <2>1, <2>2 DEF Fares, Stays, ConnsOf
<1>6. ASSUME NEW n \in 0 .. MaxThreads, Start(n) PROVE Fares(c)
  BY <1>1, <1>6 DEF Start
<1>7. CASE Enters \/ QuitBase \/ AcceptFails \/ BeginDestroy \/ DropMap \/ CloseAcceptor
  BY <1>1, <1>7 DEF Enters, EnterLoop, QuitBase, AcceptFails, BeginDestroy,
     DropMap, CloseAcceptor
<1>8. ASSUME NEW l \in Workers, QuitWorker(l) PROVE Fares(c)
  BY <1>1, <1>8 DEF QuitWorker
<1>9. ASSUME NEW d \in Conns, PeerCloses(d) PROVE Fares(c)
  BY <1>1, <1>9 DEF PeerCloses
<1> QED BY <1>2, <1>3, <1>4, <1>5, <1>6, <1>7, <1>8, <1>9 DEF Next, Enters,
   Accepts, Destruction

LEMMA AppendToOne ==
  ASSUME NEW S, NEW x \in S, NEW y \in S
  PROVE  Append(<< x >>, y) = << x, y >>
<1>1. /\ << x >> \in Seq(S) /\ << x, y >> \in Seq(S)
      /\ Len(<< x >>) = 1 /\ Len(<< x, y >>) = 2
  OBVIOUS
<1>2. /\ Append(<< x >>, y) \in Seq(S) /\ Len(Append(<< x >>, y)) = 2
      /\ \A i \in 1 .. 1 : Append(<< x >>, y)[i] = << x >>[i]
      /\ Append(<< x >>, y)[2] = y
  BY <1>1, AppendProperties
<1>3. \A i \in 1 .. 2 : Append(<< x >>, y)[i] = << x, y >>[i]
  BY <1>2
<1> QED BY <1>1, <1>2, <1>3, SeqEqual

LEMMA ToldStep ==
  ASSUME LifeInv, Next
  PROVE  ToldTells'
<1> SUFFICES ASSUME NEW c \in Conns
             PROVE  /\ state'[c] = "kConnecting" => told'[c] = << >>
                    /\ state'[c] \in Up => told'[c] = << "up" >>
                    /\ state'[c] = "kDisconnected" => told'[c] = << "up", "down" >>
  BY DEF ToldTells
<1>1. /\ state[c] = "kConnecting" => told[c] = << >>
      /\ state[c] \in Up => told[c] = << "up" >>
      /\ state[c] = "kDisconnected" => told[c] = << "up", "down" >>
  BY DEF LifeInv, ToldTells
<1>2. /\ Append(<< >>, "up") = << "up" >>
      /\ Append(<< "up" >>, "down") = << "up", "down" >>
  <2>1. Append(<< >>, "up") = << "up" >>
    OBVIOUS
  <2>2. "up" \in {"up", "down"} /\ "down" \in {"up", "down"}
    OBVIOUS
  <2> QED BY <2>1, <2>2, AppendToOne
<1>3. Fares(c)
  BY FaresStep
<1>4. CASE Stays(c) \/ ShutsDown(c)
  BY <1>1, <1>4 DEF Stays, ShutsDown, Up
<1>5. CASE Begins(c)
  BY <1>1, <1>2, <1>5 DEF Begins, Up
<1>6. CASE Ends(c)
  BY <1>1, <1>2, <1>6 DEF Ends, Up
<1> QED BY <1>3, <1>4, <1>5, <1>6 DEF Fares

(* No loop that has stopped runs again.                                    *)
LEMMA StoppedStays ==
  ASSUME LifeInv, Next, NEW l \in Loops, place[l] = "stopped"
  PROVE  place'[l] = "stopped"
<1>1. place \in [Loops -> Places]
  BY DEF LifeInv, LiveInv, Typed, TypeOK
<1> USE DEF serverVars, connVars, loopVars, turnVars, Goes
<1>2. CASE Enters \/ QuitBase \/ Accepts \/ Destruction
           \/ \E c \in Conns : PeerCloses(c)
  BY <1>1, <1>2 DEF Enters, EnterLoop, QuitBase, Accepts, AcceptFails, LogFatal,
     NewConnection, Destruction, BeginDestroy, DropMap, CloseAcceptor,
     DestroyBaseLoop, DestroyConnection, QuitWorker, PeerCloses
<1>3. ASSUME NEW k \in Loops, LoopStep(k) PROVE place'[l] = "stopped"
  <2>1. place' = place \/ (place[k] # "stopped" /\ \E to : place' = [place EXCEPT ![k] = to])
    BY <1>3 DEF LoopStep, Poll, CloseCallback, SwapPending, RunListen,
       FinishBatch, FirstTest, TestsQuit, HandleMessage, HandleClose, Dispatches,
       RunEstablish, RunDestroy, RunRemove, Calls
  <2> QED BY <1>1, <2>1
<1>4. ASSUME NEW n \in 0 .. MaxThreads, Start(n) PROVE place'[l] = "stopped"
  BY <1>4 DEF Start
<1> QED BY <1>2, <1>3, <1>4 DEF Next, Enters

LEMMA WatchesStep ==
  ASSUME LifeInv, Next
  PROVE  Watches'
<1>0. Typed /\ TypeOK /\ [Next]_vars
  BY DEF LifeInv, LiveInv, Typed
<1> SUFFICES ASSUME NEW c \in Conns
             PROVE  /\ c \in watched' => state'[c] \in Up
                    /\ /\ state'[c] = "kConnected"
                       /\ place'[loopOf'[c]] # "stopped"
                       => c \in watched'
  BY DEF Watches
<1>1. /\ c \in watched => state[c] \in Up
      /\ state[c] = "kConnected" /\ place[loopOf[c]] # "stopped" => c \in watched
  BY DEF LifeInv, Watches
<1>2. Fares(c)
  BY FaresStep
<1>3. CASE Stays(c)
  <2> SUFFICES ASSUME state[c] = "kConnected", place'[loopOf'[c]] # "stopped"
               PROVE  c \in watched'
    BY <1>1, <1>3 DEF Stays
  <2>1. c \in Known
    BY DEF LifeInv, EstablishedOnce
  <2>2. PICK l \in Loops : l = loopOf[c] /\ l = loopOf'[c]
    BY <1>0, <2>1, KnownStays DEF TypeOK
  <2>3. place[l] # "stopped"
    BY <2>2, StoppedStays
  <2> QED BY <1>1, <1>3, <2>2, <2>3 DEF Stays
<1>4. CASE Begins(c) \/ ShutsDown(c) \/ Ends(c)
  BY <1>1, <1>4 DEF Begins, ShutsDown, Ends, Up
<1> QED BY <1>2, <1>3, <1>4 DEF Fares

-----------------------------------------------------------------------------
(* A connection is established once.                                       *)

(* The queue grows by other functors, and the loop goes on with its batch. *)
LEMMA OnceGoesOn ==
  ASSUME TypeOK, NEW c \in Conns, NEW l \in Loops, OnceIn(l, c), QueueGrows(l, c),
         batch'[l] = batch[l],
         \/ /\ ran'[l] = ran[l] \/ ran'[l] = ran[l] + 1
            /\ state[c] = "kConnecting" => state'[c] = "kConnecting"
         \/ /\ ran[l] + 1 \in 1 .. Len(batch[l])
            /\ batch[l][ran[l] + 1] = Functor("establish", c)
            /\ ran'[l] = ran[l] + 1
  PROVE  OnceIn(l, c)'
<1>1. ran[l] \in Nat /\ Len(batch[l]) \in Nat
  BY DEF TypeOK
<1>2. \A i \in ran'[l] + 1 .. Len(batch[l]) : i \in ran[l] + 1 .. Len(batch[l])
  BY <1>1
<1>3. \A i \in 1 .. Len(queue'[l]) :
        queue'[l][i] = Functor("establish", c) =>
          i \in 1 .. Len(queue[l]) /\ queue[l][i] = Functor("establish", c)
  BY DEF QueueGrows
<1>4. CASE state[c] = "kConnecting" => state'[c] = "kConnecting"
  BY <1>2, <1>3, <1>4 DEF OnceIn
<1>5. CASE /\ ran[l] + 1 \in 1 .. Len(batch[l])
           /\ batch[l][ran[l] + 1] = Functor("establish", c)
           /\ ran'[l] = ran[l] + 1
  <2>1. ran[l] + 1 \in ran[l] + 1 .. Len(batch[l])
    BY <1>1, <1>5
  <2>2. \A i \in 1 .. Len(queue[l]) : queue[l][i] # Functor("establish", c)
    BY <1>5, <2>1 DEF OnceIn
  <2>3. \A i \in ran[l] + 1 .. Len(batch[l]) :
          batch[l][i] = Functor("establish", c) => i = ran[l] + 1
    BY <1>5, <2>1 DEF OnceIn
  <2>4. \A i \in ran'[l] + 1 .. Len(batch'[l]) :
          batch'[l][i] # Functor("establish", c)
    <3> SUFFICES ASSUME NEW i \in ran'[l] + 1 .. Len(batch[l])
                 PROVE  batch[l][i] # Functor("establish", c)
      OBVIOUS
    <3>1. i \in ran[l] + 1 .. Len(batch[l]) /\ i # ran[l] + 1
      BY <1>1, <1>2, <1>5
    <3> QED BY <2>3, <3>1
  <2>5. \A i \in 1 .. Len(queue'[l]) : queue'[l][i] # Functor("establish", c)
    BY <1>3, <2>2
  <2> QED BY <2>4, <2>5 DEF OnceIn
<1> QED BY <1>4, <1>5

(* No functor of l is about connectEstablished of c.                       *)
LEMMA OnceAbsent ==
  TypeOK /\ OnlyKnown =>
    \A c \in Conns, l \in Loops : c \notin Known \/ l # loopOf[c] => OnceIn(l, c)
<1> SUFFICES ASSUME TypeOK, OnlyKnown, NEW c \in Conns, NEW l \in Loops,
                    c \notin Known \/ l # loopOf[c]
             PROVE  OnceIn(l, c)
  OBVIOUS
<1>1. ~FunctorKnown(l, Functor("establish", c))
  BY DEF FunctorKnown, Functor
<1>2. /\ Len(batch[l]) \in Nat /\ ran[l] \in Nat
      /\ \A i \in 1 .. Len(queue[l]) : queue[l][i] # Functor("establish", c)
      /\ \A i \in 1 .. Len(batch[l]) : batch[l][i] # Functor("establish", c)
  BY <1>1, UnknownAbsent
<1> QED BY <1>2 DEF OnceIn

LEMMA OnceAbsentAfter ==
  (TypeOK /\ OnlyKnown =>
    \A c \in Conns, l \in Loops : c \notin Known \/ l # loopOf[c] => OnceIn(l, c))'
  BY OnceAbsent, PTL

(* Only connectEstablished puts a channel in a poller.                     *)
LEMMA WatchedBy ==
  ASSUME LifeInv, Next, NEW c \in watched', c \notin watched
  PROVE  \/ c \in Conns /\ NewConnection(c)
         \/ c \in Conns /\ \E l \in Loops : RunEstablish(l, c)
<1> USE DEF serverVars, connVars, loopVars, turnVars
<1>1. CASE \/ Enters \/ QuitBase \/ Destruction
           \/ \E d \in Conns : PeerCloses(d)
           \/ \E n \in 0 .. MaxThreads : Start(n)
  BY <1>1 DEF Enters, EnterLoop, QuitBase, Destruction, BeginDestroy, DropMap,
     CloseAcceptor, DestroyBaseLoop, DestroyConnection, ConnectDestoryed,
     WithoutChannel, QuitWorker, PeerCloses, Start
<1>2. CASE Accepts
  BY <1>2 DEF Accepts, AcceptFails, NewConnection, ConnectEstablished
<1>3. ASSUME NEW l \in Loops, LoopStep(l)
      PROVE  c \in Conns /\ RunEstablish(l, c)
  BY <1>3 DEF LoopStep, Poll, CloseCallback, SwapPending, RunListen, FinishBatch,
     FirstTest, TestsQuit, HandleMessage, HandleClose, RunEstablish,
     ConnectEstablished, RunDestroy, ConnectDestoryed, WithoutChannel, RunRemove
<1>4. CASE \E l \in Loops : LoopStep(l)
  <2>1. PICK l \in Loops : LoopStep(l)
    BY <1>4
  <2> QED BY <1>3, <2>1
<1> QED BY <1>1, <1>2, <1>4 DEF Next, Enters

LEMMA BegunBy ==
  ASSUME LifeInv, Next, NEW c \in Conns, state[c] = "kConnecting",
         state'[c] # "kConnecting"
  PROVE  /\ c \in watched'
         /\ NewConnection(c) \/ \E l \in Loops : RunEstablish(l, c)
<1>1. Begins(c) /\ c \notin watched
  BY FaresStep DEF Fares, Stays, ShutsDown, Ends, Up, LifeInv, Watches
<1> QED BY <1>1, WatchedBy DEF Begins

(* What may be pushed, and by whom.                                        *)
Pushes(f) ==
  \/ f = Functor("listen", None)
  \/ \E d \in Conns : NewConnection(d) /\ f = Functor("establish", d)
  \/ \E d \in Known : Alive(d) /\ f = Functor("destroy", d)
  \/ \E l \in Loops : closing[l] \in Known /\ f = Functor("remove", closing[l])

GoesOn ==
  /\ batch' = batch
  /\ \A l \in Loops : ran'[l] = ran[l] \/ ran'[l] = ran[l] + 1
  /\ \/ queue' = queue
     \/ \E k \in Loops, f \in Functors : Push(k, f) /\ Pushes(f)

LEMMA QueueStep ==
  ASSUME LifeInv, Next
  PROVE  \/ GoesOn
         \/ \E l \in Loops : SwapPending(l) \/ Tests(l)
         \/ DestroyBaseLoop
<1>0. TypeOK /\ OnlyKnown /\ Typed
  BY DEF LifeInv, LiveInv, Typed
<1> USE DEF serverVars, connVars, loopVars, turnVars
<1>1. ASSUME batch' = batch, queue' = queue,
             \A l \in Loops : ran'[l] = ran[l] \/ ran'[l] = ran[l] + 1
      PROVE  GoesOn
  BY <1>1 DEF GoesOn
<1>2. CASE \/ Enters \/ QuitBase \/ AcceptFails
           \/ BeginDestroy \/ DropMap \/ CloseAcceptor
           \/ \E l \in Workers : QuitWorker(l)
           \/ \E d \in Conns : PeerCloses(d)
  BY <1>1, <1>2 DEF Enters, EnterLoop, QuitBase, AcceptFails, BeginDestroy,
     DropMap, CloseAcceptor, QuitWorker, PeerCloses
<1>3. ASSUME NEW n \in 0 .. MaxThreads, Start(n) PROVE GoesOn
  <2>1. /\ Functor("listen", None) \in Functors /\ Base \in Loops
        /\ Pushes(Functor("listen", None))
    BY FunctorTyped DEF RawOps, Loops, Pushes
  <2> QED BY <1>3, <2>1 DEF Start, GoesOn
<1>4. ASSUME NEW d \in Conns, NewConnection(d) PROVE GoesOn
  <2>1. PICK k \in Loops : k = NextLoop
    BY <1>0, NextLoopTyped
  <2>2. Functor("establish", d) \in Functors /\ Pushes(Functor("establish", d))
    BY <1>4, FunctorTyped DEF StrongOps, Pushes
  <2>3. /\ queue' = queue \/ Push(k, Functor("establish", d))
        /\ batch' = batch /\ ran' = ran
    BY <1>4, <2>1 DEF NewConnection
  <2> QED BY <2>2, <2>3 DEF GoesOn
<1>5. ASSUME NEW d \in Known, Alive(d),
             queue' = queue \/ Push(loopOf[d], Functor("destroy", d)),
             batch' = batch,
             \A l \in Loops : ran'[l] = ran[l] \/ ran'[l] = ran[l] + 1
      PROVE  GoesOn
  <2>1. PICK k \in Loops : k = loopOf[d]
    BY <1>0 DEF TypeOK, Known
  <2>2. Functor("destroy", d) \in Functors /\ Pushes(Functor("destroy", d))
    BY <1>5, FunctorTyped DEF StrongOps, Pushes, Known
  <2> QED BY <1>5, <2>1, <2>2 DEF GoesOn
<1>6. ASSUME NEW d \in Conns, DestroyConnection(d) PROVE GoesOn
  <2>1. d \in connections /\ d \in Known
    BY <1>0, <1>6 DEF DestroyConnection, LifeInv, Course, OnlyKnown
  <2>2. Alive(d)
    BY <2>1 DEF Alive
  <2> QED BY <1>5, <1>6, <2>1, <2>2 DEF DestroyConnection
<1>7. ASSUME NEW l \in Loops, CloseCallback(l) PROVE GoesOn
  <2>1. closing[l] \in Known /\ batch' = batch /\ ran' = ran
    BY <1>0, <1>7 DEF CloseCallback, OnlyKnown
  <2>2. CASE l = Base
    <3>1. PICK d \in Known : d = closing[l]
      BY <2>1
    <3>2. Alive(d)
      BY <3>1 DEF Alive
    <3> QED BY <1>5, <1>7, <2>1, <2>2, <3>1, <3>2
            DEF CloseCallback, RemoveConnectionInLoop
  <2>3. CASE l # Base
    <3>1. /\ Functor("remove", closing[l]) \in Functors /\ Base \in Loops
          /\ Pushes(Functor("remove", closing[l]))
      BY <2>1, FunctorTyped DEF StrongOps, Known, Loops, Pushes
    <3>2. PICK f \in Functors : f = Functor("remove", closing[l]) /\ Pushes(f)
      BY <3>1
    <3>3. Push(Base, f)
      BY <1>7, <2>3, <3>2 DEF CloseCallback
    <3> QED BY <2>1, <3>1, <3>2, <3>3 DEF GoesOn
  <2> QED BY <2>2, <2>3
<1>8. ASSUME NEW l \in Loops, NEW op, NEW d, Calls(l, op, d)
      PROVE  /\ batch' = batch
             /\ \A k \in Loops : ran'[k] = ran[k] \/ ran'[k] = ran[k] + 1
  BY <1>0, <1>8 DEF Calls, TypeOK
<1>9. ASSUME NEW l \in Loops, NEW d \in Conns, RunRemove(l, d) PROVE GoesOn
  <2>1. /\ Calls(l, "remove", d) /\ RemoveConnectionInLoop(d)
        /\ batch' = batch
        /\ \A k \in Loops : ran'[k] = ran[k] \/ ran'[k] = ran[k] + 1
    BY <1>8, <1>9 DEF RunRemove
  <2>2. /\ d \in Known /\ ran[l] + 1 \in 1 .. Len(batch[l])
        /\ batch[l][ran[l] + 1] = Functor("remove", d)
    BY <1>0, <2>1, CallKnown DEF StrongOps
  <2>3. Alive(d)
    BY <2>2 DEF Alive, InFunctor, Holds, Functor, StrongOps
  <2> QED BY <1>5, <2>1, <2>2, <2>3 DEF RemoveConnectionInLoop
<1>10. ASSUME NEW l \in Loops, LoopStep(l)
       PROVE  GoesOn \/ SwapPending(l) \/ Tests(l)
  <2>1. CASE \/ Poll(l)
             \/ \E d \in Conns : HandleMessage(l, d) \/ HandleClose(l, d)
    BY <1>1, <2>1 DEF Poll, HandleMessage, HandleClose
  <2>2. CASE RunListen(l)
    BY <1>1, <1>8, <2>2 DEF RunListen
  <2>3. ASSUME NEW d \in Conns, RunEstablish(l, d) \/ RunDestroy(l, d) PROVE GoesOn
    BY <1>1, <1>8, <2>3 DEF RunEstablish, RunDestroy
  <2> QED BY <1>7, <1>9, <1>10, <2>1, <2>2, <2>3 DEF LoopStep, Tests
<1>11. CASE \E l \in Loops : LoopStep(l)
  <2>1. PICK l \in Loops : LoopStep(l)
    BY <1>11
  <2> QED BY <1>10, <2>1
<1>12. CASE \/ \E n \in 0 .. MaxThreads : Start(n)
            \/ \E d \in Conns : NewConnection(d) \/ DestroyConnection(d)
  BY <1>3, <1>4, <1>6, <1>12
<1>13. CASE DestroyBaseLoop
  BY <1>13
<1>14. CASE Accepts \/ Destruction
  BY <1>2, <1>12, <1>13, <1>14 DEF Accepts, Destruction
<1> QED BY <1>2, <1>11, <1>12, <1>14 DEF Next, Enters

(* The loop takes its queue, or is done with its batch.                    *)
LEMMA OnceTurns ==
  ASSUME LiveInv, NEW c \in Conns, NEW l \in Loops, OnceIn(l, c),
         SwapPending(l) \/ Tests(l)
  PROVE  OnceIn(l, c)'
<1>0. TypeOK
  BY DEF LiveInv, Typed
<1>1. CASE SwapPending(l)
  <2>1. /\ place[l] = "dispatch" /\ state' = state /\ ran' = ran
        /\ batch' = [batch EXCEPT ![l] = queue[l]]
        /\ queue' = [queue EXCEPT ![l] = << >>]
    BY <1>1 DEF SwapPending, connVars
  <2>2. ran[l] = 0
    BY <2>1 DEF LiveInv, LoopsTidy
  <2>3. batch'[l] = queue[l] /\ Len(queue'[l]) = 0 /\ ran'[l] = 0
    BY <1>0, <2>1, <2>2 DEF TypeOK
  <2> QED BY <2>1, <2>3 DEF OnceIn
<1>2. CASE Tests(l)
  <2>1. /\ state' = state
        /\ batch'[l] = << >> /\ ran'[l] = 0 /\ Len(batch'[l]) = 0
        /\ queue' = queue \/ Len(queue'[l]) = 0
    <3>1. /\ batch' = [batch EXCEPT ![l] = << >>] /\ ran' = [ran EXCEPT ![l] = 0]
          /\ queue' = queue \/ queue' = [queue EXCEPT ![l] = << >>]
          /\ state' = state
      BY <1>2, TestsTidy DEF LiveInv, Tests
    <3> QED BY <1>0, <3>1 DEF TypeOK
  <2>2. \A i \in ran'[l] + 1 .. Len(batch'[l]) : FALSE
    BY <2>1
  <2> QED BY <2>1, <2>2 DEF OnceIn
<1> QED BY <1>1, <1>2

LEMMA OnceStep ==
  ASSUME LifeInv, Next
  PROVE  EstablishedOnce'
<1>0. /\ Typed /\ TypeOK /\ OnlyKnown /\ [Next]_vars
      /\ LiveInv' /\ Typed' /\ TypeOK' /\ OnlyKnown'
  BY LiveStep DEF LifeInv, LiveInv, Typed
<1>1. ASSUME NEW c \in Conns, c \notin Known' PROVE state'[c] = "kConnecting"
  <2>1. c \notin Known /\ c \notin watched'
    BY <1>0, <1>1, KnownStays DEF OnlyKnown
  <2>2. state[c] = "kConnecting"
    BY <2>1 DEF LifeInv, EstablishedOnce
  <2> QED BY <2>1, <2>2, BegunBy
<1>2. ASSUME NEW c \in Conns, NEW l \in Loops PROVE OnceIn(l, c)'
  <2>1. CASE c \notin Known' \/ l # loopOf'[c]
    BY <1>0, <2>1, OnceAbsentAfter
  <2>2. OnceIn(l, c)
    BY DEF LifeInv, EstablishedOnce
  <2>3. CASE c \notin Known /\ c \in Known' /\ l = loopOf'[c]
    <3>1. NewConnection(c)
      <4>1. nextConnId' # nextConnId
        BY <2>3 DEF Known
      <4>2. PICK d \in Conns : NewConnection(d)
        <5>1. ASSUME NEW n \in 0 .. MaxThreads, Start(n) PROVE FALSE
          BY <2>3, <5>1 DEF Start, Known
        <5> QED BY <1>0, <4>1, <5>1, TurnsOf
      <4>3. d = nextConnId /\ nextConnId' = nextConnId + 1
        BY <4>2 DEF NewConnection
      <4>4. c = d
        BY <2>3, <4>3 DEF Known, Conns
      <4> QED BY <4>2, <4>4
    <3>2. ~FunctorKnown(l, Functor("establish", c))
      BY <2>3 DEF FunctorKnown, Functor
    <3>3. /\ Len(batch[l]) \in Nat /\ ran[l] \in Nat
          /\ \A i \in 1 .. Len(queue[l]) : queue[l][i] # Functor("establish", c)
          /\ \A i \in 1 .. Len(batch[l]) : batch[l][i] # Functor("establish", c)
      BY <1>0, <3>2, UnknownAbsent
    <3>4. batch' = batch /\ ran' = ran
      BY <3>1 DEF NewConnection
    <3>5. CASE queue' = queue
      BY <3>3, <3>4, <3>5 DEF OnceIn
    <3>6. CASE Push(l, Functor("establish", c)) /\ state' = state
      <4>1. state[c] = "kConnecting"
        BY <2>3 DEF LifeInv, EstablishedOnce
      <4>2. Functor("establish", c) \in Functors
        BY FunctorTyped DEF StrongOps
      <4>3. /\ Len(queue[l]) \in Nat
            /\ Len(queue'[l]) = Len(queue[l]) + 1
            /\ \A i \in 1 .. Len(queue[l]) : queue'[l][i] = queue[l][i]
        BY <1>0, <3>6, <4>2, PushAdds
      <4>4. \A i \in 1 .. Len(queue'[l]) :
              queue'[l][i] = Functor("establish", c) => i = Len(queue[l]) + 1
        BY <3>3, <4>3
      <4>5. \A i \in ran'[l] + 1 .. Len(batch'[l]) :
              batch'[l][i] # Functor("establish", c)
        BY <3>3, <3>4
      <4> QED BY <3>6, <4>1, <4>4, <4>5 DEF OnceIn
    <3>7. loopOf'[c] = NextLoop
      BY <1>0, <3>1 DEF NewConnection, TypeOK
    <3> QED BY <2>3, <3>1, <3>5, <3>6, <3>7 DEF NewConnection, connVars
  <2>4. CASE c \in Known /\ l = loopOf'[c]
    <3>1. l = loopOf[c]
      BY <1>0, <2>4, KnownStays
    <3>2. ~NewConnection(c)
      BY <2>4 DEF NewConnection, Known, Conns
    <3>3. CASE GoesOn
      <4>1. QueueGrows(l, c)
        <5>1. \A f : Pushes(f) => f # Functor("establish", c)
          <6>1. \A d \in Conns : NewConnection(d) => d # c
            BY <3>2
          <6> QED BY <6>1 DEF Pushes, Functor
        <5> QED BY <1>0, <3>3, <5>1, PushGrows DEF GoesOn
      <4>2. batch'[l] = batch[l] /\ (ran'[l] = ran[l] \/ ran'[l] = ran[l] + 1)
        BY <3>3 DEF GoesOn
      <4>3. CASE state[c] = "kConnecting" => state'[c] = "kConnecting"
        BY <1>0, <2>2, <4>1, <4>2, <4>3, OnceGoesOn
      <4>4. CASE state[c] = "kConnecting" /\ state'[c] # "kConnecting"
        <5>1. PICK k \in Loops : RunEstablish(k, c)
          BY <3>2, <4>4, BegunBy
        <5>2. /\ k = l /\ ran[l] + 1 \in 1 .. Len(batch[l])
              /\ batch[l][ran[l] + 1] = Functor("establish", c)
          BY <3>1, <5>1, EstablishFindsConnecting
        <5>3. ran'[l] = ran[l] + 1
          BY <1>0, <5>1, <5>2 DEF RunEstablish, Calls, TypeOK
        <5> QED BY <1>0, <2>2, <4>1, <4>2, <5>2, <5>3, OnceGoesOn
      <4> QED BY <4>3, <4>4
    <3>4. ASSUME NEW k \in Loops, k # l, SwapPending(k) \/ Tests(k)
          PROVE  OnceIn(l, c)'
      <4>1. /\ queue'[l] = queue[l] /\ batch'[l] = batch[l] /\ ran'[l] = ran[l]
            /\ state' = state /\ Len(queue[l]) \in Nat
        <5>1. /\ state' = state /\ Len(queue[l]) \in Nat
              /\ ran' = ran \/ ran' = [ran EXCEPT ![k] = 0]
          <6>1. queue[l] \in Seq(Functors)
            BY <1>0 DEF TypeOK
          <6>2. CASE SwapPending(k)
            BY <6>1, <6>2 DEF SwapPending, connVars
          <6>3. CASE Tests(k)
            BY <1>0, <6>1, <6>3, TestsTidy DEF LifeInv, LiveInv, Tests
          <6> QED BY <3>4, <6>2, <6>3
        <5>2. /\ queue' = queue \/ queue' = [queue EXCEPT ![k] = << >>]
              /\ \E s : batch' = [batch EXCEPT ![k] = s]
          BY <3>4, TestsTidy DEF SwapPending, LifeInv, LiveInv, Tests
        <5> QED BY <1>0, <3>4, <5>1, <5>2 DEF TypeOK
      <4>2. QueueGrows(l, c)
        BY <4>1 DEF QueueGrows
      <4> QED BY <1>0, <2>2, <4>1, <4>2, OnceGoesOn
    <3>5. CASE SwapPending(l) \/ Tests(l)
      BY <2>2, <3>5, OnceTurns DEF LifeInv
    <3>6. CASE DestroyBaseLoop
      <4>1. /\ state' = state /\ batch' = batch /\ ran' = ran
            /\ queue'[l] = queue[l] \/ Len(queue'[l]) = 0
        BY <1>0, <3>6 DEF DestroyBaseLoop, loopVars, TypeOK
      <4>2. CASE queue'[l] = queue[l]
        BY <2>2, <4>1, <4>2 DEF OnceIn
      <4>3. CASE Len(queue'[l]) = 0
        <5>1. \A i \in 1 .. Len(queue'[l]) : FALSE
          BY <4>3
        <5> QED BY <2>2, <4>1, <5>1 DEF OnceIn
      <4> QED BY <4>1, <4>2, <4>3
    <3>7. CASE \E k \in Loops : SwapPending(k) \/ Tests(k)
      BY <3>4, <3>5, <3>7
    <3> QED BY <3>3, <3>6, <3>7, QueueStep
  <2> QED BY <2>1, <2>3, <2>4
<1> QED BY <1>1, <1>2 DEF EstablishedOnce

-----------------------------------------------------------------------------
(* The course of the server's life.                                        *)

(* Who takes a connection out of the map.                                  *)
LEMMA ConnectionsBy ==
  ASSUME LifeInv, Next, NEW c \in Conns, c \in connections, c \notin connections'
  PROVE  \/ DropMap
         \/ /\ place[Base] \in {"close", "batch"}
            /\ Push(loopOf[c], Functor("destroy", c))
            /\ Held(Functor("remove", c)) \/ \E l \in Loops : closing[l] = c
<1>0. Typed /\ OnlyKnown
  BY DEF LifeInv, LiveInv
<1> USE DEF serverVars, connVars, loopVars, turnVars
<1>1. CASE \/ Enters \/ QuitBase \/ Destruction \/ Accepts
           \/ \E d \in Conns : PeerCloses(d)
           \/ \E n \in 0 .. MaxThreads : Start(n)
  BY <1>1 DEF Enters, EnterLoop, QuitBase, Destruction, BeginDestroy,
     CloseAcceptor, DestroyBaseLoop, DestroyConnection, QuitWorker, Accepts,
     AcceptFails, NewConnection, PeerCloses, Start
<1>2. ASSUME NEW l \in Loops, LoopStep(l)
      PROVE  /\ place[Base] \in {"close", "batch"}
             /\ Push(loopOf[c], Functor("destroy", c))
             /\ Held(Functor("remove", c)) \/ \E k \in Loops : closing[k] = c
  <2>1. CASE CloseCallback(l)
    <3>1. l = Base /\ RemoveConnectionInLoop(closing[l]) /\ place[l] = "close"
      BY <2>1 DEF CloseCallback
    <3>2. c = closing[l]
      BY <3>1 DEF RemoveConnectionInLoop, Erased
    <3> QED BY <3>1, <3>2 DEF RemoveConnectionInLoop
  <2>2. ASSUME NEW d \in Conns, RunRemove(l, d)
        PROVE  /\ place[Base] \in {"close", "batch"}
               /\ Push(loopOf[c], Functor("destroy", c))
               /\ Held(Functor("remove", c))
    <3>1. c = d /\ Push(loopOf[c], Functor("destroy", c))
      BY <2>2 DEF RunRemove, RemoveConnectionInLoop, Erased
    <3>2. Calls(l, "remove", d) /\ place[l] = "batch"
      BY <2>2 DEF RunRemove, Calls
    <3>3. /\ l = Base /\ ran[l] + 1 \in 1 .. Len(batch[l])
          /\ batch[l][ran[l] + 1] = Functor("remove", d)
      BY <1>0, <3>2, CallKnown DEF StrongOps
    <3> QED BY <3>1, <3>2, <3>3 DEF Held
  <2> QED
    BY <1>2, <2>1, <2>2 DEF LoopStep, Poll, SwapPending, RunListen, FinishBatch,
       FirstTest, TestsQuit, HandleMessage, HandleClose, RunEstablish, RunDestroy
<1>3. CASE \E l \in Loops : LoopStep(l)
  <2>1. PICK l \in Loops : LoopStep(l)
    BY <1>3
  <2> QED BY <1>2, <2>1
<1> QED BY <1>1, <1>3 DEF Next, Enters

(* Who sets the connection a loop is closing.                              *)
LEMMA ClosingBy ==
  ASSUME LifeInv, Next, NEW l \in Loops, closing'[l] # closing[l]
  PROVE  \/ CloseCallback(l) /\ closing'[l] = None
         \/ \E c \in Conns : /\ HandleClose(l, c) /\ closing'[l] = c
                             /\ closing[l] = None
<1>0. TypeOK
  BY DEF LifeInv, LiveInv, Typed
<1> USE DEF serverVars, connVars, loopVars, turnVars
<1>1. CASE \/ Enters \/ QuitBase \/ Destruction \/ Accepts
           \/ \E d \in Conns : PeerCloses(d)
           \/ \E n \in 0 .. MaxThreads : Start(n)
  BY <1>1 DEF Enters, EnterLoop, QuitBase, Destruction, BeginDestroy, DropMap,
     CloseAcceptor, DestroyBaseLoop, DestroyConnection, QuitWorker, Accepts,
     AcceptFails, NewConnection, PeerCloses, Start
<1>2. ASSUME NEW k \in Loops, LoopStep(k)
      PROVE  \/ CloseCallback(l) /\ closing'[l] = None
             \/ \E c \in Conns : /\ HandleClose(l, c) /\ closing'[l] = c
                                 /\ closing[l] = None
  <2>1. CASE CloseCallback(k)
    <3>1. closing' = [closing EXCEPT ![k] = None]
      BY <2>1 DEF CloseCallback
    <3>2. k = l
      BY <3>1
    <3> QED BY <1>0, <2>1, <3>1, <3>2 DEF TypeOK
  <2>2. ASSUME NEW c \in Conns, HandleClose(k, c)
        PROVE  HandleClose(l, c) /\ closing'[l] = c /\ closing[l] = None
    <3>1. closing' = [closing EXCEPT ![k] = c] /\ place[k] = "dispatch"
      BY <2>2 DEF HandleClose, Dispatches
    <3>2. k = l
      BY <3>1
    <3>3. closing[l] = None
      BY <3>1, <3>2 DEF LifeInv, LiveInv, LoopsTidy, Course
    <3> QED BY <1>0, <2>2, <3>1, <3>2, <3>3 DEF TypeOK
  <2> QED
    BY <1>2, <2>1, <2>2 DEF LoopStep, Poll, SwapPending, RunListen, FinishBatch,
       FirstTest, TestsQuit, HandleMessage, RunEstablish, RunDestroy, RunRemove,
       Calls
<1>3. CASE \E k \in Loops : LoopStep(k)
  <2>1. PICK k \in Loops : LoopStep(k)
    BY <1>3
  <2> QED BY <1>2, <2>1
<1> QED BY <1>1, <1>3 DEF Next, Enters

(* Who moves the server's life on.                                         *)
LEMMA StageBy ==
  ASSUME LifeInv, Next
  PROVE  \/ UNCHANGED <<stage, sweep>>
         \/ stage = "built" /\ stage' = "started"
         \/ AcceptFails /\ stage' = "exited"
         \/ BeginDestroy
         \/ \E c \in Conns : DestroyConnection(c)
         \/ DropMap
         \/ stage = "joining" /\ stage' = "gone"
         \/ stage = "gone" /\ stage' = "over"
<1> USE DEF serverVars, connVars, loopVars, turnVars
<1>1. CASE \/ Enters \/ QuitBase \/ Destruction \/ Accepts
           \/ \E d \in Conns : PeerCloses(d)
           \/ \E n \in 0 .. MaxThreads : Start(n)
  BY <1>1 DEF Enters, EnterLoop, QuitBase, Destruction, CloseAcceptor,
     DestroyBaseLoop, QuitWorker, Accepts, AcceptFails, LogFatal, NewConnection,
     PeerCloses, Start
<1>2. ASSUME NEW l \in Loops, LoopStep(l) PROVE UNCHANGED <<stage, sweep>>
  BY <1>2 DEF LoopStep, Poll, CloseCallback, SwapPending, RunListen, FinishBatch,
     FirstTest, TestsQuit, HandleMessage, HandleClose, RunEstablish, RunDestroy,
     RunRemove, Calls
<1>3. CASE \E l \in Loops : LoopStep(l)
  <2>1. PICK l \in Loops : LoopStep(l)
    BY <1>3
  <2> QED BY <1>2, <2>1
<1> QED BY <1>1, <1>3 DEF Next, Enters

LEMMA CourseStep ==
  ASSUME LifeInv, Next
  PROVE  Course'
<1>0. Typed /\ TypeOK
  BY DEF LifeInv, LiveInv, Typed
<1>1. stage' = "destroying" => sweep' \subseteq connections'
  <2> SUFFICES ASSUME stage' = "destroying" PROVE sweep' \subseteq connections'
    OBVIOUS
  <2>1. CASE BeginDestroy
    BY <2>1 DEF BeginDestroy
  <2>2. CASE stage = "destroying" /\ sweep' \subseteq sweep
    <3>1. place[Base] = "stopped" /\ sweep \subseteq connections
      BY <2>2 DEF LifeInv, LiveInv, PlacesTell, Ending, Course
    <3>2. \A c \in Conns : c \in connections => c \in connections'
      BY <2>2, <3>1, ConnectionsBy DEF DropMap
    <3> QED BY <1>0, <2>2, <3>1, <3>2 DEF TypeOK
  <2> QED BY <2>1, <2>2, StageBy DEF DestroyConnection, DropMap
<1>2. ASSUME NEW l \in Workers, quit'[l] \/ place'[l] = "stopped"
      PROVE  stage' \in {"joining", "gone", "over", "exited"}
  <2> DEFINE Late == {"joining", "gone", "over", "exited"}
  <2>1. stage \in Late => stage' \in Late
    BY StageBy DEF BeginDestroy, DestroyConnection, DropMap
  <2>2. quit[l] \/ place[l] = "stopped" => stage \in Late
    BY DEF LifeInv, Course
  <2>3. quit'[l] => quit[l] \/ stage \in Late
    <3>1. CASE QuitBase \/ Enters
      <4>1. l # Base /\ l \in Loops
        BY DEF Workers, Base, Loops
      <4>2. \/ quit' = [quit EXCEPT ![Base] = TRUE]
            \/ \E k \in Loops : quit' = [quit EXCEPT ![k] = FALSE]
        BY <3>1 DEF QuitBase, Enters, EnterLoop
      <4> QED BY <1>0, <4>1, <4>2 DEF TypeOK
    <3>2. ASSUME NEW k \in Workers, QuitWorker(k) PROVE stage \in Late
      BY <3>2 DEF QuitWorker
    <3>3. ASSUME NEW k \in Loops, LoopStep(k) PROVE quit' = quit
      BY <3>3 DEF LoopStep, Poll, CloseCallback, SwapPending, RunListen,
         FinishBatch, FirstTest, TestsQuit, HandleMessage, HandleClose,
         RunEstablish, RunDestroy, RunRemove, Calls
    <3>4. CASE \/ Accepts \/ BeginDestroy \/ DropMap \/ CloseAcceptor \/ DestroyBaseLoop
               \/ \E c \in Conns : DestroyConnection(c) \/ PeerCloses(c)
               \/ \E n \in 0 .. MaxThreads : Start(n)
      BY <3>4 DEF Accepts, AcceptFails, NewConnection, BeginDestroy, DropMap,
         CloseAcceptor, DestroyBaseLoop, DestroyConnection, PeerCloses, Start, loopVars
    <3>5. CASE \E k \in Loops : LoopStep(k)
      BY <3>3, <3>5
    <3>6. CASE \E k \in Workers : QuitWorker(k)
      BY <3>2, <3>6
    <3> QED BY <3>1, <3>4, <3>5, <3>6 DEF Next, Enters, Destruction
  <2>4. place'[l] = "stopped" => place[l] = "stopped" \/ quit[l] \/ stage' = "exited"
    <3>1. CASE Enters
      BY <1>0, <3>1 DEF Enters, EnterLoop, Goes, TypeOK
    <3>2. CASE AcceptFails
      BY <3>2 DEF AcceptFails, LogFatal
    <3>3. ASSUME NEW k \in Loops, LoopStep(k)
          PROVE  place'[l] = "stopped" => place[l] = "stopped" \/ quit[l]
      <4>1. CASE Tests(k)
        <5>1. place' = [place EXCEPT ![k] = IF quit[k] THEN "stopped" ELSE "poll"]
          BY <4>1, TestsTidy DEF LifeInv, LiveInv, Tests
        <5> QED BY <1>0, <5>1 DEF TypeOK
      <4>2. CASE ~Tests(k)
        <5>1. \/ place' = place
              \/ \E to \in {"dispatch", "close", "batch"} :
                   place' = [place EXCEPT ![k] = to]
          BY <3>3, <4>2 DEF LoopStep, Poll, CloseCallback, SwapPending, RunListen,
             HandleMessage, HandleClose, RunEstablish, RunDestroy, RunRemove, Calls,
             Goes, Dispatches, Tests
        <5> QED BY <1>0, <5>1 DEF TypeOK, Loops
      <4> QED BY <4>1, <4>2
    <3>4. CASE \/ QuitBase \/ Destruction
               \/ \E c \in Conns : NewConnection(c) \/ PeerCloses(c)
      BY <3>4 DEF QuitBase, Destruction, NewConnection, BeginDestroy, DropMap,
         CloseAcceptor, DestroyBaseLoop, DestroyConnection, QuitWorker, PeerCloses,
         loopVars
    <3>5. ASSUME NEW n \in 0 .. MaxThreads, Start(n)
          PROVE  place'[l] = "stopped" => place[l] = "stopped"
      BY <3>5 DEF Start, loopVars
    <3>6. CASE \E k \in Loops : LoopStep(k)
      BY <3>3, <3>6
    <3> QED BY <3>1, <3>2, <3>4, <3>5, <3>6 DEF Next, Enters, Accepts
  <2> QED BY <1>2, <2>1, <2>2, <2>3, <2>4
<1>3. ASSUME NEW l \in Loops, place'[l] # "close", stage' # "exited"
      PROVE  closing'[l] = None
  <2>1. stage # "exited"
    BY <1>3, StageBy DEF BeginDestroy, DestroyConnection, DropMap
  <2>2. ASSUME NEW c \in Conns, HandleClose(l, c) PROVE FALSE
    BY <1>0, <1>3, <2>2 DEF HandleClose, Goes, TypeOK
  <2>3. closing'[l] = closing[l] \/ closing'[l] = None
    BY <2>2, ClosingBy
  <2>4. CASE place[l] # "close"
    BY <2>1, <2>3, <2>4 DEF LifeInv, Course
  <2>5. CASE place[l] = "close" /\ closing'[l] = closing[l] /\ closing[l] # None
    <3>1. stage # "built"
      BY <2>5 DEF LifeInv, LiveInv, Idle
    <3>2. ASSUME NEW k \in Loops, LoopStep(k) PROVE place'[l] = "close"
      <4>1. CASE CloseCallback(k)
        <5>1. k # l
          BY <1>0, <2>5, <4>1 DEF CloseCallback, TypeOK
        <5> QED BY <1>0, <2>5, <4>1, <5>1 DEF CloseCallback, Goes, TypeOK
      <4>2. CASE ~CloseCallback(k)
        <5>1. \/ place' = place
              \/ place[k] # "close" /\ \E to : place' = [place EXCEPT ![k] = to]
          BY <3>2, <4>2 DEF LoopStep, Poll, FinishBatch, FirstTest, TestsQuit,
             SwapPending, RunListen, HandleMessage, HandleClose, RunEstablish,
             RunDestroy, RunRemove, Calls, Goes, Dispatches
        <5> QED BY <1>0, <2>5, <5>1 DEF TypeOK
      <4> QED BY <4>1, <4>2
    <3>3. CASE Enters
      BY <1>0, <1>3, <2>5, <3>3 DEF Enters, EnterLoop, Goes, TypeOK
    <3>4. CASE \/ QuitBase \/ Destruction
               \/ \E c \in Conns : NewConnection(c) \/ PeerCloses(c)
      BY <1>3, <2>5, <3>4 DEF QuitBase, Destruction, NewConnection, BeginDestroy,
         DropMap, CloseAcceptor, DestroyBaseLoop, DestroyConnection, QuitWorker,
         PeerCloses, loopVars
    <3>5. ~AcceptFails /\ \A n \in 0 .. MaxThreads : ~Start(n)
      BY <1>3, <3>1 DEF AcceptFails, LogFatal, Start
    <3>6. CASE \E k \in Loops : LoopStep(k)
      BY <1>3, <3>2, <3>6
    <3> QED BY <1>3, <3>3, <3>4, <3>5, <3>6 DEF Next, Enters, Accepts
  <2> QED BY <2>3, <2>4, <2>5
<1>4. user' = user
  <2>1. ASSUME NEW k \in Loops, LoopStep(k) PROVE user' = user
    BY <2>1 DEF LoopStep, Poll, CloseCallback, SwapPending, RunListen,
       FinishBatch, FirstTest, TestsQuit, HandleMessage, HandleClose,
       RunEstablish, ConnectEstablished, RunDestroy, ConnectDestoryed, RunRemove,
       Calls, connVars
  <2>2. CASE \E k \in Loops : LoopStep(k)
    BY <2>1, <2>2
  <2>3. CASE \/ Enters \/ QuitBase \/ Accepts \/ Destruction
             \/ \E n \in 0 .. MaxThreads : Start(n)
             \/ \E c \in Conns : PeerCloses(c)
    BY <2>3 DEF Enters, EnterLoop, QuitBase, Accepts, AcceptFails, NewConnection,
       ConnectEstablished, ConnectDestoryed, Destruction, BeginDestroy, DropMap,
       CloseAcceptor, DestroyBaseLoop, DestroyConnection, QuitWorker, Start,
       PeerCloses, connVars
  <2> QED BY <2>2, <2>3 DEF Next, Enters
<1> QED BY <1>1, <1>2, <1>3, <1>4 DEF Course, LifeInv

-----------------------------------------------------------------------------
(* Who holds a connection.                                                 *)

(* A functor that is pushed is held, and nothing else is new.              *)
LEMMA PushHolds ==
  ASSUME TypeOK, NEW k \in Loops, NEW g \in Functors, Push(k, g), batch' = batch,
         NEW f
  PROVE  Held(f)' <=> Held(f) \/ f = g
<1>1. /\ \A l \in Loops : l # k => queue'[l] = queue[l]
      /\ Len(queue[k]) \in Nat
      /\ Len(queue'[k]) = Len(queue[k]) + 1
      /\ \A i \in 1 .. Len(queue[k]) : queue'[k][i] = queue[k][i]
      /\ queue'[k][Len(queue[k]) + 1] = g
  BY PushAdds
<1>2. \A l \in Loops :
        (\E i \in 1 .. Len(queue'[l]) : queue'[l][i] = f) <=>
          \/ \E i \in 1 .. Len(queue[l]) : queue[l][i] = f
          \/ l = k /\ f = g
  <2> SUFFICES ASSUME NEW l \in Loops
               PROVE  (\E i \in 1 .. Len(queue'[l]) : queue'[l][i] = f) <=>
                        \/ \E i \in 1 .. Len(queue[l]) : queue[l][i] = f
                        \/ l = k /\ f = g
    OBVIOUS
  <2>1. CASE l # k
    BY <1>1, <2>1
  <2>2. CASE l = k
    <3>1. \A i \in 1 .. Len(queue'[k]) :
            i \in 1 .. Len(queue[k]) \/ i = Len(queue[k]) + 1
      BY <1>1
    <3>2. /\ Len(queue[k]) + 1 \in 1 .. Len(queue'[k])
          /\ \A i \in 1 .. Len(queue[k]) : i \in 1 .. Len(queue'[k])
      BY <1>1
    <3> QED BY <1>1, <2>2, <3>1, <3>2
  <2> QED BY <2>1, <2>2
<1> QED BY <1>2 DEF Held

LEMMA HeldStep ==
  ASSUME LifeInv, Next, NEW f
  PROVE  /\ Held(f)' => Held(f) \/ Pushes(f)
         /\ Held(f) => \/ Held(f)' \/ DestroyBaseLoop
                       \/ \E l \in Loops : Tests(l)
<1>0. TypeOK
  BY DEF LifeInv, LiveInv, Typed
<1>1. CASE GoesOn
  <2>1. CASE queue' = queue /\ batch' = batch
    BY <2>1 DEF Held
  <2>2. ASSUME NEW k \in Loops, NEW g \in Functors, Push(k, g), Pushes(g)
        PROVE  (Held(f)' <=> Held(f) \/ f = g) /\ Pushes(g)
    BY <1>0, <1>1, <2>2, PushHolds DEF GoesOn
  <2>3. CASE \E k \in Loops, g \in Functors : Push(k, g) /\ Pushes(g)
    BY <2>2, <2>3
  <2> QED BY <1>1, <2>1, <2>3 DEF GoesOn
<1>2. ASSUME NEW l \in Loops, SwapPending(l) PROVE Held(f)' <=> Held(f)
  <2>1. /\ place[l] = "dispatch"
        /\ batch' = [batch EXCEPT ![l] = queue[l]]
        /\ queue' = [queue EXCEPT ![l] = << >>]
    BY <1>2 DEF SwapPending
  <2>2. batch[l] = << >>
    BY <2>1 DEF LifeInv, LiveInv, LoopsTidy
  <2>3. /\ batch'[l] = queue[l] /\ Len(queue'[l]) = 0 /\ Len(batch[l]) = 0
        /\ \A k \in Loops : k # l => batch'[k] = batch[k] /\ queue'[k] = queue[k]
    BY <1>0, <2>1, <2>2 DEF TypeOK
  <2>4. (\A i \in 1 .. Len(queue'[l]) : FALSE) /\ (\A i \in 1 .. Len(batch[l]) : FALSE)
    BY <2>3
  <2> QED BY <2>3, <2>4 DEF Held
<1>3. ASSUME NEW l \in Loops, Tests(l) PROVE Held(f)' => Held(f)
  <2>1. /\ batch' = [batch EXCEPT ![l] = << >>]
        /\ queue' = queue \/ queue' = [queue EXCEPT ![l] = << >>]
    BY <1>3, TestsTidy DEF LifeInv, LiveInv, Tests
  <2>2. \A k \in Loops : /\ batch'[k] = batch[k] \/ Len(batch'[k]) = 0
                         /\ queue'[k] = queue[k] \/ Len(queue'[k]) = 0
    BY <1>0, <2>1 DEF TypeOK
  <2> QED BY <2>2 DEF Held
<1>4. ASSUME DestroyBaseLoop PROVE Held(f)' => Held(f)
  <2>1. \A k \in Loops : /\ batch'[k] = batch[k]
                         /\ queue'[k] = queue[k] \/ Len(queue'[k]) = 0
    BY <1>0, <1>4 DEF DestroyBaseLoop, loopVars, TypeOK
  <2> QED BY <2>1 DEF Held
<1>5. CASE \E l \in Loops : SwapPending(l)
  BY <1>2, <1>5
<1>6. CASE \E l \in Loops : Tests(l)
  BY <1>3, <1>6
<1> QED BY <1>1, <1>4, <1>5, <1>6, QueueStep

LEMMA EndedStep ==
  ASSUME LifeInv, Next
  PROVE  Ended'
<1>0. /\ Typed /\ TypeOK /\ OnlyKnown /\ [Next]_vars
      /\ EstablishedOnce' /\ (TypeOK /\ OnlyKnown)'
  BY LiveStep, OnceStep DEF LifeInv, LiveInv, Typed
<1>1. ASSUME NEW c \in Conns, state[c] = "kDisconnected"
      PROVE  state'[c] = "kDisconnected"
  BY <1>1, FaresStep DEF Fares, Stays, Begins, ShutsDown, Ends, Up
<1>2. ASSUME NEW c \in Conns, Held(Functor("remove", c))'
      PROVE  state'[c] = "kDisconnected"
  <2>1. Held(Functor("remove", c)) \/ Pushes(Functor("remove", c))
    BY <1>2, HeldStep
  <2>2. CASE Held(Functor("remove", c))
    BY <1>1, <2>2 DEF LifeInv, Ended
  <2>3. CASE Pushes(Functor("remove", c))
    <3>1. \E l \in Loops : closing[l] = c
      BY <2>3 DEF Pushes, Functor
    <3> QED BY <1>1, <3>1 DEF LifeInv, Ended
  <2> QED BY <2>1, <2>2, <2>3
<1>3. ASSUME NEW c \in Conns, NEW l \in Loops, closing'[l] = c
      PROVE  state'[c] = "kDisconnected"
  <2>1. CASE closing[l] = c
    BY <1>1, <2>1 DEF LifeInv, Ended
  <2>2. CASE closing[l] # c
    <3>1. HandleClose(l, c)
      BY <1>3, <2>2, ClosingBy DEF Conns, None
    <3> QED BY <1>0, <3>1 DEF HandleClose, ClosedState, TypeOK
  <2> QED BY <2>1, <2>2
<1>4. ASSUME NEW c \in Conns, stage' \in {"built", "started"},
             c \in Known', c \notin connections'
      PROVE  state'[c] = "kDisconnected"
  <2>1. stage \in {"built", "started"}
    BY <1>4, StageBy DEF BeginDestroy, DestroyConnection, DropMap
  <2>2. CASE c \in connections
    <3>1. Held(Functor("remove", c)) \/ \E l \in Loops : closing[l] = c
      BY <1>4, <2>1, <2>2, ConnectionsBy DEF DropMap
    <3> QED BY <1>1, <3>1 DEF LifeInv, Ended
  <2>3. CASE c \in Known /\ c \notin connections
    BY <1>1, <2>1, <2>3 DEF LifeInv, Ended
  <2>4. CASE c \notin Known
    <3>1. nextConnId' # nextConnId /\ \A n \in 0 .. MaxThreads : ~Start(n)
      BY <1>4, <2>4 DEF Known, Start
    <3>2. PICK d \in Conns : NewConnection(d)
      BY <1>0, <3>1, TurnsOf
    <3>3. /\ d = nextConnId /\ nextConnId' = nextConnId + 1
          /\ connections' = connections \union {d}
      BY <3>2 DEF NewConnection
    <3> QED BY <1>4, <2>4, <3>3 DEF Known, Conns
  <2> QED BY <2>2, <2>3, <2>4
<1>5. ASSUME NEW c \in Conns, Ending', loopOf'[c] = Base,
             stage' = "destroying" => c \notin sweep', state'[c] = "kConnected"
      PROVE  FALSE
  <2>1. c \in Known'
    BY <1>0, <1>5 DEF EstablishedOnce
  <2>2. ASSUME NEW d \in Conns, NewConnection(d) PROVE FALSE
    BY <1>5, <2>2 DEF NewConnection, AcceptorActive, Ending, LifeInv, LiveInv,
       PlacesTell
  <2>3. c \in Known /\ loopOf[c] = Base
    <3>1. ASSUME NEW n \in 0 .. MaxThreads, Start(n) PROVE FALSE
      BY <1>5, <3>1 DEF Start, Ending
    <3>2. UNCHANGED <<nextConnId, loopOf>>
      BY <1>0, <2>2, <3>1, TurnsOf
    <3> QED BY <1>5, <2>1, <3>2 DEF Known
  <2>4. state[c] = "kConnected"
    <3>1. ASSUME NEW l \in Loops, RunEstablish(l, c) PROVE FALSE
      <4>1. Calls(l, "establish", c) /\ "establish" \in StrongOps
        BY <3>1 DEF RunEstablish, StrongOps
      <4> QED BY <1>0, <2>3, <4>1, CallKnown
    <3>2. state[c] # "kConnecting"
      BY <1>5, <2>2, <3>1, BegunBy
    <3> QED BY <1>5, <3>2, FaresStep DEF Fares, Stays, Begins, ShutsDown, Ends
  <2>5. ~(Ending /\ (stage = "destroying" => c \notin sweep))
    BY <2>3, <2>4 DEF LifeInv, Ended
  <2>6. CASE BeginDestroy
    BY <1>5, <2>3, <2>4, <2>6 DEF BeginDestroy, LifeInv, Ended
  <2>7. ASSUME NEW d \in Conns, DestroyConnection(d) PROVE FALSE
    <3>1. stage = "destroying" /\ stage' = "destroying" /\ sweep' = sweep \ {d}
      BY <2>7 DEF DestroyConnection
    <3>2. c = d
      BY <1>5, <2>5, <3>1 DEF Ending
    <3>3. ConnectDestoryed(c)
      BY <2>3, <2>7, <3>2 DEF DestroyConnection
    <3> QED BY <1>0, <1>5, <2>4, <3>3 DEF ConnectDestoryed, TypeOK
  <2>8. CASE DropMap
    BY <2>5, <2>8 DEF DropMap, Swept, Ending
  <2> QED BY <1>5, <2>5, <2>6, <2>7, <2>8, StageBy DEF Ending
<1> QED BY <1>2, <1>3, <1>4, <1>5 DEF Ended

LEMMA LifeStep == LifeInv /\ [Next]_vars => LifeInv'
<1> SUFFICES ASSUME LifeInv, [Next]_vars PROVE LifeInv'
  OBVIOUS
<1>1. LiveInv'
  BY LiveStep DEF LifeInv
<1>2. CASE UNCHANGED vars
  <2> USE <1>2 DEF vars, serverVars, connVars, loopVars, LifeInv
  <2>1. ToldTells' /\ Watches'
    BY DEF ToldTells, Watches
  <2>2. EstablishedOnce'
    BY DEF EstablishedOnce, OnceIn, Known
  <2>3. Ended' /\ Course'
    BY DEF Ended, Held, Known, Ending, Course
  <2> QED BY <1>1, <2>1, <2>2, <2>3
<1>3. CASE Next
  BY <1>1, <1>3, ToldStep, WatchesStep, OnceStep, EndedStep, CourseStep
     DEF LifeInv
<1> QED BY <1>2, <1>3

LEMMA LifeInvariant == SafeSpec => []LifeInv
<1>1. Init => LifeInv
  BY InitTyped, InitTurn, InitPlaces, InitLive, InitLife DEF LiveInv, LifeInv
<1> QED BY <1>1, LifeStep, PTL DEF SafeSpec

-----------------------------------------------------------------------------
(* Who lives, and who lets go.                                             *)

(* The ways a connection can be alive without user threads.                *)
HeldAlive(c) ==
  \/ c \in connections
  \/ \E l \in Loops : closing[l] = c
  \/ \E op \in StrongOps : Held(Functor(op, c))

LEMMA AliveIs ==
  TypeOK /\ Course => \A c \in Conns : Alive(c) <=> HeldAlive(c)
<1> SUFFICES ASSUME TypeOK, Course, NEW c \in Conns
             PROVE  Alive(c) <=> HeldAlive(c)
  OBVIOUS
<1>1. ASSUME NEW s \in Seq(Functors), NEW i \in 1 .. Len(s)
      PROVE  Holds(s[i], c) <=> \E op \in StrongOps : s[i] = Functor(op, c)
  <2>1. PICK f \in Functors : f = s[i]
    BY ElementOfSeq
  <2>2. f = [op |-> f.op, conn |-> f.conn]
    BY DEF Functors
  <2>3. Holds(f, c) => f = Functor(f.op, c)
    BY <2>2 DEF Holds, Functor
  <2>4. \A op \in StrongOps : Holds(Functor(op, c), c)
    BY DEF Holds, Functor
  <2>5. Holds(f, c) => f.op \in StrongOps
    BY DEF Holds
  <2> QED BY <2>1, <2>3, <2>4, <2>5
<1>2. /\ \A l \in Loops : queue[l] \in Seq(Functors) /\ batch[l] \in Seq(Functors)
      /\ user[c] = "none"
  BY DEF TypeOK, Course
<1>3. ASSUME InFunctor(c) PROVE \E op \in StrongOps : Held(Functor(op, c))
  <2>1. PICK l \in Loops : \/ \E i \in 1 .. Len(queue[l]) : Holds(queue[l][i], c)
                          \/ \E i \in 1 .. Len(batch[l]) : Holds(batch[l][i], c)
    BY <1>3 DEF InFunctor
  <2>2. CASE \E i \in 1 .. Len(queue[l]) : Holds(queue[l][i], c)
    <3>1. PICK i \in 1 .. Len(queue[l]) : Holds(queue[l][i], c)
      BY <2>2
    <3>2. PICK op \in StrongOps : queue[l][i] = Functor(op, c)
      BY <1>1, <1>2, <3>1
    <3> QED BY <3>2 DEF Held
  <2>3. CASE \E i \in 1 .. Len(batch[l]) : Holds(batch[l][i], c)
    <3>1. PICK i \in 1 .. Len(batch[l]) : Holds(batch[l][i], c)
      BY <2>3
    <3>2. PICK op \in StrongOps : batch[l][i] = Functor(op, c)
      BY <1>1, <1>2, <3>1
    <3> QED BY <3>2 DEF Held
  <2> QED BY <2>1, <2>2, <2>3
<1>4. ASSUME NEW op \in StrongOps, Held(Functor(op, c)) PROVE InFunctor(c)
  <2>1. Holds(Functor(op, c), c)
    BY DEF Holds, Functor
  <2> QED BY <1>4, <2>1 DEF Held, InFunctor
<1> QED BY <1>2, <1>3, <1>4 DEF Alive, HeldAlive

LEMMA AliveIsAfter ==
  (TypeOK /\ Course => \A c \in Conns : Alive(c) <=> HeldAlive(c))'
  BY AliveIs, PTL

(* A connection that is gone does not come back, and a reference is let go *)
(* of by the map or with a loop's functors only.                           *)
LEMMA AliveStep ==
  ASSUME LifeInv, Next, NEW c \in Known
  PROVE  /\ Alive(c)' => Alive(c)
         /\ Alive(c) => \/ Alive(c)' \/ DropMap \/ DestroyBaseLoop
                        \/ \E l \in Loops : Tests(l)
<1>0. /\ TypeOK /\ Typed /\ OnlyKnown /\ LiveInv /\ Course /\ c \in Conns /\ c # None
      /\ (TypeOK /\ Course)'
  BY LiveStep, CourseStep DEF LifeInv, LiveInv, Typed, Known, Conns, None
<1>1. Alive(c) <=> HeldAlive(c)
  BY <1>0, AliveIs
<1>2. Alive(c)' <=> HeldAlive(c)'
  BY <1>0, AliveIsAfter
<1>3. ~NewConnection(c)
  BY DEF NewConnection, Known, Conns
<1>4. ASSUME HeldAlive(c)' PROVE Alive(c)
  <2>1. CASE c \in connections'
    <3>1. c \in connections
      <4>1. ASSUME NEW d \in Conns, NewConnection(d) PROVE c \in connections
        BY <1>3, <2>1, <4>1 DEF NewConnection
      <4>2. ASSUME NEW l \in Loops, LoopStep(l) PROVE connections' \subseteq connections
        BY <4>2 DEF LoopStep, Poll, CloseCallback, SwapPending, RunListen,
           FinishBatch, FirstTest, TestsQuit, HandleMessage, HandleClose,
           RunEstablish, RunDestroy, RunRemove, RemoveConnectionInLoop, Erased,
           serverVars
      <4>3. CASE \E l \in Loops : LoopStep(l)
        BY <2>1, <4>2, <4>3
      <4>4. CASE \/ Enters \/ QuitBase \/ AcceptFails \/ Destruction
                 \/ \E n \in 0 .. MaxThreads : Start(n)
                 \/ \E d \in Conns : PeerCloses(d)
        BY <2>1, <4>4 DEF Enters, EnterLoop, QuitBase, AcceptFails, Destruction,
           BeginDestroy, DropMap, CloseAcceptor, DestroyBaseLoop,
           DestroyConnection, QuitWorker, Start, PeerCloses, serverVars
      <4> QED BY <4>1, <4>3, <4>4 DEF Next, Enters, Accepts
    <3> QED BY <3>1 DEF Alive
  <2>2. ASSUME NEW l \in Loops, closing'[l] = c PROVE Alive(c)
    <3>1. CASE closing[l] = c
      BY <3>1 DEF Alive
    <3>2. CASE HandleClose(l, c)
      <4>1. c \in watched /\ loopOf[c] = l /\ place[l] = "dispatch"
        BY <1>0, <3>2 DEF HandleClose, Dispatches, LiveInv, LoopsTidy, ConnsOf
      <4> QED BY <1>0, <4>1, WatchedLives
    <3> QED BY <1>0, <2>2, <3>1, <3>2, ClosingBy
  <2>3. ASSUME NEW op \in StrongOps, Held(Functor(op, c))' PROVE Alive(c)
    <3>1. CASE Held(Functor(op, c))
      BY <1>1, <3>1 DEF HeldAlive
    <3>2. CASE Pushes(Functor(op, c))
      BY <1>3, <3>2 DEF Pushes, Functor, Alive, StrongOps
    <3> QED BY <2>3, <3>1, <3>2, HeldStep
  <2> QED BY <1>4, <2>1, <2>2, <2>3 DEF HeldAlive
<1>5. ASSUME HeldAlive(c), ~DropMap, ~DestroyBaseLoop, \A l \in Loops : ~Tests(l)
      PROVE  HeldAlive(c)'
  <2>0. ASSUME NEW k \in Loops, NEW op \in StrongOps, Push(k, Functor(op, c)),
               batch' = batch
        PROVE  HeldAlive(c)'
    <3>1. Functor(op, c) \in Functors
      BY <1>0, FunctorTyped
    <3>2. Held(Functor(op, c))'
      BY <1>0, <2>0, <3>1, PushHolds
    <3> QED BY <3>2 DEF HeldAlive
  <2>1. CASE c \in connections
    <3>1. CASE c \in connections'
      BY <3>1 DEF HeldAlive
    <3>2. CASE /\ place[Base] \in {"close", "batch"}
               /\ Push(loopOf[c], Functor("destroy", c))
      <4>1. loopOf[c] \in Loops /\ "destroy" \in StrongOps
        BY <1>0 DEF TypeOK, StrongOps
      <4>2. Functor("destroy", c) \in Functors
        BY <1>0, <4>1, FunctorTyped
      <4>3. PICK k \in Loops : k = loopOf[c]
        BY <4>1
      <4>4. Len(queue[k]) \in Nat /\ Len(queue'[k]) = Len(queue[k]) + 1
        BY <1>0, <3>2, <4>2, <4>3, PushAdds
      <4>5. ASSUME NEW l \in Loops, SwapPending(l) PROVE FALSE
        <5>1. queue'[k] = queue[k] \/ Len(queue'[k]) = 0
          BY <1>0, <4>5 DEF SwapPending, TypeOK
        <5> QED BY <4>4, <5>1
      <4>6. batch' = batch
        BY <1>5, <4>5, QueueStep DEF GoesOn
      <4> QED BY <2>0, <3>2, <4>1, <4>3, <4>6
    <3> QED BY <1>0, <1>5, <2>1, <3>1, <3>2, ConnectionsBy
  <2>2. ASSUME NEW l \in Loops, closing[l] = c PROVE HeldAlive(c)'
    <3>1. CASE closing'[l] = c
      BY <3>1 DEF HeldAlive
    <3>2. CASE CloseCallback(l)
      <4>1. /\ batch' = batch
            /\ \/ Push(loopOf[c], Functor("destroy", c))
               \/ Push(Base, Functor("remove", c))
        BY <2>2, <3>2 DEF CloseCallback, RemoveConnectionInLoop
      <4>2. /\ loopOf[c] \in Loops /\ Base \in Loops
            /\ "destroy" \in StrongOps /\ "remove" \in StrongOps
        BY <1>0 DEF TypeOK, Loops, StrongOps
      <4>3. PICK k \in Loops : k = loopOf[c]
        BY <4>2
      <4> QED BY <2>0, <4>1, <4>2, <4>3
    <3> QED BY <1>0, <2>2, <3>1, <3>2, ClosingBy
  <2>3. ASSUME NEW op \in StrongOps, Held(Functor(op, c)) PROVE HeldAlive(c)'
    <3>1. Held(Functor(op, c))'
      BY <1>5, <2>3, HeldStep
    <3> QED BY <3>1 DEF HeldAlive
  <2> QED BY <1>5, <2>1, <2>2, <2>3 DEF HeldAlive
<1> QED BY <1>1, <1>2, <1>4, <1>5

(* A worker leaves loop() while connectDestoryed of c is in its queue.     *)
LeftQueued(c) ==
  \E l \in Workers : place[l] # "stopped" /\ place'[l] = "stopped"
                     /\ \E i \in 1 .. Len(queue[l]) :
                          queue[l][i] = Functor("destroy", c)

(* What is provided for c holds it.                                        *)
LEMMA ProvidedHolds ==
  ASSUME LiveInv, NEW c \in watched, place[loopOf[c]] # "stopped", Leaving(c)
  PROVE  /\ DestroyQueued(c, 0) \/ DestroyInBatch(c, ran[loopOf[c]])
         /\ Held(Functor("destroy", c))
<1>0. TypeOK /\ c \in Conns
  BY DEF LiveInv, Typed, TypeOK
<1>1. PICK l \in Loops : l = loopOf[c]
  BY <1>0 DEF TypeOK
<1>2. DestroyQueued(c, 0) \/ DestroyInBatch(c, ran[l])
  BY <1>0, <1>1 DEF LiveInv, Kept, Provided
<1>3. DestroyQueued(c, 0) => Held(Functor("destroy", c))
  BY <1>1 DEF DestroyQueued, Held
<1>4. ASSUME DestroyInBatch(c, ran[l]) PROVE Held(Functor("destroy", c))
  <2>1. PICK j \in ran[l] + 1 .. Len(batch[l]) : batch[l][j] = Functor("destroy", c)
    BY <1>1, <1>4 DEF DestroyInBatch
  <2>2. j \in 1 .. Len(batch[l])
    BY <1>0, <2>1 DEF TypeOK
  <2> QED BY <2>1, <2>2 DEF Held
<1> QED BY <1>1, <1>2, <1>3, <1>4

(* A functor that begins or ends c is in c's loop.                         *)
LEMMA HeldAtHome ==
  ASSUME LiveInv, NEW c \in Conns, NEW op \in {"establish", "destroy"},
         Held(Functor(op, c))
  PROVE  \E l \in Loops :
           /\ l = loopOf[c]
           /\ \/ \E i \in 1 .. Len(queue[l]) : queue[l][i] = Functor(op, c)
              \/ \E i \in 1 .. Len(batch[l]) : batch[l][i] = Functor(op, c)
<1>1. PICK l \in Loops :
        \/ \E i \in 1 .. Len(queue[l]) : queue[l][i] = Functor(op, c)
        \/ \E i \in 1 .. Len(batch[l]) : batch[l][i] = Functor(op, c)
  BY DEF Held
<1>2. FunctorKnown(l, Functor(op, c))
  BY <1>1 DEF LiveInv, OnlyKnown
<1>3. l = loopOf[c]
  BY <1>2 DEF FunctorKnown, Functor
<1> QED BY <1>1, <1>3

(* The end of a connection that the user has not been told the end of.     *)
LEMMA FreedStep ==
  ASSUME LifeInv, Next, NEW c \in Known, Alive(c), ~Alive(c)'
  PROVE  \/ state[c] = "kDisconnected"
         \/ Ending /\ (state[c] = "kConnected" => LeftQueued(c))
<1>0. /\ TypeOK /\ LiveInv /\ Course /\ Ended /\ Watches /\ LoopsTidy /\ c \in Conns
      /\ (TypeOK /\ Course)'
  BY LiveStep, CourseStep DEF LifeInv, LiveInv, Typed, Known
<1>1. HeldAlive(c)
  BY <1>0, AliveIs
<1>2. ~HeldAlive(c)'
  BY <1>0, AliveIsAfter
<1>3. \A op \in StrongOps : ~Held(Functor(op, c))'
  BY <1>2 DEF HeldAlive
<1>4. PICK l \in Loops : l = loopOf[c]
  BY <1>0 DEF TypeOK
<1>5. ASSUME state[c] # "kDisconnected", NEW op \in StrongOps, Held(Functor(op, c))
      PROVE  op \in {"establish", "destroy"}
  BY <1>0, <1>5 DEF Ended, StrongOps
<1> USE DEF serverVars, connVars, loopVars
<1>6. CASE DropMap
  <2>1. /\ stage = "destroying" /\ sweep = {} /\ Ending
        /\ queue' = queue /\ batch' = batch
    BY <1>6 DEF DropMap, Swept, Ending
  <2>2. ASSUME state[c] = "kConnected" PROVE FALSE
    <3>1. l # Base
      BY <1>0, <1>4, <2>1, <2>2 DEF Ended
    <3>2. place[l] # "stopped"
      BY <1>0, <2>1, <3>1 DEF Course, Loops
    <3>3. c \in watched /\ Leaving(c)
      BY <1>0, <1>4, <2>1, <2>2, <3>2 DEF Watches, Leaving
    <3>4. Held(Functor("destroy", c))
      BY <1>0, <1>4, <3>2, <3>3, ProvidedHolds
    <3>5. Held(Functor("destroy", c))'
      BY <2>1, <3>4 DEF Held
    <3> QED BY <1>3, <3>5 DEF StrongOps
  <2> QED BY <2>1, <2>2
<1>7. CASE DestroyBaseLoop
  <2>1. /\ stage = "gone" /\ Ending /\ UNCHANGED <<connections, closing, batch>>
        /\ \A k \in Loops : k # Base => queue'[k] = queue[k]
    BY <1>0, <1>7 DEF DestroyBaseLoop, Ending, TypeOK
  <2>2. ASSUME state[c] = "kConnected" PROVE FALSE
    <3>1. l # Base
      BY <1>0, <1>4, <2>1, <2>2 DEF Ended
    <3>2. PICK op \in StrongOps : Held(Functor(op, c))
      BY <1>1, <1>2, <2>1 DEF HeldAlive
    <3>3. op \in {"establish", "destroy"}
      BY <1>5, <2>2, <3>2
    <3>4. \/ \E i \in 1 .. Len(queue[l]) : queue[l][i] = Functor(op, c)
          \/ \E i \in 1 .. Len(batch[l]) : batch[l][i] = Functor(op, c)
      BY <1>0, <1>4, <3>2, <3>3, HeldAtHome
    <3>5. Held(Functor(op, c))'
      BY <2>1, <3>1, <3>4 DEF Held
    <3> QED BY <1>3, <3>5
  <2> QED BY <2>1, <2>2
<1>8. ASSUME NEW k \in Loops, Tests(k), state[c] # "kDisconnected"
      PROVE  Ending /\ (state[c] = "kConnected" => LeftQueued(c))
  <2>1. /\ place[k] \in {"batch", "entered"} /\ ran[k] = Len(batch[k])
        /\ UNCHANGED <<stage, connections, closing>>
        /\ \A h \in Loops : h # k => queue'[h] = queue[h] /\ batch'[h] = batch[h]
        /\ place' = [place EXCEPT ![k] = IF quit[k] THEN "stopped" ELSE "poll"]
        /\ ~(quit[k] /\ k # Base) => queue' = queue
    <3>1. /\ place[k] \in {"batch", "entered"} /\ ran[k] = Len(batch[k])
          /\ UNCHANGED <<stage, connections, closing>>
          /\ place' = [place EXCEPT ![k] = IF quit[k] THEN "stopped" ELSE "poll"]
          /\ batch' = [batch EXCEPT ![k] = << >>]
          /\ \/ quit[k] /\ k # Base /\ queue' = [queue EXCEPT ![k] = << >>]
             \/ ~(quit[k] /\ k # Base) /\ queue' = queue
      BY <1>0, <1>8, TestsTidy DEF LiveInv, Tests
    <3> QED BY <1>0, <3>1 DEF TypeOK
  <2>2. PICK op \in StrongOps : Held(Functor(op, c))
    BY <1>1, <1>2, <2>1 DEF HeldAlive
  <2>3. op \in {"establish", "destroy"}
    BY <1>5, <1>8, <2>2
  <2>4. \/ \E i \in 1 .. Len(queue[l]) : queue[l][i] = Functor(op, c)
        \/ \E i \in 1 .. Len(batch[l]) : batch[l][i] = Functor(op, c)
    BY <1>0, <1>4, <2>2, <2>3, HeldAtHome
  <2>5. l = k
    <3>1. CASE l # k
      BY <1>3, <2>1, <2>4, <3>1 DEF Held
    <3> QED BY <3>1
  <2>6. c \notin connections
    BY <1>2, <2>1 DEF HeldAlive
  <2>7. Ending
    <3>1. stage \in Stages /\ stage # "exited"
      BY <1>0, <2>1 DEF TypeOK, LoopsTidy
    <3>2. stage \notin {"built", "started"}
      BY <1>0, <1>8, <2>6 DEF Ended
    <3> QED BY <3>1, <3>2 DEF Ending, Stages
  <2>8. ASSUME state[c] = "kConnected" PROVE LeftQueued(c)
    <3>1. c \in watched /\ Leaving(c)
      BY <1>0, <1>4, <2>1, <2>5, <2>6, <2>8 DEF Watches, Leaving
    <3>2. DestroyQueued(c, 0) \/ DestroyInBatch(c, ran[l])
      BY <1>0, <1>4, <2>1, <2>5, <3>1, ProvidedHolds
    <3>3. ~DestroyInBatch(c, ran[l])
      BY <1>0, <1>4, <2>1, <2>5 DEF DestroyInBatch, TypeOK
    <3>4. PICK i \in 1 .. Len(queue[k]) : queue[k][i] = Functor("destroy", c)
      BY <1>4, <2>5, <3>2, <3>3 DEF DestroyQueued
    <3>5. quit[k] /\ k # Base
      <4>1. CASE queue' = queue
        <5>1. Held(Functor("destroy", c))'
          BY <3>4, <4>1 DEF Held
        <5> QED BY <1>3, <5>1 DEF StrongOps
      <4> QED BY <2>1, <4>1
    <3>6. k \in Workers /\ place'[k] = "stopped"
      BY <1>0, <2>1, <3>5 DEF Loops, TypeOK
    <3> QED BY <2>1, <3>4, <3>6 DEF LeftQueued
  <2> QED BY <2>7, <2>8
<1> QED BY <1>6, <1>7, <1>8, AliveStep

(* What the user may have been told differs.                               *)
LEMMA ToldDiffer ==
  << "up" >> # << >> /\ << "up", "down" >> # << >> /\ << "up" >> # << "up", "down" >>
<1>1. Len(<< >>) = 0 /\ Len(<< "up" >>) = 1 /\ Len(<< "up", "down" >>) = 2
  OBVIOUS
<1>2. << "up" >> # << >>
  BY <1>1
<1>3. << "up", "down" >> # << >>
  BY <1>1
<1>4. << "up" >> # << "up", "down" >>
  BY <1>1
<1> QED BY <1>2, <1>3, <1>4

(* DownUnlessLeft: the last reference to a connection the user counts as up*)
(* goes without a "down" only if it was being shut down or its loop quit   *)
(* with its connectDestoryed queued (~TcpServer, connectDestoryed).        *)
THEOREM EndIsToldUnlessLeft == SafeSpec => DownUnlessLeft
<1>1. ASSUME LifeInv, [Next]_vars
      PROVE  [\A c \in Conns :
                told[c] = << "up" >> /\ Alive(c) /\ ~Alive(c)' => LeftUntold(c)]_vars
  <2> SUFFICES ASSUME Next, NEW c \in Conns, told[c] = << "up" >>, Alive(c), ~Alive(c)'
               PROVE  LeftUntold(c)
    BY <1>1
  <2>1. << "up" >> # << >> /\ << "up" >> # << "up", "down" >>
    BY ToldDiffer
  <2>2. state[c] \in Up
    <3>1. state[c] \in States
      BY <1>1 DEF LifeInv, LiveInv, Typed, TypeOK
    <3>2. state[c] # "kConnecting" /\ state[c] # "kDisconnected"
      BY <1>1, <2>1 DEF LifeInv, ToldTells
    <3> QED BY <3>1, <3>2 DEF States, Up
  <2>3. c \in Known
    BY <1>1, <2>2 DEF LifeInv, EstablishedOnce, Up
  <2> QED BY <1>1, <2>2, <2>3, FreedStep DEF Up, LeftUntold, LeftQueued
<1> QED BY <1>1, LifeInvariant, PTL DEF SafeSpec, DownUnlessLeft

-----------------------------------------------------------------------------
(* The promise about connections' lives.                                   *)

(* The life of a connection from what the user was told.                   *)
LifeTells(c) ==
  /\ c \notin Known => LifeOf(c) = "none"
  /\ c \in Known /\ (stage = "exited" \/ ~Alive(c)) => LifeOf(c) = "freed"
  /\ c \in Known /\ stage # "exited" /\ Alive(c) =>
       /\ told[c] = << >> => LifeOf(c) = "accepted"
       /\ told[c] = << "up" >> => LifeOf(c) = "up"
       /\ told[c] = << "up", "down" >> => LifeOf(c) = "down"

LEMMA LifeIs == LifeInv => \A c \in Conns : LifeTells(c)
<1> SUFFICES ASSUME LifeInv, NEW c \in Conns PROVE LifeTells(c)
  OBVIOUS
<1>1. nextConnId \in Nat /\ (c \in Known <=> ~(c >= nextConnId))
  BY ConnsAssumption DEF LifeInv, LiveInv, Typed, TypeOK, Known, Conns
<1> QED BY <1>1, ToldDiffer DEF LifeOf, LifeTells

LEMMA LifeIsAfter == (LifeInv => \A c \in Conns : LifeTells(c))'
  BY LifeIs, PTL

(* Three things are told, and state_ says which.                           *)
LEMMA ToldIs ==
  ASSUME LifeInv, NEW c \in Conns
  PROVE  \/ state[c] = "kConnecting" /\ told[c] = << >>
         \/ state[c] \in Up /\ told[c] = << "up" >>
         \/ state[c] = "kDisconnected" /\ told[c] = << "up", "down" >>
<1>1. state[c] \in States
  BY DEF LifeInv, LiveInv, Typed, TypeOK
<1> QED BY <1>1 DEF States, LifeInv, ToldTells, Up

(* What the user is told of one connection at a time, in a step that       *)
(* neither ends the process nor lets go of anything.                       *)
LEMMA ToldBy ==
  ASSUME LifeInv, Next, told' # told
  PROVE  /\ stage' = stage
         /\ ~DropMap /\ ~DestroyBaseLoop /\ \A l \in Loops : ~Tests(l)
         /\ \E d \in Conns : \A c \in Conns : c # d => told'[c] = told[c]
<1>0. told \in [Conns -> Seq({"up", "down"})]
  BY DEF LifeInv, LiveInv, Typed, TypeOK
<1> USE DEF serverVars, connVars, loopVars, turnVars
<1>1. ~DropMap /\ ~DestroyBaseLoop /\ \A l \in Loops : ~Tests(l)
  BY DEF DropMap, DestroyBaseLoop, Tests, FinishBatch, FirstTest, TestsQuit
<1>2. /\ ~Enters /\ ~QuitBase /\ ~AcceptFails /\ ~BeginDestroy /\ ~CloseAcceptor
      /\ \A n \in 0 .. MaxThreads : ~Start(n)
      /\ \A l \in Workers : ~QuitWorker(l)
      /\ \A d \in Conns : ~PeerCloses(d)
  BY DEF Enters, EnterLoop, QuitBase, AcceptFails, BeginDestroy, CloseAcceptor,
     Start, QuitWorker, PeerCloses
<1>3. ASSUME NEW d \in Conns, ConnectEstablished(d) \/ ConnectDestoryed(d)
      PROVE  \A c \in Conns : c # d => told'[c] = told[c]
  BY <1>0, <1>3 DEF ConnectEstablished, ConnectDestoryed
<1>4. ASSUME NEW d \in Conns, NewConnection(d) \/ DestroyConnection(d)
      PROVE  stage' = stage /\ (ConnectEstablished(d) \/ ConnectDestoryed(d))
  BY <1>4 DEF NewConnection, DestroyConnection
<1>5. ASSUME NEW l \in Loops, LoopStep(l)
      PROVE  /\ stage' = stage
             /\ \E d \in Conns : \A c \in Conns : c # d => told'[c] = told[c]
  <2>1. /\ ~Poll(l) /\ ~CloseCallback(l) /\ ~SwapPending(l) /\ ~RunListen(l)
        /\ \A d \in Conns : ~HandleMessage(l, d) /\ ~RunRemove(l, d)
    BY DEF Poll, CloseCallback, SwapPending, RunListen, HandleMessage, RunRemove
  <2>2. ASSUME NEW d \in Conns, HandleClose(l, d)
        PROVE  stage' = stage /\ \A c \in Conns : c # d => told'[c] = told[c]
    BY <1>0, <2>2 DEF HandleClose
  <2>3. ASSUME NEW d \in Conns, RunEstablish(l, d) \/ RunDestroy(l, d)
        PROVE  stage' = stage /\ \A c \in Conns : c # d => told'[c] = told[c]
    BY <1>3, <2>3 DEF RunEstablish, RunDestroy, Calls
  <2> QED BY <1>1, <1>5, <2>1, <2>2, <2>3 DEF LoopStep, Tests
<1> QED BY <1>1, <1>2, <1>3, <1>4, <1>5 DEF Next, Enters, Accepts, Destruction

(* A server that is being destroyed, or whose process has ended.           *)
Closed == stage \notin {"built", "started"}

(* A connection leads the life it led.                                     *)
LEMMA LifeSame ==
  ASSUME LifeInv, LifeInv', NEW c \in Conns, nextConnId' = nextConnId,
         told'[c] = told[c], stage' = "exited" <=> stage = "exited",
         c \in Known => (Alive(c)' <=> Alive(c))
  PROVE  LifeOf(c)' = LifeOf(c)
<1>1. LifeTells(c) /\ LifeTells(c)'
  BY LifeIs, LifeIsAfter
<1>2. c \in Known <=> c \in Known'
  BY DEF Known
<1>3. told[c] \in {<< >>, << "up" >>, << "up", "down" >>}
  BY ToldIs
<1> QED BY <1>1, <1>2, <1>3 DEF LifeTells

(* A step that tells nobody anything lets go of some connections, or begins*)
(* ~TcpServer.                                                             *)
LEMMA QuietImplements ==
  ASSUME LifeInv, LifeInv', Next, told' = told, nextConnId' = nextConnId,
         stage # "exited", stage' # "exited"
  PROVE  [Life!Next]_Life!vars
<1>1. PICK S \in SUBSET Conns : S = {c \in Known : Alive(c) /\ ~Alive(c)'}
  BY DEF Known
<1>2. ASSUME NEW c \in Conns, c \notin S PROVE LifeOf(c)' = LifeOf(c)
  <2>1. c \in Known => (Alive(c)' <=> Alive(c))
    BY <1>1, <1>2, AliveStep
  <2> QED BY <2>1, LifeSame
<1>3. ASSUME NEW c \in S
      PROVE  /\ LifeOf(c)' = "freed"
             /\ \/ LifeOf(c) = "down"
                \/ Ending /\ LifeOf(c) \in {"accepted", "up"}
  <2>1. c \in Known /\ c \in Known' /\ c \in Conns /\ Alive(c) /\ ~Alive(c)'
    BY <1>1 DEF Known
  <2>2. LifeTells(c) /\ LifeTells(c)'
    BY <2>1, LifeIs, LifeIsAfter
  <2>3. state[c] = "kDisconnected" \/ Ending
    BY <2>1, FreedStep
  <2>4. \/ LifeOf(c) = "down"
        \/ state[c] # "kDisconnected" /\ LifeOf(c) \in {"accepted", "up"}
    <3>1. CASE state[c] = "kConnecting" /\ told[c] = << >>
      BY <2>1, <2>2, <3>1 DEF LifeTells
    <3>2. CASE state[c] \in Up /\ told[c] = << "up" >>
      BY <2>1, <2>2, <3>2 DEF LifeTells, Up
    <3>3. CASE state[c] = "kDisconnected" /\ told[c] = << "up", "down" >>
      BY <2>1, <2>2, <3>3 DEF LifeTells
    <3> QED BY <2>1, <3>1, <3>2, <3>3, ToldIs
  <2> QED BY <2>1, <2>2, <2>3, <2>4 DEF LifeTells
<1>4. CASE BeginDestroy
  <2>1. ~DropMap /\ ~DestroyBaseLoop /\ \A l \in Loops : ~Tests(l)
    BY <1>4 DEF BeginDestroy, DropMap, DestroyBaseLoop, Tests, FinishBatch,
       FirstTest, TestsQuit, serverVars
  <2>2. S = {}
    BY <1>1, <2>1, AliveStep
  <2>3. \A c \in Conns : LifeOf(c)' = LifeOf(c)
    BY <1>2, <2>2
  <2>4. Life!Close
    BY <1>4, <2>3 DEF BeginDestroy, Life!Close
  <2> QED BY <2>4 DEF Life!Next
<1>5. CASE ~BeginDestroy
  <2>1. (stage \notin {"built", "started"}) <=> (stage' \notin {"built", "started"})
    BY <1>5, StageBy DEF DropMap, DestroyConnection
  <2>2. \A c \in S : LifeOf(c) \in
           {"down"} \union (IF stage \notin {"built", "started"}
                            THEN {"accepted", "up"} ELSE {})
    BY <1>3 DEF Ending
  <2>3. \A c \in Conns : LifeOf(c)' = IF c \in S THEN "freed" ELSE LifeOf(c)
    BY <1>2, <1>3
  <2>4. Life!Release(S)
    BY <2>1, <2>2, <2>3 DEF Life!Release, Life!Releasable
  <2> QED BY <2>4 DEF Life!Next
<1> QED BY <1>4, <1>5

(* A step that tells the user something of one connection.                 *)
LEMMA TellingImplements ==
  ASSUME LifeInv, LifeInv', Next, told' # told, nextConnId' = nextConnId
  PROVE  [Life!Next]_Life!vars
<1>1. stage' = stage /\ \A c \in Known : Alive(c)' <=> Alive(c)
  BY ToldBy, AliveStep
<1>2. PICK d \in Conns : \A c \in Conns : c # d => told'[c] = told[c]
  BY ToldBy
<1>3. \A c \in Conns : c # d => LifeOf(c)' = LifeOf(c)
  BY <1>1, <1>2, LifeSame
<1>4. LifeTells(d) /\ LifeTells(d)' /\ (d \in Known <=> d \in Known')
  BY LifeIs, LifeIsAfter DEF Known
<1>5. ASSUME LifeOf(d)' = LifeOf(d) PROVE UNCHANGED Life!vars
  BY <1>1, <1>3, <1>5 DEF Life!vars
<1>6. CASE ~(d \in Known /\ stage # "exited" /\ Alive(d))
  BY <1>1, <1>4, <1>5, <1>6 DEF LifeTells
<1>7. CASE d \in Known /\ stage # "exited" /\ Alive(d)
  <2>1. Fares(d)
    BY FaresStep
  <2>2. CASE Stays(d) \/ ShutsDown(d)
    <3>1. LifeOf(d)' = LifeOf(d)
      BY <1>1, <2>2, LifeSame DEF Stays, ShutsDown
    <3> QED BY <1>5, <3>1
  <2>3. CASE Begins(d)
    <3>1. LifeOf(d) = "accepted" /\ LifeOf(d)' = "up"
      <4>1. told[d] = << >> /\ told'[d] = << "up" >>
        BY <2>3 DEF Begins, Up, LifeInv, ToldTells
      <4> QED BY <1>1, <1>4, <1>7, <4>1 DEF LifeTells
    <3>2. Life!TellUp(d)
      BY <1>1, <1>3, <3>1 DEF Life!TellUp, Life!Moves
    <3> QED BY <3>2 DEF Life!Next
  <2>4. CASE Ends(d)
    <3>1. LifeOf(d) = "up" /\ LifeOf(d)' = "down"
      <4>1. told[d] = << "up" >> /\ told'[d] = << "up", "down" >>
        BY <2>4 DEF Ends, LifeInv, ToldTells
      <4> QED BY <1>1, <1>4, <1>7, <4>1 DEF LifeTells
    <3>2. Life!TellDown(d)
      BY <1>1, <1>3, <3>1 DEF Life!TellDown, Life!Moves
    <3> QED BY <3>2 DEF Life!Next
  <2> QED BY <2>1, <2>2, <2>3, <2>4 DEF Fares
<1> QED BY <1>6, <1>7

(* newConnection.                                                          *)
LEMMA AcceptImplements ==
  ASSUME LifeInv, LifeInv', Next, NEW d \in Conns, NewConnection(d)
  PROVE  [Life!Next]_Life!vars
<1>0. TypeOK /\ nextConnId \in Nat
  <2>1. TypeOK
    BY DEF LifeInv, LiveInv, Typed
  <2> QED BY <2>1, ConnsAssumption DEF TypeOK
<1>1. /\ place[Base] = "dispatch" /\ stage' = stage /\ d = nextConnId
      /\ nextConnId' = nextConnId + 1 /\ connections' = connections \union {d}
      /\ told' = told \/ told' = [told EXCEPT ![d] = Append(@, "up")]
  BY DEF NewConnection, AcceptorActive, ConnectEstablished, connVars
<1>2. stage \in {"built", "started"} /\ stage' # "exited"
  BY <1>0, <1>1 DEF LifeInv, LiveInv, PlacesTell, LoopsTidy, Ending, TypeOK,
     Stages, Loops
<1>3. ASSUME NEW c \in Conns, c # d PROVE LifeOf(c)' = LifeOf(c)
  <2>1. c \in Known <=> c \in Known'
    BY <1>0, <1>1, <1>3 DEF Known, Conns
  <2>2. told'[c] = told[c]
    BY <1>0, <1>1, <1>3 DEF TypeOK
  <2>3. ~DropMap /\ ~DestroyBaseLoop /\ \A l \in Loops : ~Tests(l)
    BY <1>1, <1>2 DEF DropMap, DestroyBaseLoop, Tests, FinishBatch, FirstTest,
       TestsQuit, serverVars
  <2>4. c \in Known => (Alive(c)' <=> Alive(c))
    BY <2>3, AliveStep
  <2>5. LifeTells(c) /\ LifeTells(c)'
    BY LifeIs, LifeIsAfter
  <2>6. told[c] \in {<< >>, << "up" >>, << "up", "down" >>}
    BY ToldIs
  <2> QED BY <1>1, <2>1, <2>2, <2>4, <2>5, <2>6 DEF LifeTells
<1>4. d \notin Known /\ d \in Known' /\ LifeTells(d) /\ LifeTells(d)'
  BY <1>0, <1>1, LifeIs, LifeIsAfter DEF Known, Conns
<1>5. LifeOf(d) = "none"
  BY <1>4 DEF LifeTells
<1>6. Alive(d)'
  BY <1>1 DEF Alive
<1>7. told[d] = << >>
  BY <1>4 DEF LifeInv, EstablishedOnce, ToldTells
<1>8. told'[d] = << >> \/ told'[d] = << "up" >>
  BY <1>0, <1>1, <1>7 DEF TypeOK
<1>9. CASE told'[d] = << >>
  <2>1. LifeOf(d)' = "accepted"
    BY <1>2, <1>4, <1>6, <1>9 DEF LifeTells
  <2>2. Life!Accept(d)
    BY <1>1, <1>2, <1>3, <1>5, <2>1 DEF Life!Accept, Life!Moves
  <2> QED BY <2>2 DEF Life!Next
<1>10. CASE told'[d] = << "up" >>
  <2>1. LifeOf(d)' = "up"
    BY <1>2, <1>4, <1>6, <1>10 DEF LifeTells
  <2>2. Life!AcceptUp(d)
    BY <1>1, <1>2, <1>3, <1>5, <2>1 DEF Life!AcceptUp, Life!Moves
  <2> QED BY <2>2 DEF Life!Next
<1> QED BY <1>8, <1>9, <1>10

(* LOG_FATAL, and the process that is gone.                                *)
LEMMA ExitImplements ==
  ASSUME LifeInv, LifeInv', Next, nextConnId' = nextConnId, stage' = "exited"
  PROVE  [Life!Next]_Life!vars
<1>1. \A c \in Conns : LifeTells(c) /\ LifeTells(c)' /\ (c \in Known <=> c \in Known')
  BY LifeIs, LifeIsAfter DEF Known
<1>2. \A c \in Conns : LifeOf(c)' = IF c \in Known THEN "freed" ELSE "none"
  BY <1>1 DEF LifeTells
<1>3. \A c \in Conns : LifeOf(c) = "none" <=> c \notin Known
  <2> SUFFICES ASSUME NEW c \in Conns, c \in Known PROVE LifeOf(c) # "none"
    BY <1>1 DEF LifeTells
  <2> QED BY <1>1, ToldIs DEF LifeTells
<1>4. \A c \in Conns :
        LifeOf(c)' = IF LifeOf(c) = "none" THEN "none" ELSE "freed"
  BY <1>2, <1>3
<1>5. Life!Exit
  BY <1>4 DEF Life!Exit
<1> QED BY <1>5 DEF Life!Next

LEMMA StepImplements == LifeInv /\ [Next]_vars => [Life!Next]_Life!vars
<1> SUFFICES ASSUME LifeInv, [Next]_vars PROVE [Life!Next]_Life!vars
  OBVIOUS
<1>1. LifeInv'
  BY LifeStep
<1>2. CASE UNCHANGED vars
  BY <1>2 DEF vars, serverVars, connVars, loopVars, Life!vars, LifeOf, Alive,
     InFunctor
<1>3. CASE Next /\ nextConnId' = nextConnId
  <2>1. stage = "exited" => stage' = "exited"
    BY <1>3, StageBy DEF BeginDestroy, DestroyConnection, DropMap
  <2> QED BY <1>1, <1>3, <2>1, QuietImplements, TellingImplements, ExitImplements
<1>4. CASE Next /\ nextConnId' # nextConnId
  <2>1. PICK d \in Conns : NewConnection(d)
    BY <1>4, TurnsOf DEF turnVars, Start
  <2> QED BY <1>1, <1>4, <2>1, AcceptImplements
<1> QED BY <1>2, <1>3, <1>4

(* ImplementsConnectionLife: whichever loops do it, the user is told "up"  *)
(* once and then "down" once of a connection, which then goes; only a      *)
(* server that is being destroyed, or whose process ends, lets go of one   *)
(* that is up or was not yet told of (newConnection to connectDestoryed).  *)
THEOREM RefinesConnectionLife == SafeSpec => ImplementsConnectionLife
<1>1. Init => Life!Init
  <2> SUFFICES ASSUME Init PROVE Life!Init
    OBVIOUS
  <2>1. \A c \in Conns : LifeOf(c) = "none"
    BY DEF Init, LifeOf, Conns
  <2>2. stage = "built"
    BY DEF Init
  <2> QED BY <2>1, <2>2 DEF Life!Init
<1> QED
  BY <1>1, StepImplements, LifeInvariant, PTL
     DEF SafeSpec, ImplementsConnectionLife, Life!SafeSpec

=============================================================================
