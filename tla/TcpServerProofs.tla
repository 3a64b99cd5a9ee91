-------------------------- MODULE TcpServerProofs --------------------------
(***************************************************************************)
(* Theorems about TcpServer, for any number of threads and connections.    *)
(***************************************************************************)
EXTENDS TcpServer, SequenceTheorems, TLAPS

(* next_ is an index of loops_, or 0 while there are no loops.             *)
TurnInRange ==
  /\ next = 0 \/ next < numLoops
  /\ stage = "built" => numLoops = 0

Typed == TypeOK /\ TurnInRange

LEMMA InitTyped == Init => Typed
<1> SUFFICES ASSUME Init PROVE Typed
  OBVIOUS
<1>1. << >> \in Seq(Functors) /\ << >> \in Seq({"up", "down"})
  BY EmptySeq
<1>2. told \in [Conns -> Seq({"up", "down"})]
  BY <1>1 DEF Init
<1>3. queue \in [Loops -> Seq(Functors)] /\ batch \in [Loops -> Seq(Functors)]
  BY <1>1 DEF Init
<1>4. nextConnId \in 1 .. MaxConns + 1 /\ numLoops \in 0 .. MaxThreads
  BY ThreadsAssumption, ConnsAssumption DEF Init
<1> QED
  BY <1>2, <1>3, <1>4 DEF Init, Typed, TypeOK, TurnInRange, Stages, States,
     Places, Uses, Loops, Base, None

LEMMA FunctorTyped ==
  ASSUME NEW op \in StrongOps \union RawOps, NEW c \in Conns \union {None}
  PROVE  Functor(op, c) \in Functors
  BY DEF Functor, Functors

LEMMA PushTyped ==
  ASSUME TypeOK, NEW l, NEW f \in Functors, Push(l, f)
  PROVE  queue' \in [Loops -> Seq(Functors)]
<1>1. CASE l \in Loops
  <2>1. Append(queue[l], f) \in Seq(Functors)
    BY <1>1 DEF TypeOK
  <2> QED BY <2>1 DEF TypeOK, Push
<1>2. CASE l \notin Loops
  BY <1>2 DEF TypeOK, Push
<1> QED BY <1>1, <1>2

LEMMA EstablishedTyped ==
  ASSUME TypeOK, NEW c \in Conns, ConnectEstablished(c)
  PROVE  /\ state' \in [Conns -> States]
         /\ watched' \subseteq Conns
         /\ told' \in [Conns -> Seq({"up", "down"})]
         /\ user' \in [Conns -> Uses]
  BY DEF TypeOK, ConnectEstablished, MayShutdown, States

LEMMA DestoryedTyped ==
  ASSUME TypeOK, NEW c \in Conns, ConnectDestoryed(c)
  PROVE  /\ state' \in [Conns -> States]
         /\ watched' \subseteq Conns
         /\ told' \in [Conns -> Seq({"up", "down"})]
         /\ user' \in [Conns -> Uses]
<1>1. watched' \subseteq Conns /\ user' \in [Conns -> Uses]
  BY DEF TypeOK, ConnectDestoryed, WithoutChannel
<1>2. EndTold(c) \in Seq({"up", "down"})
  BY DEF TypeOK, EndTold
<1>3. CASE state[c] = "kConnected"
  <2>1. /\ state' = [state EXCEPT ![c] = "kDisconnected"]
        /\ told' = [told EXCEPT ![c] = EndTold(c)]
    BY <1>3 DEF ConnectDestoryed
  <2> QED BY <1>1, <1>2, <2>1 DEF TypeOK, States
<1>4. CASE state[c] # "kConnected"
  BY <1>1, <1>4 DEF TypeOK, ConnectDestoryed
<1> QED BY <1>3, <1>4

LEMMA RemovedTyped ==
  ASSUME TypeOK, NEW c \in Conns \union {None}, RemoveConnectionInLoop(c)
  PROVE  /\ connections' \subseteq Conns
         /\ queue' \in [Loops -> Seq(Functors)]
<1>1. connections' \subseteq Conns
  BY DEF TypeOK, RemoveConnectionInLoop, Erased
<1>2. queue' \in [Loops -> Seq(Functors)]
  BY FunctorTyped, PushTyped DEF RemoveConnectionInLoop, StrongOps
<1> QED BY <1>1, <1>2

(* The steps of the server outside the loops.                              *)
LEMMA ServerStepTyped ==
  ASSUME Typed,
         \/ \E n \in 0 .. MaxThreads : Start(n)
         \/ \E l \in Loops : EnterLoop(l)
         \/ QuitBase \/ Destruction
         \/ \E c \in Conns : PeerCloses(c)
  PROVE  Typed'
<1> USE ThreadsAssumption DEF Typed, TurnInRange, serverVars, turnVars,
        connVars, loopVars, Goes
<1>1. ASSUME NEW n \in 0 .. MaxThreads, Start(n) PROVE Typed'
  <2>1. queue' \in [Loops -> Seq(Functors)]
    BY <1>1, FunctorTyped, PushTyped DEF Start, RawOps, TypeOK
  <2>2. listening' \in BOOLEAN
    BY <1>1 DEF Start, TypeOK
  <2>3. numLoops' \in 0 .. MaxThreads /\ stage' \in Stages
    BY <1>1 DEF Start, Stages
  <2>4. TurnInRange'
    BY <1>1 DEF Start, TypeOK
  <2> QED BY <1>1, <2>1, <2>2, <2>3, <2>4 DEF Start, TypeOK
<1>2. ASSUME NEW l \in Loops, EnterLoop(l) PROVE Typed'
  BY <1>2 DEF EnterLoop, TypeOK, Places
<1>3. CASE QuitBase
  BY <1>3 DEF QuitBase, TypeOK
<1>4. CASE Destruction
  <2>1. CASE BeginDestroy
    BY <2>1 DEF BeginDestroy, TypeOK, Stages
  <2>2. CASE DropMap
    BY <2>2 DEF DropMap, TypeOK, Stages
  <2>3. CASE CloseAcceptor
    BY <2>3 DEF CloseAcceptor, TypeOK, Stages
  <2>4. CASE DestroyBaseLoop
    BY <2>4, EmptySeq DEF DestroyBaseLoop, TypeOK, Stages
  <2>5. ASSUME NEW c \in Conns, DestroyConnection(c) PROVE Typed'
    <3>1. /\ state' \in [Conns -> States]
          /\ watched' \subseteq Conns
          /\ told' \in [Conns -> Seq({"up", "down"})]
          /\ user' \in [Conns -> Uses]
      BY <2>5, DestoryedTyped DEF DestroyConnection, TypeOK
    <3>2. queue' \in [Loops -> Seq(Functors)]
      BY <2>5, FunctorTyped, PushTyped DEF DestroyConnection, StrongOps, TypeOK
    <3> QED BY <2>5, <3>1, <3>2 DEF DestroyConnection, TypeOK
  <2>6. ASSUME NEW l \in Workers, QuitWorker(l) PROVE Typed'
    BY <2>6 DEF QuitWorker, TypeOK
  <2> QED BY <1>4, <2>1, <2>2, <2>3, <2>4, <2>5, <2>6 DEF Destruction
<1>5. ASSUME NEW c \in Conns, PeerCloses(c) PROVE Typed'
  BY <1>5 DEF PeerCloses, TypeOK, OpenFiles
<1> QED BY <1>1, <1>2, <1>3, <1>4, <1>5

(* A new connection is given to one of the loops, and next_ moves on.      *)
LEMMA NextLoopTyped ==
  ASSUME Typed
  PROVE  /\ NextLoop \in Loops
         /\ numLoops # 0 => Advanced \in Nat /\ Advanced < numLoops
  BY ThreadsAssumption DEF Typed, TypeOK, TurnInRange, NextLoop, Advanced,
     Loops, Workers, Base

LEMMA AcceptTyped ==
  ASSUME Typed, Accepts
  PROVE  Typed'
<1> USE DEF Typed, serverVars, turnVars, connVars, loopVars
<1>1. CASE AcceptFails
  BY <1>1 DEF AcceptFails, AcceptorActive, LogFatal, TypeOK, TurnInRange,
     Stages, Places
<1>2. ASSUME NEW c \in Conns, NewConnection(c) PROVE Typed'
  <2>1. /\ state' \in [Conns -> States]
        /\ watched' \subseteq Conns
        /\ told' \in [Conns -> Seq({"up", "down"})]
        /\ user' \in [Conns -> Uses]
    <3>1. CASE NextLoop = Base
      BY <1>2, <3>1, EstablishedTyped DEF NewConnection
    <3>2. CASE NextLoop # Base
      BY <1>2, <3>2 DEF NewConnection, TypeOK
    <3> QED BY <3>1, <3>2
  <2>2. queue' \in [Loops -> Seq(Functors)]
    <3>1. CASE NextLoop = Base
      BY <1>2, <3>1 DEF NewConnection, TypeOK
    <3>2. CASE NextLoop # Base
      <4>1. Push(NextLoop, Functor("establish", c))
        BY <1>2, <3>2 DEF NewConnection
      <4> QED BY <4>1, FunctorTyped, PushTyped DEF StrongOps
    <3> QED BY <3>1, <3>2
  <2>3. next' \in Nat /\ TurnInRange' /\ stage' \in Stages
    BY <1>2, NextLoopTyped DEF NewConnection, TypeOK, TurnInRange
  <2>4. nextConnId' \in 1 .. MaxConns + 1
    BY <1>2, ConnsAssumption DEF NewConnection, TypeOK, Conns
  <2>5. /\ loopOf' \in [Conns -> Loops]
        /\ connections' \subseteq Conns
        /\ active' \in [Loops -> SUBSET (Conns \union {Acceptor})]
    BY <1>2, NextLoopTyped DEF NewConnection, AcceptorActive, TypeOK
  <2> QED BY <1>2, <2>1, <2>2, <2>3, <2>4, <2>5 DEF NewConnection, TypeOK
<1> QED BY <1>1, <1>2 DEF Accepts

(* What a functor or a callback leaves alone.                              *)
LEMMA CallTyped ==
  ASSUME Typed, NEW l \in Loops, NEW op, NEW c, Calls(l, op, c)
  PROVE  /\ ran' \in [Loops -> Nat]
         /\ UNCHANGED <<stage, numLoops, next, nextConnId, loopOf, sweep, asked,
                        place, active, closing, batch, quit, hungUp>>
         /\ TurnInRange'
  BY DEF Typed, TypeOK, TurnInRange, Calls, turnVars

LEMMA LoopStepTyped ==
  ASSUME Typed, NEW l \in Loops, LoopStep(l)
  PROVE  Typed'
<1> USE DEF Typed, serverVars, turnVars, connVars, loopVars, Goes
<1>1. CASE Poll(l)
  <2>1. PICK ready \in SUBSET Reportable(l) :
          active' = [active EXCEPT ![l] = ready]
    BY <1>1 DEF Poll
  <2>2. ready \subseteq Conns \union {Acceptor}
    BY DEF Reportable, Polled, ConnsOf, TypeOK
  <2> QED BY <1>1, <2>1, <2>2 DEF Poll, TypeOK, TurnInRange, Places
<1>2. CASE CloseCallback(l)
  <2>1. closing[l] \in Conns \union {None}
    BY DEF TypeOK
  <2>2. connections' \subseteq Conns /\ queue' \in [Loops -> Seq(Functors)]
    <3>1. CASE l = Base
      BY <1>2, <2>1, <3>1, RemovedTyped DEF CloseCallback
    <3>2. CASE l # Base
      <4>1. /\ Push(Base, Functor("remove", closing[l]))
            /\ connections' = connections
        BY <1>2, <3>2 DEF CloseCallback
      <4> QED BY <2>1, <4>1, FunctorTyped, PushTyped DEF StrongOps, TypeOK
    <3> QED BY <3>1, <3>2
  <2> QED BY <1>2, <2>2 DEF CloseCallback, TypeOK, TurnInRange, Places
<1>3. CASE SwapPending(l)
  BY <1>3, EmptySeq DEF SwapPending, TypeOK, TurnInRange, Places
<1>4. CASE RunListen(l)
  BY <1>4, CallTyped DEF RunListen, TypeOK
<1>5. CASE FinishBatch(l) \/ FirstTest(l)
  <2>1. /\ queue' \in [Loops -> Seq(Functors)]
        /\ batch' \in [Loops -> Seq(Functors)]
    <3>1. << >> \in Seq(Functors)
      BY EmptySeq
    <3>2. batch' = [batch EXCEPT ![l] = << >>] \/ batch' = batch
      BY <1>5 DEF FinishBatch, FirstTest
    <3>3. queue' = [queue EXCEPT ![l] = << >>] \/ queue' = queue
      BY <1>5 DEF FinishBatch, FirstTest, TestsQuit
    <3>4. \A s, r : /\ s \in [Loops -> Seq(Functors)]
                    /\ r = [s EXCEPT ![l] = << >>]
                    => r \in [Loops -> Seq(Functors)]
      BY <3>1
    <3> QED BY <3>2, <3>3, <3>4, Zenon DEF TypeOK
  <2>2. place' \in [Loops -> Places] /\ ran' \in [Loops -> Nat]
    <3>1. PICK to \in {"stopped", "poll"} : place' = [place EXCEPT ![l] = to]
      BY <1>5 DEF FinishBatch, FirstTest, TestsQuit
    <3>2. place' \in [Loops -> Places]
      BY <3>1 DEF TypeOK, Places
    <3>3. ran' = [ran EXCEPT ![l] = 0] \/ ran' = ran
      BY <1>5 DEF FinishBatch, FirstTest
    <3>4. ran' \in [Loops -> Nat]
      BY <3>3 DEF TypeOK
    <3> QED BY <3>2, <3>4
  <2>3. watched' \subseteq Conns /\ TurnInRange'
    BY <1>5 DEF FinishBatch, FirstTest, TestsQuit, TypeOK, TurnInRange
  <2> QED
    BY <1>5, <2>1, <2>2, <2>3 DEF FinishBatch, FirstTest, TestsQuit, TypeOK
<1>6. ASSUME NEW c \in Conns, HandleMessage(l, c) PROVE Typed'
  <2>1. state' \in [Conns -> States]
    BY <1>6 DEF HandleMessage, MayShutdown, TypeOK, States
  <2> QED BY <1>6, <2>1 DEF HandleMessage, Dispatches, TypeOK, TurnInRange
<1>7. ASSUME NEW c \in Conns, HandleClose(l, c) PROVE Typed'
  <2>1. Append(told[c], "down") \in Seq({"up", "down"})
    BY DEF TypeOK
  <2>2. /\ told' \in [Conns -> Seq({"up", "down"})]
        /\ state' \in [Conns -> States]
    BY <1>7, <2>1 DEF HandleClose, ClosedState, TypeOK, States
  <2> QED BY <1>7, <2>2 DEF HandleClose, Dispatches, TypeOK, TurnInRange, Places
<1>8. ASSUME NEW c \in Conns, RunEstablish(l, c) PROVE Typed'
  BY <1>8, CallTyped, EstablishedTyped DEF RunEstablish, TypeOK
<1>9. ASSUME NEW c \in Conns, RunDestroy(l, c) PROVE Typed'
  BY <1>9, CallTyped, DestoryedTyped DEF RunDestroy, TypeOK
<1>10. ASSUME NEW c \in Conns, RunRemove(l, c) PROVE Typed'
  BY <1>10, CallTyped, RemovedTyped DEF RunRemove, TypeOK
<1> QED
  BY <1>1, <1>2, <1>3, <1>4, <1>5, <1>6, <1>7, <1>8, <1>9, <1>10 DEF LoopStep

LEMMA StepTyped == Typed /\ [Next]_vars => Typed'
<1> SUFFICES ASSUME Typed, [Next]_vars PROVE Typed'
  OBVIOUS
<1>1. CASE UNCHANGED vars
  BY <1>1 DEF vars, serverVars, connVars, loopVars, Typed, TypeOK, TurnInRange
<1>2. CASE Next
  BY <1>2, ServerStepTyped, AcceptTyped, LoopStepTyped DEF Next
<1> QED BY <1>1, <1>2

(* TypeOK: every variable of the server, its loops and its connections     *)
(* keeps its type; no connection is given to a loop that is not there.     *)
THEOREM TypeCorrect == SafeSpec => []TypeOK
<1>1. Typed => TypeOK
  BY DEF Typed
<1> QED BY <1>1, InitTyped, StepTyped, PTL DEF SafeSpec

-----------------------------------------------------------------------------
(* The round robin.                                                        *)

(* Before start() nothing is listened to, polled or queued.                *)
Idle ==
  stage = "built" =>
    /\ nextConnId = 1 /\ listening = FALSE /\ watched = {}
    /\ \A l \in Loops : /\ active[l] = {} /\ place[l] # "close"
                        /\ queue[l] = << >> /\ batch[l] = << >>

(* The last numLoops connections were given to the loops before next_,     *)
(* counting backwards and round the end.                                   *)
LastTurns ==
  \A c \in Conns :
    c < nextConnId /\ nextConnId - c <= numLoops =>
      loopOf[c] = IF next >= nextConnId - c
                  THEN next - (nextConnId - c) + 1
                  ELSE next - (nextConnId - c) + 1 + numLoops

TurnInv == Typed /\ Idle /\ LastTurns /\ FairTurns

LEMMA InitTurn == Init => Idle /\ LastTurns /\ FairTurns
  BY DEF Init, Idle, LastTurns, FairTurns, Conns

LEMMA IdleStep == Typed /\ Idle /\ [Next]_vars => Idle'
<1> SUFFICES ASSUME Typed, Idle, [Next]_vars PROVE Idle'
  OBVIOUS
<1>1. CASE UNCHANGED vars
  BY <1>1 DEF vars, serverVars, connVars, loopVars, Idle
<1>2. CASE Next /\ stage # "built"
  <2>1. stage' # "built"
    BY <1>2 DEF Next, Start, EnterLoop, QuitBase, LoopStep, Accepts, Destruction,
       PeerCloses, serverVars, Poll, CloseCallback, SwapPending, RunListen,
       FinishBatch, FirstTest, TestsQuit, HandleMessage, HandleClose,
       RunEstablish, RunDestroy, RunRemove, Calls, AcceptFails, LogFatal, NewConnection, BeginDestroy,
       DropMap, CloseAcceptor, DestroyBaseLoop, DestroyConnection, QuitWorker
  <2> QED BY <2>1 DEF Idle
<1>3. CASE Next /\ stage = "built"
  <2> USE <1>3 DEF Idle, Typed, TypeOK, serverVars, connVars, loopVars, Goes
  <2>1. ASSUME NEW l \in Loops, LoopStep(l) PROVE Idle'
    <3>1. ASSUME NEW op, NEW c, Calls(l, op, c) PROVE FALSE
      BY <3>1 DEF Calls
    <3>2. CASE Poll(l)
      <4>1. PICK ready \in SUBSET Reportable(l) :
              active' = [active EXCEPT ![l] = ready]
        BY <3>2 DEF Poll
      <4>2. ready = {}
        BY DEF Reportable, Polled, ConnsOf
      <4> QED BY <3>2, <4>1, <4>2 DEF Poll
    <3>3. CASE SwapPending(l)
      BY <3>3 DEF SwapPending
    <3>4. CASE FinishBatch(l) \/ FirstTest(l)
      <4>1. watched' = {}
        BY <3>4 DEF FinishBatch, FirstTest, TestsQuit
      <4>2. \A k \in Loops : queue'[k] = << >> /\ batch'[k] = << >>
        BY <3>4 DEF FinishBatch, FirstTest, TestsQuit
      <4>3. \A k \in Loops : place'[k] # "close"
        BY <3>4 DEF FinishBatch, FirstTest, TestsQuit
      <4> QED BY <3>4, <4>1, <4>2, <4>3 DEF FinishBatch, FirstTest, TestsQuit
    <3>5. ~CloseCallback(l)
      BY DEF CloseCallback
    <3>6. \A c \in Conns : ~HandleMessage(l, c) /\ ~HandleClose(l, c)
      BY DEF HandleMessage, HandleClose, Dispatches
    <3> QED
      BY <2>1, <3>1, <3>2, <3>3, <3>4, <3>5, <3>6
         DEF LoopStep, RunListen, RunEstablish, RunDestroy, RunRemove
  <2>2. ~Accepts
    BY DEF Accepts, AcceptFails, NewConnection, AcceptorActive, Loops, Base
  <2>3. CASE Destruction
    BY <2>3 DEF Destruction, BeginDestroy, DropMap, CloseAcceptor,
       DestroyBaseLoop, DestroyConnection, QuitWorker
  <2>4. ASSUME NEW l \in Loops, EnterLoop(l) PROVE Idle'
    BY <2>4 DEF EnterLoop
  <2>5. CASE QuitBase
    BY <2>5 DEF QuitBase
  <2>6. ASSUME NEW c \in Conns, PeerCloses(c) PROVE Idle'
    BY <2>6 DEF PeerCloses
  <2>7. ASSUME NEW n \in 0 .. MaxThreads, Start(n) PROVE Idle'
    BY <2>7 DEF Start
  <2> QED BY <2>1, <2>2, <2>3, <2>4, <2>5, <2>6, <2>7 DEF Next
<1> QED BY <1>1, <1>2, <1>3

(* Only start() and a new connection touch the turns.                      *)
LEMMA TurnsOf ==
  ASSUME [Next]_vars
  PROVE  \/ UNCHANGED <<numLoops, next, nextConnId, loopOf>>
         \/ \E n \in 0 .. MaxThreads : Start(n)
         \/ \E c \in Conns : NewConnection(c)
  BY DEF Next, vars, serverVars, turnVars, EnterLoop, QuitBase, LoopStep, Accepts,
     Destruction, PeerCloses, Poll, CloseCallback, SwapPending, RunListen,
     FinishBatch, FirstTest, TestsQuit, HandleMessage, HandleClose, RunEstablish,
     RunDestroy, RunRemove, Calls, AcceptFails, BeginDestroy, DropMap, CloseAcceptor,
     DestroyBaseLoop, DestroyConnection, QuitWorker

LEMMA TurnsStep == TurnInv /\ [Next]_vars => LastTurns' /\ FairTurns'
<1> SUFFICES ASSUME TurnInv, [Next]_vars PROVE LastTurns' /\ FairTurns'
  OBVIOUS
<1> USE DEF TurnInv
<1>1. CASE UNCHANGED <<numLoops, next, nextConnId, loopOf>>
  BY <1>1 DEF LastTurns, FairTurns
<1>2. ASSUME NEW n \in 0 .. MaxThreads, Start(n) PROVE LastTurns' /\ FairTurns'
  <2>1. nextConnId' = 1
    BY <1>2 DEF Start, Idle
  <2> QED BY <2>1 DEF LastTurns, FairTurns, Conns
<1>3. ASSUME NEW d \in Conns, NewConnection(d) PROVE LastTurns' /\ FairTurns'
  <2>1. /\ d = nextConnId /\ nextConnId' = d + 1 /\ numLoops' = numLoops
        /\ loopOf' = [loopOf EXCEPT ![d] = NextLoop]
        /\ next' = IF numLoops = 0 THEN next ELSE Advanced
    BY <1>3 DEF NewConnection
  <2>2. /\ numLoops \in Nat /\ next \in Nat /\ (next = 0 \/ next < numLoops)
        /\ d \in Nat /\ \A c \in Conns : c \in Nat
        /\ loopOf \in [Conns -> Loops]
    BY ThreadsAssumption DEF Typed, TypeOK, TurnInRange, Conns
  <2>3. loopOf'[d] = NextLoop /\ \A c \in Conns : c # d => loopOf'[c] = loopOf[c]
    BY <2>1, <2>2
  <2>4. LastTurns'
    BY <2>1, <2>2, <2>3 DEF LastTurns, NextLoop, Advanced
  <2>5. FairTurns'
    <3> SUFFICES ASSUME NEW c \in Conns, NEW e \in Conns,
                        c < e, e < d + 1, e - c < numLoops
                 PROVE  loopOf'[c] # loopOf'[e]
      BY <2>1 DEF FairTurns
    <3>1. CASE e = d
      <4>1. loopOf'[c] = loopOf[c] /\ loopOf'[e] = next + 1
        BY <2>1, <2>2, <2>3, <3>1 DEF NextLoop
      <4>2. loopOf[c] = IF next >= d - c THEN next - (d - c) + 1
                        ELSE next - (d - c) + 1 + numLoops
        BY <2>1, <2>2, <3>1 DEF LastTurns
      <4> QED BY <2>2, <3>1, <4>1, <4>2
    <3>2. CASE e # d
      BY <2>1, <2>2, <2>3, <3>2 DEF FairTurns
    <3> QED BY <3>1, <3>2
  <2> QED BY <2>4, <2>5
<1> QED BY <1>1, <1>2, <1>3, TurnsOf

(* FairTurns: any numLoops connections accepted in a row are given to      *)
(* different loops (EventLoopThreadPool::getNextLoop).                     *)
THEOREM RoundRobinIsFair == SafeSpec => []FairTurns
<1>1. Init => TurnInv
  BY InitTyped, InitTurn DEF TurnInv
<1>2. TurnInv /\ [Next]_vars => TurnInv'
  BY StepTyped, IdleStep, TurnsStep DEF TurnInv
<1>3. TurnInv => FairTurns
  BY DEF TurnInv
<1> QED BY <1>1, <1>2, <1>3, PTL DEF SafeSpec

-----------------------------------------------------------------------------
(* The server outlives its callers.                                        *)

Ending == stage \in {"destroying", "joining", "gone", "over"}

(* What the server's life tells of where the loops' threads are.           *)
PlacesTell ==
  /\ place[Base] \in {"outside", "entered", "stopped"} /\ stage # "exited" =>
       batch[Base] = << >>
  /\ Ending => place[Base] = "stopped"
  /\ \A l \in Workers : l <= numLoops \/ place[l] \in {"outside", "stopped"}
  /\ ~ServerLives => \A l \in 1 .. numLoops : place[l] = "stopped"

LEMMA InitPlaces == Init => PlacesTell
  BY DEF Init, PlacesTell, Ending, ServerLives, Loops, Base, Workers

LEMMA PlacesStep == Typed /\ PlacesTell /\ [Next]_vars => PlacesTell'
<1> SUFFICES ASSUME Typed, PlacesTell, [Next]_vars PROVE PlacesTell'
  OBVIOUS
<1> USE DEF PlacesTell, Ending, ServerLives, Typed, TypeOK, Loops, Base, Workers,
            serverVars, turnVars, connVars, loopVars, Goes
<1>1. CASE UNCHANGED vars
  BY <1>1 DEF vars
<1>2. ASSUME NEW l \in Loops, LoopStep(l) PROVE PlacesTell'
  <2>1. CASE Poll(l)
    BY <2>1 DEF Poll
  <2>2. CASE CloseCallback(l)
    BY <2>2 DEF CloseCallback
  <2>3. CASE SwapPending(l)
    BY <2>3 DEF SwapPending
  <2>4. CASE FinishBatch(l) \/ FirstTest(l)
    <3>1. /\ place[l] \in {"batch", "entered"} /\ UNCHANGED <<stage, numLoops>>
          /\ \/ batch' = [batch EXCEPT ![l] = << >>]
             \/ place[l] = "entered" /\ batch' = batch
          /\ place' = [place EXCEPT ![l] = IF quit[l] THEN "stopped" ELSE "poll"]
      BY <2>4 DEF FinishBatch, FirstTest, TestsQuit
    <3>2. Ending => l # Base
      BY <3>1
    <3>3. /\ place'[l] \in {"stopped", "poll"}
          /\ \A k \in Loops : k # l => place'[k] = place[k]
      BY <3>1
    <3>4. l # Base => l <= numLoops
      BY <3>1
    <3> QED BY <3>1, <3>2, <3>3, <3>4
  <2>5. ASSUME NEW c \in Conns, HandleMessage(l, c) \/ HandleClose(l, c)
        PROVE  PlacesTell'
    <3>1. /\ place[l] = "dispatch" /\ UNCHANGED <<stage, numLoops, batch>>
          /\ place' = place \/ place' = [place EXCEPT ![l] = "close"]
      BY <2>5 DEF HandleMessage, HandleClose, Dispatches
    <3>2. CASE place' = place
      BY <3>1, <3>2
    <3>3. CASE place' = [place EXCEPT ![l] = "close"]
      <4>1. CASE l = Base
        BY <3>1, <3>3, <4>1
      <4>2. CASE l \in Workers
        <5>1. l <= numLoops /\ l \in 1 .. numLoops
          <6>1. l <= numLoops
            BY <3>1, <4>2
          <6>2. l \in Nat /\ l >= 1 /\ numLoops \in Nat
            BY <4>2, ThreadsAssumption
          <6> QED BY <6>1, <6>2
        <5>2. ServerLives /\ ServerLives'
          BY <3>1, <5>1
        <5> QED BY <3>1, <3>3, <4>2, <5>1, <5>2
      <4> QED BY <4>1, <4>2
    <3> QED BY <3>1, <3>2, <3>3
  <2>6. ASSUME NEW op, NEW c, Calls(l, op, c) PROVE PlacesTell'
    BY <2>6 DEF Calls
  <2> QED
    BY <1>2, <2>1, <2>2, <2>3, <2>4, <2>5, <2>6
       DEF LoopStep, RunListen, RunEstablish, RunDestroy, RunRemove
<1>3. CASE Accepts
  <2>1. CASE AcceptFails
    BY <2>1 DEF AcceptFails, LogFatal
  <2>2. ASSUME NEW c \in Conns, NewConnection(c) PROVE PlacesTell'
    BY <2>2 DEF NewConnection
  <2> QED BY <1>3, <2>1, <2>2 DEF Accepts
<1>4. CASE Destruction
  <2>1. CASE BeginDestroy
    BY <2>1 DEF BeginDestroy
  <2>2. CASE DropMap \/ \E c \in Conns : DestroyConnection(c)
    BY <2>2 DEF DropMap, DestroyConnection
  <2>3. CASE CloseAcceptor
    BY <2>3 DEF CloseAcceptor, PoolGone, Joined
  <2>4. CASE DestroyBaseLoop
    BY <2>4 DEF DestroyBaseLoop
  <2>5. CASE \E l \in Workers : QuitWorker(l)
    BY <2>5 DEF QuitWorker
  <2> QED BY <1>4, <2>1, <2>2, <2>3, <2>4, <2>5 DEF Destruction
<1>5. ASSUME NEW n \in 0 .. MaxThreads, Start(n) PROVE PlacesTell'
  <2>1. /\ stage = "built" /\ stage' = "started" /\ numLoops' = n
        /\ numLoops = 0 /\ batch' = batch
    BY <1>5 DEF Start, TurnInRange
  <2>2. place' = place
    BY <1>5 DEF Start
  <2> QED BY <2>1, <2>2
<1>6. ASSUME NEW l \in Loops, EnterLoop(l) PROVE PlacesTell'
  <2>1. /\ place[l] = "outside" /\ UNCHANGED <<stage, numLoops, batch>>
        /\ place' = [place EXCEPT ![l] = "entered"] /\ l \in Base .. numLoops
    BY <1>6 DEF EnterLoop
  <2>2. /\ place'[l] = "entered"
        /\ \A k \in Loops : k # l => place'[k] = place[k]
    BY <2>1
  <2>3. Ending => l # Base
    BY <2>1
  <2>4. l # Base => l \in 1 .. numLoops /\ l <= numLoops
    BY <2>1, ThreadsAssumption
  <2>5. ServerLives
    BY <2>1, <2>3, <2>4
  <2> QED BY <2>1, <2>2, <2>3, <2>4, <2>5
<1>8. CASE QuitBase
  BY <1>8 DEF QuitBase
<1>7. ASSUME NEW c \in Conns, PeerCloses(c) PROVE PlacesTell'
  BY <1>7 DEF PeerCloses
<1> QED BY <1>1, <1>2, <1>3, <1>4, <1>5, <1>6, <1>7, <1>8 DEF Next

(* ServerUsedAlive: closeCallback_ and removeConnectionInLoop, which are   *)
(* bound to the raw TcpServer, are only called while it is there.          *)
THEOREM ServerOutlivesItsCallers == SafeSpec => []ServerUsedAlive
<1>1. Init => Typed /\ PlacesTell
  BY InitTyped, InitPlaces
<1>2. Typed /\ PlacesTell /\ [Next]_vars => (Typed /\ PlacesTell)'
  BY StepTyped, PlacesStep
<1>3. Typed /\ PlacesTell => ServerUsedAlive
  <2> SUFFICES ASSUME Typed, PlacesTell, ~ServerLives
               PROVE  /\ \A l \in Loops : place[l] # "close"
                      /\ Len(batch[Base]) = 0
    BY DEF ServerUsedAlive
  <2>1. place[Base] = "stopped" /\ batch[Base] = << >>
    BY DEF PlacesTell, Ending, ServerLives
  <2>2. \A l \in Workers : place[l] # "close"
    <3> SUFFICES ASSUME NEW l \in Workers PROVE place[l] # "close"
      OBVIOUS
    <3>1. CASE l <= numLoops
      <4>1. l \in 1 .. numLoops
        BY <3>1, ThreadsAssumption DEF Typed, TypeOK, Workers
      <4> QED BY <4>1 DEF PlacesTell
    <3>2. CASE place[l] \in {"outside", "stopped"}
      BY <3>2
    <3> QED BY <3>1, <3>2 DEF PlacesTell
  <2> QED BY <2>1, <2>2 DEF Loops
<1> QED BY <1>1, <1>2, <1>3, PTL DEF SafeSpec

-----------------------------------------------------------------------------
(* No loop handles a connection that is gone.                              *)

Known == {c \in Conns : c < nextConnId}

(* A functor is queued where it belongs: what begins and ends a connection *)
(* in the connection's own loop, removeConnectionInLoop in the base loop,  *)
(* and connectEstablished in no base loop.                                 *)
FunctorKnown(l, f) ==
  \/ f.op = "listen"
  \/ /\ f.op \in StrongOps /\ f.conn \in Known
     /\ l = IF f.op = "remove" THEN Base ELSE loopOf[f.conn]
     /\ f.op = "establish" => l # Base

(* Whatever the server and its loops refer to has been accepted.           *)
OnlyKnown ==
  /\ watched \subseteq Known /\ connections \subseteq Known /\ sweep \subseteq Known
  /\ \A l \in Loops :
       /\ closing[l] \in Known \union {None}
       /\ place[l] = "close" => closing[l] # None
       /\ \A i \in 1 .. Len(queue[l]) : FunctorKnown(l, queue[l][i])
       /\ \A i \in 1 .. Len(batch[l]) : FunctorKnown(l, batch[l][i])

(* What a loop keeps for one part of its round is gone in the others, and  *)
(* what it still has to dispatch is in its poller.                         *)
LoopsTidy ==
  \A l \in Loops :
    /\ stage = "exited" => place[l] = "stopped"
    /\ place[l] # "batch" /\ stage # "exited" => batch[l] = << >> /\ ran[l] = 0
    /\ place[l] \notin {"dispatch", "close", "stopped"} => active[l] = {}
    /\ place[l] # "stopped" => active[l] \ {Acceptor} \subseteq ConnsOf(l)

DestroyQueued(c, i) ==
  \E j \in i + 1 .. Len(queue[loopOf[c]]) :
    queue[loopOf[c]][j] = Functor("destroy", c)

DestroyInBatch(c, i) ==
  \E j \in i + 1 .. Len(batch[loopOf[c]]) :
    batch[loopOf[c]][j] = Functor("destroy", c)

(* The connection's loop will run connectDestoryed, whose functor holds it,*)
(* before it is done with the channel, and after any connectEstablished.   *)
Provided(c) ==
  LET l == loopOf[c]
  IN  /\ c \in watched /\ place[l] # "stopped" =>
           DestroyQueued(c, 0) \/ DestroyInBatch(c, ran[l])
      /\ \A i \in 1 .. Len(queue[l]) :
           queue[l][i] = Functor("establish", c) => DestroyQueued(c, i)
      /\ \A i \in ran[l] + 1 .. Len(batch[l]) :
           batch[l][i] = Functor("establish", c) =>
             DestroyQueued(c, 0) \/ DestroyInBatch(c, i)

(* A connection that leaves the map, or will with ~TcpServer, is provided  *)
(* for.                                                                    *)
Leaving(c) == c \notin connections \/ (stage = "destroying" /\ c \notin sweep)

Kept == \A c \in Conns : Leaving(c) => Provided(c)

LiveInv == Typed /\ Idle /\ PlacesTell /\ OnlyKnown /\ LoopsTidy /\ Kept

LEMMA InitLive == Init => OnlyKnown /\ LoopsTidy /\ Kept
<1> SUFFICES ASSUME Init PROVE OnlyKnown /\ LoopsTidy /\ Kept
  OBVIOUS
<1>1. \A l \in Loops : Len(queue[l]) = 0 /\ Len(batch[l]) = 0
  BY DEF Init
<1>2. OnlyKnown /\ LoopsTidy
  BY <1>1 DEF Init, OnlyKnown, LoopsTidy
<1>3. \A c \in Conns : loopOf[c] \in Loops /\ ran[loopOf[c]] = 0
  BY DEF Init, Loops
<1>4. Kept
  BY <1>1, <1>3 DEF Init, Kept, Provided
<1> QED BY <1>2, <1>4

(* What a push does to the queues.                                         *)
LEMMA PushAdds ==
  ASSUME TypeOK, NEW l \in Loops, NEW f \in Functors, Push(l, f)
  PROVE  /\ \A k \in Loops : k # l => queue'[k] = queue[k]
         /\ Len(queue[l]) \in Nat
         /\ Len(queue'[l]) = Len(queue[l]) + 1
         /\ \A i \in 1 .. Len(queue[l]) : queue'[l][i] = queue[l][i]
         /\ queue'[l][Len(queue[l]) + 1] = f
<1>1. queue[l] \in Seq(Functors) /\ queue \in [Loops -> Seq(Functors)]
  BY DEF TypeOK
<1>2. queue'[l] = Append(queue[l], f) /\ \A k \in Loops : k # l => queue'[k] = queue[k]
  BY <1>1 DEF Push
<1> QED BY <1>1, <1>2, AppendProperties, LenProperties

(* Connections stay known, and stay in their loop.                         *)
LEMMA KnownStays ==
  ASSUME Typed, [Next]_vars
  PROVE  /\ Known \subseteq Known'
         /\ \A c \in Known : loopOf'[c] = loopOf[c]
         /\ \A l \in Loops, f \in Functors : FunctorKnown(l, f) => FunctorKnown(l, f)'
<1>1. Known \subseteq Known' /\ \A c \in Known : loopOf'[c] = loopOf[c]
  <2>1. CASE UNCHANGED <<numLoops, next, nextConnId, loopOf>>
    BY <2>1 DEF Known
  <2>2. ASSUME NEW n \in 0 .. MaxThreads, Start(n)
        PROVE  Known \subseteq Known' /\ \A c \in Known : loopOf'[c] = loopOf[c]
    BY <2>2 DEF Start, Known
  <2>3. ASSUME NEW d \in Conns, NewConnection(d)
        PROVE  Known \subseteq Known' /\ \A c \in Known : loopOf'[c] = loopOf[c]
    <3>1. /\ d = nextConnId /\ nextConnId' = nextConnId + 1
          /\ loopOf' = [loopOf EXCEPT ![d] = NextLoop]
          /\ loopOf \in [Conns -> Loops]
      BY <2>3 DEF NewConnection, Typed, TypeOK
    <3> QED BY <3>1 DEF Known, Conns
  <2> QED BY <2>1, <2>2, <2>3, TurnsOf
<1> QED BY <1>1 DEF FunctorKnown

(* The queues hold known functors if a step only empties them or adds one. *)
LEMMA QueueKnown ==
  ASSUME Typed, OnlyKnown, [Next]_vars,
         \/ queue' = queue
         \/ \E l \in Loops : queue' = [queue EXCEPT ![l] = << >>]
         \/ \E l \in Loops, f \in Functors : Push(l, f) /\ FunctorKnown(l, f)'
  PROVE  \A l \in Loops : \A i \in 1 .. Len(queue'[l]) : FunctorKnown(l, queue[l][i])'
<1> SUFFICES ASSUME NEW l \in Loops, NEW i \in 1 .. Len(queue'[l])
             PROVE  FunctorKnown(l, queue[l][i])'
  OBVIOUS
<1>1. queue \in [Loops -> Seq(Functors)] /\ queue[l] \in Seq(Functors) /\ TypeOK
  BY DEF Typed, TypeOK
<1>2. ASSUME i \in 1 .. Len(queue[l]), queue'[l][i] = queue[l][i]
      PROVE  FunctorKnown(l, queue[l][i])'
  <2>1. FunctorKnown(l, queue[l][i]) /\ queue[l][i] \in Functors
    BY <1>1, <1>2, ElementOfSeq DEF OnlyKnown
  <2>2. \A f \in Functors : FunctorKnown(l, f) => FunctorKnown(l, f)'
    BY KnownStays
  <2>3. PICK f \in Functors : f = queue[l][i]
    BY <2>1
  <2> QED BY <1>2, <2>1, <2>2, <2>3 DEF FunctorKnown
<1>3. CASE queue' = queue
  BY <1>2, <1>3
<1>4. ASSUME NEW k \in Loops, queue' = [queue EXCEPT ![k] = << >>]
      PROVE  FunctorKnown(l, queue[l][i])'
  <2>1. l # k
    BY <1>1, <1>4
  <2> QED BY <1>1, <1>2, <1>4, <2>1
<1>5. ASSUME NEW k \in Loops, NEW f \in Functors, Push(k, f), FunctorKnown(k, f)'
      PROVE  FunctorKnown(l, queue[l][i])'
  <2>1. /\ \A h \in Loops : h # k => queue'[h] = queue[h]
        /\ Len(queue[k]) \in Nat
        /\ Len(queue'[k]) = Len(queue[k]) + 1
        /\ \A j \in 1 .. Len(queue[k]) : queue'[k][j] = queue[k][j]
        /\ queue'[k][Len(queue[k]) + 1] = f
    BY <1>1, <1>5, PushAdds
  <2>2. CASE l = k /\ i = Len(queue[k]) + 1
    BY <1>5, <2>1, <2>2 DEF FunctorKnown
  <2>3. CASE l = k /\ i # Len(queue[k]) + 1
    BY <1>2, <2>1, <2>3
  <2>4. CASE l # k
    BY <1>2, <2>1, <2>4
  <2> QED BY <2>2, <2>3, <2>4
<1> QED BY <1>3, <1>4, <1>5

LEMMA BatchKnown ==
  ASSUME Typed, OnlyKnown, [Next]_vars,
         \/ batch' = batch
         \/ \E l \in Loops : batch' = [batch EXCEPT ![l] = << >>]
         \/ \E l \in Loops : batch' = [batch EXCEPT ![l] = queue[l]]
  PROVE  \A l \in Loops : \A i \in 1 .. Len(batch'[l]) : FunctorKnown(l, batch[l][i])'
<1> SUFFICES ASSUME NEW l \in Loops, NEW i \in 1 .. Len(batch'[l])
             PROVE  FunctorKnown(l, batch[l][i])'
  OBVIOUS
<1>1. /\ batch \in [Loops -> Seq(Functors)] /\ batch[l] \in Seq(Functors)
      /\ queue[l] \in Seq(Functors)
  BY DEF Typed, TypeOK
<1>2. \A f \in Functors : FunctorKnown(l, f) => FunctorKnown(l, f)'
  BY KnownStays
<1>3. PICK s \in {batch[l], queue[l]} : batch'[l] = s
  <2>1. batch'[l] \in {batch[l], queue[l], << >>}
    BY <1>1
  <2>2. batch'[l] # << >>
    OBVIOUS
  <2> QED BY <2>1, <2>2
<1>4. s[i] \in Functors /\ FunctorKnown(l, s[i])
  BY <1>1, <1>3, ElementOfSeq DEF OnlyKnown
<1>5. PICK f \in Functors : f = s[i]
  BY <1>4
<1> QED BY <1>2, <1>3, <1>4, <1>5 DEF FunctorKnown

LEMMA KnownServerStep ==
  ASSUME LiveInv, Next,
         \/ \E n \in 0 .. MaxThreads : Start(n)
         \/ \E l \in Loops : EnterLoop(l)
         \/ QuitBase \/ Accepts \/ Destruction
         \/ \E c \in Conns : PeerCloses(c)
  PROVE  OnlyKnown'
<1>0. Typed /\ TypeOK /\ OnlyKnown /\ [Next]_vars
  BY DEF LiveInv, Typed
<1>1. Known \subseteq Known'
  BY <1>0, KnownStays
<1>2. ASSUME NEW n \in 0 .. MaxThreads, Start(n) PROVE OnlyKnown'
  <2>1. queue' = queue \/ Push(Base, Functor("listen", None))
    BY <1>2 DEF Start
  <2>2. Functor("listen", None) \in Functors /\ Base \in Loops
        /\ FunctorKnown(Base, Functor("listen", None))'
    BY FunctorTyped DEF RawOps, Loops, FunctorKnown, Functor
  <2>3. \A l \in Loops : \A i \in 1 .. Len(queue'[l]) : FunctorKnown(l, queue[l][i])'
    BY <1>0, <2>1, <2>2, QueueKnown
  <2>4. \A l \in Loops : \A i \in 1 .. Len(batch'[l]) : FunctorKnown(l, batch[l][i])'
    BY <1>0, <1>2, BatchKnown DEF Start, loopVars
  <2>5. UNCHANGED <<watched, connections, sweep, closing, place>>
    BY <1>2 DEF Start, connVars, loopVars
  <2> QED BY <1>0, <1>1, <2>3, <2>4, <2>5 DEF OnlyKnown
<1>3. CASE \/ \E l \in Loops : EnterLoop(l)
           \/ QuitBase \/ \E c \in Conns : PeerCloses(c)
  <2>1. /\ queue' = queue /\ batch' = batch
        /\ UNCHANGED <<watched, connections, sweep, closing>>
    BY <1>3 DEF EnterLoop, QuitBase, PeerCloses, serverVars, connVars, loopVars
  <2>2. \A l \in Loops : place'[l] = "close" => place[l] = "close"
    BY <1>0, <1>3 DEF EnterLoop, QuitBase, PeerCloses, loopVars, Goes, TypeOK
  <2> QED BY <1>0, <1>1, <2>1, <2>2, QueueKnown, BatchKnown DEF OnlyKnown
<1>4. CASE AcceptFails
  <2>1. /\ queue' = queue /\ batch' = batch
        /\ UNCHANGED <<watched, connections, sweep, closing>>
        /\ \A l \in Loops : place'[l] # "close"
    BY <1>4 DEF AcceptFails, LogFatal, connVars
  <2> QED BY <1>0, <1>1, <2>1, QueueKnown, BatchKnown DEF OnlyKnown
<1>5. ASSUME NEW c \in Conns, NewConnection(c) PROVE OnlyKnown'
  <2>0. PICK k \in Loops : k = NextLoop
    BY <1>0, NextLoopTyped
  <2>1. /\ c \in Known' /\ loopOf'[c] = k
        /\ connections' = connections \union {c}
        /\ watched' = watched \/ watched' = watched \union {c}
        /\ UNCHANGED <<sweep, closing, place, batch>>
    BY <1>0, <1>5, <2>0 DEF NewConnection, ConnectEstablished, connVars,
       Known, Conns, TypeOK
  <2>2. \/ queue' = queue
        \/ k # Base /\ Push(k, Functor("establish", c))
    BY <1>5, <2>0 DEF NewConnection
  <2>3. /\ Functor("establish", c) \in Functors
        /\ k # Base => FunctorKnown(k, Functor("establish", c))'
    BY <2>1, FunctorTyped DEF StrongOps, FunctorKnown, Functor
  <2>4. \A l \in Loops : \A i \in 1 .. Len(queue'[l]) : FunctorKnown(l, queue[l][i])'
    BY <1>0, <2>1, <2>2, <2>3, QueueKnown
  <2>5. \A l \in Loops : \A i \in 1 .. Len(batch'[l]) : FunctorKnown(l, batch[l][i])'
    BY <1>0, <2>1, BatchKnown
  <2> QED BY <1>0, <1>1, <2>1, <2>4, <2>5 DEF OnlyKnown
<1>6. CASE BeginDestroy \/ DropMap \/ CloseAcceptor
  <2>1. /\ queue' = queue /\ batch' = batch
        /\ UNCHANGED <<watched, closing, place>>
        /\ connections' \subseteq connections /\ sweep' \subseteq connections \union sweep
    BY <1>6 DEF BeginDestroy, DropMap, CloseAcceptor, connVars, loopVars
  <2> QED BY <1>0, <1>1, <2>1, QueueKnown, BatchKnown DEF OnlyKnown
<1>7. CASE DestroyBaseLoop
  <2>1. /\ batch' = batch /\ UNCHANGED <<closing, place, connections, sweep>>
        /\ queue' = [queue EXCEPT ![Base] = << >>] /\ Base \in Loops
        /\ watched' \subseteq watched
    BY <1>7 DEF DestroyBaseLoop, loopVars, Loops
  <2> QED BY <1>0, <1>1, <2>1, QueueKnown, BatchKnown DEF OnlyKnown
<1>8. ASSUME NEW c \in Conns, DestroyConnection(c) PROVE OnlyKnown'
  <2>1. /\ batch' = batch /\ UNCHANGED <<closing, place, connections>>
        /\ sweep' \subseteq sweep /\ c \in Known
    BY <1>0, <1>8 DEF DestroyConnection, loopVars, OnlyKnown
  <2>2. watched' \subseteq watched
    BY <1>8 DEF DestroyConnection, ConnectDestoryed, WithoutChannel, connVars
  <2>3. queue' = queue \/ Push(loopOf[c], Functor("destroy", c))
    BY <1>8 DEF DestroyConnection
  <2>4. /\ Functor("destroy", c) \in Functors /\ loopOf[c] \in Loops
        /\ FunctorKnown(loopOf[c], Functor("destroy", c))
    BY <1>0, <2>1, FunctorTyped DEF StrongOps, FunctorKnown, Functor, TypeOK
  <2>5. FunctorKnown(loopOf[c], Functor("destroy", c))'
    BY <1>0, <1>1, <2>1, KnownStays DEF StrongOps, FunctorKnown, Functor
  <2>6. \A l \in Loops : \A i \in 1 .. Len(queue'[l]) : FunctorKnown(l, queue[l][i])'
    <3>1. CASE queue' = queue
      BY <1>0, <3>1, QueueKnown
    <3>2. CASE Push(loopOf[c], Functor("destroy", c))
      <4>1. loopOf' = loopOf
        BY <1>8 DEF DestroyConnection, turnVars
      <4> QED BY <1>0, <2>4, <2>5, <3>2, <4>1, QueueKnown
    <3> QED BY <2>3, <3>1, <3>2
  <2> QED BY <1>0, <1>1, <2>1, <2>2, <2>6, BatchKnown DEF OnlyKnown
<1>9. ASSUME NEW l \in Workers, QuitWorker(l) PROVE OnlyKnown'
  <2>1. /\ queue' = queue /\ batch' = batch
        /\ UNCHANGED <<watched, connections, sweep, closing, place>>
    BY <1>9 DEF QuitWorker, serverVars, connVars
  <2> QED BY <1>0, <1>1, <2>1, QueueKnown, BatchKnown DEF OnlyKnown
<1> QED
  BY <1>2, <1>3, <1>4, <1>5, <1>6, <1>7, <1>8, <1>9 DEF Accepts, Destruction

(* A functor that is called is about a connection of that loop.            *)
LEMMA CallKnown ==
  ASSUME Typed, OnlyKnown, NEW l \in Loops, NEW op \in StrongOps, NEW c,
         Calls(l, op, c)
  PROVE  /\ ran[l] + 1 \in 1 .. Len(batch[l])
         /\ batch[l][ran[l] + 1] = Functor(op, c)
         /\ c \in Known
         /\ l = IF op = "remove" THEN Base ELSE loopOf[c]
         /\ op = "establish" => l # Base
<1>1. /\ ran[l] + 1 \in 1 .. Len(batch[l])
      /\ batch[l][ran[l] + 1] = Functor(op, c)
  BY DEF Calls, Typed, TypeOK
<1>2. FunctorKnown(l, Functor(op, c))
  BY <1>1 DEF OnlyKnown
<1> QED BY <1>1, <1>2 DEF FunctorKnown, Functor, StrongOps

LEMMA RemoveKnown ==
  ASSUME Typed, OnlyKnown, [Next]_vars, NEW c \in Known, RemoveConnectionInLoop(c)
  PROVE  /\ \A l \in Loops : \A i \in 1 .. Len(queue'[l]) :
              FunctorKnown(l, queue[l][i])'
         /\ connections' \subseteq connections
<1>1. PICK k \in Loops : k = loopOf[c]
  BY DEF Typed, TypeOK, Known
<1>2. Push(k, Functor("destroy", c)) /\ Functor("destroy", c) \in Functors
  BY <1>1, FunctorTyped DEF RemoveConnectionInLoop, StrongOps, Known
<1>3. FunctorKnown(k, Functor("destroy", c))'
  BY <1>1, KnownStays DEF FunctorKnown, Functor, StrongOps
<1> QED BY <1>2, <1>3, QueueKnown DEF RemoveConnectionInLoop, Erased

(* A loop that comes to the test of quit_ is done with its batch.          *)
LEMMA TestsTidy ==
  ASSUME Typed, LoopsTidy, NEW l \in Loops, FinishBatch(l) \/ FirstTest(l)
  PROVE  /\ place[l] \in {"batch", "entered"} /\ ran[l] = Len(batch[l])
         /\ place' = [place EXCEPT ![l] = IF quit[l] THEN "stopped" ELSE "poll"]
         /\ batch' = [batch EXCEPT ![l] = << >>]
         /\ ran' = [ran EXCEPT ![l] = 0]
         /\ \/ /\ quit[l] /\ l # Base
               /\ queue' = [queue EXCEPT ![l] = << >>]
               /\ watched' = watched \ ConnsOf(l)
            \/ ~(quit[l] /\ l # Base) /\ UNCHANGED <<queue, watched>>
         /\ UNCHANGED <<serverVars, state, told, user, active, closing, quit, hungUp>>
<1>1. CASE FinishBatch(l)
  BY <1>1 DEF FinishBatch, TestsQuit, Goes
<1>2. CASE FirstTest(l)
  <2>1. place[l] = "entered" /\ batch' = batch /\ ran' = ran
    BY <1>2 DEF FirstTest
  <2>2. batch[l] = << >> /\ ran[l] = 0
    BY <2>1 DEF LoopsTidy
  <2>3. batch' = [batch EXCEPT ![l] = << >>] /\ ran' = [ran EXCEPT ![l] = 0]
    BY <2>1, <2>2 DEF Typed, TypeOK
  <2>4. ran[l] = Len(batch[l])
    BY <2>2
  <2> QED BY <1>2, <2>1, <2>3, <2>4 DEF FirstTest, TestsQuit, Goes
<1> QED BY <1>1, <1>2

LEMMA KnownLoopStep ==
  ASSUME LiveInv, Next, NEW l \in Loops, LoopStep(l)
  PROVE  OnlyKnown'
<1>0. Typed /\ TypeOK /\ OnlyKnown /\ LoopsTidy /\ [Next]_vars
  BY DEF LiveInv, Typed
<1>1. Known \subseteq Known'
  BY <1>0, KnownStays
<1>2. ASSUME queue' = queue,
             \/ batch' = batch
             \/ \E k \in Loops : batch' = [batch EXCEPT ![k] = << >>],
             watched' \subseteq Known, UNCHANGED <<connections, sweep, closing>>,
             \A k \in Loops : place'[k] = "close" => place[k] = "close"
      PROVE  OnlyKnown'
  BY <1>0, <1>1, <1>2, QueueKnown, BatchKnown DEF OnlyKnown
<1> USE DEF serverVars, connVars, loopVars, turnVars, Goes
<1>3. CASE Poll(l)
  BY <1>0, <1>2, <1>3 DEF Poll, OnlyKnown, TypeOK
<1>4. CASE CloseCallback(l)
  <2>1. /\ closing[l] \in Known /\ closing[l] \in Conns
        /\ UNCHANGED <<sweep, watched, batch>>
        /\ closing' = [closing EXCEPT ![l] = None]
        /\ place' = [place EXCEPT ![l] = "dispatch"]
    BY <1>0, <1>4 DEF CloseCallback, OnlyKnown, Known
  <2>2. /\ \A k \in Loops : \A i \in 1 .. Len(queue'[k]) :
              FunctorKnown(k, queue[k][i])'
        /\ connections' \subseteq connections
    <3>1. PICK c \in Known : c = closing[l]
      BY <2>1
    <3>2. CASE l = Base
      BY <1>0, <1>4, <3>1, <3>2, RemoveKnown DEF CloseCallback
    <3>3. CASE l # Base
      <4>1. Push(Base, Functor("remove", c)) /\ connections' = connections
        BY <1>4, <3>1, <3>3 DEF CloseCallback
      <4>2. /\ Base \in Loops /\ Functor("remove", c) \in Functors
            /\ FunctorKnown(Base, Functor("remove", c))'
        BY <1>1, <2>1, <3>1, FunctorTyped DEF Loops, FunctorKnown, Functor,
           StrongOps
      <4> QED BY <1>0, <4>1, <4>2, QueueKnown
    <3> QED BY <3>2, <3>3
  <2>3. \A k \in Loops : \A i \in 1 .. Len(batch'[k]) : FunctorKnown(k, batch[k][i])'
    BY <1>0, <2>1, BatchKnown
  <2> QED BY <1>0, <1>1, <2>1, <2>2, <2>3 DEF OnlyKnown, TypeOK
<1>5. CASE SwapPending(l)
  <2>1. /\ batch' = [batch EXCEPT ![l] = queue[l]]
        /\ queue' = [queue EXCEPT ![l] = << >>]
        /\ place' = [place EXCEPT ![l] = "batch"]
        /\ UNCHANGED <<watched, connections, sweep, closing>>
    BY <1>5 DEF SwapPending
  <2> QED BY <1>0, <1>1, <2>1, QueueKnown, BatchKnown DEF OnlyKnown, TypeOK
<1>6. CASE RunListen(l)
  BY <1>0, <1>2, <1>6 DEF RunListen, Calls, OnlyKnown
<1>7. CASE FinishBatch(l) \/ FirstTest(l)
  <2>1. /\ batch' = [batch EXCEPT ![l] = << >>]
        /\ queue' = queue \/ queue' = [queue EXCEPT ![l] = << >>]
        /\ watched' \subseteq watched
        /\ UNCHANGED <<connections, sweep, closing>>
        /\ \A k \in Loops : place'[k] = "close" => place[k] = "close"
    BY <1>0, <1>7, TestsTidy DEF TypeOK
  <2> QED BY <1>0, <1>1, <2>1, QueueKnown, BatchKnown DEF OnlyKnown
<1>8. ASSUME NEW c \in Conns, HandleMessage(l, c) PROVE OnlyKnown'
  BY <1>0, <1>2, <1>8 DEF HandleMessage, OnlyKnown
<1>9. ASSUME NEW c \in Conns, HandleClose(l, c) PROVE OnlyKnown'
  <2>1. c \in watched /\ c \in Known /\ c # None
    BY <1>0, <1>9 DEF HandleClose, Dispatches, LoopsTidy, ConnsOf, OnlyKnown,
       Conns, None
  <2>2. /\ queue' = queue /\ batch' = batch /\ watched' \subseteq watched
        /\ UNCHANGED <<connections, sweep>>
        /\ closing' = [closing EXCEPT ![l] = c]
        /\ place' = [place EXCEPT ![l] = "close"]
    BY <1>9 DEF HandleClose
  <2>3. \A k \in Loops : \A i \in 1 .. Len(queue'[k]) : FunctorKnown(k, queue[k][i])'
    BY <1>0, <2>2, QueueKnown
  <2>4. \A k \in Loops : \A i \in 1 .. Len(batch'[k]) : FunctorKnown(k, batch[k][i])'
    BY <1>0, <2>2, BatchKnown
  <2> QED BY <1>0, <1>1, <2>1, <2>2, <2>3, <2>4 DEF OnlyKnown, TypeOK
<1>10. ASSUME NEW c \in Conns, RunEstablish(l, c) \/ RunDestroy(l, c)
       PROVE  OnlyKnown'
  <2>1. c \in Known
    BY <1>0, <1>10, CallKnown DEF RunEstablish, RunDestroy, StrongOps
  <2>2. watched' \subseteq Known
    BY <1>0, <1>10, <2>1 DEF RunEstablish, RunDestroy, ConnectEstablished,
       ConnectDestoryed, WithoutChannel, OnlyKnown
  <2>3. /\ queue' = queue /\ batch' = batch
        /\ UNCHANGED <<connections, sweep, closing, place>>
    BY <1>10 DEF RunEstablish, RunDestroy, Calls
  <2> QED BY <1>2, <2>2, <2>3
<1>11. ASSUME NEW c \in Conns, RunRemove(l, c) PROVE OnlyKnown'
  <2>1. c \in Known
    BY <1>0, <1>11, CallKnown DEF RunRemove, StrongOps
  <2>2. batch' = batch /\ UNCHANGED <<watched, sweep, closing, place>>
    BY <1>11 DEF RunRemove, Calls
  <2>3. /\ \A k \in Loops : \A i \in 1 .. Len(queue'[k]) :
              FunctorKnown(k, queue[k][i])'
        /\ connections' \subseteq connections
    BY <1>0, <1>11, <2>1, RemoveKnown DEF RunRemove
  <2>4. \A k \in Loops : \A i \in 1 .. Len(batch'[k]) : FunctorKnown(k, batch[k][i])'
    BY <1>0, <2>2, BatchKnown
  <2> QED BY <1>0, <1>1, <2>2, <2>3, <2>4 DEF OnlyKnown
<1> QED
  BY <1>3, <1>4, <1>5, <1>6, <1>7, <1>8, <1>9, <1>10, <1>11 DEF LoopStep

LEMMA KnownStep == LiveInv /\ [Next]_vars => OnlyKnown'
<1> SUFFICES ASSUME LiveInv, [Next]_vars PROVE OnlyKnown'
  OBVIOUS
<1>1. CASE UNCHANGED vars
  BY <1>1 DEF LiveInv, OnlyKnown, FunctorKnown, Known, vars, serverVars, connVars,
     loopVars
<1>2. CASE Next
  BY <1>2, KnownServerStep, KnownLoopStep DEF Next
<1> QED BY <1>1, <1>2

LEMMA TidyServerStep ==
  ASSUME LiveInv, Next,
         \/ \E n \in 0 .. MaxThreads : Start(n)
         \/ \E l \in Loops : EnterLoop(l)
         \/ QuitBase \/ Accepts \/ Destruction
         \/ \E c \in Conns : PeerCloses(c)
  PROVE  LoopsTidy'
<1>0. Typed /\ TypeOK /\ OnlyKnown /\ LoopsTidy /\ [Next]_vars
  BY DEF LiveInv, Typed
<1> USE DEF serverVars, connVars, loopVars, turnVars, Goes
<1>1. ASSUME NEW n \in 0 .. MaxThreads, Start(n) PROVE LoopsTidy'
  <2>1. /\ stage = "built" /\ stage' = "started"
        /\ UNCHANGED <<place, active, batch, ran, watched, loopOf>>
    BY <1>1 DEF Start
  <2> QED BY <1>0, <2>1 DEF LoopsTidy, ConnsOf
<1>2. ASSUME NEW l \in Loops, EnterLoop(l) PROVE LoopsTidy'
  <2>1. /\ place[l] = "outside" /\ place' = [place EXCEPT ![l] = "entered"]
        /\ UNCHANGED <<stage, active, batch, ran, watched, loopOf>>
    BY <1>2 DEF EnterLoop
  <2>2. \A k \in Loops : place'[k] = IF k = l THEN "entered" ELSE place[k]
    BY <1>0, <2>1 DEF TypeOK
  <2> QED BY <1>0, <2>1, <2>2 DEF LoopsTidy, ConnsOf
<1>3. CASE QuitBase \/ \E c \in Conns : PeerCloses(c)
  BY <1>0, <1>3 DEF QuitBase, PeerCloses, LoopsTidy, ConnsOf
<1>4. CASE AcceptFails
  BY <1>4 DEF AcceptFails, LogFatal, LoopsTidy
<1>5. ASSUME NEW c \in Conns, NewConnection(c) PROVE LoopsTidy'
  <2>1. /\ UNCHANGED <<place, batch, ran, stage>>
        /\ watched \subseteq watched'
        /\ \A l \in Loops : /\ active'[l] \subseteq active[l]
    BY <1>0, <1>5 DEF NewConnection, ConnectEstablished, AcceptorActive, TypeOK
  <2>2. \A d \in Known : loopOf'[d] = loopOf[d]
    BY <1>0, KnownStays
  <2>3. \A l \in Loops : ConnsOf(l) \subseteq ConnsOf(l)'
    BY <1>0, <2>1, <2>2 DEF ConnsOf, OnlyKnown
  <2> QED BY <1>0, <2>1, <2>3 DEF LoopsTidy
<1>6. CASE BeginDestroy \/ DropMap \/ CloseAcceptor
  BY <1>0, <1>6 DEF BeginDestroy, DropMap, CloseAcceptor, LoopsTidy, ConnsOf
<1>7. CASE DestroyBaseLoop
  <2>1. /\ UNCHANGED <<place, batch, ran, active, loopOf>>
        /\ stage = "gone" /\ stage' = "over"
        /\ watched' = watched \ ConnsOf(Base)
    BY <1>7 DEF DestroyBaseLoop
  <2>2. place[Base] = "stopped"
    BY <2>1 DEF LiveInv, PlacesTell, Ending
  <2>3. \A l \in Loops : l # Base => ConnsOf(l)' = ConnsOf(l)
    BY <2>1 DEF ConnsOf
  <2> QED BY <1>0, <2>1, <2>2, <2>3 DEF LoopsTidy
<1>8. ASSUME NEW c \in Conns, DestroyConnection(c) PROVE LoopsTidy'
  <2>1. UNCHANGED <<place, batch, ran, active, loopOf, stage>>
    BY <1>8 DEF DestroyConnection
  <2>2. stage = "destroying" /\ place[Base] = "stopped"
    BY <1>8 DEF DestroyConnection, LiveInv, PlacesTell, Ending
  <2>3. \/ watched' = watched
        \/ loopOf[c] = Base /\ watched' = watched \ {c}
    BY <1>8 DEF DestroyConnection, ConnectDestoryed, WithoutChannel
  <2>4. \A l \in Loops : l # Base => ConnsOf(l)' = ConnsOf(l)
    BY <2>1, <2>3 DEF ConnsOf
  <2> QED BY <1>0, <2>1, <2>2, <2>4 DEF LoopsTidy
<1>9. ASSUME NEW l \in Workers, QuitWorker(l) PROVE LoopsTidy'
  BY <1>0, <1>9 DEF QuitWorker, LoopsTidy, ConnsOf
<1> QED
  BY <1>1, <1>2, <1>3, <1>4, <1>5, <1>6, <1>7, <1>8, <1>9 DEF Accepts, Destruction

LEMMA TidyLoopStep ==
  ASSUME LiveInv, Next, NEW l \in Loops, LoopStep(l)
  PROVE  LoopsTidy'
<1>0. Typed /\ TypeOK /\ OnlyKnown /\ LoopsTidy
  BY DEF LiveInv, Typed
<1> USE DEF serverVars, connVars, loopVars, turnVars, Goes
<1>1. CASE Poll(l)
  <2>1. PICK ready \in SUBSET Reportable(l) :
          active' = [active EXCEPT ![l] = ready]
    BY <1>1 DEF Poll
  <2>2. ready \ {Acceptor} \subseteq ConnsOf(l)
    BY DEF Reportable, Polled
  <2> QED BY <1>0, <1>1, <2>1, <2>2 DEF Poll, LoopsTidy, ConnsOf, TypeOK
<1>2. CASE CloseCallback(l)
  BY <1>0, <1>2 DEF CloseCallback, LoopsTidy, ConnsOf, TypeOK
<1>3. CASE SwapPending(l)
  BY <1>0, <1>3 DEF SwapPending, LoopsTidy, ConnsOf, TypeOK
<1>4. CASE RunListen(l)
  BY <1>0, <1>4 DEF RunListen, Calls, LoopsTidy, ConnsOf, TypeOK
<1>5. CASE FinishBatch(l) \/ FirstTest(l)
  <2>1. /\ place[l] \in {"batch", "entered"} /\ UNCHANGED <<stage, active, loopOf>>
        /\ batch' = [batch EXCEPT ![l] = << >>] /\ ran' = [ran EXCEPT ![l] = 0]
        /\ place' = [place EXCEPT ![l] = IF quit[l] THEN "stopped" ELSE "poll"]
        /\ \/ watched' = watched
           \/ quit[l] /\ watched' = watched \ ConnsOf(l)
    BY <1>0, <1>5, TestsTidy
  <2>2. \A k \in Loops : k # l => ConnsOf(k)' = ConnsOf(k)
    BY <2>1 DEF ConnsOf
  <2>3. /\ batch'[l] = << >> /\ ran'[l] = 0 /\ active'[l] = {}
        /\ place'[l] \in {"stopped", "poll"}
    BY <1>0, <2>1 DEF LoopsTidy, TypeOK
  <2>4. \A k \in Loops : k # l => /\ batch'[k] = batch[k] /\ ran'[k] = ran[k]
                                  /\ active'[k] = active[k] /\ place'[k] = place[k]
    BY <1>0, <2>1 DEF TypeOK
  <2>5. stage' # "exited"
    BY <1>0, <2>1 DEF LoopsTidy
  <2> QED BY <1>0, <2>1, <2>2, <2>3, <2>4, <2>5 DEF LoopsTidy
<1>6. ASSUME NEW c \in Conns, HandleMessage(l, c) PROVE LoopsTidy'
  BY <1>0, <1>6 DEF HandleMessage, Dispatches, LoopsTidy, ConnsOf, TypeOK
<1>7. ASSUME NEW c \in Conns, HandleClose(l, c) PROVE LoopsTidy'
  <2>1. /\ place[l] = "dispatch" /\ c \in active[l] \ {Acceptor}
        /\ UNCHANGED <<stage, batch, ran, loopOf>>
        /\ active' = [active EXCEPT ![l] = @ \ {c}]
        /\ place' = [place EXCEPT ![l] = "close"]
        /\ watched' = watched \ {c}
    BY <1>7 DEF HandleClose, Dispatches
  <2>2. loopOf[c] = l
    BY <1>0, <2>1 DEF LoopsTidy, ConnsOf
  <2>3. \A k \in Loops : k # l => ConnsOf(k)' = ConnsOf(k)
    BY <2>1, <2>2 DEF ConnsOf
  <2>4. ConnsOf(l)' = ConnsOf(l) \ {c}
    BY <2>1 DEF ConnsOf
  <2>5. active'[l] = active[l] \ {c} /\ place'[l] = "close"
    BY <1>0, <2>1 DEF TypeOK
  <2>6. \A k \in Loops : k # l => active'[k] = active[k] /\ place'[k] = place[k]
    BY <1>0, <2>1 DEF TypeOK
  <2> QED BY <1>0, <2>1, <2>3, <2>4, <2>5, <2>6 DEF LoopsTidy
<1>8. ASSUME NEW c \in Conns, NEW op \in StrongOps, Calls(l, op, c),
             \/ watched \subseteq watched'
             \/ watched' = watched \ {c} /\ loopOf[c] = l
      PROVE  LoopsTidy'
  <2>1. /\ place[l] = "batch" /\ UNCHANGED <<stage, loopOf, place, active, batch>>
        /\ ran' = [ran EXCEPT ![l] = @ + 1]
    BY <1>8 DEF Calls
  <2>2. \A k \in Loops : k # l => ConnsOf(k) \subseteq ConnsOf(k)'
    BY <1>8, <2>1 DEF ConnsOf
  <2>3. active[l] = {}
    BY <1>0, <2>1 DEF LoopsTidy
  <2>4. \A k \in Loops : k # l => ran'[k] = ran[k]
    BY <1>0, <2>1 DEF TypeOK
  <2> QED BY <1>0, <2>1, <2>2, <2>3, <2>4 DEF LoopsTidy
<1>9. ASSUME NEW c \in Conns, RunEstablish(l, c) PROVE LoopsTidy'
  BY <1>8, <1>9 DEF RunEstablish, ConnectEstablished, StrongOps
<1>10. ASSUME NEW c \in Conns, RunDestroy(l, c) PROVE LoopsTidy'
  <2>1. Calls(l, "destroy", c) /\ loopOf[c] = l
    BY <1>0, <1>10, CallKnown DEF RunDestroy, StrongOps
  <2> QED BY <1>8, <1>10, <2>1 DEF RunDestroy, ConnectDestoryed, WithoutChannel,
             StrongOps
<1>11. ASSUME NEW c \in Conns, RunRemove(l, c) PROVE LoopsTidy'
  BY <1>8, <1>11 DEF RunRemove, StrongOps
<1> QED
  BY <1>1, <1>2, <1>3, <1>4, <1>5, <1>6, <1>7, <1>9, <1>10, <1>11 DEF LoopStep

LEMMA TidyStep == LiveInv /\ [Next]_vars => LoopsTidy'
<1> SUFFICES ASSUME LiveInv, [Next]_vars PROVE LoopsTidy'
  OBVIOUS
<1>1. CASE UNCHANGED vars
  BY <1>1 DEF LiveInv, LoopsTidy, ConnsOf, vars, serverVars, connVars, loopVars
<1>2. CASE Next
  BY <1>2, TidyServerStep, TidyLoopStep DEF Next
<1> QED BY <1>1, <1>2

(* What a step may do to a queue without a new connectEstablished of c.    *)
QueueGrows(l, c) ==
  /\ Len(queue[l]) \in Nat /\ Len(queue'[l]) \in Nat
  /\ Len(queue[l]) <= Len(queue'[l])
  /\ \A i \in 1 .. Len(queue[l]) : queue'[l][i] = queue[l][i]
  /\ \A i \in Len(queue[l]) + 1 .. Len(queue'[l]) :
       queue'[l][i] # Functor("establish", c)

LEMMA PushGrows ==
  ASSUME TypeOK, NEW c \in Conns, NEW l \in Loops,
         \/ queue' = queue
         \/ \E k \in Loops, f \in Functors :
              Push(k, f) /\ f # Functor("establish", c)
  PROVE  QueueGrows(l, c)
<1>1. Len(queue[l]) \in Nat
  BY DEF TypeOK
<1>2. CASE queue' = queue
  BY <1>1, <1>2 DEF QueueGrows
<1>3. ASSUME NEW k \in Loops, NEW f \in Functors, Push(k, f),
             f # Functor("establish", c)
      PROVE  QueueGrows(l, c)
  <2>1. /\ \A h \in Loops : h # k => queue'[h] = queue[h]
        /\ Len(queue[k]) \in Nat
        /\ Len(queue'[k]) = Len(queue[k]) + 1
        /\ \A j \in 1 .. Len(queue[k]) : queue'[k][j] = queue[k][j]
        /\ queue'[k][Len(queue[k]) + 1] = f
    BY <1>3, PushAdds
  <2>2. CASE l = k
    BY <1>3, <2>1, <2>2 DEF QueueGrows
  <2>3. CASE l # k
    BY <1>1, <2>1, <2>3 DEF QueueGrows
  <2> QED BY <2>2, <2>3
<1> QED BY <1>2, <1>3

LEMMA UnknownAbsent ==
  ASSUME TypeOK, OnlyKnown, NEW l \in Loops, NEW f, ~FunctorKnown(l, f)
  PROVE  /\ Len(batch[l]) \in Nat /\ ran[l] \in Nat
         /\ \A i \in 1 .. Len(queue[l]) : queue[l][i] # f
         /\ \A i \in 1 .. Len(batch[l]) : batch[l][i] # f
  BY DEF OnlyKnown, TypeOK

(* Nothing a loop has is about a connection that was never accepted.       *)
LEMMA UnknownProvided ==
  TypeOK /\ OnlyKnown => \A c \in Conns : c \notin Known => Provided(c)
<1> SUFFICES ASSUME OnlyKnown, TypeOK, NEW c \in Conns, c \notin Known
             PROVE  Provided(c)
  OBVIOUS
<1>1. loopOf[c] \in Loops /\ c \notin watched
  BY DEF TypeOK, OnlyKnown
<1>2. \A l \in Loops : ~FunctorKnown(l, Functor("establish", c))
  BY DEF FunctorKnown, Functor
<1>3. \A l \in Loops :
        /\ Len(batch[l]) \in Nat /\ ran[l] \in Nat
        /\ \A i \in 1 .. Len(queue[l]) : queue[l][i] # Functor("establish", c)
        /\ \A i \in 1 .. Len(batch[l]) : batch[l][i] # Functor("establish", c)
  BY <1>2, UnknownAbsent
<1> QED BY <1>1, <1>3 DEF Provided

LEMMA UnknownProvidedAfter ==
  (TypeOK /\ OnlyKnown => \A c \in Conns : c \notin Known => Provided(c))'
  BY UnknownProvided, PTL

(* A connection stays provided for while its loop goes on with its batch,  *)
(* unless connectDestoryed leaves it watched.                              *)
LEMMA StaysProvided ==
  ASSUME TypeOK, NEW c \in Conns, NEW l \in Loops, l = loopOf[c], l = loopOf'[c],
         Provided(c), QueueGrows(l, c), batch'[l] = batch[l],
         place[l] = "stopped" => place'[l] = "stopped" \/ c \notin watched',
         \/ /\ ran'[l] = ran[l]
            /\ c \in watched' => c \in watched
         \/ /\ ran'[l] = ran[l] + 1 /\ ran[l] + 1 \in 1 .. Len(batch[l])
            /\ c \in watched' =>
                 \/ batch[l][ran[l] + 1] = Functor("establish", c)
                 \/ /\ batch[l][ran[l] + 1] # Functor("destroy", c)
                    /\ c \in watched
  PROVE  Provided(c)'
<1>1. ran[l] \in Nat /\ Len(batch[l]) \in Nat
  BY DEF TypeOK
<1>2. ASSUME NEW i \in Nat, DestroyQueued(c, i) PROVE DestroyQueued(c, i)'
  BY <1>2 DEF DestroyQueued, QueueGrows
<1>3. ASSUME NEW i \in Nat, DestroyInBatch(c, i) PROVE DestroyInBatch(c, i)'
  BY <1>3 DEF DestroyInBatch
<1>4. ASSUME NEW i \in 1 .. Len(queue'[l]), queue'[l][i] = Functor("establish", c)
      PROVE  DestroyQueued(c, i)'
  <2>1. i \in 1 .. Len(queue[l]) /\ queue[l][i] = Functor("establish", c)
    BY <1>4 DEF QueueGrows
  <2>2. DestroyQueued(c, i)
    BY <2>1 DEF Provided
  <2> QED BY <1>2, <2>2
<1>5. ASSUME NEW i \in ran'[l] + 1 .. Len(batch'[l]),
             batch'[l][i] = Functor("establish", c)
      PROVE  DestroyQueued(c, 0)' \/ DestroyInBatch(c, i)'
  <2>1. i \in ran[l] + 1 .. Len(batch[l]) /\ i \in Nat
    BY <1>1, <1>5
  <2>2. DestroyQueued(c, 0) \/ DestroyInBatch(c, i)
    BY <1>5, <2>1 DEF Provided
  <2> QED BY <1>2, <1>3, <2>1, <2>2
<1>6. ASSUME c \in watched', place'[l] # "stopped"
      PROVE  \E n \in Nat : n = ran'[l] /\ (DestroyQueued(c, 0) \/ DestroyInBatch(c, n))
  <2>1. place[l] # "stopped"
    BY <1>6
  <2>2. CASE ran'[l] = ran[l] /\ c \in watched
    <3>1. DestroyQueued(c, 0) \/ DestroyInBatch(c, ran[l])
      BY <2>1, <2>2 DEF Provided
    <3> QED BY <1>1, <2>2, <3>1
  <2>3. CASE /\ ran'[l] = ran[l] + 1 /\ ran[l] + 1 \in 1 .. Len(batch[l])
             /\ batch[l][ran[l] + 1] = Functor("establish", c)
    <3>1. DestroyQueued(c, 0) \/ DestroyInBatch(c, ran[l] + 1)
      BY <1>1, <2>3 DEF Provided
    <3> QED BY <1>1, <2>3, <3>1
  <2>4. CASE /\ ran'[l] = ran[l] + 1
             /\ batch[l][ran[l] + 1] # Functor("destroy", c)
             /\ c \in watched
    <3>1. DestroyQueued(c, 0) \/ DestroyInBatch(c, ran[l])
      BY <2>1, <2>4 DEF Provided
    <3>2. CASE DestroyQueued(c, 0)
      BY <1>1, <2>4, <3>2
    <3>3. CASE DestroyInBatch(c, ran[l])
      <4>1. PICK j \in ran[l] + 1 .. Len(batch[l]) :
              batch[l][j] = Functor("destroy", c)
        BY <3>3 DEF DestroyInBatch
      <4>2. j \in (ran[l] + 1) + 1 .. Len(batch[l])
        BY <1>1, <2>4, <4>1
      <4>3. DestroyInBatch(c, ran[l] + 1)
        BY <4>1, <4>2 DEF DestroyInBatch
      <4> QED BY <1>1, <2>4, <4>3
    <3> QED BY <3>1, <3>2, <3>3
  <2> QED BY <1>6, <2>2, <2>3, <2>4
<1>7. c \in watched' /\ place'[l] # "stopped" =>
        DestroyQueued(c, 0)' \/ \E n \in Nat : n = ran'[l] /\ DestroyInBatch(c, n)'
  <2> SUFFICES ASSUME c \in watched', place'[l] # "stopped"
               PROVE  \/ DestroyQueued(c, 0)'
                      \/ \E n \in Nat : n = ran'[l] /\ DestroyInBatch(c, n)'
    OBVIOUS
  <2>1. PICK n \in Nat : n = ran'[l] /\ (DestroyQueued(c, 0) \/ DestroyInBatch(c, n))
    BY <1>6
  <2> QED BY <1>2, <1>3, <2>1
<1> QED BY <1>4, <1>5, <1>7 DEF Provided, DestroyQueued, DestroyInBatch

(* removeConnectionInLoop and ~TcpServer provide for the connection.       *)
LEMMA PushProvides ==
  ASSUME TypeOK, NEW c \in Conns, NEW l \in Loops, l = loopOf[c], l = loopOf'[c],
         Push(l, Functor("destroy", c))
  PROVE  Provided(c)'
<1>1. Functor("destroy", c) \in Functors
      /\ Functor("destroy", c) # Functor("establish", c)
  BY FunctorTyped DEF StrongOps, Functor
<1>2. /\ Len(queue[l]) \in Nat
      /\ Len(queue'[l]) = Len(queue[l]) + 1
      /\ queue'[l][Len(queue[l]) + 1] = Functor("destroy", c)
  BY <1>1, PushAdds
<1>3. ASSUME NEW i \in 0 .. Len(queue[l]) PROVE DestroyQueued(c, i)'
  <2>1. Len(queue[l]) + 1 \in i + 1 .. Len(queue'[l])
    BY <1>2
  <2> QED BY <1>2, <2>1 DEF DestroyQueued
<1>4. DestroyQueued(c, 0)'
  BY <1>2, <1>3
<1>5. \A i \in 1 .. Len(queue'[l]) :
        queue'[l][i] = Functor("establish", c) => DestroyQueued(c, i)'
  BY <1>1, <1>2, <1>3
<1> QED BY <1>4, <1>5 DEF Provided, DestroyQueued

(* A connection the step is not about.                                     *)
LEMMA BystanderProvided ==
  ASSUME LiveInv, [Next]_vars, NEW c \in Known, Leaving(c),
         \/ queue' = queue
         \/ \E k \in Loops, f \in Functors :
              Push(k, f) /\ f # Functor("establish", c),
         batch' = batch, ran' = ran, c \in watched' => c \in watched,
         \A l \in Loops : place[l] = "stopped" =>
                            place'[l] = "stopped" \/ c \notin watched'
  PROVE  Provided(c)'
<1>0. Typed /\ TypeOK /\ c \in Conns
  BY DEF LiveInv, Typed, Known
<1>1. PICK l \in Loops : l = loopOf[c]
  BY <1>0 DEF TypeOK
<1>2. loopOf'[c] = l /\ QueueGrows(l, c)
  BY <1>0, <1>1, KnownStays, PushGrows
<1>3. Provided(c)
  BY <1>0 DEF LiveInv, Kept
<1>4. batch'[l] = batch[l] /\ ran'[l] = ran[l]
  OBVIOUS
<1> QED BY <1>0, <1>1, <1>2, <1>3, <1>4, StaysProvided

(* Kept is about the connections that were known before the step.          *)
LEMMA KeptOfKnown ==
  ASSUME (TypeOK /\ OnlyKnown)', nextConnId' = nextConnId,
         \A c \in Known : Leaving(c)' => Provided(c)'
  PROVE  Kept'
<1> SUFFICES ASSUME NEW c \in Conns, Leaving(c)' PROVE Provided(c)'
  BY DEF Kept
<1>1. CASE c \notin Known
  <2>1. c \notin Known'
    BY <1>1 DEF Known
  <2> QED BY <2>1, UnknownProvidedAfter
<1>2. CASE c \in Known
  BY <1>2
<1> QED BY <1>1, <1>2

(* A step that leaves the queues, the batches and the map alone.           *)
LEMMA KeptByCalm ==
  ASSUME LiveInv, [Next]_vars, (TypeOK /\ OnlyKnown)', nextConnId' = nextConnId,
         queue' = queue, batch' = batch, ran' = ran, watched' \subseteq watched,
         \A c \in Conns : Leaving(c)' => Leaving(c),
         \A l \in Loops : place[l] = "stopped" => place'[l] = "stopped"
  PROVE  Kept'
<1> SUFFICES ASSUME NEW c \in Known, Leaving(c)' PROVE Provided(c)'
  BY KeptOfKnown
<1>1. Leaving(c) /\ (c \in watched' => c \in watched)
  BY DEF Known
<1> QED BY <1>1, BystanderProvided

LEMMA KeptServerStep ==
  ASSUME LiveInv, Next, (TypeOK /\ OnlyKnown)',
         \/ \E n \in 0 .. MaxThreads : Start(n)
         \/ \E l \in Loops : EnterLoop(l)
         \/ QuitBase \/ Accepts \/ Destruction
         \/ \E c \in Conns : PeerCloses(c)
  PROVE  Kept'
<1>0. Typed /\ TypeOK /\ OnlyKnown /\ LoopsTidy /\ [Next]_vars
  BY DEF LiveInv, Typed
<1> USE DEF serverVars, connVars, loopVars, turnVars, Goes
<1>1. ASSUME NEW n \in 0 .. MaxThreads, Start(n) PROVE Kept'
  <2>1. /\ queue' = queue \/ Push(Base, Functor("listen", None))
        /\ stage = "built" /\ stage' = "started"
        /\ UNCHANGED <<batch, ran, watched, connections, nextConnId>>
    BY <1>1 DEF Start
  <2>2. watched' = {}
    BY <2>1 DEF LiveInv, Idle
  <2>3. /\ Functor("listen", None) \in Functors /\ Base \in Loops
        /\ \A c : Functor("listen", None) # Functor("establish", c)
    BY FunctorTyped DEF RawOps, Loops, Functor
  <2> SUFFICES ASSUME NEW c \in Known, Leaving(c)' PROVE Provided(c)'
    BY <2>1, KeptOfKnown
  <2>4. Leaving(c)
    BY <2>1 DEF Leaving
  <2> QED BY <1>0, <2>1, <2>2, <2>3, <2>4, BystanderProvided
<1>2. CASE \/ \E l \in Loops : EnterLoop(l)
           \/ QuitBase \/ \E c \in Conns : PeerCloses(c)
  <2>1. /\ UNCHANGED <<queue, batch, ran, watched, connections, nextConnId>>
        /\ UNCHANGED <<stage, sweep>>
    BY <1>2 DEF EnterLoop, QuitBase, PeerCloses
  <2>2. \A l \in Loops : place[l] = "stopped" => place'[l] = "stopped"
    BY <1>0, <1>2 DEF EnterLoop, QuitBase, PeerCloses, TypeOK
  <2>3. \A c \in Conns : Leaving(c)' => Leaving(c)
    BY <2>1 DEF Leaving
  <2> QED BY <1>0, <2>1, <2>2, <2>3, KeptByCalm
<1>3. CASE AcceptFails
  <2>1. /\ UNCHANGED <<queue, batch, ran, watched, connections, nextConnId, sweep>>
        /\ stage' = "exited" /\ \A l \in Loops : place'[l] = "stopped"
    BY <1>3 DEF AcceptFails, LogFatal
  <2>2. \A c \in Conns : Leaving(c)' => Leaving(c)
    BY <2>1 DEF Leaving
  <2> QED BY <1>0, <2>1, <2>2, KeptByCalm
<1>4. ASSUME NEW d \in Conns, NewConnection(d) PROVE Kept'
  <2>0. PICK k \in Loops : k = NextLoop
    BY <1>0, NextLoopTyped
  <2>1. /\ d = nextConnId /\ nextConnId' = nextConnId + 1
        /\ connections' = connections \union {d}
        /\ watched' = watched \/ watched' = watched \union {d}
        /\ UNCHANGED <<stage, sweep, place, batch, ran>>
        /\ queue' = queue \/ Push(k, Functor("establish", d))
        /\ place[Base] = "dispatch"
    BY <1>4, <2>0 DEF NewConnection, ConnectEstablished, AcceptorActive
  <2>2. stage' # "destroying"
    BY <2>1 DEF LiveInv, PlacesTell, Ending
  <2>3. \A c \in Conns : Leaving(c)' => Leaving(c) /\ c # d
    BY <2>1, <2>2 DEF Leaving
  <2>4. Functor("establish", d) \in Functors
    BY FunctorTyped DEF StrongOps
  <2> SUFFICES ASSUME NEW c \in Conns, Leaving(c)' PROVE Provided(c)'
    BY DEF Kept
  <2>5. CASE c \notin Known
    <3>1. c \notin Known'
      BY <2>1, <2>3, <2>5 DEF Known, Conns
    <3> QED BY <3>1, UnknownProvidedAfter
  <2>6. CASE c \in Known
    <3>1. Functor("establish", d) # Functor("establish", c)
      BY <2>3 DEF Functor
    <3>2. Leaving(c) /\ (c \in watched' => c \in watched)
      BY <2>1, <2>3
    <3> QED BY <1>0, <2>1, <2>4, <2>6, <3>1, <3>2, BystanderProvided
  <2> QED BY <2>5, <2>6
<1>5. CASE BeginDestroy \/ CloseAcceptor
  <2>1. /\ UNCHANGED <<queue, batch, ran, watched, connections, nextConnId, place>>
        /\ \/ stage' = "destroying" /\ sweep' = connections
           \/ stage' = "gone"
    BY <1>5 DEF BeginDestroy, CloseAcceptor
  <2>2. \A c \in Conns : Leaving(c)' => Leaving(c)
    BY <2>1 DEF Leaving
  <2> QED BY <1>0, <2>1, <2>2, KeptByCalm
<1>6. CASE DropMap
  <2>1. /\ UNCHANGED <<queue, batch, ran, watched, nextConnId, place>>
        /\ stage = "destroying" /\ sweep = {}
    BY <1>6 DEF DropMap, Swept
  <2>2. \A c \in Conns : Leaving(c)
    BY <2>1 DEF Leaving
  <2> QED BY <1>0, <2>1, <2>2, KeptByCalm
<1>7. CASE DestroyBaseLoop
  <2>1. /\ UNCHANGED <<batch, ran, place, connections, nextConnId>>
        /\ queue' = [queue EXCEPT ![Base] = << >>] /\ Base \in Loops
        /\ watched' = watched \ ConnsOf(Base)
        /\ stage = "gone" /\ stage' = "over"
    BY <1>7 DEF DestroyBaseLoop, Loops
  <2> SUFFICES ASSUME NEW c \in Known, Leaving(c)' PROVE Provided(c)'
    BY <2>1, KeptOfKnown
  <2>2. Leaving(c) /\ c \in Conns
    BY <2>1 DEF Leaving, Known
  <2>3. PICK l \in Loops : l = loopOf[c] /\ l = loopOf'[c]
    BY <1>0, <2>2, KnownStays DEF TypeOK
  <2>4. CASE l # Base
    <3>1. queue'[l] = queue[l] /\ Len(queue[l]) \in Nat
      BY <1>0, <2>1, <2>4 DEF TypeOK
    <3>2. QueueGrows(l, c) /\ Provided(c)
      BY <2>2, <3>1 DEF QueueGrows, LiveInv, Kept
    <3> QED BY <1>0, <2>1, <2>2, <2>3, <3>2, StaysProvided
  <2>5. CASE l = Base
    <3>1. place'[l] = "stopped" /\ Len(queue'[l]) = 0
      BY <1>0, <2>1, <2>5 DEF LiveInv, PlacesTell, Ending, TypeOK
    <3>2. batch'[l] = << >>
      BY <2>1, <2>5, <3>1 DEF LiveInv, PlacesTell
    <3>3. ran'[l] \in Nat /\ Len(batch'[l]) = 0
      BY <1>0, <2>1, <3>2 DEF TypeOK
    <3> QED BY <2>3, <3>1, <3>3 DEF Provided
  <2> QED BY <2>4, <2>5
<1>8. ASSUME NEW d \in Conns, DestroyConnection(d) PROVE Kept'
  <2>0. PICK k \in Loops : k = loopOf[d]
    BY <1>0 DEF TypeOK
  <2>1. /\ UNCHANGED <<stage, nextConnId, loopOf, connections, place, batch, ran>>
        /\ sweep' = sweep \ {d}
        /\ watched' = watched \/ watched' = watched \ {d}
        /\ queue' = queue \/ Push(k, Functor("destroy", d))
        /\ stage = "destroying"
    BY <1>8, <2>0 DEF DestroyConnection, ConnectDestoryed, WithoutChannel
  <2>2. /\ Functor("destroy", d) \in Functors
        /\ \A c : Functor("destroy", d) # Functor("establish", c)
    BY FunctorTyped DEF StrongOps, Functor
  <2> SUFFICES ASSUME NEW c \in Known, Leaving(c)' PROVE Provided(c)'
    BY <2>1, KeptOfKnown
  <2>3. CASE c # d
    <3>1. Leaving(c) /\ (c \in watched' => c \in watched)
      BY <2>1, <2>3 DEF Leaving
    <3> QED BY <1>0, <2>1, <2>2, <3>1, BystanderProvided
  <2>4. CASE c = d /\ k = Base
    <3>1. queue' = queue /\ place'[k] = "stopped" /\ loopOf'[d] = k
      BY <1>8, <2>0, <2>1, <2>4 DEF DestroyConnection, LiveInv, PlacesTell, Ending
    <3>2. ~FunctorKnown(k, Functor("establish", c))
      BY <2>4 DEF FunctorKnown, Functor
    <3>3. /\ ran[k] \in Nat /\ Len(batch[k]) \in Nat
          /\ \A i \in 1 .. Len(queue[k]) : queue[k][i] # Functor("establish", c)
          /\ \A i \in 1 .. Len(batch[k]) : batch[k][i] # Functor("establish", c)
      BY <1>0, <3>2, UnknownAbsent
    <3> QED BY <2>1, <2>4, <3>1, <3>3 DEF Provided
  <2>5. CASE c = d /\ k # Base
    <3>1. Push(k, Functor("destroy", d)) /\ loopOf'[d] = k
      BY <1>8, <2>0, <2>1, <2>5 DEF DestroyConnection
    <3> QED BY <1>0, <2>0, <2>5, <3>1, PushProvides
  <2> QED BY <2>3, <2>4, <2>5
<1>9. ASSUME NEW l \in Workers, QuitWorker(l) PROVE Kept'
  <2>1. UNCHANGED <<queue, batch, ran, watched, connections, nextConnId, place,
                    stage, sweep>>
    BY <1>9 DEF QuitWorker
  <2>2. \A c \in Conns : Leaving(c)' => Leaving(c)
    BY <2>1 DEF Leaving
  <2> QED BY <1>0, <2>1, <2>2, KeptByCalm
<1> QED
  BY <1>1, <1>2, <1>3, <1>4, <1>5, <1>6, <1>7, <1>8, <1>9 DEF Accepts, Destruction

(* A functor of a loop's batch is called.                                  *)
LEMMA KeptByCall ==
  ASSUME LiveInv, [Next]_vars, (TypeOK /\ OnlyKnown)', NEW l \in Loops,
         NEW op, NEW d, Calls(l, op, d), nextConnId' = nextConnId,
         ran[l] + 1 \in 1 .. Len(batch[l]),
         \/ queue' = queue /\ connections' = connections
         \/ op = "remove" /\ d \in Known /\ RemoveConnectionInLoop(d),
         \A c \in Known : c \in watched' =>
           \/ op = "establish" /\ c = d /\ l = loopOf[c]
           \/ Functor(op, d) # Functor("destroy", c) /\ c \in watched
  PROVE  Kept'
<1>0. Typed /\ TypeOK
  BY DEF LiveInv, Typed
<1> SUFFICES ASSUME NEW c \in Known, Leaving(c)' PROVE Provided(c)'
  BY KeptOfKnown
<1>1. PICK k \in Loops : k = loopOf[c] /\ k = loopOf'[c]
  BY <1>0, KnownStays DEF TypeOK, Known
<1>2. /\ place[l] = "batch" /\ UNCHANGED <<place, batch, stage, sweep>>
      /\ batch[l][ran[l] + 1] = Functor(op, d)
      /\ ran' = [ran EXCEPT ![l] = @ + 1]
  BY DEF Calls, turnVars
<1>3. c \in Conns /\ ran'[l] = ran[l] + 1 /\ (k # l => ran'[k] = ran[k])
  BY <1>0, <1>2 DEF TypeOK, Known
<1>4. CASE op = "remove" /\ c = d /\ RemoveConnectionInLoop(d)
  <2>1. Push(k, Functor("destroy", c))
    BY <1>1, <1>4 DEF RemoveConnectionInLoop
  <2> QED BY <1>0, <1>1, <1>3, <2>1, PushProvides
<1>5. CASE \/ queue' = queue /\ connections' = connections
           \/ c # d /\ d \in Known /\ RemoveConnectionInLoop(d)
  <2>1. Leaving(c)
    BY <1>2, <1>5 DEF Leaving, RemoveConnectionInLoop, Erased
  <2>2. Provided(c)
    BY <1>3, <2>1 DEF LiveInv, Kept
  <2>3. QueueGrows(k, c)
    <3>1. CASE queue' = queue
      BY <1>0, <1>3, <3>1, PushGrows
    <3>2. CASE d \in Known /\ RemoveConnectionInLoop(d)
      <4>1. PICK h \in Loops : h = loopOf[d]
        BY <1>0, <3>2 DEF TypeOK, Known
      <4>2. /\ Push(h, Functor("destroy", d))
            /\ Functor("destroy", d) \in Functors
            /\ Functor("destroy", d) # Functor("establish", c)
        BY <3>2, <4>1, FunctorTyped DEF RemoveConnectionInLoop, StrongOps,
           Functor, Known
      <4> QED BY <1>0, <1>3, <4>2, PushGrows
    <3> QED BY <1>5, <3>1, <3>2
  <2>4. CASE k # l
    BY <1>0, <1>1, <1>2, <1>3, <2>2, <2>3, <2>4, StaysProvided
  <2>5. CASE k = l
    <3>1. c \in watched' => \/ batch[l][ran[l] + 1] = Functor("establish", c)
                            \/ /\ batch[l][ran[l] + 1] # Functor("destroy", c)
                               /\ c \in watched
      BY <1>2
    <3> QED BY <1>0, <1>1, <1>2, <1>3, <2>2, <2>3, <2>5, <3>1, StaysProvided
  <2> QED BY <2>4, <2>5
<1> QED BY <1>4, <1>5

(* doPendingFunctors takes the queue, or is done with its batch.           *)
LEMMA KeptBySwap ==
  ASSUME LiveInv, [Next]_vars, (TypeOK /\ OnlyKnown)', NEW l \in Loops, SwapPending(l)
  PROVE  Kept'
<1>0. Typed /\ TypeOK
  BY DEF LiveInv, Typed
<1>1. /\ place[l] = "dispatch" /\ place' = [place EXCEPT ![l] = "batch"]
      /\ batch' = [batch EXCEPT ![l] = queue[l]]
      /\ queue' = [queue EXCEPT ![l] = << >>]
      /\ UNCHANGED <<ran, watched, connections, stage, sweep, nextConnId>>
  BY DEF SwapPending, serverVars, connVars, Goes
<1> SUFFICES ASSUME NEW c \in Known, Leaving(c)' PROVE Provided(c)'
  BY <1>1, KeptOfKnown
<1>2. PICK k \in Loops : k = loopOf[c] /\ k = loopOf'[c]
  BY <1>0, KnownStays DEF TypeOK, Known
<1>3. c \in Conns /\ Provided(c)
  BY <1>1 DEF Known, LiveInv, Kept, Leaving
<1>4. CASE k # l
  <2>1. /\ queue'[k] = queue[k] /\ batch'[k] = batch[k] /\ place'[k] = place[k]
        /\ ran'[k] = ran[k] /\ Len(queue[k]) \in Nat
    BY <1>0, <1>1, <1>4 DEF TypeOK
  <2>2. QueueGrows(k, c)
    BY <2>1 DEF QueueGrows
  <2> QED BY <1>0, <1>1, <1>2, <1>3, <2>1, <2>2, StaysProvided
<1>5. CASE k = l
  <2>1. /\ batch[l] = << >> /\ ran[l] = 0
    BY <1>1 DEF LiveInv, LoopsTidy
  <2>2. /\ batch'[l] = queue[l] /\ queue'[l] = << >> /\ ran'[l] = 0
        /\ Len(queue'[l]) = 0 /\ Len(batch[l]) = 0 /\ place[l] # "stopped"
    BY <1>0, <1>1, <2>1 DEF TypeOK
  <2>3. \A i \in Nat : DestroyQueued(c, i) => DestroyInBatch(c, i)'
    BY <1>2, <1>5, <2>2 DEF DestroyQueued, DestroyInBatch
  <2>4. c \in watched => DestroyInBatch(c, 0)'
    BY <1>2, <1>3, <1>5, <2>1, <2>2, <2>3 DEF Provided, DestroyInBatch
  <2>5. ASSUME NEW i \in 1 .. Len(queue[l]), queue[l][i] = Functor("establish", c)
        PROVE  DestroyInBatch(c, i)'
    BY <1>2, <1>3, <1>5, <2>3, <2>5 DEF Provided
  <2> QED BY <1>1, <1>2, <1>5, <2>2, <2>4, <2>5 DEF Provided, DestroyInBatch
<1> QED BY <1>4, <1>5

LEMMA KeptByFinish ==
  ASSUME LiveInv, [Next]_vars, (TypeOK /\ OnlyKnown)', NEW l \in Loops,
         FinishBatch(l) \/ FirstTest(l)
  PROVE  Kept'
<1>0. Typed /\ TypeOK
  BY DEF LiveInv, Typed
<1>1. /\ place[l] \in {"batch", "entered"} /\ ran[l] = Len(batch[l])
      /\ place' = [place EXCEPT ![l] = IF quit[l] THEN "stopped" ELSE "poll"]
      /\ batch' = [batch EXCEPT ![l] = << >>] /\ ran' = [ran EXCEPT ![l] = 0]
      /\ \/ quit[l] /\ queue' = [queue EXCEPT ![l] = << >>]
         \/ queue' = queue
      /\ watched' \subseteq watched
      /\ UNCHANGED <<connections, stage, sweep, nextConnId>>
  BY TestsTidy DEF LiveInv, serverVars
<1> SUFFICES ASSUME NEW c \in Known, Leaving(c)' PROVE Provided(c)'
  BY <1>1, KeptOfKnown
<1>2. PICK k \in Loops : k = loopOf[c] /\ k = loopOf'[c]
  BY <1>0, KnownStays DEF TypeOK, Known
<1>3. c \in Conns /\ Provided(c)
  BY <1>1 DEF Known, LiveInv, Kept, Leaving
<1>4. CASE k # l
  <2>1. /\ queue'[k] = queue[k] /\ batch'[k] = batch[k] /\ place'[k] = place[k]
        /\ ran'[k] = ran[k] /\ Len(queue[k]) \in Nat
    BY <1>0, <1>1, <1>4 DEF TypeOK
  <2>2. QueueGrows(k, c)
    BY <2>1 DEF QueueGrows
  <2> QED BY <1>0, <1>1, <1>2, <1>3, <2>1, <2>2, StaysProvided
<1>5. CASE k = l
  <2>1. /\ batch'[l] = << >> /\ ran'[l] = 0 /\ Len(batch'[l]) = 0
        /\ Len(batch[l]) \in Nat
        /\ place'[l] = IF quit[l] THEN "stopped" ELSE "poll"
    BY <1>0, <1>1 DEF TypeOK
  <2>2. CASE quit[l] /\ queue' = [queue EXCEPT ![l] = << >>]
    <3>1. Len(queue'[l]) = 0 /\ place'[l] = "stopped"
      BY <1>0, <2>1, <2>2 DEF TypeOK
    <3> QED BY <1>2, <1>5, <2>1, <3>1 DEF Provided
  <2>3. CASE queue' = queue
    <3>1. \A i \in Nat : DestroyQueued(c, i) => DestroyQueued(c, i)'
      BY <1>2, <2>3 DEF DestroyQueued
    <3>2. ~DestroyInBatch(c, ran[l])
      BY <1>1, <1>2, <1>5, <2>1 DEF DestroyInBatch
    <3>3. c \in watched => DestroyQueued(c, 0)
      BY <1>1, <1>2, <1>3, <1>5, <3>2 DEF Provided
    <3>4. ASSUME NEW i \in 1 .. Len(queue[l]), queue[l][i] = Functor("establish", c)
          PROVE  DestroyQueued(c, i)'
      BY <1>2, <1>3, <1>5, <3>1, <3>4 DEF Provided
    <3> QED BY <1>1, <1>2, <1>5, <2>1, <2>3, <3>1, <3>3, <3>4
            DEF Provided, DestroyQueued
  <2> QED BY <1>1, <2>2, <2>3
<1> QED BY <1>4, <1>5

LEMMA KeptLoopStep ==
  ASSUME LiveInv, Next, (TypeOK /\ OnlyKnown)', NEW l \in Loops, LoopStep(l)
  PROVE  Kept'
<1>0. Typed /\ TypeOK /\ OnlyKnown /\ LoopsTidy /\ [Next]_vars
  BY DEF LiveInv, Typed
<1> USE DEF serverVars, connVars, loopVars, turnVars, Goes
<1>1. CASE Poll(l) \/ \E c \in Conns : HandleMessage(l, c) \/ HandleClose(l, c)
  <2>1. /\ UNCHANGED <<queue, batch, ran, connections, nextConnId, stage, sweep>>
        /\ watched' \subseteq watched
    BY <1>1 DEF Poll, HandleMessage, HandleClose, Dispatches
  <2>2. \A k \in Loops : place[k] = "stopped" => place'[k] = "stopped"
    <3>1. /\ place[l] # "stopped" /\ place \in [Loops -> Places]
          /\ place' = place \/ \E to : place' = [place EXCEPT ![l] = to]
      BY <1>0, <1>1 DEF Poll, HandleMessage, HandleClose, Dispatches, TypeOK
    <3> QED BY <3>1
  <2>3. \A c \in Conns : Leaving(c)' => Leaving(c)
    BY <2>1 DEF Leaving
  <2> QED BY <1>0, <2>1, <2>2, <2>3, KeptByCalm
<1>2. CASE CloseCallback(l)
  <2>1. /\ closing[l] \in Known
        /\ UNCHANGED <<stage, sweep, watched, batch, ran, nextConnId, loopOf>>
        /\ \A k \in Loops : place[k] = "stopped" => place'[k] = "stopped"
    BY <1>0, <1>2 DEF CloseCallback, OnlyKnown, TypeOK
  <2>2. PICK d \in Known : d = closing[l]
    BY <2>1
  <2>3. PICK h \in Loops : h = loopOf[d]
    BY <1>0 DEF TypeOK, Known
  <2>4. \/ /\ l = Base /\ Push(h, Functor("destroy", d))
           /\ connections' = connections \ {d}
        \/ Push(Base, Functor("remove", d)) /\ connections' = connections
    BY <1>2, <2>2, <2>3 DEF CloseCallback, RemoveConnectionInLoop, Erased
  <2>5. /\ Functor("destroy", d) \in Functors /\ Functor("remove", d) \in Functors
        /\ \A c : /\ Functor("destroy", d) # Functor("establish", c)
                  /\ Functor("remove", d) # Functor("establish", c)
        /\ Base \in Loops
    BY FunctorTyped DEF StrongOps, Functor, Known, Loops
  <2> SUFFICES ASSUME NEW c \in Known, Leaving(c)' PROVE Provided(c)'
    BY <2>1, KeptOfKnown
  <2>6. CASE c = d /\ Push(h, Functor("destroy", d))
    BY <1>0, <2>1, <2>3, <2>6, PushProvides DEF Known
  <2>7. CASE \/ c # d /\ connections' = connections \ {d}
                     /\ Push(h, Functor("destroy", d))
             \/ Push(Base, Functor("remove", d)) /\ connections' = connections
    <3>1. Leaving(c)
      BY <2>1, <2>7 DEF Leaving
    <3> QED BY <1>0, <2>1, <2>5, <2>7, <3>1, BystanderProvided
  <2> QED BY <2>4, <2>6, <2>7
<1>3. CASE RunListen(l)
  <2>1. /\ Calls(l, "listen", None) /\ ran[l] + 1 \in 1 .. Len(batch[l])
        /\ UNCHANGED <<queue, connections, watched, nextConnId>>
    BY <1>0, <1>3 DEF RunListen, Calls, TypeOK
  <2>2. \A c : Functor("listen", None) # Functor("destroy", c)
    BY DEF Functor
  <2> QED BY <1>0, <2>1, <2>2, KeptByCall
<1>4. ASSUME NEW d \in Conns, RunEstablish(l, d) PROVE Kept'
  <2>1. /\ Calls(l, "establish", d) /\ ran[l] + 1 \in 1 .. Len(batch[l])
        /\ l = loopOf[d]
    BY <1>0, <1>4, CallKnown DEF RunEstablish, StrongOps
  <2>2. /\ UNCHANGED <<queue, connections, nextConnId>>
        /\ watched' = watched \union {d}
    BY <1>4 DEF RunEstablish, Calls, ConnectEstablished
  <2>3. \A c : Functor("establish", d) # Functor("destroy", c)
    BY DEF Functor
  <2> QED BY <1>0, <2>1, <2>2, <2>3, KeptByCall
<1>5. ASSUME NEW d \in Conns, RunDestroy(l, d) PROVE Kept'
  <2>1. Calls(l, "destroy", d) /\ ran[l] + 1 \in 1 .. Len(batch[l])
    BY <1>0, <1>5, CallKnown DEF RunDestroy, StrongOps
  <2>2. /\ UNCHANGED <<queue, connections, nextConnId>>
        /\ watched' = watched \ {d}
    BY <1>5 DEF RunDestroy, Calls, ConnectDestoryed, WithoutChannel
  <2>3. \A c : Functor("destroy", d) = Functor("destroy", c) => c = d
    BY DEF Functor
  <2> QED BY <1>0, <2>1, <2>2, <2>3, KeptByCall
<1>6. ASSUME NEW d \in Conns, RunRemove(l, d) PROVE Kept'
  <2>1. /\ Calls(l, "remove", d) /\ ran[l] + 1 \in 1 .. Len(batch[l])
        /\ d \in Known
    BY <1>0, <1>6, CallKnown DEF RunRemove, StrongOps
  <2>2. /\ UNCHANGED <<watched, nextConnId>>
        /\ RemoveConnectionInLoop(d)
    BY <1>6 DEF RunRemove, Calls
  <2>3. \A c : Functor("remove", d) # Functor("destroy", c)
    BY DEF Functor
  <2> QED BY <1>0, <2>1, <2>2, <2>3, KeptByCall
<1> QED
  BY <1>0, <1>1, <1>2, <1>3, <1>4, <1>5, <1>6, KeptBySwap, KeptByFinish
     DEF LoopStep

LEMMA KeptStep == LiveInv /\ [Next]_vars => Kept'
<1> SUFFICES ASSUME LiveInv, [Next]_vars PROVE Kept'
  OBVIOUS
<1>1. CASE UNCHANGED vars
  BY <1>1 DEF LiveInv, Kept, Leaving, Provided, DestroyQueued, DestroyInBatch,
     vars, serverVars, connVars, loopVars
<1>2. CASE Next
  <2>1. (TypeOK /\ OnlyKnown)'
    BY StepTyped, KnownStep DEF LiveInv, Typed
  <2> QED BY <1>2, <2>1, KeptServerStep, KeptLoopStep DEF Next
<1> QED BY <1>1, <1>2

(* A connection whose channel is watched is in the map or in a functor.    *)
LEMMA WatchedLives ==
  ASSUME LiveInv, NEW c \in watched, place[loopOf[c]] # "stopped"
  PROVE  Alive(c)
<1>0. TypeOK /\ c \in Conns
  BY DEF LiveInv, Typed, TypeOK
<1>1. CASE c \in connections
  BY <1>1 DEF Alive
<1>2. CASE c \notin connections
  <2>1. PICK l \in Loops : l = loopOf[c]
    BY <1>0 DEF TypeOK
  <2>2. DestroyQueued(c, 0) \/ DestroyInBatch(c, ran[l])
    BY <1>0, <1>2, <2>1 DEF LiveInv, Kept, Leaving, Provided
  <2>3. Holds(Functor("destroy", c), c)
    BY DEF Holds, Functor, StrongOps
  <2>4. CASE DestroyQueued(c, 0)
    <3>1. \E i \in 1 .. Len(queue[l]) : queue[l][i] = Functor("destroy", c)
      BY <2>1, <2>4 DEF DestroyQueued
    <3> QED BY <2>3, <3>1 DEF Alive, InFunctor
  <2>5. CASE DestroyInBatch(c, ran[l])
    <3>1. \E i \in 1 .. Len(batch[l]) : batch[l][i] = Functor("destroy", c)
      BY <1>0, <2>1, <2>5 DEF DestroyInBatch, TypeOK
    <3> QED BY <2>3, <3>1 DEF Alive, InFunctor
  <2> QED BY <2>2, <2>4, <2>5
<1> QED BY <1>1, <1>2

LEMMA LiveAlways == SafeSpec => []LiveInv
<1>1. Init => LiveInv
  BY InitTyped, InitTurn, InitPlaces, InitLive DEF LiveInv
<1>2. LiveInv /\ [Next]_vars => LiveInv'
  BY StepTyped, IdleStep, PlacesStep, KnownStep, TidyStep, KeptStep DEF LiveInv
<1> QED BY <1>1, <1>2, PTL DEF SafeSpec

(* LeavesPollerFirst: no connection is let go of while its channel is in   *)
(* the poller of a loop that runs; of the server used from its own loops'  *)
(* threads (Next).                                                         *)
THEOREM ChannelsLeaveFirst == SafeSpec => []LeavesPollerFirst
<1>1. LiveInv => LeavesPollerFirst
  BY WatchedLives DEF LeavesPollerFirst, ConnsOf
<1> QED BY <1>1, LiveAlways, PTL

(* HandlesLiveOnly: no loop that runs has the channel of a connection that *)
(* is gone among those it will call handleEvent on; of the server used     *)
(* from its own loops' threads (Next).                                     *)
THEOREM NoDeadConnectionIsHandled == SafeSpec => []HandlesLiveOnly
<1>1. LiveInv => HandlesLiveOnly
  <2> SUFFICES ASSUME LiveInv, NEW l \in Loops, place[l] # "stopped",
                      NEW c \in active[l] \ {Acceptor}
               PROVE  Alive(c)
    BY DEF HandlesLiveOnly
  <2>1. c \in ConnsOf(l)
    BY DEF LiveInv, LoopsTidy
  <2> QED BY <2>1, WatchedLives DEF ConnsOf
<1> QED BY <1>1, LiveAlways, PTL
=============================================================================
