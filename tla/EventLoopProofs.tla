-------------------------- MODULE EventLoopProofs --------------------------
(***************************************************************************)
(* Theorems about EventLoop, for any functors, threads and channels.       *)
(***************************************************************************)
EXTENDS EventLoop, SequenceTheorems, TLAPS

-----------------------------------------------------------------------------
(* Type correctness *)

LEMMA InitTyped == Init => TypeOK
<1>1. << >> \in Seq(Tasks)
  BY EmptySeq
<1> QED
  BY <1>1 DEF Init, TypeOK, Phases, UserPhases, Calls

LEMMA StepTyped == TypeOK /\ [Next]_vars => TypeOK'
<1> SUFFICES ASSUME TypeOK, [Next]_vars
             PROVE  TypeOK'
  OBVIOUS
<1> USE DEF TypeOK, Phases, UserPhases, Calls
<1>1. ASSUME NEW t \in Threads, NEW cb \in Tasks, QueueInLoop(t, cb)
      PROVE  TypeOK'
  BY <1>1 DEF QueueInLoop, Owe
<1>2. ASSUME NEW t \in Threads, NEW cb \in Tasks, RunInLoop(t, cb)
      PROVE  TypeOK'
  BY <1>1, <1>2 DEF RunInLoop
<1>3. ASSUME NEW t \in Threads, QueueWakeup(t)
      PROVE  TypeOK'
  BY <1>3 DEF QueueWakeup, NeedsWakeup, InLoopThread, Owe
<1>4. ASSUME NEW t \in Threads, Quit(t)
      PROVE  TypeOK'
  BY <1>4 DEF Quit, Owe
<1>5. ASSUME NEW t \in Threads, QuitWakeup(t)
      PROVE  TypeOK'
  BY <1>5 DEF QuitWakeup, InLoopThread, Owe
<1>6. CASE LoopBody
  <2>1. CASE TestQuit
    BY <2>1 DEF TestQuit
  <2>2. CASE Poll
    BY <2>2 DEF Poll, Ready
  <2>3. CASE HandleWakeup
    BY <2>3 DEF HandleWakeup
  <2>4. ASSUME NEW ch \in Channels, HandleEvent(ch)
        PROVE  TypeOK'
    BY <2>4 DEF HandleEvent
  <2>5. CASE SwapPending
    BY <2>5 DEF SwapPending
  <2>6. CASE StartFunctor
    <3>1. Head(functors) \in Tasks /\ Tail(functors) \in Seq(Tasks)
      BY <2>6, HeadTailProperties DEF StartFunctor
    <3> QED
      BY <2>6, <3>1 DEF StartFunctor
  <2>7. CASE FinishFunctors
    BY <2>7 DEF FinishFunctors
  <2> QED
    BY <1>6, <2>1, <2>2, <2>3, <2>4, <2>5, <2>6, <2>7 DEF LoopBody
<1>7. CASE UserCodeEnds
  BY <1>7 DEF UserCodeEnds, EnterLoop, CallbackReturns, FunctorReturns,
              UserCodeReturns
<1>8. CASE UNCHANGED vars
  BY <1>8 DEF vars
<1> QED
  BY <1>1, <1>2, <1>3, <1>4, <1>5, <1>6, <1>7, <1>8 DEF Next

(* Every variable keeps its type in every behaviour of the loop.           *)
THEOREM TypeCorrect == SafeSpec => []TypeOK
<1> QED
  BY InitTyped, StepTyped, PTL DEF SafeSpec

-----------------------------------------------------------------------------
(* The wakeup protocol *)

LEMMA InitCovered == Init => PhaseDiscipline /\ Covered
  BY DEF Init, PhaseDiscipline, Covered, LateWork, UserPhases, Threads

LEMMA StepDiscipline ==
  TypeOK /\ PhaseDiscipline /\ [Next]_vars => PhaseDiscipline'
<1> SUFFICES ASSUME TypeOK, PhaseDiscipline, [Next]_vars
             PROVE  PhaseDiscipline'
  OBVIOUS
<1> USE DEF TypeOK, PhaseDiscipline, UserPhases, Threads
<1>1. ASSUME NEW t \in Threads, NEW cb \in Tasks, QueueInLoop(t, cb)
      PROVE  PhaseDiscipline'
  BY <1>1 DEF QueueInLoop, MayCall, InLoopThread, Owe
<1>2. ASSUME NEW t \in Threads, NEW cb \in Tasks, RunInLoop(t, cb)
      PROVE  PhaseDiscipline'
  BY <1>1, <1>2 DEF RunInLoop
<1>3. ASSUME NEW t \in Threads, QueueWakeup(t) \/ QuitWakeup(t)
      PROVE  PhaseDiscipline'
  BY <1>3 DEF QueueWakeup, QuitWakeup, Owe
<1>4. ASSUME NEW t \in Threads, Quit(t)
      PROVE  PhaseDiscipline'
  BY <1>4 DEF Quit, MayCall, InLoopThread, Owe
<1>5. CASE LoopBody
  BY <1>5 DEF LoopBody, TestQuit, Poll, HandleWakeup, HandleEvent,
              SwapPending, StartFunctor, FinishFunctors
<1>6. CASE UserCodeEnds
  BY <1>6 DEF UserCodeEnds, EnterLoop, CallbackReturns, FunctorReturns,
              UserCodeReturns
<1>7. CASE UNCHANGED vars
  BY <1>7 DEF vars
<1> QED
  BY <1>1, <1>2, <1>3, <1>4, <1>5, <1>6, <1>7 DEF Next

(* The push: the new functor is early, or its pusher now owes a wakeup.    *)
LEMMA PushCovered ==
  ASSUME TypeOK, PhaseDiscipline, Covered,
         NEW t \in Threads, NEW cb \in Tasks, QueueInLoop(t, cb)
  PROVE  Covered'
<1> USE DEF TypeOK, Threads, MayCall, InLoopThread, Owe
<1>1. CASE t \in Callers
  BY <1>1 DEF QueueInLoop, Covered, WakeupOwed
<1>2. CASE t = Owner /\ phase # "unstarted"
  BY <1>2 DEF QueueInLoop, Covered, WakeupOwed, PhaseDiscipline, UserPhases
<1>3. CASE t = Owner /\ phase = "unstarted"
  <2>1. LateWork' => LateWork
    <3> SUFFICES ASSUME NEW i \in 1 .. Len(pending'), pending'[i] \notin early'
                 PROVE  LateWork
      BY DEF LateWork
    <3>1. i # Len(pending) + 1
      BY <1>3, AppendProperties DEF QueueInLoop
    <3>2. i \in 1 .. Len(pending) /\ pending'[i] = pending[i]
      BY <3>1, AppendProperties, LenProperties DEF QueueInLoop
    <3> QED
      BY <1>3, <3>2 DEF QueueInLoop, LateWork
  <2>2. WakeupOwed => WakeupOwed'
    <3>1. ~calling
      BY <1>3 DEF PhaseDiscipline
    <3> QED
      BY <1>3, <3>1, ThreadAssumption DEF QueueInLoop, WakeupOwed
  <2> QED
    BY <1>3, <2>1, <2>2 DEF Covered, QueueInLoop
<1> QED
  BY <1>1, <1>2, <1>3 DEF Threads

LEMMA StepCovered == IndInv /\ [Next]_vars => Covered'
<1> SUFFICES ASSUME IndInv, [Next]_vars
             PROVE  Covered'
  OBVIOUS
<1> USE DEF IndInv, Covered, LateWork
<1>1. ASSUME NEW t \in Threads, NEW cb \in Tasks, QueueInLoop(t, cb)
      PROVE  Covered'
  BY <1>1, PushCovered
<1>2. ASSUME NEW t \in Threads, NEW cb \in Tasks, RunInLoop(t, cb)
      PROVE  Covered'
  BY <1>1, <1>2 DEF RunInLoop, WakeupOwed
<1>3. ASSUME NEW t \in Threads, QueueWakeup(t)
      PROVE  Covered'
  <2>1. CASE t \in Callers
    BY <1>3, <2>1, ThreadAssumption
       DEF QueueWakeup, NeedsWakeup, InLoopThread, WakeupOwed
  <2>2. CASE t = Owner
    BY <1>3, <2>2, ThreadAssumption
       DEF QueueWakeup, NeedsWakeup, InLoopThread, WakeupOwed, Owe, TypeOK,
           Threads
  <2> QED
    BY <2>1, <2>2 DEF Threads
<1>4. ASSUME NEW t \in Threads, Quit(t)
      PROVE  Covered'
  BY <1>4 DEF Quit, MayCall, Owe, WakeupOwed, TypeOK, Threads
<1>5. ASSUME NEW t \in Threads, QuitWakeup(t)
      PROVE  Covered'
  BY <1>5 DEF QuitWakeup, Owe, WakeupOwed, TypeOK, Threads
<1>6. CASE LoopBody
  <2>1. CASE TestQuit \/ Poll \/ HandleWakeup
    BY <2>1 DEF TestQuit, Poll, HandleWakeup, WakeupOwed
  <2>2. ASSUME NEW ch \in Channels, HandleEvent(ch)
        PROVE  Covered'
    BY <2>2 DEF HandleEvent
  <2>3. CASE SwapPending
    BY <2>3 DEF SwapPending
  <2>4. CASE StartFunctor
    BY <2>4 DEF StartFunctor, WakeupOwed
  <2>5. CASE FinishFunctors
    BY <2>5 DEF FinishFunctors, WakeupOwed, PhaseDiscipline, UserPhases
  <2> QED
    BY <1>6, <2>1, <2>2, <2>3, <2>4, <2>5 DEF LoopBody
<1>7. CASE UserCodeEnds
  BY <1>7 DEF UserCodeEnds, EnterLoop, CallbackReturns, FunctorReturns,
              UserCodeReturns, WakeupOwed
<1>8. CASE UNCHANGED vars
  BY <1>8 DEF vars, WakeupOwed
<1> QED
  BY <1>1, <1>2, <1>3, <1>4, <1>5, <1>6, <1>7, <1>8 DEF Next

(* In every behaviour of the loop a wakeup is owed for all late work, in   *)
(* every phase but the dispatch of a poll's channels (EventLoop.cc:122-151,*)
(* 181-199): what the next theorem rests on.                               *)
THEOREM InductiveInvariant == SafeSpec => []IndInv
<1>1. Init => IndInv
  BY InitTyped, InitCovered DEF IndInv
<1>2. IndInv /\ [Next]_vars => IndInv'
  BY StepTyped, StepDiscipline, StepCovered DEF IndInv
<1> QED
  BY <1>1, <1>2, PTL DEF SafeSpec

(* No functor queued by another thread, or by the loop's own thread in a   *)
(* callback or a functor, is slept on in epoll_wait (EventLoop.cc:136).    *)
THEOREM WakeupNeverLost == SafeSpec => []NoLostWakeup
<1>1. IndInv => NoLostWakeup
  BY DEF IndInv, PhaseDiscipline, Covered, WakeupOwed, NoLostWakeup
<1> QED
  BY <1>1, InductiveInvariant, PTL

(* No loop sleeps in epoll_wait through a quit() (EventLoop.cc:97-106).    *)
THEOREM QuitNeverSleptThrough == SafeSpec => []QuitWakes
<1>1. Init => QuitWakes
  BY DEF Init, QuitWakes
<1>2. IndInv /\ QuitWakes /\ [Next]_vars => QuitWakes'
  <2> SUFFICES ASSUME IndInv, QuitWakes, [Next]_vars
               PROVE  QuitWakes'
    OBVIOUS
  <2> USE DEF IndInv, QuitWakes
  <2>1. ASSUME NEW t \in Threads, NEW cb \in Tasks, QueueInLoop(t, cb)
        PROVE  QuitWakes'
    BY <2>1 DEF QueueInLoop, MayCall, Owe, TypeOK, Threads
  <2>2. ASSUME NEW t \in Threads, NEW cb \in Tasks, RunInLoop(t, cb)
        PROVE  QuitWakes'
    BY <2>1, <2>2 DEF RunInLoop
  <2>3. ASSUME NEW t \in Threads, QueueWakeup(t)
        PROVE  QuitWakes'
    BY <2>3 DEF QueueWakeup, Owe, TypeOK, Threads
  <2>4. ASSUME NEW t \in Threads, Quit(t)
        PROVE  QuitWakes'
    BY <2>4 DEF Quit, MayCall, InLoopThread, Owe, TypeOK, Threads, UserPhases
  <2>5. ASSUME NEW t \in Threads, QuitWakeup(t)
        PROVE  QuitWakes'
    BY <2>5 DEF QuitWakeup, InLoopThread, Owe, TypeOK, Threads,
                PhaseDiscipline, UserPhases
  <2>6. CASE LoopBody
    BY <2>6 DEF LoopBody, TestQuit, Poll, HandleWakeup, HandleEvent,
                SwapPending, StartFunctor, FinishFunctors
  <2>7. CASE UserCodeEnds
    BY <2>7 DEF UserCodeEnds, EnterLoop, CallbackReturns, FunctorReturns,
                UserCodeReturns
  <2>8. CASE UNCHANGED vars
    BY <2>8 DEF vars
  <2> QED
    BY <2>1, <2>2, <2>3, <2>4, <2>5, <2>6, <2>7, <2>8 DEF Next
<1> QED
  BY <1>1, <1>2, InductiveInvariant, PTL DEF SafeSpec

-----------------------------------------------------------------------------
(* The batch and the promise of TaskQueue *)

(* While a batch of functors runs nothing is added to it: what they queue  *)
(* waits in pendingFunctors_ (EventLoop.cc:189-199).                       *)
THEOREM BatchOnlyShrinks == SafeSpec => BatchClosed
<1>1. IndInv /\ [Next]_vars =>
        [(phase = "running" \/ phase = "functor") =>
           \/ functors' = functors
           \/ functors # << >> /\ functors' = Tail(functors)]_vars
  BY DEF Next, QueueInLoop, RunInLoop, QueueWakeup, Quit, QuitWakeup,
         LoopBody, TestQuit, Poll, HandleWakeup, HandleEvent, SwapPending,
         StartFunctor, FinishFunctors, UserCodeEnds, EnterLoop,
         CallbackReturns, FunctorReturns, UserCodeReturns, vars
<1> QED
  BY <1>1, InductiveInvariant, PTL DEF SafeSpec, BatchClosed

(* Pushing on pendingFunctors_ is pushing on the whole queue.              *)
LEMMA AppendToPending ==
  ASSUME NEW S, NEW f \in Seq(S), NEW p \in Seq(S), NEW e \in S
  PROVE  f \o Append(p, e) = Append(f \o p, e)
  OBVIOUS

(* Taking from a local vector that is not used up is taking from the queue.*)
LEMMA TakeFromFunctors ==
  ASSUME NEW S, NEW f \in Seq(S), NEW p \in Seq(S), f # << >>
  PROVE  /\ f \o p # << >>
         /\ Head(f \o p) = Head(f)
         /\ Tail(f \o p) = Tail(f) \o p
  OBVIOUS

(* The loop refines TaskQueue: functors run in the order they were queued, *)
(* each once, none lost by the swap of the vectors.                        *)
THEOREM RefinesTaskQueue == SafeSpec => ImplementsTaskQueue
<1>1. Init => Queue!Init
  BY DEF Init, Queue!Init
<1>2. IndInv /\ [Next]_vars => [Queue!Next]_Queue!vars
  <2> SUFFICES ASSUME IndInv, [Next]_vars
               PROVE  [Queue!Next]_Queue!vars
    OBVIOUS
  <2> USE DEF IndInv, TypeOK
  <2>1. ASSUME NEW t \in Threads, NEW cb \in Tasks, QueueInLoop(t, cb)
        PROVE  Queue!Submit(cb)
    BY <2>1, AppendToPending DEF QueueInLoop, Queue!Submit
  <2>2. ASSUME NEW t \in Threads, NEW cb \in Tasks, RunInLoop(t, cb)
        PROVE  Queue!Submit(cb) \/ Queue!RunNow(cb)
    BY <2>1, <2>2 DEF RunInLoop, MayCall, UserPhases, Queue!RunNow
  <2>3. ASSUME NEW t \in Threads, QueueWakeup(t) \/ Quit(t) \/ QuitWakeup(t)
        PROVE  UNCHANGED Queue!vars
    BY <2>3 DEF QueueWakeup, Quit, QuitWakeup, Queue!vars
  <2>4. CASE TestQuit
    BY <2>4 DEF TestQuit, Queue!Next, Queue!Close, Queue!vars
  <2>5. CASE Poll \/ HandleWakeup \/ FinishFunctors
             \/ \E ch \in Channels : HandleEvent(ch)
    BY <2>5 DEF Poll, HandleWakeup, HandleEvent, FinishFunctors, Queue!vars
  <2>6. CASE SwapPending
    <3>1. functors = << >>
      BY <2>6 DEF SwapPending, PhaseDiscipline
    <3>2. functors \o pending = functors' \o pending'
      BY <2>6, <3>1 DEF SwapPending
    <3> QED
      BY <2>6, <3>2 DEF SwapPending, Queue!vars
  <2>7. CASE StartFunctor
    BY <2>7, TakeFromFunctors DEF StartFunctor, Queue!Next, Queue!Run
  <2>8. CASE UserCodeEnds
    BY <2>8 DEF UserCodeEnds, EnterLoop, CallbackReturns, FunctorReturns,
                UserCodeReturns, Queue!vars
  <2>9. CASE UNCHANGED vars
    BY <2>9 DEF vars, Queue!vars
  <2> QED
    BY <2>1, <2>2, <2>3, <2>4, <2>5, <2>6, <2>7, <2>8, <2>9
       DEF Next, LoopBody, Queue!Next
<1> QED
  BY <1>1, <1>2, InductiveInvariant, PTL
     DEF SafeSpec, ImplementsTaskQueue, Queue!SafeSpec
=============================================================================
