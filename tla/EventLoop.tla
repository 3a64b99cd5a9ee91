----------------------------- MODULE EventLoop -----------------------------
(***************************************************************************)
(* One EventLoop and the threads that use it (EventLoop.cc).               *)
(*                                                                         *)
(* Owner is the thread that constructed the loop and calls loop(); Callers *)
(* are the other threads, which reach the loop only through queueInLoop,   *)
(* runInLoop and quit.  A step of the model is what happens between two    *)
(* points where another thread can be noticed: the critical sections of    *)
(* mutex_ (the push and the swap), the atomics quit_ and                   *)
(* callingPendingFunctors_, and the reads and writes of wakeupFd_.         *)
(* looping_ is written and never read, so it is left out.                  *)
(***************************************************************************)
EXTENDS Naturals, Sequences

CONSTANTS
  Tasks,            \* functors; each is handed over at most once (the bound)
  Owner,            \* the loop's thread, threadId_
  Callers,          \* every other thread
  Channels,         \* channels of the poller other than wakeupChannel_
  WakeupChannel     \* wakeupChannel_

ASSUME ThreadAssumption == Owner \notin Callers
ASSUME ChannelAssumption == WakeupChannel \notin Channels

Threads == Callers \union {Owner}

VARIABLES
  phase,            \* where the loop's thread is, one of Phases
  active,           \* activeChannels_ not yet dispatched
  pending,          \* pendingFunctors_
  functors,         \* the local vector of doPendingFunctors, not yet started
  calling,          \* callingPendingFunctors_
  quit,             \* quit_
  wakeup,           \* the eventfd's counter is not zero
  call,             \* per thread: the second half of a call it still owes
  submitted,        \* history: functors handed over so far
  early,            \* history: those the owner queued before loop()
  done              \* history: functors run from the queue, in order

vars == <<phase, active, pending, functors, calling, quit, wakeup, call,
          submitted, early, done>>

(* In UserPhases the loop's thread runs code that is not the loop's own:   *)
(* what its creator does before loop(), a channel's callback, a functor.   *)
UserPhases == {"unstarted", "callback", "functor"}
Phases == UserPhases \union {"while", "polling", "dispatch", "running", "stopped"}

Calls == {"none", "queued", "quitting"}

TypeOK ==
  /\ phase \in Phases
  /\ active \subseteq Channels \union {WakeupChannel}
  /\ pending \in Seq(Tasks)
  /\ functors \in Seq(Tasks)
  /\ calling \in BOOLEAN
  /\ quit \in BOOLEAN
  /\ wakeup \in BOOLEAN
  /\ call \in [Threads -> Calls]
  /\ submitted \subseteq Tasks
  /\ early \subseteq Tasks
  /\ done \in Seq(Tasks)

Init ==
  /\ phase = "unstarted"
  /\ active = {}
  /\ pending = << >>
  /\ functors = << >>
  /\ calling = FALSE
  /\ quit = FALSE
  /\ wakeup = FALSE
  /\ call = [t \in Threads |-> "none"]
  /\ submitted = {}
  /\ early = {}
  /\ done = << >>

-----------------------------------------------------------------------------
(* The calls a thread makes on the loop.                                   *)

InLoopThread(t) == t = Owner

MayCall(t) == call[t] = "none" /\ (InLoopThread(t) => phase \in UserPhases)

(* A thread owes the wakeup() between its push and the end of queueInLoop. *)
Owe(t, what) == call' = [call EXCEPT ![t] = what]

(* Faulty variant: the push does not see the swap of another thread and    *)
(* the vector it writes back is the one it had read (no mutex_).           *)
QueueInLoopUnlocked(t, cb) ==
  /\ MayCall(t)
  /\ cb \in Tasks \ submitted
  /\ \/ pending' = Append(pending, cb)
     \/ pending' = << cb >>
  /\ submitted' = submitted \union {cb}
  /\ early' = IF InLoopThread(t) /\ phase = "unstarted"
              THEN early \union {cb} ELSE early
  /\ Owe(t, "queued")
  /\ UNCHANGED <<phase, active, functors, calling, quit, wakeup, done>>

(* queueInLoop, the critical section: pendingFunctors_.emplace_back(cb).   *)
QueueInLoop(t, cb) ==
  /\ MayCall(t)
  /\ cb \in Tasks \ submitted
  /\ pending' = Append(pending, cb)
  /\ submitted' = submitted \union {cb}
  /\ early' = IF InLoopThread(t) /\ phase = "unstarted"
              THEN early \union {cb} ELSE early
  /\ Owe(t, "queued")
  /\ UNCHANGED <<phase, active, functors, calling, quit, wakeup, done>>

(* Faulty variant: callingPendingFunctors_ is not asked.                   *)
NeedsWakeupForeignOnly(t) == ~InLoopThread(t)

(* Faulty variant: the calling flag alone decides.                         *)
NeedsWakeupCallingOnly(t) == calling

(* The condition under which queueInLoop ends with wakeup().               *)
NeedsWakeup(t) == ~InLoopThread(t) \/ calling

(* queueInLoop after the critical section.                                 *)
QueueWakeup(t) ==
  /\ call[t] = "queued"
  /\ wakeup' = (wakeup \/ NeedsWakeup(t))
  /\ Owe(t, "none")
  /\ UNCHANGED <<phase, active, pending, functors, calling, quit, submitted,
                 early, done>>

(* runInLoop: on the loop's thread the functor runs inside the call.       *)
RunInLoop(t, cb) ==
  \/ ~InLoopThread(t) /\ QueueInLoop(t, cb)
  \/ /\ InLoopThread(t)
     /\ MayCall(t)
     /\ cb \in Tasks \ submitted
     /\ submitted' = submitted \union {cb}
     /\ UNCHANGED <<phase, active, pending, functors, calling, quit, wakeup,
                    call, early, done>>

(* quit, the store to quit_.                                               *)
Quit(t) ==
  /\ MayCall(t)
  /\ quit' = TRUE
  /\ Owe(t, "quitting")
  /\ UNCHANGED <<phase, active, pending, functors, calling, wakeup,
                 submitted, early, done>>

(* Faulty variant: quit() does not wake the loop.                          *)
QuitWakeupNone(t) ==
  /\ call[t] = "quitting"
  /\ Owe(t, "none")
  /\ UNCHANGED <<phase, active, pending, functors, calling, quit, wakeup,
                 submitted, early, done>>

(* quit after the store: another thread than the loop's wakes it.          *)
QuitWakeup(t) ==
  /\ call[t] = "quitting"
  /\ wakeup' = (wakeup \/ ~InLoopThread(t))
  /\ Owe(t, "none")
  /\ UNCHANGED <<phase, active, pending, functors, calling, quit, submitted,
                 early, done>>

-----------------------------------------------------------------------------
(* The loop's own thread: loop() and doPendingFunctors().                  *)

UserCodeReturns(from, to) ==
  /\ phase = from
  /\ call[Owner] = "none"
  /\ phase' = to

(* loop() is entered: whatever quit_ held before is overwritten.           *)
EnterLoop ==
  /\ UserCodeReturns("unstarted", "while")
  /\ quit' = FALSE
  /\ UNCHANGED <<active, pending, functors, calling, wakeup, call, submitted,
                 early, done>>

(* while(!quit_), and activeChannels_.clear() when the loop goes round.    *)
TestQuit ==
  /\ phase = "while"
  /\ phase' = IF quit THEN "stopped" ELSE "polling"
  /\ UNCHANGED <<active, pending, functors, calling, quit, wakeup, call,
                 submitted, early, done>>

Ready == Channels \union (IF wakeup THEN {WakeupChannel} ELSE {})

(* Faulty variant: a poll that reports nothing goes round at once.         *)
PollSkipsEmpty ==
  /\ phase = "polling"
  /\ active' \in SUBSET Ready
  /\ phase' = IF active' = {} THEN "while" ELSE "dispatch"
  /\ UNCHANGED <<pending, functors, calling, quit, wakeup, call, submitted,
                 early, done>>

(* epoll_wait returns with some of the ready channels: any of Channels may *)
(* be ready at any time; none at all after kPollTimeMs or a signal.        *)
Poll ==
  /\ phase = "polling"
  /\ active' \in SUBSET Ready
  /\ phase' = "dispatch"
  /\ UNCHANGED <<pending, functors, calling, quit, wakeup, call, submitted,
                 early, done>>

(* handleEvent of wakeupChannel_: handleRead resets the eventfd.           *)
HandleWakeup ==
  /\ phase = "dispatch"
  /\ WakeupChannel \in active
  /\ active' = active \ {WakeupChannel}
  /\ wakeup' = FALSE
  /\ UNCHANGED <<phase, pending, functors, calling, quit, call, submitted,
                 early, done>>

(* handleEvent of another channel: its callback begins, and later returns. *)
HandleEvent(ch) ==
  /\ phase = "dispatch"
  /\ ch \in active \ {WakeupChannel}
  /\ active' = active \ {ch}
  /\ phase' = "callback"
  /\ UNCHANGED <<pending, functors, calling, quit, wakeup, call, submitted,
                 early, done>>

CallbackReturns ==
  /\ UserCodeReturns("callback", "dispatch")
  /\ UNCHANGED <<active, pending, functors, calling, quit, wakeup, call,
                 submitted, early, done>>

(* doPendingFunctors: the flag is set, then the vectors swap under mutex_. *)
SwapPending ==
  /\ phase = "dispatch"
  /\ active = {}
  /\ calling' = TRUE
  /\ functors' = pending
  /\ pending' = << >>
  /\ phase' = "running"
  /\ UNCHANGED <<active, quit, wakeup, call, submitted, early, done>>

(* One functor of the local vector begins, and later returns.              *)
StartFunctor ==
  /\ phase = "running"
  /\ functors # << >>
  /\ done' = Append(done, Head(functors))
  /\ functors' = Tail(functors)
  /\ phase' = "functor"
  /\ UNCHANGED <<active, pending, calling, quit, wakeup, call, submitted,
                 early>>

FunctorReturns ==
  /\ UserCodeReturns("functor", "running")
  /\ UNCHANGED <<active, pending, functors, calling, quit, wakeup, call,
                 submitted, early, done>>

(* Faulty variant: the batch goes on with what its functors queued.        *)
FinishFunctorsDrain ==
  /\ phase = "running"
  /\ functors = << >>
  /\ functors' = pending
  /\ pending' = << >>
  /\ calling' = (pending # << >>)
  /\ phase' = IF pending = << >> THEN "while" ELSE "running"
  /\ UNCHANGED <<active, quit, wakeup, call, submitted, early, done>>

(* Faulty variant: callingPendingFunctors_ is not reset.                   *)
FinishFunctorsFlagKept ==
  /\ phase = "running"
  /\ functors = << >>
  /\ phase' = "while"
  /\ UNCHANGED <<active, pending, functors, calling, quit, wakeup, call,
                 submitted, early, done>>

(* The local vector is used up: the flag is reset and loop() goes round.   *)
FinishFunctors ==
  /\ phase = "running"
  /\ functors = << >>
  /\ calling' = FALSE
  /\ phase' = "while"
  /\ UNCHANGED <<active, pending, functors, quit, wakeup, call, submitted,
                 early, done>>

-----------------------------------------------------------------------------
LoopBody == \/ TestQuit
            \/ Poll
            \/ HandleWakeup
            \/ \E ch \in Channels : HandleEvent(ch)
            \/ SwapPending
            \/ StartFunctor
            \/ FinishFunctors

UserCodeEnds == EnterLoop \/ CallbackReturns \/ FunctorReturns

Next ==
  \/ \E t \in Threads, cb \in Tasks : QueueInLoop(t, cb) \/ RunInLoop(t, cb)
  \/ \E t \in Threads : QueueWakeup(t) \/ Quit(t) \/ QuitWakeup(t)
  \/ LoopBody
  \/ UserCodeEnds

SafeSpec == Init /\ [][Next]_vars

(* Threads are scheduled, and callbacks and functors return (they may call *)
(* quit any number of times before they do, hence the strong fairness).    *)
ThreadFairness ==
  /\ \A t \in Threads : WF_vars(QueueWakeup(t) \/ QuitWakeup(t))
  /\ SF_vars(EnterLoop)
  /\ SF_vars(CallbackReturns)
  /\ SF_vars(FunctorReturns)

(* The timeout of epoll_wait is not counted on: it need only return when   *)
(* the eventfd is readable.                                                *)
Spec ==
  /\ SafeSpec
  /\ ThreadFairness
  /\ WF_vars(LoopBody /\ (phase = "polling" => wakeup))

-----------------------------------------------------------------------------
(* Safety *)

(* Functors the owner queued before loop() come without a wakeup.          *)
LateWork == \E i \in 1 .. Len(pending) : pending[i] \notin early

(* The loop never sleeps in epoll_wait on a functor nobody will wake it    *)
(* for: the eventfd is readable, or a thread that has pushed is about to   *)
(* write it (the reason queueInLoop asks callingPendingFunctors_).         *)
NoLostWakeup ==
  phase = "polling" /\ LateWork =>
    wakeup \/ \E t \in Callers : call[t] = "queued"

(* The inductive strengthening of NoLostWakeup: when a wakeup is owed.     *)
(* Outside the dispatch of a poll's channels -- the one place where the    *)
(* eventfd is reset, always followed by the swap -- late work is covered   *)
(* by a readable eventfd or by a thread on its way to write it; the owner  *)
(* is such a thread only while callingPendingFunctors_ is set.             *)
WakeupOwed ==
  \/ wakeup
  \/ \E t \in Callers : call[t] = "queued"
  \/ calling /\ call[Owner] = "queued"

Covered == phase \notin {"dispatch", "callback"} /\ LateWork => WakeupOwed

(* Where the loop's thread is tells the flag, the local vector and whether *)
(* that thread may be inside queueInLoop or quit.                          *)
PhaseDiscipline ==
  /\ calling <=> phase \in {"running", "functor"}
  /\ phase \notin {"running", "functor"} => functors = << >>
  /\ call[Owner] # "none" => phase \in UserPhases

(* The inductive invariant of the loop: a wakeup is owed for all late work *)
(* in every phase but the dispatch, and each variable keeps its type.      *)
IndInv == TypeOK /\ PhaseDiscipline /\ Covered

(* A loop asleep in epoll_wait with quit_ set is being woken: quit()'s     *)
(* store and its wakeup can not fall on the two sides of an epoll_wait.    *)
QuitWakes ==
  phase = "polling" /\ quit =>
    wakeup \/ \E t \in Callers : call[t] = "quitting"

(* A functor queued while doPendingFunctors runs waits for the next round: *)
(* the batch only shrinks, so I/O is polled between two batches however    *)
(* much the functors queue.                                                *)
BatchClosed ==
  [][(phase = "running" \/ phase = "functor") =>
       \/ functors' = functors
       \/ functors # << >> /\ functors' = Tail(functors)]_vars

(* TaskQueue's queue is the local vector of doPendingFunctors followed by  *)
(* pendingFunctors_.                                                       *)
Queue == INSTANCE TaskQueue
           WITH queue <- functors \o pending, closed <- (phase = "stopped")

(* The loop keeps TaskQueue's promise: first in first out, each functor    *)
(* once, none lost between the two vectors.                                *)
ImplementsTaskQueue == Queue!SafeSpec

(* Liveness *)

(* epoll_wait is given kPollTimeMs, so it returns even if nothing happens. *)
TimeoutFires == WF_vars(LoopBody)

(* With the timeout the loop keeps TaskQueue's liveness too: functors the  *)
(* owner queued before loop(), for which no wakeup is written, also run.   *)
TimeoutRunsTheRest == TimeoutFires => Queue!Fairness

(* A functor queued from anywhere but the owner's own code before loop()   *)
(* is run, without the help of epoll_wait's timeout, unless the loop       *)
(* stops.                                                                  *)
RunsPromptly ==
  \A cb \in Tasks :
    (\E i \in 1 .. Len(pending) : pending[i] = cb /\ cb \notin early)
      ~> (phase = "stopped" \/ \E i \in 1 .. Len(done) : done[i] = cb)

(* Once loop() has begun, a quit() from any thread ends it, again without  *)
(* the timeout.                                                            *)
QuitStops == (phase # "unstarted" /\ quit) ~> (phase = "stopped")
=============================================================================
