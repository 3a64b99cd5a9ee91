----------------------------- MODULE TaskQueue -----------------------------
(***************************************************************************)
(* What an EventLoop promises to the threads that hand work to it: a       *)
(* functor given to queueInLoop is run by the loop's thread, after every   *)
(* functor queued before it, once, unless the loop has stopped.  How the   *)
(* loop sleeps, wakes and swaps its vector is the business of EventLoop.   *)
(***************************************************************************)
EXTENDS Sequences

CONSTANT Tasks      \* functors, each an identity of its own

VARIABLES
  submitted,        \* functors handed to the loop so far
  queue,            \* functors accepted and not started, oldest first
  done,             \* functors the loop has started, in that order
  closed            \* the loop has left loop()

vars == <<submitted, queue, done, closed>>

Init ==
  /\ submitted = {}
  /\ queue = << >>
  /\ done = << >>
  /\ closed = FALSE

(* queueInLoop: t becomes the last of the queue; a loop that has stopped   *)
(* still accepts (nothing in queueInLoop asks), it just never runs t.      *)
Submit(t) ==
  /\ t \in Tasks \ submitted
  /\ submitted' = submitted \union {t}
  /\ queue' = Append(queue, t)
  /\ UNCHANGED <<done, closed>>

(* runInLoop on the loop's own thread: t runs inside the call.             *)
RunNow(t) ==
  /\ t \in Tasks \ submitted
  /\ ~closed
  /\ submitted' = submitted \union {t}
  /\ UNCHANGED <<queue, done, closed>>

(* The loop starts the oldest functor.                                     *)
Run ==
  /\ ~closed
  /\ queue # << >>
  /\ done' = Append(done, Head(queue))
  /\ queue' = Tail(queue)
  /\ UNCHANGED <<submitted, closed>>

(* Somebody's quit() took effect.                                          *)
Close ==
  /\ ~closed
  /\ closed' = TRUE
  /\ UNCHANGED <<submitted, queue, done>>

Next ==
  \/ \E t \in Tasks : Submit(t) \/ RunNow(t)
  \/ Run
  \/ Close

SafeSpec == Init /\ [][Next]_vars

Fairness == WF_vars(Run)

Spec == SafeSpec /\ Fairness
=============================================================================
