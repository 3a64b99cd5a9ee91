-------------------------- MODULE EventLoopThread --------------------------
(***************************************************************************)
(* EventLoopThread objects, the threads they start and the EventLoop on    *)
(* the stack of each (EventLoopThread.cc, Thread.cc).                      *)
(*                                                                         *)
(* One thread, the parent, owns the objects: it starts and destroys them,  *)
(* one at a time and in any order.  The child of an object constructs a    *)
(* loop, publishes its address in loop_, runs it until somebody quits it,  *)
(* takes the address back and returns, which destroys the loop.  What a    *)
(* loop does while it runs is the business of EventLoop: here it leaves    *)
(* loop() once it sees quit_, and code that runs on it may quit it.        *)
(***************************************************************************)
EXTENDS Naturals

CONSTANT Workers    \* EventLoopThread objects; each is started at most once

VARIABLES
  parent,           \* the parent's place, and the object it is busy with
  child,            \* per worker: its thread's place, one of ChildPlaces
  sem,              \* per worker: the semaphore on the stack of start()
  mutex,            \* per worker: its own thread holds mutex_
  published,        \* per worker: loop_ is not null
  alive,            \* per worker: the EventLoop on the thread's stack exists
  initialised,      \* per worker: callback_ has run
  quit,             \* per worker: quit_ of its loop
  ownQuit,          \* history: code on the loop's own thread has quit it
  returned,         \* history: the workers whose startLoop has returned
  gone              \* the workers destroyed

vars == <<parent, child, sem, mutex, published, alive, initialised, quit,
          ownQuit, returned, gone>>

StartPlaces == {"semWait", "locking", "waiting"}
StopPlaces == {"quitting", "waking", "joining"}
ParentPlaces == {"idle"} \union StartPlaces \union StopPlaces

(* The child's places, in the order it goes through them.                  *)
ChildPlaces ==
  {"none", "born", "constructing", "callback", "publishing", "entering",
   "looping", "clearing", "unlocking", "unwinding", "over"}

Busy(w, places) == parent.at \in places /\ parent.with = w

TypeOK ==
  /\ parent \in [at : ParentPlaces, with : Workers]
  /\ child \in [Workers -> ChildPlaces]
  /\ sem \in [Workers -> {0, 1}]
  /\ {mutex, published, alive, initialised, quit, ownQuit}
       \subseteq [Workers -> BOOLEAN]
  /\ returned \subseteq Workers
  /\ gone \subseteq Workers

AllFalse == [w \in Workers |-> FALSE]

Init ==
  /\ parent \in [at : {"idle"}, with : Workers]
  /\ child = [w \in Workers |-> "none"]
  /\ sem = [w \in Workers |-> 0]
  /\ mutex = AllFalse
  /\ published = AllFalse
  /\ alive = AllFalse
  /\ initialised = AllFalse
  /\ quit = AllFalse
  /\ ownQuit = AllFalse
  /\ returned = {}
  /\ gone = {}

ParentGoes(w, place) == parent' = [at |-> place, with |-> w]

ChildGoes(w, from, to) ==
  /\ child[w] = from
  /\ child' = [child EXCEPT ![w] = to]

-----------------------------------------------------------------------------
(* The parent: startLoop.                                                  *)

(* Thread::start creates the thread.                                       *)
Start(w) ==
  /\ parent.at = "idle"
  /\ w \notin gone
  /\ ChildGoes(w, "none", "born")
  /\ ParentGoes(w, "semWait")
  /\ UNCHANGED <<sem, mutex, published, alive, initialised, quit, ownQuit,
                 returned, gone>>

SemWait(w) ==
  /\ Busy(w, {"semWait"})
  /\ sem[w] > 0
  /\ sem' = [sem EXCEPT ![w] = @ - 1]
  /\ ParentGoes(w, "locking")
  /\ UNCHANGED <<child, mutex, published, alive, initialised, quit, ownQuit,
                 returned, gone>>

(* With mutex_ held: cond_.wait gives it back, else it is given back when  *)
(* loop_ has been read.                                                    *)
TestLoop(w) ==
  /\ Busy(w, {"locking"})
  /\ ~mutex[w]
  /\ \/ /\ published[w]
        /\ returned' = returned \union {w}
        /\ ParentGoes(w, "idle")
     \/ /\ ~published[w]
        /\ ParentGoes(w, "waiting")
        /\ UNCHANGED returned
  /\ UNCHANGED <<child, sem, mutex, published, alive, initialised, quit,
                 ownQuit, gone>>

(* A condition variable may wake without a notify.                         *)
SpuriousWakeup(w) ==
  /\ Busy(w, {"waiting"})
  /\ ParentGoes(w, "locking")
  /\ UNCHANGED <<child, sem, mutex, published, alive, initialised, quit,
                 ownQuit, returned, gone>>

-----------------------------------------------------------------------------
(* The parent: ~EventLoopThread.                                           *)

(* loop_ is read without mutex_; if it is null nothing is joined, and      *)
(* ~Thread detaches a thread that was started.                             *)
Destroy(w) ==
  /\ parent.at = "idle"
  /\ w \notin gone
  /\ \/ /\ published[w]
        /\ ParentGoes(w, "quitting")
        /\ UNCHANGED gone
     \/ /\ ~published[w]
        /\ gone' = gone \union {w}
        /\ ParentGoes(w, "idle")
  /\ UNCHANGED <<child, sem, mutex, published, alive, initialised, quit,
                 ownQuit, returned>>

(* Faulty variant: the loop is woken and not told to quit.                 *)
StoreQuitNone(w) ==
  /\ Busy(w, {"quitting"})
  /\ ParentGoes(w, "waking")
  /\ UNCHANGED <<child, sem, mutex, published, alive, initialised, quit,
                 ownQuit, returned, gone>>

(* loop_->quit(), the store (to a loop that is gone it stores nowhere).    *)
StoreQuit(w) ==
  /\ Busy(w, {"quitting"})
  /\ quit' = [quit EXCEPT ![w] = @ \/ alive[w]]
  /\ ParentGoes(w, "waking")
  /\ UNCHANGED <<child, sem, mutex, published, alive, initialised, ownQuit,
                 returned, gone>>

(* Faulty variant: the thread is not joined.                               *)
WakeLoopNoJoin(w) ==
  /\ Busy(w, {"waking"})
  /\ gone' = gone \union {w}
  /\ ParentGoes(w, "idle")
  /\ UNCHANGED <<child, sem, mutex, published, alive, initialised, quit,
                 ownQuit, returned>>

(* quit() goes on with the loop: isInLoopThread() and wakeup().            *)
WakeLoop(w) ==
  /\ Busy(w, {"waking"})
  /\ ParentGoes(w, "joining")
  /\ UNCHANGED <<child, sem, mutex, published, alive, initialised, quit,
                 ownQuit, returned, gone>>

Join(w) ==
  /\ Busy(w, {"joining"})
  /\ child[w] = "over"
  /\ gone' = gone \union {w}
  /\ ParentGoes(w, "idle")
  /\ UNCHANGED <<child, sem, mutex, published, alive, initialised, quit,
                 ownQuit, returned>>

-----------------------------------------------------------------------------
(* The child: the lambda of Thread::start, then threadFunc.                *)

SemPost(w) ==
  /\ ChildGoes(w, "born", "constructing")
  /\ sem' = [sem EXCEPT ![w] = @ + 1]
  /\ UNCHANGED <<parent, mutex, published, alive, initialised, quit, ownQuit,
                 returned, gone>>

(* Faulty variant: the loop is published before callback_ has run.         *)
ConstructLoopPublished(w) ==
  /\ ChildGoes(w, "constructing", "callback")
  /\ alive' = [alive EXCEPT ![w] = TRUE]
  /\ published' = [published EXCEPT ![w] = TRUE]
  /\ UNCHANGED <<parent, sem, mutex, initialised, quit, ownQuit, returned,
                 gone>>

ConstructLoop(w) ==
  /\ ChildGoes(w, "constructing", "callback")
  /\ alive' = [alive EXCEPT ![w] = TRUE]
  /\ UNCHANGED <<parent, sem, mutex, published, initialised, quit, ownQuit,
                 returned, gone>>

RunCallback(w) ==
  /\ ChildGoes(w, "callback", "publishing")
  /\ initialised' = [initialised EXCEPT ![w] = TRUE]
  /\ UNCHANGED <<parent, sem, mutex, published, alive, quit, ownQuit,
                 returned, gone>>

(* Faulty variant: nobody is notified.                                     *)
PublishSilently(w) ==
  /\ ~mutex[w]
  /\ ChildGoes(w, "publishing", "entering")
  /\ published' = [published EXCEPT ![w] = TRUE]
  /\ UNCHANGED <<parent, sem, mutex, alive, initialised, quit, ownQuit,
                 returned, gone>>

(* With mutex_ held: loop_ is stored and cond_ notified.                   *)
Publish(w) ==
  /\ ~mutex[w]
  /\ ChildGoes(w, "publishing", "entering")
  /\ published' = [published EXCEPT ![w] = TRUE]
  /\ IF Busy(w, {"waiting"}) THEN ParentGoes(w, "locking")
                             ELSE UNCHANGED parent
  /\ UNCHANGED <<sem, mutex, alive, initialised, quit, ownQuit, returned,
                 gone>>

(* loop() begins with quit_ = false.                                       *)
EnterLoop(w) ==
  /\ ChildGoes(w, "entering", "looping")
  /\ quit' = [quit EXCEPT ![w] = FALSE]
  /\ UNCHANGED <<parent, sem, mutex, published, alive, initialised, ownQuit,
                 returned, gone>>

(* A callback or a functor on the loop's own thread quits it.              *)
OwnQuit(w) ==
  /\ child[w] \in {"callback", "looping"}
  /\ quit' = [quit EXCEPT ![w] = TRUE]
  /\ ownQuit' = [ownQuit EXCEPT ![w] = TRUE]
  /\ UNCHANGED <<parent, child, sem, mutex, published, alive, initialised,
                 returned, gone>>

LeaveLoop(w) ==
  /\ quit[w]
  /\ ChildGoes(w, "looping", "clearing")
  /\ UNCHANGED <<parent, sem, mutex, published, alive, initialised, quit,
                 ownQuit, returned, gone>>

(* Faulty variant: loop_ keeps the address of the loop that is going.      *)
ClearLoopKept(w) ==
  /\ ~mutex[w]
  /\ ChildGoes(w, "clearing", "unlocking")
  /\ mutex' = [mutex EXCEPT ![w] = TRUE]
  /\ UNCHANGED <<parent, sem, published, alive, initialised, quit, ownQuit,
                 returned, gone>>

(* mutex_ is taken, and kept to the end of threadFunc.                     *)
ClearLoop(w) ==
  /\ ~mutex[w]
  /\ ChildGoes(w, "clearing", "unlocking")
  /\ mutex' = [mutex EXCEPT ![w] = TRUE]
  /\ published' = [published EXCEPT ![w] = FALSE]
  /\ UNCHANGED <<parent, sem, alive, initialised, quit, ownQuit, returned,
                 gone>>

(* lock is destroyed before loop, in the order opposite to declaration.    *)
Unlock(w) ==
  /\ ChildGoes(w, "unlocking", "unwinding")
  /\ mutex' = [mutex EXCEPT ![w] = FALSE]
  /\ UNCHANGED <<parent, sem, published, alive, initialised, quit, ownQuit,
                 returned, gone>>

DestroyLoop(w) ==
  /\ ChildGoes(w, "unwinding", "over")
  /\ alive' = [alive EXCEPT ![w] = FALSE]
  /\ UNCHANGED <<parent, sem, mutex, published, initialised, quit, ownQuit,
                 returned, gone>>

-----------------------------------------------------------------------------
StartLoop(w) == SemWait(w) \/ TestLoop(w)

Destructor(w) == StoreQuit(w) \/ WakeLoop(w) \/ Join(w)

ThreadFunc(w) == \/ SemPost(w)
                 \/ ConstructLoop(w)
                 \/ RunCallback(w)
                 \/ Publish(w)
                 \/ EnterLoop(w)
                 \/ LeaveLoop(w)
                 \/ ClearLoop(w)
                 \/ Unlock(w)
                 \/ DestroyLoop(w)

Next == \E w \in Workers :
  \/ Start(w)
  \/ StartLoop(w)
  \/ SpuriousWakeup(w)
  \/ Destroy(w)
  \/ Destructor(w)
  \/ ThreadFunc(w)
  \/ OwnQuit(w)

SafeSpec == Init /\ [][Next]_vars

(* Threads are scheduled.  Spurious wakeups are not counted on, nor is     *)
(* anybody made to start, quit or destroy anything.                        *)
Spec ==
  /\ SafeSpec
  /\ \A w \in Workers :
       /\ WF_vars(StartLoop(w))
       /\ WF_vars(Destructor(w))
       /\ WF_vars(ThreadFunc(w))

-----------------------------------------------------------------------------
(* Safety *)

(* The parent has stored true in quit_ of w's loop, or is done with w.     *)
Stopped(w) == Busy(w, {"waking", "joining"}) \/ w \in gone

(* A loop that startLoop has returned exists, is initialised and stays     *)
(* published until its owner stops it -- unless it quits itself.           *)
HandsOutLiveLoops ==
  \A w \in returned :
    ~ownQuit[w] /\ ~Stopped(w) => alive[w] /\ initialised[w] /\ published[w]

(* ~EventLoopThread leaves no thread behind that would use the object, its *)
(* mutex_ say, after it is gone -- unless the loop has quit itself.        *)
LeavesNoOrphan ==
  \A w \in gone : ~ownQuit[w] => child[w] \in {"none", "over"}

(* Where the child is tells what exists.                                   *)
Published == {"entering", "looping", "clearing"}
Initialised == Published \union {"publishing", "unlocking", "unwinding", "over"}
Alive == (Initialised \ {"over"}) \union {"callback"}

ChildTells ==
  \A w \in Workers :
    /\ published[w] <=> child[w] \in Published
    /\ alive[w] <=> child[w] \in Alive
    /\ initialised[w] <=> child[w] \in Initialised
    /\ mutex[w] <=> child[w] = "unlocking"
    /\ child[w] = "born" => Busy(w, {"semWait"})
    /\ sem[w] = 1 => child[w] \notin {"none", "born"} /\ Busy(w, {"semWait"})

(* A loop stops only when it is told to.                                   *)
StopsWhenTold ==
  \A w \in Workers : ~ownQuit[w] =>
    /\ quit[w] => Stopped(w)
    /\ child[w] \in {"clearing", "unlocking", "unwinding", "over"} => Stopped(w)

(* What the parent knows of the workers it is not busy with.               *)
ParentKnows ==
  /\ \A w \in Workers :
       /\ ~Busy(w, StartPlaces) => (child[w] = "none" <=> w \notin returned)
       /\ Busy(w, StartPlaces) => child[w] # "none" /\ w \notin returned \union gone
       /\ Busy(w, StopPlaces) => w \in returned /\ w \notin gone
  /\ \A w \in returned :
       child[w] \in Initialised \ {"publishing"}

(* The inductive invariant of the three.                                   *)
IndInv ==
  /\ TypeOK
  /\ ChildTells
  /\ StopsWhenTold
  /\ ParentKnows
  /\ LeavesNoOrphan

(* Liveness *)

(* startLoop comes back: no notify is missed.  (A loop that quits itself   *)
(* takes its address back, and then startLoop may wait for ever.)          *)
StartReturns ==
  \A w \in Workers : Busy(w, {"semWait"}) ~> (w \in returned \/ ownQuit[w])

(* ~EventLoopThread comes back, if loop() has begun before its quit().     *)
JoinReturns ==
  \A w \in Workers : Busy(w, {"quitting"}) /\ child[w] = "looping" ~> w \in gone

-----------------------------------------------------------------------------
(* What the documentation says and the code does not do *)

(* EventLoop.cc:96: quit() makes the loop leave, called by another thread  *)
(* too; ~EventLoopThread joins on the strength of that.                    *)
DestructorReturns ==
  \A w \in Workers : Busy(w, {"quitting"}) ~> w \in gone

(* EventLoop.cc:96-105: quit() of another thread wakes the loop it has     *)
(* stopped -- a loop that exists, and has not quit itself.                 *)
QuitUsesLiveLoop ==
  \A w \in Workers : Busy(w, {"waking"}) /\ ~ownQuit[w] => alive[w]
=============================================================================
