----------------------- MODULE EventLoopThreadProofs -----------------------
(***************************************************************************)
(* Theorems about EventLoopThread, for any number of workers.              *)
(***************************************************************************)
EXTENDS EventLoopThread, TLAPS

LEMMA InitInv == Init => IndInv
BY DEF Init, IndInv, TypeOK, ChildTells, StopsWhenTold, ParentKnows,
       LeavesNoOrphan, AllFalse, ParentPlaces, StartPlaces, StopPlaces,
       ChildPlaces, Busy, Stopped, Published, Initialised, Alive

(* The parent's steps in startLoop.                                        *)
LEMMA StartInv ==
  ASSUME IndInv, NEW w \in Workers,
         Start(w) \/ StartLoop(w) \/ SpuriousWakeup(w)
  PROVE  IndInv'
<1> USE DEF IndInv, ParentPlaces, StartPlaces, StopPlaces, ChildPlaces, Busy,
            Stopped, Published, Initialised, Alive, ParentGoes, ChildGoes
<1>1. CASE Start(w)
  BY <1>1 DEF Start, TypeOK, ChildTells, StopsWhenTold, ParentKnows, LeavesNoOrphan
<1>2. CASE SemWait(w)
  BY <1>2 DEF SemWait, TypeOK, ChildTells, StopsWhenTold, ParentKnows, LeavesNoOrphan
<1>3. CASE TestLoop(w)
  BY <1>3 DEF TestLoop, TypeOK, ChildTells, StopsWhenTold, ParentKnows, LeavesNoOrphan
<1>4. CASE SpuriousWakeup(w)
  BY <1>4 DEF SpuriousWakeup, TypeOK, ChildTells, StopsWhenTold, ParentKnows, LeavesNoOrphan
<1> QED
  BY <1>1, <1>2, <1>3, <1>4 DEF StartLoop

(* The parent's steps in ~EventLoopThread.                                 *)
LEMMA DestroyInv ==
  ASSUME IndInv, NEW w \in Workers, Destroy(w) \/ Destructor(w)
  PROVE  IndInv'
<1> USE DEF IndInv, ParentPlaces, StartPlaces, StopPlaces, ChildPlaces, Busy,
            Stopped, Published, Initialised, Alive, ParentGoes
<1>1. CASE Destroy(w)
  BY <1>1 DEF Destroy, TypeOK, ChildTells, StopsWhenTold, ParentKnows,
              LeavesNoOrphan
<1>2. CASE StoreQuit(w)
  BY <1>2 DEF StoreQuit, TypeOK, ChildTells, StopsWhenTold, ParentKnows,
              LeavesNoOrphan
<1>3. CASE WakeLoop(w)
  BY <1>3 DEF WakeLoop, TypeOK, ChildTells, StopsWhenTold, ParentKnows,
              LeavesNoOrphan
<1>4. CASE Join(w)
  <2>1. /\ parent.at = "joining" /\ parent.with = w
        /\ parent' = [at |-> "idle", with |-> w]
        /\ gone' = gone \union {w}
        /\ child[w] = "over"
    BY <1>4 DEF Join
  <2>2. UNCHANGED <<child, sem, mutex, published, alive, initialised, quit,
                    ownQuit, returned>>
    BY <1>4 DEF Join
  <2>3. TypeOK'
    BY <2>1, <2>2 DEF TypeOK
  <2>4. ChildTells'
    BY <2>1, <2>2 DEF TypeOK, ChildTells
  <2>5. StopsWhenTold' /\ LeavesNoOrphan'
    BY <2>1, <2>2 DEF StopsWhenTold, LeavesNoOrphan
  <2>6. ParentKnows'
    BY <2>1, <2>2 DEF ParentKnows
  <2> QED
    BY <2>3, <2>4, <2>5, <2>6
<1> QED
  BY <1>1, <1>2, <1>3, <1>4 DEF Destructor

(* The child's steps, and a quit() on its own loop.                        *)
LEMMA ChildInv ==
  ASSUME IndInv, NEW w \in Workers, ThreadFunc(w) \/ OwnQuit(w)
  PROVE  IndInv'
<1> USE DEF IndInv, ParentPlaces, StartPlaces, StopPlaces, ChildPlaces, Busy,
            Stopped, Published, Initialised, Alive, ParentGoes, ChildGoes
<1>1. CASE SemPost(w)
  BY <1>1 DEF SemPost, TypeOK, ChildTells, StopsWhenTold, ParentKnows,
              LeavesNoOrphan
<1>2. CASE ConstructLoop(w)
  BY <1>2 DEF ConstructLoop, TypeOK, ChildTells, StopsWhenTold, ParentKnows,
              LeavesNoOrphan
<1>3. CASE RunCallback(w)
  BY <1>3 DEF RunCallback, TypeOK, ChildTells, StopsWhenTold, ParentKnows,
              LeavesNoOrphan
<1>4. CASE Publish(w)
  BY <1>4 DEF Publish, TypeOK, ChildTells, StopsWhenTold, ParentKnows,
              LeavesNoOrphan
<1>5. CASE EnterLoop(w)
  BY <1>5 DEF EnterLoop, TypeOK, ChildTells, StopsWhenTold, ParentKnows,
              LeavesNoOrphan
<1>6. CASE LeaveLoop(w)
  BY <1>6 DEF LeaveLoop, TypeOK, ChildTells, StopsWhenTold, ParentKnows,
              LeavesNoOrphan
<1>7. CASE ClearLoop(w)
  BY <1>7 DEF ClearLoop, TypeOK, ChildTells, StopsWhenTold, ParentKnows,
              LeavesNoOrphan
<1>8. CASE Unlock(w)
  BY <1>8 DEF Unlock, TypeOK, ChildTells, StopsWhenTold, ParentKnows,
              LeavesNoOrphan
<1>9. CASE DestroyLoop(w)
  BY <1>9 DEF DestroyLoop, TypeOK, ChildTells, StopsWhenTold, ParentKnows,
              LeavesNoOrphan
<1>10. CASE OwnQuit(w)
  BY <1>10 DEF OwnQuit, TypeOK, ChildTells, StopsWhenTold, ParentKnows,
               LeavesNoOrphan
<1> QED
  BY <1>1, <1>2, <1>3, <1>4, <1>5, <1>6, <1>7, <1>8, <1>9, <1>10
     DEF ThreadFunc

(* Where each thread is tells what exists, a loop stops only when it is    *)
(* told to, and the parent knows what it has started and joined            *)
(* (EventLoopThread.cc:16-60).                                             *)
THEOREM ThreadInvariant == SafeSpec => []IndInv
<1>1. IndInv /\ [Next]_vars => IndInv'
  <2> SUFFICES ASSUME IndInv, [Next]_vars
               PROVE  IndInv'
    OBVIOUS
  <2>1. CASE UNCHANGED vars
    BY <2>1 DEF vars, IndInv, TypeOK, ChildTells, StopsWhenTold, ParentKnows,
                LeavesNoOrphan, Busy, Stopped
  <2>2. CASE Next
    BY <2>2, StartInv, DestroyInv, ChildInv DEF Next
  <2> QED
    BY <2>1, <2>2
<1> QED
  BY <1>1, InitInv, PTL DEF SafeSpec

(* The loop startLoop returns exists, is initialised and stays published   *)
(* until it is stopped (EventLoopThread.cc:26-56).                         *)
THEOREM LoopsHandedOutLive == SafeSpec => []HandsOutLiveLoops
<1>1. IndInv => HandsOutLiveLoops
  BY DEF IndInv, TypeOK, ChildTells, StopsWhenTold, ParentKnows, HandsOutLiveLoops,
         Published, Initialised, Alive, ChildPlaces
<1> QED
  BY <1>1, ThreadInvariant, PTL

(* A destroyed EventLoopThread has no thread left that would use it        *)
(* (EventLoopThread.cc:16-24).                                             *)
THEOREM NoOrphanLeft == SafeSpec => []LeavesNoOrphan
  BY ThreadInvariant, PTL DEF IndInv
=============================================================================
