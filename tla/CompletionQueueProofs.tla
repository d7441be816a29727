------------------------ MODULE CompletionQueueProofs ------------------------
(***************************************************************************)
(* Proofs about CompletionQueue, for any set of users and closers: IInv is *)
(* inductive, it gives the safety properties, and the reference count      *)
(* implements Rundown.                                                     *)
(***************************************************************************)
EXTENDS CompletionQueue, FiniteSetTheorems, TLAPS

(* Type correctness: every load, compare-exchange and core call leaves the *)
(* variables in their sets.                                                *)
LEMMA TypeInit == Init => TypeOK
<1> SUFFICES ASSUME Init PROVE TypeOK
  OBVIOUS
<1>1. \A p \in Procs : pc[p] = "idle"
  BY DEF Init
<1>2. pc \in [Procs -> UserSteps \cup CloserSteps] /\ cnt \in [Procs -> Int]
  BY DEF Init, UserSteps
<1>3. destroyed \in BOOLEAN
  BY Zenon DEF Init
<1>4. owners \subseteq Users \cup {Env}
  BY Zenon DEF Init
<1> QED
  BY <1>1, <1>2, <1>3, <1>4 DEF Init, TypeOK, Procs, UserSteps, CloserSteps

(* Every step of cq.rs and of the poll loop keeps the types.               *)
LEMMA TypeStep == TypeOK /\ [Next]_vars => TypeOK'
<1> SUFFICES ASSUME TypeOK, [Next]_vars PROVE TypeOK'
  OBVIOUS
<1> USE ClosersAssumption, UsersAssumption
    DEF TypeOK, Procs, UserSteps, CloserSteps, Load, CasOk, CasFail,
        CoreSame, OwnersSame, Release, Owned
<1>1. ASSUME NEW u \in Users, UserNext(u) PROVE TypeOK'
  <2>1. CASE Clone(u)
    BY <2>1 DEF Clone
  <2>2. CASE DropClone(u)
    BY <2>2 DEF DropClone
  <2>3. CASE AddRefLoad(u)
    BY <2>3 DEF AddRefLoad
  <2>4. CASE AddRefReject(u)
    BY <2>4 DEF AddRefReject
  <2>5. CASE AddRefCasOk(u)
    BY <2>5 DEF AddRefCasOk
  <2>6. CASE AddRefCasFail(u)
    BY <2>6 DEF AddRefCasFail
  <2>7. CASE StartOp(u)
    BY <2>7 DEF StartOp
  <2>8. CASE AbortStart(u)
    BY <2>8 DEF AbortStart
  <2>9. CASE UnrefLoad(u)
    BY <2>9 DEF UnrefLoad
  <2>10. CASE UnrefCasOk(u)
    BY <2>10 DEF UnrefCasOk, Signum, AfterUnref
  <2>11. CASE UnrefCasFail(u)
    BY <2>11 DEF UnrefCasFail
  <2> QED
    BY <1>1, <2>1, <2>2, <2>3, <2>4, <2>5, <2>6, <2>7, <2>8, <2>9, <2>10,
       <2>11 DEF UserNext
<1>2. ASSUME NEW c \in Closers, CloserNext(c) PROVE TypeOK'
  <2>1. CASE ShutdownLoad(c)
    BY <2>1 DEF ShutdownLoad
  <2>2. CASE ShutdownSkip(c)
    BY <2>2 DEF ShutdownSkip
  <2>3. CASE ShutdownCasOk(c)
    BY <2>3 DEF ShutdownCasOk
  <2>4. CASE ShutdownCasFail(c)
    BY <2>4 DEF ShutdownCasFail
  <2>5. CASE ShutdownReturn(c)
    BY <2>5 DEF ShutdownReturn
  <2> QED
    BY <1>2, <2>1, <2>2, <2>3, <2>4, <2>5 DEF CloserNext
<1>3. ASSUME NEW p \in Procs, CoreShutdown(p) PROVE TypeOK'
  BY <1>3 DEF CoreShutdown, AfterCore, AfterUnref
<1>4. CASE OpComplete
  BY <1>4 DEF OpComplete
<1>5. CASE QueueShutdown
  BY <1>5 DEF QueueShutdown
<1>6. CASE Destroyed \/ UNCHANGED vars
  BY <1>6 DEF Destroyed, vars
<1> QED
  BY <1>1, <1>2, <1>3, <1>4, <1>5, <1>6 DEF Next

-----------------------------------------------------------------------------
(* The live references are finitely many.                                  *)
LEMMA HeldFinite ==
  /\ IsFiniteSet(Held) /\ Cardinality(Held) \in Nat
  /\ Cardinality(Held) = 0 <=> Held = {}
<1>1. Held \in SUBSET Users
  BY DEF Held
<1>2. IsFiniteSet(Held)
  BY <1>1, UsersAssumption, FS_Subset
<1> QED
  BY <1>2, FS_CardinalityType, FS_EmptySet

(* What a step does to the count and the live references: one of the three *)
(* successful compare-exchanges, or nothing.                               *)
LEMMA CountEffect ==
  ASSUME TypeOK, [Next]_vars
  PROVE  \/ \E u \in Users : /\ u \notin Held /\ Held' = Held \cup {u}
                              /\ ref_cnt > 0 /\ ref_cnt' = ref_cnt + 1 /\ coreCalls' = coreCalls
         \/ \E u \in Users : /\ u \in Held /\ Held' = Held \ {u}
                              /\ ref_cnt' = ref_cnt - Signum(ref_cnt) /\ coreCalls' = coreCalls
         \/ /\ Held' = Held /\ ref_cnt > 0 /\ ref_cnt' = 1 - ref_cnt
            /\ coreCalls' = coreCalls
         \/ /\ Held' = Held /\ ref_cnt' = ref_cnt
            /\ coreCalls' = coreCalls \/ Finishers # {}
<1> USE ClosersAssumption
    DEF TypeOK, Procs, Load, CasOk, CasFail, CoreSame, OwnersSame, Held
<1>1. ASSUME NEW u \in Users, UserNext(u)
      PROVE  \/ /\ u \notin Held /\ Held' = Held \cup {u}
                /\ ref_cnt > 0 /\ ref_cnt' = ref_cnt + 1 /\ coreCalls' = coreCalls
             \/ /\ u \in Held /\ Held' = Held \ {u}
                /\ ref_cnt' = ref_cnt - Signum(ref_cnt) /\ coreCalls' = coreCalls
             \/ Held' = Held /\ ref_cnt' = ref_cnt /\ coreCalls' = coreCalls
  <2>1. CASE Clone(u) \/ DropClone(u) \/ StartOp(u) \/ AddRefCasFail(u)
             \/ UnrefCasFail(u)
    BY <2>1 DEF Clone, DropClone, StartOp, AddRefCasFail, UnrefCasFail
  <2>2. CASE AddRefLoad(u) \/ AddRefReject(u) \/ UnrefLoad(u) \/ AbortStart(u)
    BY <2>2 DEF AddRefLoad, AddRefReject, UnrefLoad, AbortStart
  <2>3. CASE AddRefCasOk(u)
    BY <2>3 DEF AddRefCasOk
  <2>4. CASE UnrefCasOk(u)
    BY <2>4 DEF UnrefCasOk, AfterUnref
  <2> QED
    BY <1>1, <2>1, <2>2, <2>3, <2>4 DEF UserNext
<1>2. ASSUME NEW c \in Closers, CloserNext(c)
      PROVE  \/ /\ Held' = Held /\ ref_cnt > 0 /\ ref_cnt' = 1 - ref_cnt
                /\ coreCalls' = coreCalls
             \/ Held' = Held /\ ref_cnt' = ref_cnt /\ coreCalls' = coreCalls
  BY <1>2 DEF CloserNext, ShutdownLoad, ShutdownSkip, ShutdownCasOk,
              ShutdownCasFail, ShutdownReturn
<1>3. ASSUME NEW p \in Procs, CoreShutdown(p)
      PROVE  Held' = Held /\ ref_cnt' = ref_cnt /\ Finishers # {}
  BY <1>3 DEF CoreShutdown, AfterCore, AfterUnref, Finishers
<1>4. CASE OpComplete \/ QueueShutdown \/ Destroyed \/ UNCHANGED vars
  BY <1>4 DEF OpComplete, QueueShutdown, Destroyed, vars
<1> QED
  BY <1>1, <1>2, <1>3, <1>4 DEF Next

(* ref_cnt stays one more than the live references while the queue is open *)
(* and minus their number after shutdown: each exchange that succeeds      *)
(* adds or removes one of them, or turns the first form into the second.   *)
LEMMA CountStep ==
  ASSUME TypeOK, CountsReferences, [Next]_vars
  PROVE  CountsReferences'
<1> DEFINE n == Cardinality(Held)
<1>0. n \in Nat /\ IsFiniteSet(Held) /\ (n = 0 <=> Held = {}) /\ ref_cnt \in Int
  BY HeldFinite DEF TypeOK
<1>1. ref_cnt = IF ref_cnt > 0 THEN n + 1 ELSE -n
  BY DEF CountsReferences
<1>2. ASSUME NEW u \in Users, u \notin Held, Held' = Held \cup {u},
             ref_cnt > 0, ref_cnt' = ref_cnt + 1
      PROVE  CountsReferences'
  <2>1. Cardinality(Held') = n + 1
    BY <1>0, <1>2, FS_AddElement
  <2> QED
    BY <1>0, <1>1, <1>2, <2>1 DEF CountsReferences
<1>3. ASSUME NEW u \in Users, u \in Held, Held' = Held \ {u},
             ref_cnt' = ref_cnt - Signum(ref_cnt)
      PROVE  CountsReferences'
  <2>1. Cardinality(Held') = n - 1
    BY <1>0, <1>3, FS_RemoveElement
  <2>2. n > 0
    BY <1>0, <1>3
  <2> QED
    BY <1>0, <1>1, <1>3, <2>1, <2>2 DEF CountsReferences, Signum
<1>4. CASE Held' = Held /\ ref_cnt > 0 /\ ref_cnt' = 1 - ref_cnt
  BY <1>0, <1>1, <1>4 DEF CountsReferences
<1>5. CASE Held' = Held /\ ref_cnt' = ref_cnt
  BY <1>1, <1>5 DEF CountsReferences
<1> QED
  BY <1>2, <1>3, <1>4, <1>5, CountEffect

-----------------------------------------------------------------------------
(* What a step does to the call into core: the compare-exchange that       *)
(* reaches 0 makes its process the finisher, the finisher makes the call.  *)
LEMMA FinishEffect ==
  ASSUME TypeOK, CountsReferences, [Next]_vars
  PROVE  \/ \E p \in Procs : /\ Finishers' = Finishers \cup {p}
                              /\ ref_cnt # 0 /\ ref_cnt' = 0
                              /\ coreCalls' = coreCalls
         \/ \E p \in Procs : /\ p \in Finishers /\ Finishers' = Finishers \ {p}
                              /\ ref_cnt' = ref_cnt /\ coreCalls' = coreCalls + 1
         \/ /\ Finishers' = Finishers /\ coreCalls' = coreCalls
            /\ ref_cnt' = ref_cnt \/ (ref_cnt # 0 /\ ref_cnt' # 0)
<1> DEFINE Enter(p) == /\ Finishers' = Finishers \cup {p}
                       /\ ref_cnt # 0 /\ ref_cnt' = 0
                       /\ coreCalls' = coreCalls
           Calls(p) == /\ p \in Finishers /\ Finishers' = Finishers \ {p}
                       /\ ref_cnt' = ref_cnt /\ coreCalls' = coreCalls + 1
           Same == /\ Finishers' = Finishers /\ coreCalls' = coreCalls
                   /\ ref_cnt' = ref_cnt \/ (ref_cnt # 0 /\ ref_cnt' # 0)
<1>0. Held # {} => ref_cnt # 0
  BY HeldFinite DEF CountsReferences, TypeOK
<1> USE ClosersAssumption, UsersAssumption
    DEF TypeOK, Procs, Load, CasOk, CasFail, CoreSame, OwnersSame, Finishers
<1>1. ASSUME NEW u \in Users, UserNext(u) PROVE Enter(u) \/ Same
  <2>1. CASE Clone(u) \/ DropClone(u) \/ StartOp(u) \/ AddRefCasFail(u)
             \/ UnrefCasFail(u)
    BY <2>1 DEF Clone, DropClone, StartOp, AddRefCasFail, UnrefCasFail
  <2>2. CASE AddRefLoad(u) \/ AddRefReject(u) \/ UnrefLoad(u) \/ AbortStart(u)
    BY <2>2 DEF AddRefLoad, AddRefReject, UnrefLoad, AbortStart
  <2>3. CASE AddRefCasOk(u)
    BY <2>3 DEF AddRefCasOk
  <2>4. CASE UnrefCasOk(u)
    <3>1. u \in Held
      BY <2>4 DEF UnrefCasOk, Held
    <3> QED
      BY <1>0, <2>4, <3>1 DEF UnrefCasOk, AfterUnref
  <2> QED
    BY <1>1, <2>1, <2>2, <2>3, <2>4 DEF UserNext
<1>2. ASSUME NEW c \in Closers, CloserNext(c) PROVE Enter(c) \/ Same
  BY <1>2 DEF CloserNext, ShutdownLoad, ShutdownSkip, ShutdownCasOk,
              ShutdownCasFail, ShutdownReturn
<1>3. ASSUME NEW p \in Procs, CoreShutdown(p) PROVE Calls(p)
  BY <1>3 DEF CoreShutdown, AfterCore, AfterUnref
<1>4. CASE OpComplete \/ QueueShutdown \/ Destroyed \/ UNCHANGED vars
  BY <1>4 DEF OpComplete, QueueShutdown, Destroyed, vars
<1> QED
  BY <1>1, <1>2, <1>3, <1>4 DEF Next

(* At most one process goes on to shut down core's queue, since only one   *)
(* exchange brings ref_cnt to 0 and none leaves 0 (cq.rs:41-44).           *)
LEMMA OnceStep ==
  ASSUME TypeOK, CountsReferences, CoreShutdownOnce, [Next]_vars
  PROVE  CoreShutdownOnce'
<1>0. coreCalls \in Nat /\ ref_cnt \in Int
  BY DEF TypeOK
<1>1. ASSUME NEW p \in Procs, Finishers' = Finishers \cup {p},
             ref_cnt # 0, ref_cnt' = 0, coreCalls' = coreCalls
      PROVE  CoreShutdownOnce'
  <2>1. Finishers' = {p} /\ coreCalls' = 0
    BY <1>1 DEF CoreShutdownOnce
  <2> QED
    BY <1>1, <2>1 DEF CoreShutdownOnce
<1>2. ASSUME NEW p \in Procs, p \in Finishers, Finishers' = Finishers \ {p},
             ref_cnt' = ref_cnt, coreCalls' = coreCalls + 1
      PROVE  CoreShutdownOnce'
  <2>1. ref_cnt = 0 /\ coreCalls = 0 /\ Finishers = {p}
    BY <1>2 DEF CoreShutdownOnce
  <2>2. Finishers' = {} /\ coreCalls' = 1
    BY <1>2, <2>1
  <2> QED
    BY <1>2, <2>1, <2>2 DEF CoreShutdownOnce
<1>3. CASE /\ Finishers' = Finishers /\ coreCalls' = coreCalls
           /\ ref_cnt' = ref_cnt \/ (ref_cnt # 0 /\ ref_cnt' # 0)
  BY <1>3 DEF CoreShutdownOnce
<1> QED
  BY <1>1, <1>2, <1>3, FinishEffect

(* Whoever is inside a function of the queue owns a clone of it, so that   *)
(* the queue is destroyed by its last owner only (cq.rs:110-114).          *)
LEMMA OwnershipStep ==
  ASSUME TypeOK, Ownership, [Next]_vars
  PROVE  Ownership'
<1> USE ClosersAssumption, UsersAssumption
    DEF TypeOK, Ownership, Procs, Load, CasOk, CasFail, CoreSame, OwnersSame,
        Release, Owned
<1>1. ASSUME NEW u \in Users, UserNext(u) PROVE Ownership'
  <2>0. u # Env
    OBVIOUS
  <2>1. CASE Clone(u)
    BY <2>0, <2>1 DEF Clone
  <2>2. CASE DropClone(u)
    BY <2>0, <2>2 DEF DropClone
  <2>3. CASE StartOp(u) \/ AddRefCasFail(u) \/ UnrefCasFail(u)
    BY <2>0, <2>3 DEF StartOp, AddRefCasFail, UnrefCasFail
  <2>4. CASE AddRefLoad(u) \/ AddRefReject(u) \/ UnrefLoad(u) \/ AbortStart(u)
    BY <2>0, <2>4 DEF AddRefLoad, AddRefReject, UnrefLoad, AbortStart
  <2>5. CASE AddRefCasOk(u) \/ UnrefCasOk(u)
    BY <2>0, <2>5 DEF AddRefCasOk, UnrefCasOk, AfterUnref
  <2> QED
    BY <1>1, <2>1, <2>2, <2>3, <2>4, <2>5 DEF UserNext
<1>2. ASSUME NEW c \in Closers, CloserNext(c) PROVE Ownership'
  <2>1. CASE ShutdownLoad(c) \/ ShutdownSkip(c)
    BY <2>1 DEF ShutdownLoad, ShutdownSkip
  <2>2. CASE ShutdownCasOk(c) \/ ShutdownCasFail(c)
    BY <2>2 DEF ShutdownCasOk, ShutdownCasFail
  <2>3. CASE ShutdownReturn(c)
    BY <2>3 DEF ShutdownReturn
  <2> QED
    BY <1>2, <2>1, <2>2, <2>3 DEF CloserNext
<1>3. ASSUME NEW p \in Procs, CoreShutdown(p) PROVE Ownership'
  BY <1>3 DEF CoreShutdown, AfterCore, AfterUnref
<1>4. CASE OpComplete
  BY <1>4 DEF OpComplete
<1>5. CASE QueueShutdown
  BY <1>5 DEF QueueShutdown
<1>6. CASE Destroyed \/ UNCHANGED vars
  BY <1>6 DEF Destroyed, vars
<1> QED
  BY <1>1, <1>2, <1>3, <1>4, <1>5, <1>6 DEF Next

(* After the poll thread left next() nothing is started any more: a live   *)
(* reference would have kept the count off 0.                              *)
LEMMA ExitedStep ==
  ASSUME TypeOK, CountsReferences, CoreShutdownOnce, ExitedDrained, [Next]_vars
  PROVE  ExitedDrained'
<1>0. Held # {} => coreCalls = 0
  BY HeldFinite DEF CountsReferences, CoreShutdownOnce, TypeOK
<1> USE DEF TypeOK, ExitedDrained, CoreFinished, CoreSame, OwnersSame, Release
<1>1. ASSUME NEW u \in Users, UserNext(u) PROVE ExitedDrained'
  <2>1. CASE Clone(u) \/ DropClone(u) \/ AddRefLoad(u) \/ AddRefReject(u)
    BY <2>1 DEF Clone, DropClone, AddRefLoad, AddRefReject
  <2>2. CASE StartOp(u)
    <3>1. u \in Held
      BY <2>2 DEF StartOp, Held
    <3> QED
      BY <1>0, <2>2, <3>1 DEF StartOp
  <2>3. CASE AbortStart(u)
    BY <2>3 DEF AbortStart
  <2>4. CASE AddRefCasOk(u) \/ AddRefCasFail(u) \/ UnrefLoad(u)
             \/ UnrefCasOk(u) \/ UnrefCasFail(u)
    BY <2>4 DEF AddRefCasOk, AddRefCasFail, UnrefLoad, UnrefCasOk, UnrefCasFail
  <2> QED
    BY <1>1, <2>1, <2>2, <2>3, <2>4 DEF UserNext
<1>2. ASSUME NEW c \in Closers, CloserNext(c) PROVE ExitedDrained'
  BY <1>2 DEF CloserNext, ShutdownLoad, ShutdownSkip, ShutdownCasOk,
              ShutdownCasFail, ShutdownReturn
<1>3. ASSUME NEW p \in Procs, CoreShutdown(p) PROVE ExitedDrained'
  BY <1>3 DEF CoreShutdown
<1>4. CASE OpComplete
  BY <1>4 DEF OpComplete
<1>5. CASE QueueShutdown
  BY <1>5 DEF QueueShutdown
<1>6. CASE Destroyed \/ UNCHANGED vars
  BY <1>6 DEF Destroyed, vars
<1> QED
  BY <1>1, <1>2, <1>3, <1>4, <1>5, <1>6 DEF Next

-----------------------------------------------------------------------------
(* A new queue, with one reference for the Environment, satisfies IInv.    *)
LEMMA InvInit == Init => IInv
<1> SUFFICES ASSUME Init PROVE IInv
  OBVIOUS
<1>1. TypeOK
  BY TypeInit
<1>2. Held = {} /\ Finishers = {}
  BY DEF Init, Held, Finishers, Procs
<1>3. CountsReferences
  BY <1>2, FS_EmptySet DEF CountsReferences, Init
<1>4. CoreShutdownOnce
  BY <1>2 DEF CoreShutdownOnce, Init
<1>5. Ownership
  BY ClosersAssumption DEF Ownership, Init, Owned, Procs
<1>6. ExitedDrained
  BY DEF ExitedDrained, Init
<1> QED
  BY <1>1, <1>3, <1>4, <1>5, <1>6 DEF IInv

(* Every step preserves IInv, conjunct by conjunct.                        *)
LEMMA InvStep == IInv /\ [Next]_vars => IInv'
BY TypeStep, CountStep, OnceStep, OwnershipStep, ExitedStep DEF IInv

(* IInv holds throughout.                                                  *)
LEMMA Invariance == Spec => []IInv
BY InvInit, InvStep, PTL DEF Spec

(* The variables of the queue keep their types.                            *)
THEOREM TypeCorrect == Spec => []TypeOK
<1>1. IInv => TypeOK
  BY DEF IInv
<1> QED
  BY <1>1, Invariance, PTL

(* ref_cnt counts the live CompletionQueueRefs, for any number of threads  *)
(* racing add_ref, unref and shutdown (cq.rs:38-107).                      *)
THEOREM CountIsExact == Spec => []CountsReferences
<1>1. IInv => CountsReferences
  BY DEF IInv
<1> QED
  BY <1>1, Invariance, PTL

(* grpc_completion_queue_shutdown is called at most once and by one        *)
(* process, exactly when the count is 0 (cq.rs:74-78, 102-106).            *)
THEOREM ShutdownOnce == Spec => []CoreShutdownOnce
<1>1. IInv => CoreShutdownOnce
  BY DEF IInv
<1> QED
  BY <1>1, Invariance, PTL

(* While a CompletionQueueRef lives, the queue behind as_ptr is neither    *)
(* shut down nor destroyed (cq.rs:120-130).                                *)
THEOREM RefProtectsQueue == Spec => []RefKeepsQueueOpen
<1>1. IInv => RefKeepsQueueOpen
  <2> SUFFICES ASSUME IInv, NEW u \in Held PROVE coreCalls = 0 /\ ~destroyed
    BY DEF RefKeepsQueueOpen
  <2>1. ref_cnt # 0
    BY HeldFinite DEF IInv, CountsReferences, TypeOK
  <2>2. coreCalls = 0
    BY <2>1 DEF IInv, CoreShutdownOnce
  <2>3. owners # {}
    BY DEF IInv, Ownership, Held
  <2> QED
    BY <2>2, <2>3 DEF IInv, Ownership, Owned
<1> QED
  BY <1>1, Invariance, PTL

(* grpc_completion_queue_destroy runs on a queue that was shut down once   *)
(* and drained, after its poll thread left the loop (cq.rs:110-114).       *)
THEOREM DestroyAfterDrain == Spec => []DestroyedDrained
<1>1. IInv => DestroyedDrained
  <2> SUFFICES ASSUME IInv, destroyed
      PROVE coreCalls = 1 /\ pending = 0 /\ poller = "exited"
    BY DEF DestroyedDrained
  <2>1. poller = "exited"
    BY DEF IInv, Ownership, Owned, TypeOK
  <2>2. coreCalls > 0 /\ pending = 0
    BY <2>1 DEF IInv, ExitedDrained, CoreFinished
  <2> QED
    BY <2>1, <2>2 DEF IInv, CoreShutdownOnce
<1> QED
  BY <1>1, Invariance, PTL

(* The reference counting of cq.rs implements the rundown protocol: every  *)
(* step is a Borrow, a GiveBack, the Close, the one Shut, or invisible.    *)
THEOREM Refinement == Spec => ImplementsRundown
<1>1. Init => Promise!Init
  <2> SUFFICES ASSUME Init PROVE Promise!Init
    OBVIOUS
  <2>1. Held = {}
    BY DEF Init, Held, Procs
  <2>2. ref_cnt > 0 /\ ~(coreCalls > 0)
    BY DEF Init
  <2>3. (ref_cnt > 0) = TRUE /\ (coreCalls > 0) = FALSE
    BY <2>2
  <2> QED
    BY <2>1, <2>3, Zenon DEF Promise!Init
<1>2. IInv /\ IInv' /\ [Next]_vars => [Promise!Next]_(Promise!vars)
  <2> SUFFICES ASSUME IInv, IInv', [Next]_vars
               PROVE  [Promise!Next]_(Promise!vars)
    OBVIOUS
  <2> USE DEF Promise!Next, Promise!vars, Promise!Borrow, Promise!GiveBack,
              Promise!Close, Promise!Shut
  <2>0. /\ ref_cnt \in Int /\ ref_cnt' \in Int
        /\ coreCalls \in Nat /\ coreCalls' \in Nat
        /\ Held # {} => ref_cnt # 0 /\ coreCalls = 0
        /\ ref_cnt = 0 => Held = {}
        /\ ref_cnt # 0 => coreCalls = 0 /\ Finishers = {}
        /\ Finishers # {} => coreCalls = 0
    BY HeldFinite DEF IInv, TypeOK, CountsReferences, CoreShutdownOnce
  <2>1. ASSUME NEW u \in Users, u \notin Held, Held' = Held \cup {u},
               ref_cnt > 0, ref_cnt' = ref_cnt + 1, coreCalls' = coreCalls
        PROVE  Promise!Borrow(u)
    BY <2>0, <2>1
  <2>2. ASSUME NEW u \in Users, u \in Held, Held' = Held \ {u},
               ref_cnt' = ref_cnt - Signum(ref_cnt), coreCalls' = coreCalls
        PROVE  Promise!GiveBack(u)
    <3>1. ref_cnt > 0 => ref_cnt > 1
      <4>1. Cardinality(Held) \in Nat /\ Cardinality(Held) # 0
        BY <2>2, HeldFinite
      <4> QED
        BY <2>0, <4>1 DEF IInv, CountsReferences
    <3> QED
      BY <2>0, <2>2, <3>1 DEF Signum
  <2>3. ASSUME Held' = Held, ref_cnt > 0, ref_cnt' = 1 - ref_cnt,
               coreCalls' = coreCalls
        PROVE  Promise!Close
    BY <2>0, <2>3
  <2>4. ASSUME Held' = Held, ref_cnt' = ref_cnt,
               coreCalls' = coreCalls \/ Finishers # {}
        PROVE  Promise!Shut \/ UNCHANGED Promise!vars
    BY <2>0, <2>4
  <2> QED
    BY <2>1, <2>2, <2>3, <2>4, CountEffect DEF IInv
<1> QED
  BY <1>1, <1>2, Invariance, PTL DEF Spec, ImplementsRundown, Promise!Spec
=============================================================================
