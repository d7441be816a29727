------------------------------- MODULE RpcProofs -------------------------------
(***************************************************************************)
(* Proofs about Executor and Rpc, for any tasks and threads, any number of *)
(* wakes, all kinds of calls and any number of messages.                   *)
(*                                                                         *)
(* Executor: the steps of spawn and poll, of wake_by_ref and of poll_queue *)
(* keep the inductive invariant TaskInv, and with it poll never panics, a  *)
(* future is run by one thread at a time, and no notification is lost or   *)
(* doubled.                                                                *)
(*                                                                         *)
(* Rpc: the batches that either side starts and core completes keep the    *)
(* inductive invariant IInv, and with it core accepts every batch, and the *)
(* result the client sees is the answer of the handler.                    *)
(***************************************************************************)
EXTENDS Executor, Rpc, TLAPS

-----------------------------------------------------------------------------
(* The tasks of the poll threads.                                          *)

(* Type correctness of every step of poll, wake_by_ref and poll_queue.     *)
LEMMA TypeInit == TaskInit => TaskTypeOK
<1> SUFFICES ASSUME TaskInit PROVE TaskTypeOK
  BY Zenon
<1>1. (CHOOSE k \in Tasks : TRUE) \in Tasks
  BY TasksAssumption, Zenon
<1>2. /\ ptask \in [Threads -> Tasks] /\ wtask \in [Threads -> Tasks]
      /\ state \in [Tasks -> TaskStates] /\ handle \in [Tasks -> BOOLEAN]
      /\ ppc \in [Threads -> {"none", "cas", "user", "take"}]
      /\ init \in [Threads -> {"IDLE", "NOTIFIED"}]
      /\ wpc \in [Threads -> WakeSteps] /\ kicks \in [Tasks -> Nat]
  BY <1>1, Zenon DEF TaskInit, TaskStates, WakeSteps
<1>3. /\ panicked \in BOOLEAN /\ open \in BOOLEAN /\ shut \in BOOLEAN
      /\ wakers \subseteq Tasks /\ lost \subseteq Tasks /\ due \subseteq Tasks /\ holding \subseteq Threads
  BY Zenon DEF TaskInit, Cq!Init
<1>4. work \in Seq(Tasks) /\ loop \in {"next", "resolve", "drain", "exited"} /\ wakes \in Nat
  BY DEF TaskInit
<1> QED
  BY <1>2, <1>3, <1>4, Zenon DEF TaskTypeOK

(* Every step of poll, of wake_by_ref and of the loop keeps the types.     *)
LEMMA TypeStep == ASSUME TaskTypeOK, [TaskNext]_taskVars PROVE TaskTypeOK'
<1>0. Poller \in Threads
  BY Zenon DEF Threads, OnPoll
<1> USE DEF TaskTypeOK, TaskStates, WakeSteps, pollVars, wakeVars, cqVars
<1>1. ASSUME NEW t \in Threads, NEW k \in Tasks, Spawn(t, k) \/ Wake(t, k)
      PROVE  TaskTypeOK'
  <2>1. CASE Spawn(t, k)
    BY <2>1, Zenon DEF Spawn, Enter
  <2>2. CASE Wake(t, k)
    BY <2>2 DEF Wake, WakeSame
  <2> QED
    BY <1>1, <2>1, <2>2, Zenon
<1>2. ASSUME NEW t \in Threads, PollNext(t) PROVE TaskTypeOK'
  <2>1. CASE PollBegin(t)
    BY <2>1 DEF PollBegin
  <2>2. CASE PollCompleted(t)
    BY <2>2, Zenon DEF PollCompleted
  <2>3. CASE PollReady(t)
    BY <2>3, Zenon DEF PollReady
  <2>4. CASE TakeHandle(t)
    BY <2>4, Zenon DEF TakeHandle
  <2>5. CASE PollPending(t)
    BY <2>5, Zenon DEF PollPending
  <2> QED
    BY <1>2, <2>1, <2>2, <2>3, <2>4, <2>5, Zenon DEF PollNext
<1>3. ASSUME NEW t \in Threads, WakeNext(t) PROVE TaskTypeOK'
  <2> USE DEF WakeSame
  <2>1. CASE MarkIdle(t)
    BY <2>1, Zenon DEF MarkIdle
  <2>2. CASE MarkBusy(t)
    BY <2>2, Zenon DEF MarkBusy
  <2>3. CASE MarkPolling(t)
    BY <2>3, Zenon DEF MarkPolling
  <2>4. CASE MarkAgain(t)
    BY <2>4, Zenon DEF MarkAgain
  <2>5. CASE PushWork(t)
    BY <2>5 DEF PushWork
  <2>6. CASE PushRefused(t)
    BY <2>6, Zenon DEF PushRefused
  <2>7. CASE KickBorrow(t)
    BY <2>7, Zenon DEF KickBorrow, Cq!Borrow
  <2>8. CASE KickRejected(t)
    BY <2>8, Zenon DEF KickRejected
  <2>9. CASE KickCore(t)
    BY <2>9 DEF KickCore
  <2>10. CASE KickDone(t)
    BY <2>10, Zenon DEF KickDone, Cq!GiveBack
  <2> QED
    BY <1>3, <2>1, <2>2, <2>3, <2>4, <2>5, <2>6, <2>7, <2>8, <2>9, <2>10, Zenon DEF WakeNext
<1>4. CASE LoopNext
  <2> USE DEF LoopSame
  <2>1. ASSUME NEW k \in Tasks, NextSpawn(k) PROVE TaskTypeOK'
    BY <1>0, <2>1, SMTT(60) DEF NextSpawn, Enter
  <2>2. CASE NextCallback \/ Resolved \/ Drained \/ NextShutdown
    BY <2>2 DEF NextCallback, Resolved, Drained, NextShutdown
  <2>3. CASE PopWork
    <3>1. Len(work) \in 1..Len(work) /\ work[Len(work)] \in Tasks
      BY <2>3 DEF PopWork
    <3> QED
      BY <1>0, <2>3, <3>1 DEF PopWork, Enter
  <2> QED
    BY <1>4, <2>1, <2>2, <2>3, Zenon DEF LoopNext
<1>5. CASE CloseQueue
  BY <1>5, Zenon DEF CloseQueue, Cq!Close, Cq!Shut
<1>6. CASE Stopped \/ UNCHANGED taskVars
  BY <1>6, Zenon DEF Stopped, taskVars
<1> QED
  BY <1>1, <1>2, <1>3, <1>4, <1>5, <1>6, Zenon DEF TaskNext

-----------------------------------------------------------------------------
(* A step that moves no notification and ends no poll leaves every         *)
(* NOTIFIED task accounted for.                                            *)
LEMMA CarriedSame ==
  ASSUME NEW k \in Tasks, UNCHANGED <<wpc, wtask, work, kicks>>
  PROVE  Carried(k)' <=> Carried(k)
BY Zenon DEF Carried, InHand, InWork, InCore

(* Who polls what is read off ppc and ptask.                               *)
LEMMA PollsSame ==
  ASSUME NEW k \in Tasks, UNCHANGED <<ppc, ptask>>
  PROVE  \A t \in Threads : Polls(t, k)' <=> Polls(t, k)
BY Zenon DEF Polls

(* A task that nobody woke or polls: what spawn and a fresh wake rely on.  *)
LEMMA NobodyPolls ==
  ASSUME TaskInv, NEW k \in Tasks,
         state[k] = "unborn" \/ (state[k] = "IDLE" /\ k \in wakers) \/ Carried(k)
  PROVE  \A t \in Threads : ~Polls(t, k)
<1> SUFFICES ASSUME NEW t \in Threads, Polls(t, k), ~Carried(k) PROVE FALSE
  BY Zenon DEF TaskInv, Tokens
<1>1. ptask[t] = k /\ ppc[t] \in {"cas", "user", "take"} /\ init[t] \in {"IDLE", "NOTIFIED"}
  BY Zenon DEF Polls, TaskInv, TaskTypeOK
<1> QED
  BY <1>1, Zenon DEF TaskInv, Owners

(* Executor::spawn (executor.rs:248-255) enters poll for a task that       *)
(* nobody else can know of.                                                *)
LEMMA SpawnInv ==
  ASSUME TaskInv, TaskTypeOK', NEW t \in Threads, NEW k \in Tasks, Spawn(t, k)
  PROVE  TaskInv'
<1>0. \A u \in Threads : ~Polls(u, k)
  BY NobodyPolls, ZenonT(60) DEF Spawn
<1> USE DEF TaskInv, TaskTypeOK, pollVars, wakeVars, cqVars, Spawn, Enter
<1>1. Owners'
  <2>1. k \notin wakers /\ (t = Poller => loop # "next")
    BY Zenon DEF Lives, InUserCode
  <2>2. \A u \in Threads \ {t} : /\ ppc'[u] = ppc[u] /\ ptask'[u] = ptask[u]
                               /\ init'[u] = init[u]
                               /\ ppc[u] # "none" => ptask[u] # k
    BY <1>0, ZenonT(60) DEF Polls
  <2>3. ppc'[t] = "cas" /\ ptask'[t] = k /\ init'[t] = "IDLE" /\ state'[k] = "IDLE"
    BY SMTT(60)
  <2> QED
    BY <2>1, <2>2, <2>3 DEF Owners
<1>2. Lives' /\ LostClosed' /\ NoPanic'
  BY DEF Lives, Polls, LostClosed, NoPanic
<1>3. \A j \in Tasks : Carried(j)' <=> Carried(j)
  BY CarriedSame, ZenonT(60)
<1>4. Tokens'
  BY <1>3, SMTT(60) DEF Tokens, Polls
<1>5. NotDoubled'
  BY DEF NotDoubled, InHand, InWork, InCore
<1>6. Accounted'
  <2> SUFFICES ASSUME NEW j \in Tasks, state'[j] = "NOTIFIED" PROVE Placed(j)'
    BY Zenon DEF Accounted
  <2>1. state[j] = "NOTIFIED" /\ j # k
    BY ZenonT(60)
  <2>2. Placed(j)
    BY <2>1, Zenon DEF Accounted
  <2>3. \A u \in Threads : Polls(u, j) => Polls(u, j)'
    BY SMTT(60) DEF Polls
  <2> QED
    BY <1>3, <2>2, <2>3, Zenon DEF Placed
<1>7. WakeNotDropped'
  <2>1. UNCHANGED <<due, wpc, wtask>> /\ \A j \in Tasks \ {k} : state'[j] = state[j]
    BY SMTT(60)
  <2>2. \A u \in Threads : ~Marks(u, k)
    BY DEF Marks, Owners, Lives
  <2>3. k \notin due
    BY <2>2, Zenon DEF WakeNotDropped
  <2> QED
    BY <2>1, <2>3, SMTT(60) DEF WakeNotDropped, Marks
<1> QED
  BY <1>1, <1>2, <1>4, <1>5, <1>6, <1>7, Zenon DEF TaskInv

-----------------------------------------------------------------------------
(* The thread inside poll is alone with its task and knows its state, so   *)
(* neither panic! is reached.                                              *)
LEMMA PollFacts ==
  ASSUME TaskInv, NEW t \in Threads
  PROVE  /\ ppc[t] = "cas" => \/ state[ptask[t]] = init[t]
                              \/ state[ptask[t]] = "COMPLETED"
         /\ ppc[t] = "user" => state[ptask[t]] \in {"POLLING", "NOTIFIED"}
         /\ ppc[t] = "take" => state[ptask[t]] = "COMPLETED"
         /\ ppc[t] # "none" => /\ \A u \in Threads \ {t} : ~Polls(u, ptask[t])
                               /\ ~Carried(ptask[t])
         /\ ptask[t] \in Tasks
BY DEF TaskInv, TaskTypeOK, Owners, Tokens, Polls

(* Every step of poll (executor.rs:184-227) keeps the invariant.           *)
LEMMA PollInv ==
  ASSUME TaskInv, TaskTypeOK', NEW t \in Threads, PollNext(t)
  PROVE  TaskInv'
<1> DEFINE k == ptask[t]
<1>0. /\ k \in Tasks /\ ~Carried(k) /\ ppc[t] # "none"
      /\ \A u \in Threads \ {t} : ~Polls(u, k)
  BY PollFacts, Zenon DEF PollNext, PollBegin, PollCompleted, PollReady, TakeHandle, PollPending
<1> USE DEF TaskInv, TaskTypeOK, pollVars, wakeVars, cqVars
<1>01. /\ ppc[t] = "user" => state[k] \in {"POLLING", "NOTIFIED"}
       /\ ppc[t] = "take" => state[k] = "COMPLETED"
       /\ ppc[t] = "cas" => state[k] = init[t] \/ state[k] = "COMPLETED"
       /\ init[t] \in {"IDLE", "NOTIFIED"}
  BY PollFacts, Zenon
<1>02. ppc[t] \in {"user", "take"} \/ state[k] \in {"IDLE", "NOTIFIED", "POLLING"} => handle[k]
  BY <1>0, <1>01, Zenon DEF Lives, Owners
<1>1. /\ UNCHANGED <<wpc, wtask, work, kicks, lost, open, loop, ptask>>
      /\ \A u \in Threads \ {t} : ppc'[u] = ppc[u] /\ init'[u] = init[u]
      /\ \A j \in Tasks \ {k} : state'[j] = state[j] /\ handle'[j] = handle[j]
      /\ wakers \subseteq wakers' /\ wakers' \subseteq wakers \cup {k}
      /\ due' \subseteq due
  <2>1. CASE PollBegin(t)
    BY <1>0, <2>1, Zenon DEF PollBegin
  <2>2. CASE PollCompleted(t)
    BY <1>0, <2>2, Zenon DEF PollCompleted
  <2>3. CASE PollReady(t)
    BY <1>0, <2>3, Zenon DEF PollReady
  <2>4. CASE TakeHandle(t)
    BY <1>0, <2>4, SMTT(60) DEF TakeHandle
  <2>5. CASE PollPending(t)
    BY <1>0, <2>5 DEF PollPending
  <2> QED
    BY <2>1, <2>2, <2>3, <2>4, <2>5, Zenon DEF PollNext
<1>2. \A j \in Tasks : Carried(j)' <=> Carried(j)
  BY <1>1, CarriedSame, Zenon
<1>3. \A j \in Tasks \ {k}, u \in Threads : Polls(u, j)' <=> Polls(u, j)
  BY <1>1, ZenonT(60) DEF Polls
<1>4. NotDoubled' /\ LostClosed'
  BY <1>1, SMTT(60) DEF NotDoubled, LostClosed, InHand, InWork, InCore
<1>5. Tokens'
  BY <1>0, <1>1, <1>2, <1>3 DEF Tokens
<1>60. /\ ppc'[t] = "user" => state'[k] \in {"POLLING", "NOTIFIED"}
       /\ ppc'[t] = "take" => state'[k] = "COMPLETED"
       /\ ppc'[t] = "cas" => state'[k] \in {init'[t], "COMPLETED"} /\ state'[k] # "IDLE"
       /\ state'[k] # "unborn"
       /\ state'[k] \in {"POLLING", "NOTIFIED"} => ppc'[t] # "none"
       /\ k \in due' /\ state[k] \in {"NOTIFIED", "COMPLETED"} =>
            state'[k] \in {"NOTIFIED", "COMPLETED"}
  <2>1. CASE PollBegin(t)
    BY <1>0, <1>01, <2>1, Zenon DEF PollBegin
  <2>2. CASE PollCompleted(t)
    BY <1>0, <1>01, <2>2, Zenon DEF PollCompleted
  <2>3. CASE PollReady(t)
    BY <1>0, <1>01, <2>3, Zenon DEF PollReady
  <2>4. CASE TakeHandle(t)
    BY <1>0, <1>01, <2>4, Zenon DEF TakeHandle
  <2>5. CASE PollPending(t)
    BY <1>0, <1>01, <2>5, Zenon DEF PollPending
  <2> QED
    BY <2>1, <2>2, <2>3, <2>4, <2>5, Zenon DEF PollNext
<1>61. ppc'[t] = "take" \/ state'[k] \in {"IDLE", "NOTIFIED", "POLLING"} => handle'[k]
  <2>1. CASE PollBegin(t)
    BY <1>0, <1>01, <1>02, <2>1, Zenon DEF PollBegin
  <2>2. CASE PollCompleted(t)
    BY <1>0, <1>01, <1>02, <2>2, Zenon DEF PollCompleted
  <2>3. CASE PollReady(t)
    BY <1>0, <1>01, <1>02, <2>3, Zenon DEF PollReady
  <2>4. CASE TakeHandle(t)
    BY <1>0, <1>01, <1>02, <2>4, Zenon DEF TakeHandle
  <2>5. CASE PollPending(t)
    BY <1>0, <1>01, <1>02, <2>5, Zenon DEF PollPending
  <2> QED
    BY <2>1, <2>2, <2>3, <2>4, <2>5, Zenon DEF PollNext
<1>62. ~panicked'
  <2>1. CASE PollBegin(t)
    BY <1>01, <2>1, Zenon DEF PollBegin, NoPanic
  <2>2. CASE PollCompleted(t)
    BY <1>01, <2>2, Zenon DEF PollCompleted, NoPanic
  <2>3. CASE PollReady(t)
    BY <1>01, <2>3, Zenon DEF PollReady, NoPanic
  <2>4. CASE TakeHandle(t)
    BY <1>01, <2>4, Zenon DEF TakeHandle, NoPanic
  <2>5. CASE PollPending(t)
    BY <1>01, <2>5, Zenon DEF PollPending, NoPanic
  <2> QED
    BY <2>1, <2>2, <2>3, <2>4, <2>5, Zenon DEF PollNext
<1>6. /\ ppc'[t] = "user" => state'[k] \in {"POLLING", "NOTIFIED"}
      /\ ppc'[t] = "take" => state'[k] = "COMPLETED" /\ handle'[k]
      /\ ppc'[t] = "cas" => state'[k] \in {init'[t], "COMPLETED"} /\ state'[k] # "IDLE"
      /\ state'[k] \in {"IDLE", "NOTIFIED", "POLLING"} => handle'[k]
      /\ state'[k] # "unborn"
      /\ state'[k] \in {"POLLING", "NOTIFIED"} => ppc'[t] # "none"
      /\ k \in due' /\ state[k] \in {"NOTIFIED", "COMPLETED"} =>
           state'[k] \in {"NOTIFIED", "COMPLETED"}
      /\ ~panicked'
  BY <1>60, <1>61, <1>62, ZenonT(60)
<1>7. Owners'
  <2>1. \A u \in Threads \ {t} : ppc[u] # "none" => ptask[u] # k
    BY <1>0, Zenon DEF Polls
  <2>2. \A u, v \in Threads :
          ppc'[u] # "none" /\ ppc'[v] # "none" /\ ptask'[u] = ptask'[v] => u = v
    <3> SUFFICES ASSUME NEW u \in Threads, NEW v \in Threads, u # v, ppc'[u] # "none",
                        ppc'[v] # "none", ptask'[u] = ptask'[v]
                 PROVE  FALSE
      BY Zenon
    <3>1. ptask[u] = ptask[v]
      BY <1>1, Zenon
    <3>2. CASE u = t
      BY <1>1, <2>1, <3>1, <3>2, Zenon
    <3>3. CASE v = t
      BY <1>1, <2>1, <3>1, <3>3, Zenon
    <3>4. CASE u # t /\ v # t
      <4>1. ppc[u] # "none" /\ ppc[v] # "none"
        BY <1>1, <3>4, Zenon
      <4>2. \A a, b \in Threads : ppc[a] # "none" /\ ppc[b] # "none" /\ ptask[a] = ptask[b] => a = b
        BY Zenon DEF Owners
      <4> HIDE DEF TaskInv, TaskTypeOK
      <4> QED
        BY <3>1, <4>1, <4>2, Zenon
    <3> QED
      BY <3>2, <3>3, <3>4, Zenon
  <2>3. loop' = "next" => ppc'[Poller] = "none"
    BY <1>0, <1>1, ZenonT(60) DEF Owners, Threads, OnPoll
  <2>4. ASSUME NEW u \in Threads \ {t}
        PROVE  /\ ppc'[u] = "user" => state'[ptask'[u]] \in {"POLLING", "NOTIFIED"}
               /\ ppc'[u] = "take" => state'[ptask'[u]] = "COMPLETED" /\ handle'[ptask'[u]]
               /\ ppc'[u] = "cas" => state'[ptask'[u]] \in {init'[u], "COMPLETED"}
               /\ ppc'[u] = "cas" /\ state'[ptask'[u]] = "IDLE" => ptask'[u] \notin wakers'
    <3>1. ppc[u] # "none" => ptask[u] \in Tasks \ {k}
      BY <2>1, Zenon
    <3> QED
      BY <1>1, <3>1, ZenonT(60) DEF Owners
  <2>5. \A u \in Threads : wpc'[u] # "none" => wtask'[u] \in wakers'
    BY <1>1, Zenon DEF Owners
  <2> QED
    BY <1>0, <1>1, <1>6, <2>2, <2>3, <2>4, <2>5, ZenonT(60) DEF Owners
<1>8. Lives'
  <2> SUFFICES ASSUME NEW j \in Tasks
      PROVE /\ state'[j] \in {"IDLE", "NOTIFIED", "POLLING"} => handle'[j]
            /\ state'[j] = "unborn" => j \notin wakers'
            /\ state'[j] = "POLLING" => \E u \in Threads : Polls(u, j)'
    BY Zenon DEF Lives
  <2>1. CASE j = k
    BY <1>1, <1>6, <2>1, Zenon DEF Polls
  <2>2. CASE j # k
    BY <1>1, <1>3, <2>2 DEF Lives
  <2> QED
    BY <2>1, <2>2, Zenon
<1>9. Accounted'
  <2> SUFFICES ASSUME NEW j \in Tasks, state'[j] = "NOTIFIED" PROVE Placed(j)'
    BY Zenon DEF Accounted
  <2>1. CASE j = k
    BY <1>1, <1>6, <2>1, Zenon DEF Polls, Placed
  <2>2. CASE j # k
    <3>1. Placed(j)
      BY <1>1, <2>2, Zenon DEF Accounted
    <3> QED
      BY <1>1, <1>2, <1>3, <2>2, <3>1, Zenon DEF Placed
  <2> QED
    BY <2>1, <2>2, Zenon
<1>10. WakeNotDropped'
  <2> SUFFICES ASSUME NEW j \in due', ~(state'[j] \in {"NOTIFIED", "COMPLETED"})
               PROVE  \E u \in Threads : Marks(u, j)'
    BY Zenon DEF WakeNotDropped
  <2>1. j \in due /\ j \in Tasks /\ ~(state[j] \in {"NOTIFIED", "COMPLETED"})
    BY <1>1, <1>6, SMTT(60)
  <2> QED
    BY <1>1, <2>1, ZenonT(60) DEF WakeNotDropped, Marks
<1> QED
  BY <1>4, <1>5, <1>6, <1>7, <1>8, <1>9, <1>10, Zenon DEF TaskInv, NoPanic
-----------------------------------------------------------------------------
(* The steps of wake_by_ref.                                               *)

(* push_work (executor.rs:156) adds the woken task after the last one of   *)
(* the work queue and moves none.                                          *)
LEMMA Pushed ==
  ASSUME TaskInv, NEW t \in Threads, PushWork(t)
  PROVE  /\ DOMAIN work' = 1..(Len(work) + 1) /\ DOMAIN work = 1..Len(work)
         /\ DOMAIN work' = DOMAIN work \cup {Len(work) + 1}
         /\ Len(work) + 1 \notin DOMAIN work
         /\ \A i \in DOMAIN work : work'[i] = work[i]
         /\ work'[Len(work) + 1] = wtask[t]
<1>1. work' = Append(work, wtask[t]) /\ work \in Seq(Tasks) /\ wtask[t] \in Tasks
  BY Zenon DEF PushWork, TaskInv, TaskTypeOK
<1> QED
  BY <1>1, SMT

(* What a step of wake_by_ref leaves alone, and where it may turn a task   *)
(* NOTIFIED.                                                               *)
WakeEffect(t) ==
  /\ UNCHANGED <<ppc, ptask, init, handle, wakers, loop, panicked, open, wtask, due>>
  /\ wpc[t] # "none"
  /\ \A u \in Threads \ {t} : wpc'[u] = wpc[u]
  /\ \A j \in Tasks \ {wtask[t]} : state'[j] = state[j]
  /\ \/ state'[wtask[t]] = state[wtask[t]]
     \/ /\ state'[wtask[t]] = "NOTIFIED"
        /\ state[wtask[t]] \in {"IDLE", "POLLING"}
  /\ lost \subseteq lost'
  /\ lost' # {} => lost # {} \/ ~open

(* Every step of wake_by_ref (executor.rs:110-166) is one of these.        *)
LEMMA WakeEffects ==
  ASSUME TaskInv, NEW t \in Threads, WakeNext(t) PROVE WakeEffect(t)
<1> USE DEF WakeEffect, TaskInv, TaskTypeOK, WakeSame, pollVars, cqVars
<1>1. CASE MarkIdle(t)
  BY <1>1, Zenon DEF MarkIdle
<1>2. CASE MarkBusy(t)
  BY <1>2, Zenon DEF MarkBusy
<1>3. CASE MarkPolling(t)
  BY <1>3, Zenon DEF MarkPolling
<1>4. CASE MarkAgain(t)
  BY <1>4, Zenon DEF MarkAgain
<1>5. CASE PushWork(t)
  BY <1>5, Zenon DEF PushWork
<1>6. CASE PushRefused(t)
  BY <1>6, Zenon DEF PushRefused
<1>7. CASE KickBorrow(t)
  BY <1>7, Zenon DEF KickBorrow, Cq!Borrow
<1>8. CASE KickRejected(t)
  BY <1>8, Zenon DEF KickRejected
<1>9. CASE KickCore(t)
  BY <1>9, Zenon DEF KickCore
<1>10. CASE KickDone(t)
  BY <1>10, Zenon DEF KickDone, Cq!GiveBack
<1> QED
  BY <1>1, <1>2, <1>3, <1>4, <1>5, <1>6, <1>7, <1>8, <1>9, <1>10, Zenon DEF WakeNext

(* Where a notification is depends on the three places only.               *)
LEMMA CarriedFrom ==
  ASSUME NEW j \in Tasks,
         \A u \in Threads : InHand(u, j)' <=> InHand(u, j),
         (\E i \in DOMAIN work : InWork(i, j))' <=> \E i \in DOMAIN work : InWork(i, j),
         kicks'[j] = kicks[j]
  PROVE  Carried(j)' <=> Carried(j)
BY Zenon DEF Carried, InCore

(* A notification appears when an IDLE task is marked, disappears when a   *)
(* kick is rejected, and otherwise only moves.                             *)
LEMMA WakeCarries ==
  ASSUME TaskInv, NEW t \in Threads, WakeNext(t)
  PROVE  /\ \A j \in Tasks \ {wtask[t]} : Carried(j)' <=> Carried(j)
         /\ Carried(wtask[t])' <=> \/ Carried(wtask[t]) /\ ~KickRejected(t)
                                   \/ MarkIdle(t)
<1> USE DEF TaskInv, TaskTypeOK, WakeSame, pollVars, cqVars, InHand, InWork, InCore
<1>1. CASE MarkIdle(t)
  BY <1>1, Zenon DEF MarkIdle, KickRejected, Carried
<1>2. CASE MarkBusy(t) \/ MarkPolling(t) \/ MarkAgain(t)
  <2>1. ~KickRejected(t) /\ ~MarkIdle(t)
    BY <1>2, Zenon DEF MarkBusy, MarkPolling, MarkAgain, KickRejected, MarkIdle
  <2>2. \A u \in Threads, j \in Tasks : InHand(u, j)' <=> InHand(u, j)
    BY <1>2 DEF MarkBusy, MarkPolling, MarkAgain
  <2>3. UNCHANGED <<work, kicks, wtask>>
    BY <1>2, Zenon DEF MarkBusy, MarkPolling, MarkAgain
  <2>4. \A j \in Tasks : Carried(j)' <=> Carried(j)
    BY <2>2, <2>3, CarriedFrom, Zenon
  <2> QED
    BY <2>1, <2>3, <2>4, Zenon
<1>3. CASE PushWork(t)
  <2>1. ~KickRejected(t) /\ ~MarkIdle(t)
    BY <1>3, Zenon DEF PushWork, KickRejected, MarkIdle
  <2>2. /\ DOMAIN work' = DOMAIN work \cup {Len(work) + 1}
        /\ \A i \in DOMAIN work : work'[i] = work[i]
        /\ work'[Len(work) + 1] = wtask[t]
    BY <1>3, Pushed, Zenon
  <2>3. \A j \in Tasks \ {wtask[t]} : Carried(j)' <=> Carried(j)
    <3>1. \A j \in Tasks \ {wtask[t]}, u \in Threads : InHand(u, j)' <=> InHand(u, j)
      BY <1>3, Zenon DEF PushWork
    <3>2. UNCHANGED kicks
      BY <1>3, Zenon DEF PushWork
    <3>3. ASSUME NEW j \in Tasks \ {wtask[t]}
          PROVE  (\E i \in DOMAIN work : InWork(i, j))' <=> \E i \in DOMAIN work : InWork(i, j)
      <4>1. \A i : InWork(i, j)' <=> InWork(i, j)
        BY <2>2, Zenon
      <4> QED
        BY <2>2, <4>1, ZenonT(60)
    <3> QED
      BY <3>1, <3>2, <3>3, CarriedFrom, Zenon
  <2>4. Carried(wtask[t])' /\ Carried(wtask[t])
    <3>1. InHand(t, wtask[t]) /\ UNCHANGED wtask
      BY <1>3, Zenon DEF PushWork
    <3>2. \E i \in DOMAIN work' : i \in DOMAIN work' /\ work'[i] = wtask'[t]
      <4>1. Len(work) + 1 \in DOMAIN work' /\ work'[Len(work) + 1] = wtask'[t]
        BY <2>2, <3>1, Zenon
      <4> QED
        BY <4>1, ZenonT(60)
    <3> QED
      BY <3>1, <3>2, Zenon DEF Carried
  <2> QED
    BY <2>1, <2>3, <2>4, Zenon
<1>4. CASE PushRefused(t) \/ KickBorrow(t) \/ KickDone(t)
  <2>1. ~KickRejected(t) /\ ~MarkIdle(t)
    BY <1>4, Zenon DEF PushRefused, KickBorrow, KickDone, KickRejected, MarkIdle, Cq!Borrow
  <2>2. \A u \in Threads, j \in Tasks : InHand(u, j)' <=> InHand(u, j)
    <3>1. CASE PushRefused(t)
      BY <3>1, Zenon DEF PushRefused
    <3>2. CASE KickBorrow(t)
      BY <3>2, Zenon DEF KickBorrow
    <3>3. CASE KickDone(t)
      BY <3>3, Zenon DEF KickDone
    <3> QED
      BY <1>4, <3>1, <3>2, <3>3, Zenon
  <2>3. UNCHANGED <<work, kicks, wtask>>
    BY <1>4, Zenon DEF PushRefused, KickBorrow, KickDone
  <2>4. \A j \in Tasks : Carried(j)' <=> Carried(j)
    BY <2>2, <2>3, CarriedFrom
  <2> QED
    BY <2>1, <2>3, <2>4
<1>5. CASE KickRejected(t)
  <2>1. ~MarkIdle(t) /\ InHand(t, wtask[t])
    BY <1>5, Zenon DEF KickRejected, MarkIdle
  <2>2. ~Carried(wtask[t])'
    BY <1>5, <2>1, Zenon DEF KickRejected, Carried, NotDoubled
  <2>3. \A j \in Tasks \ {wtask[t]}, u \in Threads : InHand(u, j)' <=> InHand(u, j)
    BY <1>5, Zenon DEF KickRejected
  <2>4. UNCHANGED <<work, kicks>>
    BY <1>5, Zenon DEF KickRejected
  <2>5. \A j \in Tasks \ {wtask[t]} : Carried(j)' <=> Carried(j)
    BY <2>3, <2>4, CarriedFrom, Zenon
  <2> QED
    BY <1>5, <2>1, <2>2, <2>5, Zenon
<1>6. CASE KickCore(t)
  <2>1. ~KickRejected(t) /\ ~MarkIdle(t)
    BY <1>6, Zenon DEF KickCore, KickRejected, MarkIdle
  <2>2. Carried(wtask[t])' /\ Carried(wtask[t])
    BY <1>6 DEF KickCore, Carried
  <2>3. \A j \in Tasks \ {wtask[t]}, u \in Threads : InHand(u, j)' <=> InHand(u, j)
    BY <1>6, Zenon DEF KickCore
  <2>4. /\ UNCHANGED work
        /\ \A j \in Tasks \ {wtask[t]} : kicks'[j] = kicks[j]
    BY <1>6, Zenon DEF KickCore
  <2>5. \A j \in Tasks \ {wtask[t]} : Carried(j)' <=> Carried(j)
    BY <2>3, <2>4, CarriedFrom, Zenon
  <2> QED
    BY <2>1, <2>2, <2>5, Zenon
<1> QED
  BY <1>1, <1>2, <1>3, <1>4, <1>5, <1>6, Zenon DEF WakeNext

(* wake_by_ref adds a notification only for a task that has none, and      *)
(* moves it from one place to the next.                                    *)
LEMMA WakeOnce ==
  ASSUME TaskInv, NEW t \in Threads, WakeNext(t) PROVE NotDoubled'
<1> USE DEF TaskInv, TaskTypeOK, WakeSame, pollVars, cqVars, NotDoubled, InHand, InWork, InCore
<1>1. CASE MarkIdle(t)
  <2>1. ~Carried(wtask[t])
    BY <1>1, Zenon DEF MarkIdle, Tokens
  <2> QED
    BY <1>1, <2>1 DEF MarkIdle, Carried
<1>2. CASE MarkBusy(t)
  BY <1>2, SMTT(60) DEF MarkBusy
<1>3. CASE MarkPolling(t)
  BY <1>3, SMTT(60) DEF MarkPolling
<1>4. CASE MarkAgain(t)
  BY <1>4, SMTT(60) DEF MarkAgain
<1>5. CASE PushWork(t)
  <2>1. PICK p, n : p = wtask[t] /\ n = Len(work) + 1
    OBVIOUS
  <2>2. /\ n \notin DOMAIN work /\ DOMAIN work' = DOMAIN work \cup {n}
        /\ \A i \in DOMAIN work : work'[i] = work[i]
        /\ work'[n] = p
    BY <1>5, <2>1, Pushed, Zenon
  <2>3. /\ kicks' = kicks /\ InHand(t, p)
        /\ \A u \in Threads, j \in Tasks : InHand(u, j)' => InHand(u, j) /\ u # t
    BY <1>5, <2>1, Zenon DEF PushWork
  <2>4. \A i, j : InWork(i, j)' => InWork(i, j) \/ (i = n /\ j = p)
    BY <2>2, Zenon
  <2>5. NotDoubled /\ \A j \in Tasks : (InCore(j)' <=> InCore(j)) /\ kicks'[j] = kicks[j]
    BY <2>3, Zenon
  <2> HIDE DEF TaskInv, TaskTypeOK, WakeSame, pollVars, cqVars, NotDoubled, InHand, InWork, InCore
  <2> SUFFICES ASSUME NEW j \in Tasks
               PROVE  /\ kicks'[j] \leq 1
                      /\ \A i, h \in DOMAIN work' : InWork(i, j)' /\ InWork(h, j)' => i = h
                      /\ \A u, v \in Threads : InHand(u, j)' /\ InHand(v, j)' => u = v
                      /\ \A u \in Threads : InHand(u, j)' =>
                           ~InCore(j)' /\ \A i \in DOMAIN work' : ~InWork(i, j)'
                      /\ InCore(j)' => \A i \in DOMAIN work' : ~InWork(i, j)'
    BY Zenon DEF NotDoubled
  <2>6. /\ kicks[j] \leq 1
        /\ \A i, h \in DOMAIN work : InWork(i, j) /\ InWork(h, j) => i = h
        /\ \A u, v \in Threads : InHand(u, j) /\ InHand(v, j) => u = v
        /\ \A u \in Threads : InHand(u, j) =>
             ~InCore(j) /\ \A i \in DOMAIN work : ~InWork(i, j)
        /\ InCore(j) => \A i \in DOMAIN work : ~InWork(i, j)
    BY <2>5, Zenon DEF NotDoubled
  <2>7. \A i : InWork(i, j) => i \in DOMAIN work
    BY Zenon DEF InWork
  <2>8. CASE j = p
    <3>1. ~InCore(j) /\ \A i \in DOMAIN work : ~InWork(i, j)
      BY <2>3, <2>6, <2>8, Zenon
    <3>2. \A u \in Threads : ~InHand(u, j)'
      BY <2>3, <2>6, <2>8, Zenon
    <3>3. \A i : InWork(i, j)' => i = n
      BY <2>4, <2>7, <3>1, Zenon
    <3> QED
      BY <2>5, <2>6, <3>1, <3>2, <3>3, Zenon
  <2>9. CASE j # p
    BY <2>3, <2>4, <2>5, <2>6, <2>7, <2>9, ZenonT(60)
  <2> QED
    BY <2>8, <2>9, Zenon
<1>6. CASE PushRefused(t)
  BY <1>6, SMTT(60) DEF PushRefused
<1>7. CASE KickBorrow(t)
  BY <1>7, SMTT(60) DEF KickBorrow
<1>8. CASE KickRejected(t)
  BY <1>8, SMTT(60) DEF KickRejected
<1>9. CASE KickCore(t)
  BY <1>9, SMTT(60) DEF KickCore
<1>10. CASE KickDone(t)
  BY <1>10, SMTT(60) DEF KickDone
<1> QED
  BY <1>1, <1>2, <1>3, <1>4, <1>5, <1>6, <1>7, <1>8, <1>9, <1>10, ZenonT(60) DEF WakeNext

(* mark_notified returns only when the task is NOTIFIED or finished.       *)
LEMMA WakeMarks ==
  ASSUME TaskInv, NEW t \in Threads, WakeNext(t), Marks(t, wtask[t])
  PROVE  Marks(t, wtask[t])' \/ state'[wtask[t]] \in {"NOTIFIED", "COMPLETED"}
<1>0. wtask[t] \in Tasks /\ state[wtask[t]] # "unborn"
  BY Zenon DEF Marks, TaskInv, TaskTypeOK, Owners, Lives
<1>1. CASE MarkIdle(t)
  BY <1>0, <1>1, Zenon DEF MarkIdle, TaskInv, TaskTypeOK
<1>2. CASE MarkBusy(t)
  BY <1>0, <1>2, Zenon DEF MarkBusy, Marks, TaskInv, TaskTypeOK, TaskStates
<1>3. CASE MarkPolling(t)
  BY <1>0, <1>3, Zenon DEF MarkPolling, TaskInv, TaskTypeOK
<1>4. CASE MarkAgain(t)
  BY <1>0, <1>4, Zenon DEF MarkAgain, Marks, TaskInv, TaskTypeOK, TaskStates
<1> QED
  BY <1>1, <1>2, <1>3, <1>4, Zenon DEF Marks, WakeNext, PushWork, PushRefused, KickBorrow,
     KickRejected, KickCore, KickDone

(* Every step of wake_by_ref keeps the invariant.                          *)
LEMMA WakeInv ==
  ASSUME TaskInv, TaskTypeOK', NEW t \in Threads, WakeNext(t) PROVE TaskInv'
<1>0. PICK k \in Tasks : k = wtask[t]
  BY Zenon DEF TaskInv, TaskTypeOK
<1>1. WakeEffect(t)
  BY WakeEffects, Zenon
<1>2. /\ \A j \in Tasks \ {k} : Carried(j)' <=> Carried(j)
      /\ Carried(k)' <=> (Carried(k) /\ ~KickRejected(t)) \/ MarkIdle(t)
  <2>1. k = wtask'[t]
    BY <1>0, <1>1, Zenon DEF WakeEffect
  <2> QED
    BY <1>0, <2>1, WakeCarries, Zenon
<1> USE DEF TaskInv
<1>3. \A j \in Tasks, u \in Threads : Polls(u, j)' <=> Polls(u, j)
  BY <1>1, PollsSame, Zenon DEF WakeEffect
<1>4. k \in Tasks /\ k \in wakers
  BY <1>0, <1>1, Zenon DEF WakeEffect, Owners
<1>5. LostClosed' /\ NoPanic'
  BY <1>1, Zenon DEF WakeEffect, LostClosed, NoPanic
<1>6. MarkIdle(t) => state[k] = "IDLE" /\ state'[k] = "NOTIFIED"
  BY <1>0, <1>4, Zenon DEF MarkIdle, TaskTypeOK
<1>7. state[k] = "IDLE" => \A u \in Threads : ~Polls(u, k)
  BY <1>4, NobodyPolls, Zenon
<1>8. Owners'
  <2>1. \A u \in Threads : wpc'[u] # "none" => wtask'[u] \in wakers'
    BY <1>0, <1>1, <1>4, Zenon DEF WakeEffect, Owners
  <2>2. \A u \in Threads : ppc[u] # "none" /\ ptask[u] = k => state[k] # "IDLE"
    BY <1>7, ZenonT(60) DEF Polls
  <2>3. ASSUME NEW u \in Threads, ppc'[u] # "none"
        PROVE  /\ ppc'[u] = "user" => state'[ptask'[u]] \in {"POLLING", "NOTIFIED"}
               /\ ppc'[u] = "take" => state'[ptask'[u]] = "COMPLETED" /\ handle'[ptask'[u]]
               /\ ppc'[u] = "cas" => state'[ptask'[u]] \in {init'[u], "COMPLETED"}
               /\ ppc'[u] = "cas" /\ state'[ptask'[u]] = "IDLE" => ptask'[u] \notin wakers'
    BY <1>0, <1>1, <2>2, <2>3 DEF WakeEffect, Owners, TaskTypeOK
  <2>4. \A u, v \in Threads :
          ppc'[u] # "none" /\ ppc'[v] # "none" /\ ptask'[u] = ptask'[v] => u = v
    BY <1>1, ZenonT(60) DEF WakeEffect, Owners
  <2>5. loop' = "next" => ppc'[Poller] = "none"
    BY <1>1, Zenon DEF WakeEffect, Owners
  <2> QED
    BY <1>1, <2>1, <2>3, <2>4, <2>5, Zenon DEF Owners
<1>9. Lives'
  BY <1>0, <1>1, <1>3 DEF WakeEffect, Lives
<1>10. Tokens'
  <2> SUFFICES ASSUME NEW j \in Tasks, Carried(j)'
      PROVE  state'[j] = "NOTIFIED" /\ \A u \in Threads : ~Polls(u, j)'
    BY Zenon DEF Tokens
  <2>1. CASE j # k
    BY <1>0, <1>1, <1>2, <1>3, <2>1, Zenon DEF WakeEffect, Tokens
  <2>2. CASE j = k /\ ~MarkIdle(t)
    BY <1>0, <1>1, <1>2, <1>3, <1>4, <2>2, Zenon DEF WakeEffect, Tokens
  <2>3. CASE j = k /\ MarkIdle(t)
    BY <1>3, <1>6, <1>7, <2>3, Zenon
  <2> QED
    BY <2>1, <2>2, <2>3, Zenon
<1>11. NotDoubled'
  BY WakeOnce, Zenon
<1>12. Accounted'
  <2> SUFFICES ASSUME NEW j \in Tasks, state'[j] = "NOTIFIED" PROVE Placed(j)'
    BY Zenon DEF Accounted
  <2>1. UNCHANGED open /\ lost \subseteq lost'
    BY <1>1, Zenon DEF WakeEffect
  <2>2. CASE state[j] = "NOTIFIED" /\ ~(KickRejected(t) /\ j = k)
    <3>1. Placed(j)
      BY <2>2, Zenon DEF Accounted
    <3>2. Carried(j) => Carried(j)'
      BY <1>2, <2>2, Zenon
    <3>3. \A u \in Threads : Polls(u, j) => Polls(u, j)'
      BY <1>3, Zenon
    <3>4. j \in lost /\ ~open => j \in lost' /\ ~open'
      BY <2>1, Zenon
    <3> QED
      BY <3>1, <3>2, <3>3, <3>4, Zenon DEF Placed
  <2>3. CASE KickRejected(t) /\ j = k
    BY <1>0, <2>1, <2>3, Zenon DEF KickRejected, Placed
  <2>4. CASE state[j] # "NOTIFIED"
    <3>1. j = k /\ state[k] \in {"IDLE", "POLLING"}
      BY <1>0, <1>1, <2>4, Zenon DEF WakeEffect
    <3>2. CASE state[k] = "IDLE"
      <4>1. MarkIdle(t)
        BY <3>1, <3>2, <2>4, ZenonT(60) DEF WakeNext, MarkIdle, MarkBusy, MarkPolling, MarkAgain,
           PushWork,
           PushRefused, KickBorrow, KickRejected, KickCore, KickDone, TaskTypeOK
      <4> QED
        BY <1>2, <3>1, <4>1, Zenon DEF Placed
    <3>3. CASE state[k] = "POLLING"
      BY <1>3, <1>4, <3>1, <3>3, Zenon DEF Lives, Placed
    <3> QED
      BY <3>1, <3>2, <3>3, Zenon
  <2> QED
    BY <2>2, <2>3, <2>4, Zenon
<1>13. WakeNotDropped'
  <2>1. /\ UNCHANGED <<due, wtask>>
        /\ \A u \in Threads \ {t} : wpc'[u] = wpc[u]
        /\ \A j \in Tasks : state[j] \in {"NOTIFIED", "COMPLETED"} => state'[j] = state[j]
    BY <1>0, <1>1, Zenon DEF WakeEffect
  <2> SUFFICES ASSUME NEW j \in due, ~(state'[j] \in {"NOTIFIED", "COMPLETED"})
               PROVE  \E u \in Threads : Marks(u, j)'
    BY <2>1, Zenon DEF WakeNotDropped
  <2>2. j \in Tasks /\ ~(state[j] \in {"NOTIFIED", "COMPLETED"})
    BY <2>1, Zenon DEF TaskTypeOK
  <2>3. PICK u \in Threads : Marks(u, j)
    BY <2>2, Zenon DEF WakeNotDropped
  <2>4. CASE u # t
    BY <2>1, <2>3, <2>4, Zenon DEF Marks
  <2>5. CASE u = t
    <3>1. j = wtask[t] /\ j = wtask'[t]
      BY <2>1, <2>3, <2>5, Zenon DEF Marks
    <3> QED
      BY <2>3, <2>5, <3>1, WakeMarks, ZenonT(60)
  <2> QED
    BY <2>4, <2>5, Zenon
<1> QED
  BY <1>5, <1>8, <1>9, <1>10, <1>11, <1>12, <1>13, Zenon

(* A wake that starts carries nothing yet.                                 *)
LEMMA WakeStartInv ==
  ASSUME TaskInv, TaskTypeOK', NEW t \in Threads, NEW k \in Tasks, Wake(t, k) PROVE TaskInv'
<1> USE DEF TaskInv
<1>1. /\ UNCHANGED <<state, handle, wakers, ppc, ptask, init, work, kicks, lost, loop,
                     panicked, open>>
      /\ k \in wakers /\ wpc[t] = "none" /\ wpc'[t] = "mark" /\ wtask'[t] = k
      /\ \A u \in Threads \ {t} : wpc'[u] = wpc[u] /\ wtask'[u] = wtask[u]
      /\ due' = due \cup {k}
  BY Zenon DEF Wake, WakeSame, pollVars, cqVars, InUserCode, TaskTypeOK
<1>2. \A j \in Tasks, u \in Threads : InHand(u, j)' <=> InHand(u, j)
  BY <1>1, Zenon DEF InHand
<1>3. \A j \in Tasks, u \in Threads : Polls(u, j)' <=> Polls(u, j)
  BY <1>1, PollsSame, Zenon
<1>4. \A j \in Tasks : Carried(j)' <=> Carried(j)
  BY <1>1, <1>2, ZenonT(60) DEF Carried, InWork, InCore
<1>5. Owners' /\ LostClosed' /\ NoPanic'
  BY <1>1, SMTT(60) DEF Owners, LostClosed, NoPanic
<1>6. Lives'
  BY <1>1, <1>3, ZenonT(60) DEF Lives
<1>7. Tokens'
  BY <1>1, <1>3, <1>4, ZenonT(60) DEF Tokens
<1>8. NotDoubled'
  BY <1>1, <1>2, ZenonT(60) DEF NotDoubled, InWork, InCore
<1>9. Accounted'
  BY <1>1, <1>3, <1>4, Zenon DEF Accounted, Placed
<1>10. WakeNotDropped'
  <2>1. \A j, u : u \in Threads /\ Marks(u, j) => Marks(u, j)'
    BY <1>1, Zenon DEF Marks
  <2>2. Marks(t, k)'
    BY <1>1, Zenon DEF Marks
  <2> QED
    BY <1>1, <2>1, <2>2, Zenon DEF WakeNotDropped
<1> QED
  BY <1>5, <1>6, <1>7, <1>8, <1>9, <1>10, Zenon
-----------------------------------------------------------------------------
(* The steps of poll_queue, and the theorems.                              *)

(* The poll thread takes up a notification: it starts a poll of a task     *)
(* nobody else polls.                                                      *)
LEMMA EnterInv ==
  ASSUME TaskInv, TaskTypeOK', NEW k \in Tasks,
         Enter(Poller, k, "NOTIFIED"), LoopSame, ppc[Poller] = "none", loop' # "next",
         Carried(k), ~Carried(k)', NotDoubled',
         \A j \in Tasks \ {k} : Carried(j)' <=> Carried(j)
  PROVE  TaskInv'
<1> USE DEF TaskInv
<1>1. Poller \in Threads /\ state[k] = "NOTIFIED" /\ \A u \in Threads : ~Polls(u, k)
  BY ZenonT(60) DEF Tokens, Threads, OnPoll
<1>2. /\ UNCHANGED <<state, handle, wakers, wpc, wtask, lost, panicked, open, due>>
      /\ ppc'[Poller] = "cas" /\ ptask'[Poller] = k /\ init'[Poller] = "NOTIFIED"
      /\ \A u \in Threads \ {Poller} : /\ ppc'[u] = ppc[u] /\ ptask'[u] = ptask[u]
                                       /\ init'[u] = init[u]
  BY <1>1, SMTT(60) DEF Enter, LoopSame, wakeVars, cqVars, TaskTypeOK
<1>3. \A j \in Tasks \ {k}, u \in Threads : Polls(u, j)' <=> Polls(u, j)
  BY <1>2, Zenon DEF Polls
<1>4. Owners'
  <2>1. \A u \in Threads \ {Poller} : ppc[u] # "none" => ptask[u] # k
    BY <1>1, ZenonT(60) DEF Polls
  <2>2. \A u, v \in Threads :
          ppc'[u] # "none" /\ ppc'[v] # "none" /\ ptask'[u] = ptask'[v] => u = v
    <3> SUFFICES ASSUME NEW u \in Threads, NEW v \in Threads, u # v, ppc'[u] # "none",
                        ppc'[v] # "none", ptask'[u] = ptask'[v]
                 PROVE  FALSE
      BY Zenon
    <3>1. u # Poller /\ v # Poller
      BY <1>2, <2>1, Zenon
    <3> QED
      BY SMTT(60), <1>2, <3>1 DEF Owners
  <2>3. \A u \in Threads : wpc'[u] # "none" => wtask'[u] \in wakers'
    BY <1>2, ZenonT(60) DEF Owners
  <2>4. ASSUME NEW u \in Threads \ {Poller}
        PROVE  /\ ppc'[u] = "user" => state'[ptask'[u]] \in {"POLLING", "NOTIFIED"}
               /\ ppc'[u] = "take" => state'[ptask'[u]] = "COMPLETED" /\ handle'[ptask'[u]]
               /\ ppc'[u] = "cas" => state'[ptask'[u]] \in {init'[u], "COMPLETED"}
               /\ ppc'[u] = "cas" /\ state'[ptask'[u]] = "IDLE" => ptask'[u] \notin wakers'
    <3>1. Owners
      BY Zenon
    <3> HIDE DEF TaskInv
    <3> QED
      BY <1>2, <3>1 DEF Owners
  <2>5. ppc'[Poller] = "cas" /\ state'[ptask'[Poller]] = init'[Poller]
        /\ state'[ptask'[Poller]] # "IDLE"
    BY <1>1, <1>2, ZenonT(60)
  <2> QED
    BY <2>2, <2>3, <2>4, <2>5, Zenon DEF Owners
<1>5. Lives' /\ LostClosed' /\ NoPanic'
  BY <1>1, <1>2, <1>3, ZenonT(60) DEF Lives, LostClosed, NoPanic
<1>6. Tokens'
  BY <1>2, <1>3, Zenon DEF Tokens
<1>7. Accounted'
  <2> SUFFICES ASSUME NEW j \in Tasks, state'[j] = "NOTIFIED" PROVE Placed(j)'
    BY Zenon DEF Accounted
  <2>1. CASE j = k
    BY <1>1, <1>2, <2>1, Zenon DEF Placed, Polls
  <2>2. CASE j # k
    BY <1>2, <1>3, <2>2, Zenon DEF Accounted, Placed
  <2> QED
    BY <2>1, <2>2, Zenon
<1>8. WakeNotDropped'
  <2>1. \A u, j : Marks(u, j)' <=> Marks(u, j)
    BY <1>2, Zenon DEF Marks
  <2> QED
    BY <1>2, <2>1, Zenon DEF WakeNotDropped
<1> QED
  BY <1>4, <1>5, <1>6, <1>7, <1>8, Zenon

(* The Spawn tag poll_queue takes is the only notification of its task.    *)
LEMMA NextSpawnInv ==
  ASSUME TaskInv, TaskTypeOK', NEW k \in Tasks, NextSpawn(k) PROVE TaskInv'
<1> USE DEF TaskInv
<1>1. /\ Enter(Poller, k, "NOTIFIED") /\ LoopSame /\ loop' # "next" /\ loop = "next"
      /\ UNCHANGED <<wpc, wtask, work>>
      /\ InCore(k) /\ kicks[k] \leq 1 /\ kicks'[k] = kicks[k] - 1
      /\ \A j \in Tasks \ {k} : kicks'[j] = kicks[j]
  BY Zenon DEF NextSpawn, InCore, LoopSame, wakeVars, NotDoubled, TaskTypeOK
<1>2. \A j \in Tasks, u \in Threads : InHand(u, j)' <=> InHand(u, j)
  BY <1>1, ZenonT(60) DEF InHand
<1>3. /\ Carried(k) /\ ~Carried(k)'
      /\ \A j \in Tasks \ {k} : Carried(j)' <=> Carried(j)
  BY <1>1, <1>2, SMTT(60) DEF Carried, InWork, InCore, NotDoubled, TaskTypeOK
<1>4. NotDoubled'
  BY <1>1, <1>2, SMTT(60) DEF NotDoubled, InWork, InCore, TaskTypeOK
<1>5. ppc[Poller] = "none"
  BY <1>1, Zenon DEF Owners
<1> QED
  BY <1>1, <1>3, <1>4, <1>5, EnterInv, Zenon

(* So is the entry pop_work takes, the last of the work queue.             *)
LEMMA PopWorkInv ==
  ASSUME TaskInv, TaskTypeOK', PopWork PROVE TaskInv'
<1> USE DEF TaskInv
<1>1. PICK k \in Tasks : k = work[Len(work)] /\ Len(work) > 0
  BY DEF PopWork, TaskTypeOK
<1>2. /\ Enter(Poller, k, "NOTIFIED") /\ LoopSame /\ loop' # "next" /\ ppc[Poller] = "none"
      /\ UNCHANGED <<wpc, wtask, kicks>>
  BY <1>1, Zenon DEF PopWork, LoopSame, wakeVars
<1>3. /\ DOMAIN work' = 1..(Len(work) - 1) /\ DOMAIN work = 1..Len(work)
      /\ \A i \in DOMAIN work' : work'[i] = work[i]
  BY <1>1 DEF PopWork
<1>4. \A j \in Tasks, u \in Threads : InHand(u, j)' <=> InHand(u, j)
  BY <1>2, Zenon DEF InHand
<1>5. InWork(Len(work), k) /\ \A i \in DOMAIN work' : ~InWork(i, k)'
  <2>1. Len(work) \in DOMAIN work /\ \A i \in DOMAIN work' : i \in DOMAIN work /\ i # Len(work)
    BY <1>1, <1>3
  <2> QED
    BY <1>1, <1>3, <2>1, Zenon DEF InWork, NotDoubled
<1>6. \A j \in Tasks \ {k} : \A i \in DOMAIN work : InWork(i, j)' <=> InWork(i, j)
  <2>1. \A i \in DOMAIN work : i \in DOMAIN work' \/ i = Len(work)
    BY <1>1, <1>3
  <2> QED
    BY <1>1, <1>3, <2>1, Zenon DEF InWork
<1>7. Carried(k) /\ ~Carried(k)'
  <2>1. Len(work) \in DOMAIN work
    BY <1>1, <1>3
  <2>2. ~InCore(k) /\ \A u \in Threads : ~InHand(u, k)
    BY <1>5, <2>1, Zenon DEF NotDoubled
  <2>3. ~InCore(k)' /\ \A u \in Threads : ~InHand(u, k)'
    BY <1>2, <1>4, <2>2, Zenon DEF InCore
  <2> QED
    BY <1>5, <2>1, <2>3, Zenon DEF Carried
<1>8. ASSUME NEW j \in Tasks \ {k} PROVE Carried(j)' <=> Carried(j)
  <2>1. (\E i \in DOMAIN work : InWork(i, j))' <=> \E i \in DOMAIN work : InWork(i, j)
    <3>1. \A i : InWork(i, j)' => i \in DOMAIN work
      BY <1>3 DEF InWork
    <3>2. \A i : InWork(i, j)' => i \in DOMAIN work'
      BY Zenon DEF InWork
    <3> QED
      BY <1>6, <3>1, <3>2, Zenon
  <2> QED
    BY <1>2, <1>4, <2>1, CarriedFrom, Zenon
<1>9. NotDoubled'
  <2>1. \A i \in DOMAIN work' : i \in DOMAIN work /\ \A j \in Tasks : InWork(i, j)' <=> InWork(i, j)
    BY <1>3 DEF InWork
  <2>2. NotDoubled /\ \A j \in Tasks : InCore(j)' <=> InCore(j)
    BY <1>2, Zenon DEF InCore
  <2> HIDE DEF TaskInv
  <2> QED
    BY <1>2, <1>4, <2>1, <2>2, Zenon DEF NotDoubled
<1> QED
  BY <1>2, <1>7, <1>8, <1>9, EnterInv, Zenon

(* A step that touches neither tasks, polls nor notifications.             *)
LEMMA RestInv ==
  ASSUME TaskInv, TaskTypeOK',
         UNCHANGED <<state, handle, wakers, pollVars, wakeVars, work, kicks, lost, panicked,
                     due>>,
         open' => open, loop' = "next" => ppc[Poller] = "none"
  PROVE  TaskInv'
<1> USE DEF TaskInv, pollVars, wakeVars
<1>1. \A j \in Tasks : /\ Carried(j)' <=> Carried(j)
                       /\ \A u \in Threads : Polls(u, j)' <=> Polls(u, j)
  BY CarriedSame, PollsSame, Zenon
<1>2. Owners' /\ LostClosed' /\ NoPanic' /\ NotDoubled'
  <2>1. Owners'
    BY Zenon DEF Owners
  <2>2. LostClosed' /\ NoPanic'
    BY Zenon DEF LostClosed, NoPanic
  <2>3. NotDoubled'
    BY Zenon DEF NotDoubled, InHand, InWork, InCore
  <2> QED
    BY <2>1, <2>2, <2>3, Zenon
<1>3. Lives'
  BY <1>1, Zenon DEF Lives
<1>4. Tokens'
  BY <1>1, Zenon DEF Tokens
<1>5. Accounted'
  BY <1>1, Zenon DEF Accounted, Placed
<1>6. WakeNotDropped'
  BY Zenon DEF WakeNotDropped, Marks
<1> QED
  BY <1>2, <1>3, <1>4, <1>5, <1>6, Zenon

-----------------------------------------------------------------------------
(* Before the first spawn there are no tasks and no notifications.         *)
LEMMA InvInit == TaskInit => TaskInv
<1> SUFFICES ASSUME TaskInit PROVE TaskInv
  OBVIOUS
<1>1. TaskTypeOK
  BY TypeInit, Zenon
<1>2. /\ \A i \in DOMAIN work : FALSE
      /\ \A k \in Tasks : kicks[k] = 0 /\ state[k] = "unborn" /\ ~(kicks[k] > 0)
      /\ \A t \in Threads : wpc[t] = "none" /\ ppc[t] = "none"
  BY SMTT(60) DEF TaskInit
<1>3. Owners /\ Lives /\ LostClosed /\ NoPanic
  BY ZenonT(60) DEF TaskInit, Owners, Lives, LostClosed, NoPanic, Threads, OnPoll
<1>4. NotDoubled
  <2>1. \A k \in Tasks : kicks[k] \leq 1 /\ ~InCore(k)
    <3> SUFFICES ASSUME NEW k \in Tasks PROVE kicks[k] \leq 1 /\ ~InCore(k)
      BY Zenon
    <3>1. kicks[k] = 0
      BY Zenon DEF TaskInit
    <3>2. kicks[k] \leq 1
      BY <3>1
    <3>3. ~(kicks[k] > 0)
      BY <3>1
    <3> QED
      BY <3>2, <3>3, Zenon DEF InCore
  <2>2. \A k \in Tasks, t \in Threads : ~InHand(t, k)
    BY <1>2, Zenon DEF InHand
  <2> QED
    BY <1>2, <2>1, <2>2, Zenon DEF NotDoubled
<1>5. \A k \in Tasks : ~Carried(k) /\ state[k] = "unborn"
  BY <1>2, Zenon DEF Carried, InHand, InCore
<1>6. Tokens /\ Accounted
  BY <1>5, Zenon DEF Tokens, Accounted
<1>7. WakeNotDropped
  BY Zenon DEF TaskInit, WakeNotDropped
<1> QED
  BY <1>1, <1>3, <1>4, <1>6, <1>7, Zenon DEF TaskInv

(* TaskInv is inductive: one step per action of TaskNext.                  *)
LEMMA InvStep == TaskInv /\ [TaskNext]_taskVars => TaskInv'
<1> SUFFICES ASSUME TaskInv, [TaskNext]_taskVars PROVE TaskInv'
  BY Zenon
<1>0. TaskTypeOK'
  BY TypeStep, Zenon DEF TaskInv
<1>1. ASSUME NEW t \in Threads, NEW k \in Tasks, Spawn(t, k) PROVE TaskInv'
  BY <1>0, <1>1, SpawnInv, Zenon
<1>2. ASSUME NEW t \in Threads, NEW k \in Tasks, Wake(t, k) PROVE TaskInv'
  BY <1>0, <1>2, WakeStartInv, Zenon
<1>3. ASSUME NEW t \in Threads, PollNext(t) PROVE TaskInv'
  BY <1>0, <1>3, PollInv, Zenon
<1>4. ASSUME NEW t \in Threads, WakeNext(t) PROVE TaskInv'
  BY <1>0, <1>4, WakeInv, Zenon
<1>5. ASSUME NEW k \in Tasks, NextSpawn(k) PROVE TaskInv'
  BY <1>0, <1>5, NextSpawnInv, Zenon
<1>6. CASE PopWork
  BY <1>0, <1>6, PopWorkInv, Zenon
<1>7. CASE NextCallback \/ Resolved \/ Drained \/ NextShutdown
  <2>1. /\ UNCHANGED <<state, handle, wakers, pollVars, wakeVars, work, kicks, lost,
                       panicked, open, due>>
        /\ loop' = "next" => ppc[Poller] = "none"
    BY <1>7, Zenon DEF NextCallback, Resolved, Drained, NextShutdown, LoopSame, cqVars
  <2> QED
    BY <1>0, <2>1, RestInv, Zenon
<1>8. CASE CloseQueue
  <2>1. /\ UNCHANGED <<state, handle, wakers, pollVars, wakeVars, work, kicks, lost,
                       panicked, loop, due>>
        /\ open' => open
    BY <1>8, SMTT(60) DEF CloseQueue, Cq!Close, Cq!Shut
  <2>2. loop' = "next" => ppc[Poller] = "none"
    BY <2>1, Zenon DEF TaskInv, Owners
  <2> QED
    BY <1>0, <2>1, <2>2, RestInv, Zenon
<1>9. CASE Stopped \/ UNCHANGED taskVars
  <2>1. UNCHANGED <<state, handle, wakers, pollVars, wakeVars, work, kicks, lost,
                    panicked, loop, open, due>>
    BY <1>9, Zenon DEF Stopped, taskVars, cqVars
  <2>2. loop' = "next" => ppc[Poller] = "none"
    BY <2>1, Zenon DEF TaskInv, Owners
  <2> QED
    BY <1>0, <2>1, <2>2, RestInv, Zenon
<1> QED
  BY <1>1, <1>2, <1>3, <1>4, <1>5, <1>6, <1>7, <1>8, <1>9, Zenon DEF TaskNext, LoopNext

(* TaskInv holds throughout.                                               *)
LEMMA Invariance == TaskSpec => []TaskInv
BY InvInit, InvStep, PTL DEF TaskSpec

-----------------------------------------------------------------------------
(* The variables keep their types through every interleaving.              *)
THEOREM TaskTypeCorrect == TaskSpec => []TaskTypeOK
<1>1. TaskInv => TaskTypeOK
  BY Zenon DEF TaskInv
<1> QED
  BY <1>1, Invariance, PTL

(* Neither panic! of poll (executor.rs:194, 222) is ever reached, for any  *)
(* number of tasks, threads and wakes.                                     *)
THEOREM PanicFree == TaskSpec => []NoPanic
<1>1. TaskInv => NoPanic
  BY Zenon DEF TaskInv
<1> QED
  BY <1>1, Invariance, PTL

(* The UnsafeCell of the future is run by one thread at a time, and only   *)
(* while it holds a future (executor.rs:200-208).                          *)
THEOREM Exclusive == TaskSpec => []HandleExclusive
<1>1. TaskInv => HandleExclusive
  <2> SUFFICES ASSUME TaskInv, NEW t \in Threads, ppc[t] \in {"user", "take"}
      PROVE  handle[ptask[t]] /\ \A u \in Threads \ {t} : ~Polls(u, ptask[t])
    BY Zenon DEF HandleExclusive
  <2>1. ptask[t] \in Tasks
    BY Zenon DEF TaskInv, TaskTypeOK
  <2> QED
    BY <2>1, PollFacts, ZenonT(60) DEF TaskInv, Owners, Lives
<1> QED
  BY <1>1, Invariance, PTL

(* No wake is lost while the completion queue is open (executor.rs:110-166 *)
(* against 210-224).                                                       *)
THEOREM NoLostWake == TaskSpec => []Accounted
<1>1. TaskInv => Accounted
  BY Zenon DEF TaskInv
<1> QED
  BY <1>1, Invariance, PTL

(* No wake is swallowed by a poll that ends at the same time               *)
(* (executor.rs:110-135 against 217-223).                                  *)
THEOREM NoWakeSwallowed == TaskSpec => []WakeNotDropped
<1>1. TaskInv => WakeNotDropped
  BY Zenon DEF TaskInv
<1> QED
  BY <1>1, Invariance, PTL

(* No wake is scheduled twice (executor.rs:110-135).                       *)
THEOREM NoDoubleSchedule == TaskSpec => []NotDoubled
<1>1. TaskInv => NotDoubled
  BY Zenon DEF TaskInv
<1> QED
  BY <1>1, Invariance, PTL

(* A future is dropped once, after it completed, and stays completed       *)
(* (executor.rs:212-216).                                                  *)
THEOREM DropOnce == TaskSpec => CompletedOnce
<1> DEFINE Keep == \A k \in Tasks :
                     /\ state[k] = "COMPLETED" => state'[k] = "COMPLETED"
                     /\ handle[k] /\ ~handle'[k] => state[k] = "COMPLETED"
<1>1. TaskInv /\ [TaskNext]_taskVars => [Keep]_taskVars
  <2> SUFFICES ASSUME TaskInv, TaskNext PROVE Keep
    BY Zenon DEF taskVars
  <2> USE DEF TaskInv
  <2>1. ASSUME NEW t \in Threads, NEW k \in Tasks, Spawn(t, k) \/ Wake(t, k) PROVE Keep
    BY <2>1, Zenon DEF Spawn, Wake, WakeSame, TaskTypeOK
  <2>2. ASSUME NEW t \in Threads, PollNext(t) PROVE Keep
    <3>1. CASE PollBegin(t)
      BY <3>1, Zenon DEF PollBegin, TaskTypeOK
    <3>2. CASE PollCompleted(t)
      BY <3>2, Zenon DEF PollCompleted
    <3>3. CASE PollReady(t)
      BY <3>3, SMTT(60) DEF PollReady
    <3>4. CASE TakeHandle(t)
      BY <3>4, PollFacts, SMTT(60) DEF TakeHandle
    <3>5. CASE PollPending(t)
      BY <3>5 DEF PollPending
    <3> QED
      BY <2>2, <3>1, <3>2, <3>3, <3>4, <3>5, Zenon DEF PollNext
  <2>3. ASSUME NEW t \in Threads, WakeNext(t) PROVE Keep
    BY <2>3, WakeEffects, Zenon DEF WakeEffect
  <2>4. CASE LoopNext \/ CloseQueue \/ Stopped
    BY <2>4, Zenon DEF LoopNext, NextSpawn, NextCallback, Resolved, PopWork, Drained, NextShutdown,
       LoopSame, CloseQueue, Stopped, taskVars
  <2> QED
    BY <2>1, <2>2, <2>3, <2>4, Zenon DEF TaskNext
<1> QED
  BY <1>1, Invariance, PTL DEF TaskSpec, CompletedOnce

-----------------------------------------------------------------------------
(* The batches of a call.                                                  *)

StartOps == StartBatches["start"]

(* A result waits for a batch that is done and whose future is pending, as *)
(* the future of a batch under way is.                                     *)
Tagged ==
  \A s \in Sides, t \in Tags :
    /\ event[s][t] # "none" => batch[s][t] = {} /\ fut[s][t] = "pending"
    /\ batch[s][t] # {} => fut[s][t] = "pending"

(* An operation of a batch under way is pending, and in no other batch.    *)
CoreSound ==
  \A s \in Sides, t \in Tags : \A o \in batch[s][t] :
    ops[s][o] = "pending" /\ \A u \in Tags \ {t} : o \notin batch[s][u]

(* What the batches of the client are made of.                             *)
ClientBatches ==
  /\ batch["client"]["start"] \in {{}, StartOps}
  /\ batch["client"]["send"] \in {{}, {"SendMsg"}}
  /\ batch["client"]["recv"] \in {{}, {"RecvMsg"}}
  /\ batch["client"]["accept"] = {}
  /\ UnaryResponse => batch["client"]["recv"] = {}

(* The operations of the client that may still be started are free: all of *)
(* them before the call, and later those of its two halves unless the      *)
(* future that would resolve first is pending.                             *)
ClientFree ==
  /\ cl.at = "new" => /\ \A o \in Ops : ops["client"][o] = "free"
                      /\ \A t \in Tags : fut["client"][t] = "none"
  /\ ~UnaryRequest =>
       /\ ops["client"]["SendMsg"] = "free" \/ "SendMsg" \in batch["client"]["send"]
       /\ ops["client"]["SendClose"] = "free" \/ fut["client"]["close"] = "pending"
  /\ ~UnaryResponse =>
       ops["client"]["RecvMsg"] = "free" \/ "RecvMsg" \in batch["client"]["recv"]
  /\ event["client"]["close"] = "none"

(* The same of the server, by the step it is at.                           *)
ServerFree ==
  /\ sv.at = "wire" => /\ \A o \in Ops : ops["server"][o] = "free"
                       /\ \A t \in Tags : fut["server"][t] = "none"
  /\ sv.at = "payload" => /\ \A o \in Ops \ {"RecvMsg"} : ops["server"][o] = "free"
                          /\ \A t \in Tags \ {"recv"} : fut["server"][t] = "none"
                          /\ UnaryRequest
  /\ sv.at = "handler" =>
       /\ ops["server"]["SendStatus"] = "free" /\ fut["server"]["status"] = "none"
       /\ UnaryResponse => ops["server"]["SendMsg"] = "free"
       /\ ~UnaryResponse => ops["server"]["SendMsg"] = "free" \/ "SendMsg" \in batch["server"]["send"]
  /\ sv.at \in {"handler", "answered"} /\ ~UnaryRequest =>
       ops["server"]["RecvMsg"] = "free" \/ "RecvMsg" \in batch["server"]["recv"]

(* Metadata are free for the batch that has them.                          *)
MetaFree ==
  /\ sv.at \in {"wire", "payload"} => sv.meta
  /\ sv.at = "handler" /\ UnaryResponse => sv.meta
  /\ sv.at = "handler" /\ sv.meta => ops["server"]["SendMeta"] = "free"

(* The answer of the server.                                               *)
Answered ==
  /\ down.status = "ok" => sv.at = "answered"
  /\ sv.at \in {"wire", "payload", "handler"} => down.status = "none"
  /\ UnaryResponse => down.sent = IF down.status = "ok" THEN 1 ELSE 0
  /\ down.taken <= down.sent

(* What a result of the batch that started the call tells of the answer.   *)
StartTells(r) ==
  /\ UnaryResponse => r # "null" /\ (r = "data" => down.status = "ok")
  /\ ~UnaryResponse /\ r = "ok" => down.status = "ok"
RecvTells(r) == r = "null" /\ ~over => down.taken = down.sent /\ down.status # "none"

One01(b) == IF b THEN 1 ELSE 0

(* What the client knows is true, and it has counted what it took.         *)
Known ==
  /\ StartTells(event["client"]["start"]) /\ StartTells(fut["client"]["start"])
  /\ UnaryResponse /\ (cl.at = "new" \/ batch["client"]["start"] # {}) => down.taken = 0
  /\ ~UnaryResponse =>
       /\ RecvTells(event["client"]["recv"]) /\ RecvTells(fut["client"]["recv"])
       /\ cl.at \in {"new", "calling"} =>
            down.taken = cl.got + One01(event["client"]["recv"] = "data")
                                + One01(fut["client"]["recv"] = "data")
  /\ ResultIsAnswer

IInv == TypeOK /\ CoreAccepts /\ Tagged /\ CoreSound /\ ClientBatches /\ ClientFree /\ ServerFree
          /\ MetaFree /\ Answered /\ Known

-----------------------------------------------------------------------------
(* What a record of the model is, whatever its Booleans are.               *)
Shapes ==
  /\ ops \in [Sides -> [Ops -> {"free", "pending", "used"}]]
  /\ batch \in [Sides -> [Tags -> SUBSET Ops]]
  /\ event \in [Sides -> [Tags -> Outcome]]
  /\ fut \in [Sides -> [Tags -> Outcome \cup {"pending"}]]
  /\ up = [sent |-> up.sent, taken |-> up.taken, closed |-> up.closed]
  /\ down = [sent |-> down.sent, taken |-> down.taken, meta |-> down.meta, status |-> down.status]
  /\ cl = [at |-> cl.at, got |-> cl.got]
  /\ sv = [at |-> sv.at, meta |-> sv.meta]
  /\ up.sent \in Nat /\ up.taken \in Nat /\ down.sent \in Nat /\ down.taken \in Nat /\ cl.got \in Nat
  /\ down.status \in {"none", "ok", "fail"}
  /\ cl.at \in {"new", "calling", "ok", "failed", "unwrapped", "rejected"}
  /\ sv.at \in {"wire", "payload", "handler", "answered", "aborted", "dropped", "rejected"}
  /\ kind \in {"unary", "cstream", "sstream", "duplex"}

Flags == up.closed \in BOOLEAN /\ down.meta \in BOOLEAN /\ over \in BOOLEAN /\ sv.meta \in BOOLEAN

(* The type invariant is its part without Boolean fields and its part with *)
(* them, which different provers handle.                                   *)
LEMMA TypeParts == TypeOK <=> Shapes /\ Flags
<1>1. TypeOK => Shapes
  BY Zenon DEF TypeOK, Kinds, Shapes
<1>2. TypeOK => Flags
  BY Zenon DEF TypeOK, Flags
<1>3. Shapes /\ Flags => TypeOK
  <2> SUFFICES ASSUME Shapes, Flags PROVE TypeOK
    BY Zenon
  <2>1. up \in [sent : Nat, taken : Nat, closed : BOOLEAN]
    BY Zenon DEF Shapes, Flags
  <2>2. down \in [sent : Nat, taken : Nat, meta : BOOLEAN, status : {"none", "ok", "fail"}]
    BY Zenon DEF Shapes, Flags
  <2>3. cl \in [at : {"new", "calling", "ok", "failed", "unwrapped", "rejected"}, got : Nat]
    BY Zenon DEF Shapes
  <2>4. sv \in [at : {"wire", "payload", "handler", "answered", "aborted", "dropped", "rejected"},
                meta : BOOLEAN]
    BY Zenon DEF Shapes, Flags
  <2> QED
    BY <2>1, <2>2, <2>3, <2>4, Zenon DEF TypeOK, Kinds, Shapes, Flags
<1> QED
  BY <1>1, <1>2, <1>3, Zenon

-----------------------------------------------------------------------------
(* A side that starts batches core accepts, for tags whose futures are not *)
(* pending, leaves core's books in order.                                  *)
LEMMA RunSound ==
  ASSUME Shapes, Tagged, CoreSound, NEW s \in Sides, NEW bs \in [Tags -> SUBSET Ops],
         Accepts(s, bs), Run(s, bs), \A t \in Tags : bs[t] # {} => fut[s][t] # "pending",
         \A u \in Sides, t \in Tags : event'[u][t] \in {event[u][t], "none"}
  PROVE  Tagged' /\ CoreSound'
<1>1. \A u \in Sides \ {s} : ops'[u] = ops[u] /\ batch'[u] = batch[u] /\ fut'[u] = fut[u]
  BY Zenon DEF Run, Shapes
<1>2. /\ \A o \in Ops : ops'[s][o] = IF \E t \in Tags : o \in bs[t] THEN "pending" ELSE ops[s][o]
      /\ \A t \in Tags : batch'[s][t] = IF bs[t] # {} THEN bs[t] ELSE batch[s][t]
      /\ \A t \in Tags : fut'[s][t] = IF bs[t] # {} THEN "pending" ELSE fut[s][t]
  BY Zenon DEF Run, Shapes
<1>3. Tagged'
  BY <1>1, <1>2 DEF Tagged
<1>4. ASSUME NEW u \in Sides, NEW t \in Tags, NEW o \in batch'[u][t]
      PROVE  ops'[u][o] = "pending" /\ \A v \in Tags \ {t} : o \notin batch'[u][v]
  <2>1. CASE u # s
    BY <1>1, <1>4, <2>1 DEF CoreSound
  <2>2. CASE u = s /\ bs[t] # {}
    <3>1. o \in bs[t] /\ o \in Ops
      BY <1>2, <2>2, Zenon
    <3>2. ops[s][o] = "free" /\ \A v \in Tags \ {t} : o \notin bs[v]
      BY <3>1, Zenon DEF Accepts
    <3>3. \A v \in Tags : o \notin batch[s][v]
      BY <3>2, Zenon DEF CoreSound
    <3> QED
      BY <1>2, <2>2, <3>1, <3>2, <3>3, Zenon
  <2>3. CASE u = s /\ bs[t] = {}
    <3>1. o \in batch[s][t] /\ o \in Ops
      BY <1>2, <2>3 DEF Shapes
    <3>2. ops[s][o] = "pending" /\ \A v \in Tags \ {t} : o \notin batch[s][v]
      BY <3>1, Zenon DEF CoreSound
    <3>3. \A v \in Tags : o \notin bs[v]
      BY <3>2, Zenon DEF Accepts
    <3> QED
      BY <1>2, <2>3, <3>1, <3>2, <3>3, Zenon
  <2> QED
    BY <2>1, <2>2, <2>3, Zenon
<1> QED
  BY <1>3, <1>4, Zenon DEF CoreSound

(* When core finishes a batch its own operations change and no others, and *)
(* a message can be sent or received again.                                *)
LEMMA CompleteSound ==
  ASSUME Shapes, Tagged, CoreSound, NEW s \in Sides, NEW t \in Tags, Complete(s, t)
  PROVE  /\ Tagged' /\ CoreSound'
         /\ \A u \in Sides, o \in Ops : ops[u][o] = "free" => ops'[u][o] = "free"
         /\ \A o \in {"SendMsg", "RecvMsg"} : o \in batch[s][t] => ops'[s][o] = "free"
         /\ \A u \in Sides, v \in Tags : batch'[u][v] = IF u = s /\ v = t THEN {} ELSE batch[u][v]
         /\ \A u \in Sides, v \in Tags : u # s \/ v # t => event'[u][v] = event[u][v]
<1>1. /\ \A u \in Sides \ {s} : ops'[u] = ops[u] /\ batch'[u] = batch[u] /\ event'[u] = event[u]
      /\ fut' = fut
  BY Zenon DEF Complete, Shapes
<1>2. \A o \in Ops : ops'[s][o] = IF o \notin batch[s][t] THEN ops[s][o]
                                  ELSE IF o \in {"SendMsg", "RecvMsg"} THEN "free" ELSE "used"
  BY Zenon DEF Complete, Shapes
<1>3. batch'[s][t] = {} /\ \A v \in Tags \ {t} : batch'[s][v] = batch[s][v] /\ event'[s][v] = event[s][v]
  BY DEF Complete, Shapes
<1>4. fut[s][t] = "pending"
  BY Zenon DEF Complete, Tagged
<1>5. Tagged'
  BY <1>1, <1>3, <1>4 DEF Tagged
<1>6. \A v \in Tags \ {t} : \A o \in batch[s][v] : o \notin batch[s][t]
  BY Zenon DEF CoreSound
<1>7. ASSUME NEW u \in Sides, NEW v \in Tags, NEW o \in batch'[u][v]
      PROVE  ops'[u][o] = "pending" /\ \A w \in Tags \ {v} : o \notin batch'[u][w]
  <2>1. CASE u # s
    BY <1>1, <2>1, Zenon DEF CoreSound
  <2>2. CASE u = s
    <3>1. v # t /\ o \in batch[s][v] /\ o \in Ops
      BY <1>3, <2>2, Zenon DEF Shapes
    <3>2. o \notin batch[s][t] /\ ops[s][o] = "pending" /\ \A w \in Tags \ {v} : o \notin batch[s][w]
      BY <1>6, <3>1, Zenon DEF CoreSound
    <3> QED
      BY <1>2, <1>3, <2>2, <3>1, <3>2, Zenon
  <2> QED
    BY <2>1, <2>2, Zenon
<1>8. \A o \in Ops : ops[s][o] = "free" => ops'[s][o] = "free"
  BY <1>2, Zenon DEF CoreSound
<1>9. CoreSound'
  BY <1>7, Zenon DEF CoreSound
<1>10. \A u \in Sides, o \in Ops : ops[u][o] = "free" => ops'[u][o] = "free"
  BY <1>1, <1>8, Zenon
<1>11. \A o \in {"SendMsg", "RecvMsg"} : o \in batch[s][t] => ops'[s][o] = "free"
  BY <1>2, Zenon DEF Ops
<1> QED
  BY <1>1, <1>3, <1>5, <1>9, <1>10, <1>11, Zenon

(* The poll thread hands over what waits.                                  *)
LEMMA ResolveSound ==
  ASSUME Shapes, Tagged, CoreSound, NEW s \in Sides, NEW t \in Tags, Resolve(s, t)
  PROVE  /\ Tagged' /\ CoreSound' /\ fut[s][t] = "pending" /\ batch[s][t] = {}
         /\ fut'[s][t] = event[s][t] /\ event'[s][t] = "none"
         /\ \A u \in Sides, v \in Tags : u # s \/ v # t =>
              fut'[u][v] = fut[u][v] /\ event'[u][v] = event[u][v]
<1>1. /\ \A u \in Sides \ {s} : fut'[u] = fut[u] /\ event'[u] = event[u]
      /\ ops' = ops /\ batch' = batch
  BY Zenon DEF Resolve, Shapes
<1>2. /\ fut'[s][t] = event[s][t] /\ event'[s][t] = "none"
      /\ \A v \in Tags \ {t} : fut'[s][v] = fut[s][v] /\ event'[s][v] = event[s][v]
  BY Zenon DEF Resolve, Shapes
<1>3. batch[s][t] = {} /\ fut[s][t] = "pending"
  BY Zenon DEF Resolve, Tagged
<1>4. Tagged'
  <2> SUFFICES ASSUME NEW u \in Sides, NEW v \in Tags
               PROVE  /\ event'[u][v] # "none" => batch'[u][v] = {} /\ fut'[u][v] = "pending"
                      /\ batch'[u][v] # {} => fut'[u][v] = "pending"
    BY Zenon DEF Tagged
  <2>1. CASE u = s /\ v = t
    BY <1>1, <1>2, <1>3, <2>1, Zenon
  <2>a. /\ event[u][v] # "none" => batch[u][v] = {} /\ fut[u][v] = "pending"
        /\ batch[u][v] # {} => fut[u][v] = "pending"
    BY Zenon DEF Tagged
  <2>2. CASE u = s /\ v # t
    BY <1>1, <1>2, <2>a, <2>2, Zenon
  <2>3. CASE u # s
    <3>1. fut'[u] = fut[u] /\ event'[u] = event[u] /\ batch'[u] = batch[u]
      BY <1>1, <2>3, Zenon
    <3> QED
      BY <2>a, <3>1, Zenon
  <2> QED
    BY <2>1, <2>2, <2>3, Zenon
<1>5. CoreSound'
  BY <1>1, Zenon DEF CoreSound
<1> QED
  BY <1>1, <1>2, <1>3, <1>4, <1>5, Zenon

-----------------------------------------------------------------------------
(* The effects of batches on the wire, field by field.                     *)
LEMMA ServerWireFields ==
  ASSUME Shapes, NEW bs, NEW st \in {"none", "ok", "fail"}, ServerWire(bs, st)
  PROVE  /\ down' = [sent |-> down'.sent, taken |-> down'.taken, meta |-> down'.meta,
                     status |-> down'.status]
         /\ down'.sent = IF Sends(bs, "SendMsg") THEN down.sent + 1 ELSE down.sent
         /\ down'.taken = down.taken
         /\ down'.status = IF Sends(bs, "SendStatus") THEN st ELSE down.status
<1> DEFINE a == IF Sends(bs, "SendMsg") THEN down.sent + 1 ELSE down.sent
           b == down.meta \/ Sends(bs, "SendMeta")
           c == IF Sends(bs, "SendStatus") THEN st ELSE down.status
<1>1. down = [sent |-> down.sent, taken |-> down.taken, meta |-> down.meta, status |-> down.status]
  BY Zenon DEF Shapes
<1>2. down' = [down EXCEPT !.sent = a, !.meta = b, !.status = c]
  BY Zenon DEF ServerWire
<1> HIDE DEF a, b, c
<1>3. down' = [sent |-> a, taken |-> down.taken, meta |-> b, status |-> c]
  BY <1>1, <1>2, Zenon
<1> QED
  BY <1>3, Zenon DEF a, c

(* What a batch of the client puts on the wire, field by field.            *)
LEMMA ClientWireFields ==
  ASSUME Shapes, NEW bs, ClientWire(bs)
  PROVE  /\ up' = [sent |-> up'.sent, taken |-> up'.taken, closed |-> up'.closed]
         /\ up'.sent = IF Sends(bs, "SendMsg") THEN up.sent + 1 ELSE up.sent
         /\ up'.taken = up.taken
<1> DEFINE a == IF Sends(bs, "SendMsg") THEN up.sent + 1 ELSE up.sent
           b == up.closed \/ Sends(bs, "SendClose")
<1>1. up = [sent |-> up.sent, taken |-> up.taken, closed |-> up.closed]
  BY Zenon DEF Shapes
<1>2. up' = [up EXCEPT !.sent = a, !.closed = b]
  BY Zenon DEF ClientWire
<1> HIDE DEF a, b
<1>3. up' = [sent |-> a, taken |-> up.taken, closed |-> b]
  BY <1>1, <1>2, Zenon
<1> QED
  BY <1>3, Zenon DEF a

-----------------------------------------------------------------------------
(* Batches that core accepts, run for tags whose futures are not pending.  *)
Runs(s, bs) ==
  /\ bs \in [Tags -> SUBSET Ops]
  /\ Accepts(s, bs) /\ Run(s, bs)
  /\ \A t \in Tags : bs[t] # {} => fut[s][t] # "pending"

(* The four entry points of a client and the two halves of a streaming     *)
(* call start only operations that are free.                               *)
LEMMA ClStartRuns ==
  ASSUME IInv, ClStart
  PROVE  /\ Runs("client", StartBatches) /\ ClientWire(StartBatches)
         /\ cl' = [cl EXCEPT !.at = "calling"]
<1>1. /\ \A o \in Ops : ops["client"][o] = "free" /\ \A t \in Tags : fut["client"][t] = "none"
      /\ kind \in {"unary", "cstream", "sstream", "duplex"}
  BY TypeParts, Zenon DEF IInv, ClStart, ClientFree, Shapes
<1>2. /\ StartBatches \in [Tags -> SUBSET Ops]
      /\ \A t \in Tags : \A o \in StartBatches[t] : \A u \in Tags \ {t} : o \notin StartBatches[u]
  BY <1>1 DEF StartBatches, One, Two, UnaryOps, ClientStreamingOps, ServerStreamingOps, DuplexOps,
              RecvMetaOps, Tags, Ops
<1>3. Accepts("client", StartBatches)
  BY <1>1, <1>2, Zenon DEF Accepts
<1> QED
  BY <1>1, <1>2, <1>3, Zenon DEF ClStart, ClientRuns, Runs

(* start_send_message of a client's sink is one batch that core accepts.   *)
LEMMA ClSendRuns ==
  ASSUME IInv, ClSend
  PROVE  Runs("client", One("send", {"SendMsg"})) /\ ClientWire(One("send", {"SendMsg"})) /\ cl' = cl
<1>1. SendOps(FALSE) = {"SendMsg"}
  BY Zenon DEF SendOps, MetaOps
<1>2. fut["client"]["send"] # "pending" /\ ops["client"]["SendMsg"] = "free"
  BY Zenon DEF IInv, ClSend, Settled, ClientFree, Tagged, Sides, Tags
<1>3. /\ One("send", {"SendMsg"}) \in [Tags -> SUBSET Ops]
      /\ Accepts("client", One("send", {"SendMsg"}))
  BY <1>2, Zenon DEF One, Accepts, Tags, Ops
<1> QED
  BY <1>1, <1>2, <1>3, Zenon DEF ClSend, ClientRuns, Runs, One

(* start_send_close_client is one batch that core accepts.                 *)
LEMMA ClCloseRuns ==
  ASSUME IInv, ClClose
  PROVE  Runs("client", One("close", CloseOps)) /\ ClientWire(One("close", CloseOps)) /\ cl' = cl
<1>1. fut["client"]["close"] = "none" /\ ops["client"]["SendClose"] = "free"
  BY Zenon DEF IInv, ClClose, ClientFree
<1>2. /\ One("close", CloseOps) \in [Tags -> SUBSET Ops]
      /\ Accepts("client", One("close", CloseOps))
  BY <1>1, Zenon DEF One, Accepts, Tags, Ops, CloseOps
<1> QED
  BY <1>1, <1>2, Zenon DEF ClClose, ClientRuns, Runs, One

(* start_recv_message of a response stream is one batch that core accepts; *)
(* the message at hand is counted.                                         *)
LEMMA ClRecvRuns ==
  ASSUME IInv, ClRecv
  PROVE  /\ Runs("client", One("recv", RecvOps)) /\ ClientWire(One("recv", RecvOps))
         /\ cl' = [cl EXCEPT !.got = IF fut["client"].recv = "data" THEN @ + 1 ELSE @]
<1>1. fut["client"]["recv"] # "pending" /\ ops["client"]["RecvMsg"] = "free"
  BY Zenon DEF IInv, ClRecv, ClientFree, Tagged, Sides, Tags
<1>2. /\ One("recv", RecvOps) \in [Tags -> SUBSET Ops]
      /\ Accepts("client", One("recv", RecvOps))
  BY <1>1, Zenon DEF One, Accepts, Tags, Ops, RecvOps
<1> QED
  BY <1>1, <1>2, Zenon DEF ClRecv, ClientRuns, Runs, One

-----------------------------------------------------------------------------
(* What a step of the server that starts batches amounts to: it aborts the *)
(* call, gives it to the handler, fetches the payload, answers, sends a    *)
(* message or asks for one.                                                *)
ServerMove(bs, st) ==
  /\ Runs("server", bs) /\ ServerWire(bs, st)
  /\ UNCHANGED <<kind, up, over, cl>>
  /\ event' = event \/ event' = [event EXCEPT !["server"].recv = "none"]
  /\ \/ /\ sv.at \in {"wire", "payload"} /\ sv' = [sv EXCEPT !.at = "aborted"] /\ st = "fail"
        /\ Sends(bs, "SendStatus") /\ ~Sends(bs, "SendMsg")
     \/ /\ sv.at \in {"wire", "payload"} /\ sv' = [sv EXCEPT !.at = "handler"]
        /\ bs = One("accept", AcceptOps)
     \/ /\ sv.at = "wire" /\ sv' = [sv EXCEPT !.at = "payload"] /\ UnaryRequest
        /\ bs = One("recv", RecvOps)
     \/ /\ sv.at = "handler" /\ sv' = [sv EXCEPT !.at = "answered"] /\ st \in {"ok", "fail"}
        /\ Sends(bs, "SendStatus") /\ ~Sends(bs, "RecvMsg")
        /\ UnaryResponse => (Sends(bs, "SendMsg") <=> st = "ok")
     \/ /\ sv.at = "handler" /\ sv' = [sv EXCEPT !.meta = FALSE] /\ ~UnaryResponse
        /\ bs["send"] # {} /\ "SendMsg" \in bs["send"] /\ ~Sends(bs, "SendStatus")
        /\ \A t \in Tags \ {"send"} : bs[t] = {}
        /\ ~Sends(bs, "RecvMsg")
     \/ /\ sv.at \in {"handler", "answered"} /\ sv' = sv /\ ~UnaryRequest
        /\ bs = One("recv", RecvOps)

(* A server that has not started anything but the fetch of the payload may *)
(* abort the call or give it to the handler.                               *)
LEMMA FreshRuns ==
  ASSUME Shapes, ServerFree, sv.at \in {"wire", "payload"},
         NEW bs \in {Two("accept", AcceptOps, "status", AbortOps), One("status", AbortOps),
                     One("accept", AcceptOps)}
  PROVE  /\ bs \in [Tags -> SUBSET Ops] /\ Accepts("server", bs)
         /\ \A t \in Tags : bs[t] # {} => fut["server"][t] # "pending"
         /\ ~Sends(bs, "SendMsg")
         /\ bs # One("accept", AcceptOps) => Sends(bs, "SendStatus")
<1>1. AbortOps = {"SendStatus", "SendMeta"}
  BY Zenon DEF AbortOps, StatusOps, MetaOps
<1>2. /\ \A o \in {"SendStatus", "SendMeta", "RecvClose"} : ops["server"][o] = "free"
      /\ \A t \in {"accept", "status"} : fut["server"][t] = "none"
  BY Zenon DEF ServerFree, Ops, Tags
<1>3. bs \in [Tags -> SUBSET Ops] /\ Accepts("server", bs)
  BY <1>1, <1>2 DEF One, Two, Accepts, AcceptOps, Tags, Ops
<1> QED
  BY <1>1, <1>2, <1>3 DEF One, Two, AcceptOps, Tags, Sends

(* execute and execute_unimplemented start batches that core accepts, and  *)
(* the server has answered or handed the call to its handler.              *)
LEMMA ExecuteMoves ==
  ASSUME Shapes, ServerFree, sv.at \in {"wire", "payload"}, Execute \/ Unimplemented
         \/ ServerRuns(One("status", AbortOps), "fail", [sv EXCEPT !.at = "aborted"]),
         UNCHANGED <<kind, up, over, cl>>,
         event' = event \/ event' = [event EXCEPT !["server"].recv = "none"]
  PROVE  \E bs : \E st \in {"none", "ok", "fail"} : ServerMove(bs, st)
<1>1. \/ \E bs \in {Two("accept", AcceptOps, "status", AbortOps), One("status", AbortOps)} :
           ServerRuns(bs, "fail", [sv EXCEPT !.at = "aborted"])
      \/ ServerRuns(One("accept", AcceptOps), "none", [sv EXCEPT !.at = "handler"])
  BY Zenon DEF Execute, ExecuteHandler, Unimplemented, StartServerSide
<1>2. ASSUME NEW bs \in {Two("accept", AcceptOps, "status", AbortOps), One("status", AbortOps)},
             ServerRuns(bs, "fail", [sv EXCEPT !.at = "aborted"])
      PROVE  \E st \in {"none", "ok", "fail"} : ServerMove(bs, st)
  <2>1. bs # One("accept", AcceptOps)
    BY <1>2, Zenon DEF One, Two, AbortOps, StatusOps, MetaOps, AcceptOps, Tags
  <2>2. /\ bs \in [Tags -> SUBSET Ops] /\ Accepts("server", bs)
        /\ \A t \in Tags : bs[t] # {} => fut["server"][t] # "pending"
        /\ ~Sends(bs, "SendMsg") /\ Sends(bs, "SendStatus")
    BY <2>1, FreshRuns
  <2>3. Runs("server", bs) /\ ServerWire(bs, "fail") /\ sv' = [sv EXCEPT !.at = "aborted"]
    BY <1>2, <2>2, Zenon DEF ServerRuns, Runs
  <2>4. ServerMove(bs, "fail")
    BY <2>2, <2>3, Zenon DEF ServerMove
  <2> QED
    BY <2>4, Zenon
<1>3. ASSUME ServerRuns(One("accept", AcceptOps), "none", [sv EXCEPT !.at = "handler"])
      PROVE  \E bs : \E st \in {"none", "ok", "fail"} : ServerMove(bs, st)
  <2> DEFINE bs == One("accept", AcceptOps)
  <2>1. /\ bs \in [Tags -> SUBSET Ops] /\ Accepts("server", bs)
        /\ \A t \in Tags : bs[t] # {} => fut["server"][t] # "pending"
    BY FreshRuns, Zenon
  <2>2. Runs("server", bs) /\ ServerWire(bs, "none") /\ sv' = [sv EXCEPT !.at = "handler"]
    BY <1>3, <2>1, Zenon DEF ServerRuns, Runs
  <2> HIDE DEF bs
  <2>3. ServerMove(bs, "none")
    BY <2>2, Zenon DEF ServerMove, bs
  <2> QED
    BY <2>3, Zenon
<1> QED
  BY <1>1, <1>2, <1>3, Zenon

(* A server asks for a message, the payload of a unary request or the next *)
(* one of a stream.                                                        *)
LEMMA RecvRuns ==
  ASSUME Shapes, Tagged, ServerFree, sv.at = "wire" \/ (sv.at \in {"handler", "answered"} /\ ~UnaryRequest),
         fut["server"]["recv"] # "pending"
  PROVE  /\ One("recv", RecvOps) \in [Tags -> SUBSET Ops] /\ Accepts("server", One("recv", RecvOps))
         /\ \A t \in Tags : One("recv", RecvOps)[t] # {} => fut["server"][t] # "pending"
<1>1. ops["server"]["RecvMsg"] = "free"
  BY Zenon DEF ServerFree, Tagged, Sides, Tags, Ops
<1> QED
  BY <1>1, Zenon DEF One, RecvOps, Accepts, Tags, Ops

(* RequestContext::handle_stream_req, handle_unary_req and                 *)
(* UnaryRequestContext::handle.                                            *)
LEMMA RequestMoves ==
  ASSUME IInv, SvRequest \/ SvPayload PROVE \E bs : \E st \in {"none", "ok", "fail"} : ServerMove(bs, st)
<1>1. Shapes /\ ServerFree /\ Tagged
  BY TypeParts, Zenon DEF IInv
<1>2. CASE SvPayload
  BY <1>1, <1>2, ExecuteMoves, Zenon DEF SvPayload
<1>3. CASE SvRequest /\ (Execute \/ Unimplemented)
  BY <1>1, <1>3, ExecuteMoves, Zenon DEF SvRequest
<1>4. CASE SvRequest /\ UnaryRequest
           /\ ServerRuns(One("recv", RecvOps), "none", [sv EXCEPT !.at = "payload"])
  <2> DEFINE bs == One("recv", RecvOps)
  <2>1. sv.at = "wire" /\ fut["server"]["recv"] # "pending"
    BY <1>1, <1>4, Zenon DEF SvRequest, ServerFree, Tags
  <2>2. /\ bs \in [Tags -> SUBSET Ops] /\ Accepts("server", bs)
        /\ \A t \in Tags : bs[t] # {} => fut["server"][t] # "pending"
    BY <1>1, <2>1, RecvRuns, Zenon
  <2>3. Runs("server", bs) /\ ServerWire(bs, "none") /\ sv' = [sv EXCEPT !.at = "payload"]
    BY <1>4, <2>2, Zenon DEF ServerRuns, Runs
  <2>4. UNCHANGED <<kind, up, over, cl>> /\ event' = event
    BY <1>4, Zenon DEF SvRequest
  <2> HIDE DEF bs
  <2>5. ServerMove(bs, "none")
    BY <1>4, <2>1, <2>3, <2>4, Zenon DEF ServerMove, bs
  <2> QED
    BY <2>5, Zenon
<1> QED
  BY <1>2, <1>3, <1>4, Zenon DEF SvRequest

(* The sinks of the handler and its RequestStream.                         *)
LEMMA HandlerMoves ==
  ASSUME IInv, SvSuccess \/ SvSend \/ SvClose \/ SvFail \/ SvRecv
  PROVE  \E bs : \E st \in {"none", "ok", "fail"} : ServerMove(bs, st)
<1>1. Shapes /\ ServerFree /\ Tagged
  BY TypeParts, Zenon DEF IInv
<1>2. ASSUME sv.at = "handler"
      PROVE  /\ MetaOps(sv.meta) \subseteq {"SendMeta"}
             /\ \A o \in MetaOps(sv.meta) : ops["server"][o] = "free"
             /\ UnaryResponse => MetaOps(sv.meta) = {"SendMeta"}
  BY <1>2, Zenon DEF IInv, MetaFree, MetaOps
<1>3. CASE SvSuccess
  <2>1. StatusOps(TRUE, TRUE) = {"SendStatus", "SendMsg", "SendMeta"}
    BY Zenon DEF StatusOps, MetaOps
  <2>2. /\ sv.at = "handler" /\ UnaryResponse /\ fut["server"]["status"] = "none"
        /\ \A o \in {"SendStatus", "SendMsg", "SendMeta"} : ops["server"][o] = "free"
    BY <1>1, <1>2, <1>3, Zenon DEF SvSuccess, ServerFree
  <2>3. PICK bs : bs = One("status", {"SendStatus", "SendMsg", "SendMeta"})
    BY Zenon
  <2>4. /\ bs \in [Tags -> SUBSET Ops] /\ Accepts("server", bs)
        /\ \A t \in Tags : bs[t] # {} => fut["server"][t] # "pending"
        /\ Sends(bs, "SendStatus") /\ Sends(bs, "SendMsg") /\ ~Sends(bs, "RecvMsg")
    BY <2>2, <2>3, Zenon DEF One, Accepts, Sends, Tags, Ops
  <2>5. Runs("server", bs) /\ ServerWire(bs, "ok") /\ sv' = [sv EXCEPT !.at = "answered"]
    BY <1>3, <2>1, <2>3, <2>4, Zenon DEF SvSuccess, ServerRuns, Runs
  <2>6. UNCHANGED <<kind, up, over, cl>> /\ event' = event
    BY <1>3, Zenon DEF SvSuccess
  <2>7. ServerMove(bs, "ok")
    BY <2>2, <2>4, <2>5, <2>6, Zenon DEF ServerMove
  <2> QED
    BY <2>7, Zenon
<1>4. CASE SvClose \/ SvFail
  <2>1. PICK st \in {"ok", "fail"} :
          /\ ServerRuns(One("status", StatusOps(FALSE, sv.meta)), st, [sv EXCEPT !.at = "answered"])
          /\ UnaryResponse => st # "ok"
    BY <1>4, Zenon DEF SvClose, SvFail
  <2>2. /\ sv.at = "handler" /\ fut["server"]["status"] = "none"
        /\ ops["server"]["SendStatus"] = "free"
        /\ UNCHANGED <<kind, up, over, cl>> /\ event' = event
    BY <1>1, <1>4, Zenon DEF SvClose, SvFail, ServerFree
  <2>3. PICK bs : bs = One("status", StatusOps(FALSE, sv.meta))
    BY Zenon
  <2>4. PICK m \in SUBSET {"SendMeta"} : m = MetaOps(sv.meta)
    BY <1>2, <2>2, Zenon
  <2>5. /\ bs = One("status", {"SendStatus"} \cup m)
        /\ \A o \in m : ops["server"][o] = "free"
    BY <1>2, <2>2, <2>3, <2>4, Zenon DEF StatusOps
  <2>6. /\ bs \in [Tags -> SUBSET Ops] /\ Accepts("server", bs)
        /\ \A t \in Tags : bs[t] # {} => fut["server"][t] # "pending"
        /\ Sends(bs, "SendStatus") /\ ~Sends(bs, "SendMsg") /\ ~Sends(bs, "RecvMsg")
    BY <2>2, <2>5, Zenon DEF One, Accepts, Sends, Tags, Ops
  <2>7. Runs("server", bs) /\ ServerWire(bs, st) /\ sv' = [sv EXCEPT !.at = "answered"]
    BY <2>1, <2>3, <2>6, Zenon DEF ServerRuns, Runs
  <2>8. ServerMove(bs, st)
    BY <2>1, <2>2, <2>6, <2>7, Zenon DEF ServerMove
  <2> QED
    BY <2>8, Zenon
<1>5. CASE SvSend
  <2>1. /\ ServerRuns(One("send", SendOps(sv.meta)), "none", [sv EXCEPT !.meta = FALSE])
        /\ sv.at = "handler" /\ ~UnaryResponse /\ fut["server"]["send"] # "pending"
        /\ UNCHANGED <<kind, up, over, cl>> /\ event' = event
    BY <1>5, Zenon DEF SvSend, Settled
  <2>2. ops["server"]["SendMsg"] = "free"
    BY <1>1, <2>1, Zenon DEF ServerFree, Tagged, Sides, Tags
  <2>3. PICK bs : bs = One("send", SendOps(sv.meta))
    BY Zenon
  <2>4. PICK m \in SUBSET {"SendMeta"} : m = MetaOps(sv.meta)
    BY <1>2, <2>1, Zenon
  <2>5. /\ bs = One("send", {"SendMsg"} \cup m)
        /\ \A o \in m : ops["server"][o] = "free"
    BY <1>2, <2>1, <2>3, <2>4, Zenon DEF SendOps
  <2>6. /\ bs \in [Tags -> SUBSET Ops] /\ Accepts("server", bs)
        /\ \A t \in Tags : bs[t] # {} => fut["server"][t] # "pending"
        /\ ~Sends(bs, "SendStatus") /\ ~Sends(bs, "RecvMsg") /\ "SendMsg" \in bs["send"]
        /\ \A t \in Tags \ {"send"} : bs[t] = {}
    BY <2>1, <2>2, <2>5, Zenon DEF One, Accepts, Sends, Tags, Ops
  <2>7. Runs("server", bs) /\ ServerWire(bs, "none") /\ sv' = [sv EXCEPT !.meta = FALSE]
    BY <2>1, <2>3, <2>6, Zenon DEF ServerRuns, Runs
  <2>8. bs["send"] # {}
    BY <2>6, Zenon
  <2>9. ServerMove(bs, "none")
    BY <2>1, <2>6, <2>7, <2>8, Zenon DEF ServerMove
  <2> QED
    BY <2>9, Zenon
<1>6. CASE SvRecv
  <2>1. /\ ServerRuns(One("recv", RecvOps), "none", sv)
        /\ sv.at \in {"handler", "answered"} /\ ~UnaryRequest /\ fut["server"]["recv"] # "pending"
        /\ UNCHANGED <<kind, up, over, cl>> /\ event' = event
    BY <1>6, Zenon DEF SvRecv
  <2>2. PICK bs : bs = One("recv", RecvOps)
    BY Zenon
  <2>3. /\ bs \in [Tags -> SUBSET Ops] /\ Accepts("server", bs)
        /\ \A t \in Tags : bs[t] # {} => fut["server"][t] # "pending"
    BY <1>1, <2>1, <2>2, RecvRuns, Zenon
  <2>4. Runs("server", bs) /\ ServerWire(bs, "none") /\ sv' = sv
    BY <2>1, <2>2, <2>3, Zenon DEF ServerRuns, Runs
  <2>5. ServerMove(bs, "none")
    BY <2>1, <2>2, <2>4, Zenon DEF ServerMove
  <2> QED
    BY <2>5, Zenon
<1> QED
  BY <1>3, <1>4, <1>5, <1>6, Zenon

-----------------------------------------------------------------------------
(* What a Run leaves of the shapes, and of the other side.                 *)
LEMMA RunShapes ==
  ASSUME Shapes, NEW s \in Sides, NEW bs, Runs(s, bs)
  PROVE  /\ ops' \in [Sides -> [Ops -> {"free", "pending", "used"}]]
         /\ batch' \in [Sides -> [Tags -> SUBSET Ops]]
         /\ fut' \in [Sides -> [Tags -> Outcome \cup {"pending"}]]
         /\ \A u \in Sides \ {s} : ops'[u] = ops[u] /\ batch'[u] = batch[u] /\ fut'[u] = fut[u]
         /\ \A o \in Ops : ops'[s][o] = IF \E t \in Tags : o \in bs[t] THEN "pending" ELSE ops[s][o]
         /\ \A t \in Tags : batch'[s][t] = IF bs[t] # {} THEN bs[t] ELSE batch[s][t]
         /\ \A t \in Tags : fut'[s][t] = IF bs[t] # {} THEN "pending" ELSE fut[s][t]
BY DEF Runs, Run, Shapes

(* The server's record after a step, field by field.                       *)
LEMMA ServerFields ==
  ASSUME Shapes, NEW bs, NEW st, ServerMove(bs, st)
  PROVE  /\ sv' = [at |-> sv'.at, meta |-> sv'.meta]
         /\ sv'.meta = sv.meta \/ (sv'.meta = FALSE /\ sv'.at = "handler" /\ ~UnaryResponse)
         /\ \/ sv.at \in {"wire", "payload"} /\ sv'.at \in {"aborted", "handler", "payload"}
            \/ sv.at = "handler" /\ sv'.at \in {"answered", "handler"}
            \/ sv.at = "answered" /\ sv'.at = "answered"
         /\ sv'.at = "payload" => sv.at = "wire"
<1>1. sv = [at |-> sv.at, meta |-> sv.meta]
  BY Zenon DEF Shapes
<1>2. \/ /\ sv.at \in {"wire", "payload"} /\ sv' = [sv EXCEPT !.at = "aborted"]
      \/ /\ sv.at \in {"wire", "payload"} /\ sv' = [sv EXCEPT !.at = "handler"]
      \/ /\ sv.at = "wire" /\ sv' = [sv EXCEPT !.at = "payload"]
      \/ /\ sv.at = "handler" /\ sv' = [sv EXCEPT !.at = "answered"]
      \/ /\ sv.at = "handler" /\ sv' = [sv EXCEPT !.meta = FALSE] /\ ~UnaryResponse
      \/ /\ sv.at \in {"handler", "answered"} /\ sv' = sv
  BY Zenon DEF ServerMove
<1>3. \/ /\ sv.at \in {"wire", "payload"} /\ sv' = [at |-> "aborted", meta |-> sv.meta]
      \/ /\ sv.at \in {"wire", "payload"} /\ sv' = [at |-> "handler", meta |-> sv.meta]
      \/ /\ sv.at = "wire" /\ sv' = [at |-> "payload", meta |-> sv.meta]
      \/ /\ sv.at = "handler" /\ sv' = [at |-> "answered", meta |-> sv.meta]
      \/ /\ sv.at = "handler" /\ sv' = [at |-> sv.at, meta |-> FALSE] /\ ~UnaryResponse
      \/ /\ sv.at \in {"handler", "answered"} /\ sv' = [at |-> sv.at, meta |-> sv.meta]
  BY <1>1, <1>2, Zenon
<1> QED
  BY <1>3

(* A step of the server keeps the shapes and the books of core.            *)
LEMMA MoveBooks ==
  ASSUME IInv, NEW bs, NEW st \in {"none", "ok", "fail"}, ServerMove(bs, st)
  PROVE  /\ Shapes' /\ Tagged' /\ CoreSound' /\ ClientBatches' /\ ClientFree' /\ CoreAccepts'
         /\ event'["client"] = event["client"] /\ fut'["client"] = fut["client"]
         /\ batch'["client"] = batch["client"]
<1>0. Shapes /\ Tagged /\ CoreSound /\ ClientBatches /\ ClientFree /\ CoreAccepts
  BY TypeParts, Zenon DEF IInv
<1>1. Runs("server", bs) /\ ServerWire(bs, st) /\ kind' = kind /\ up' = up /\ cl' = cl
  BY Zenon DEF ServerMove
<1>2. /\ event' \in [Sides -> [Tags -> Outcome]] /\ event'["client"] = event["client"]
      /\ \A u \in Sides, t \in Tags : event'[u][t] \in {event[u][t], "none"}
  <2>1. event' = event \/ event' = [event EXCEPT !["server"].recv = "none"]
    BY Zenon DEF ServerMove
  <2> QED
    BY <1>0, <2>1 DEF Shapes, Sides, Tags, Outcome
<1>3. Tagged' /\ CoreSound'
  BY <1>0, <1>1, <1>2, RunSound, Zenon DEF Runs, Sides
<1>4. /\ ops'["client"] = ops["client"] /\ batch'["client"] = batch["client"]
      /\ fut'["client"] = fut["client"]
  BY <1>0, <1>1, RunShapes, Zenon DEF Sides
<1>5. ClientBatches' /\ ClientFree'
  <2>1. StartOps' = StartOps /\ (UnaryRequest' <=> UnaryRequest) /\ (UnaryResponse' <=> UnaryResponse)
    BY <1>1, Zenon DEF StartOps, StartBatches, UnaryRequest, UnaryResponse
  <2> QED
    BY <1>0, <1>1, <1>2, <1>4, <2>1, Zenon DEF ClientBatches, ClientFree
<1>6. CoreAccepts' /\ sv' = [at |-> sv'.at, meta |-> sv'.meta]
      /\ sv'.at \in {"wire", "payload", "handler", "answered", "aborted", "dropped", "rejected"}
  BY <1>0, <1>1, ServerFields, Zenon DEF CoreAccepts
<1>7. /\ down' = [sent |-> down'.sent, taken |-> down'.taken, meta |-> down'.meta,
                  status |-> down'.status]
      /\ down'.sent \in Nat /\ down'.taken \in Nat /\ down'.status \in {"none", "ok", "fail"}
  BY <1>0, <1>1, ServerWireFields DEF Shapes
<1>8. /\ ops' \in [Sides -> [Ops -> {"free", "pending", "used"}]]
      /\ batch' \in [Sides -> [Tags -> SUBSET Ops]]
      /\ fut' \in [Sides -> [Tags -> Outcome \cup {"pending"}]]
  BY <1>0, <1>1, RunShapes, Zenon DEF Sides
<1>9. Shapes'
  BY <1>0, <1>1, <1>2, <1>6, <1>7, <1>8, Zenon DEF Shapes
<1> QED
  BY <1>2, <1>3, <1>4, <1>5, <1>6, <1>9, Zenon

(* It keeps what the server may still start free.                          *)
LEMMA MoveFree ==
  ASSUME IInv, NEW bs, NEW st \in {"none", "ok", "fail"}, ServerMove(bs, st)
  PROVE  ServerFree'
<1>0. Shapes /\ ServerFree /\ Tagged
  BY TypeParts, Zenon DEF IInv
<1>1. /\ (UnaryRequest' <=> UnaryRequest) /\ (UnaryResponse' <=> UnaryResponse)
      /\ Runs("server", bs)
  BY Zenon DEF ServerMove, UnaryRequest, UnaryResponse
<1>2. /\ \A o \in Ops : ops'["server"][o] = IF \E t \in Tags : o \in bs[t] THEN "pending"
                                            ELSE ops["server"][o]
      /\ \A t \in Tags : batch'["server"][t] = IF bs[t] # {} THEN bs[t] ELSE batch["server"][t]
      /\ \A t \in Tags : fut'["server"][t] = IF bs[t] # {} THEN "pending" ELSE fut["server"][t]
  BY <1>0, <1>1, RunShapes, Zenon DEF Sides
<1>3. sv = [at |-> sv.at, meta |-> sv.meta]
  BY <1>0, Zenon DEF Shapes
<1>4. CASE sv' = [sv EXCEPT !.at = "aborted"]
  <2>1. sv'.at = "aborted"
    BY <1>3, <1>4, Zenon
  <2> QED
    BY <2>1, Zenon DEF ServerFree
<1>5. CASE sv.at \in {"wire", "payload"} /\ sv' = [sv EXCEPT !.at = "handler"] /\ bs = One("accept", AcceptOps)
  <2>1. sv'.at = "handler"
    BY <1>3, <1>5, Zenon
  <2>2. /\ \A o \in {"SendStatus", "SendMsg", "RecvMsg"} : ops'["server"][o] = ops["server"][o]
        /\ fut'["server"]["status"] = fut["server"]["status"]
    BY <1>2, <1>5, Zenon DEF One, AcceptOps, Ops, Tags
  <2>3. /\ ops["server"]["SendStatus"] = "free" /\ ops["server"]["SendMsg"] = "free"
        /\ ~UnaryRequest => ops["server"]["RecvMsg"] = "free"
        /\ fut["server"]["status"] = "none"
    BY <1>0, <1>5, Zenon DEF ServerFree, Ops, Tags
  <2> QED
    BY <1>1, <2>1, <2>2, <2>3, Zenon DEF ServerFree
<1>6. CASE sv.at = "wire" /\ sv' = [sv EXCEPT !.at = "payload"] /\ UnaryRequest /\ bs = One("recv", RecvOps)
  <2>1. sv'.at = "payload"
    BY <1>3, <1>6, Zenon
  <2>2. /\ \A o \in Ops \ {"RecvMsg"} : ops'["server"][o] = ops["server"][o]
        /\ \A t \in Tags \ {"recv"} : fut'["server"][t] = fut["server"][t]
    BY <1>2, <1>6, Zenon DEF One, RecvOps, Ops, Tags
  <2> QED
    BY <1>0, <1>1, <1>6, <2>1, <2>2 DEF ServerFree
<1>7. CASE sv.at = "handler" /\ sv' = [sv EXCEPT !.at = "answered"] /\ ~Sends(bs, "RecvMsg")
  <2>1. sv'.at = "answered"
    BY <1>3, <1>7, Zenon
  <2>2. /\ ops'["server"]["RecvMsg"] = ops["server"]["RecvMsg"]
        /\ batch'["server"]["recv"] = batch["server"]["recv"] \/ "RecvMsg" \notin batch["server"]["recv"]
           \/ (bs["recv"] # {})
    BY <1>2, <1>7, Zenon DEF Sends, Ops, Tags
  <2>3. bs["recv"] # {} => "RecvMsg" \notin batch["server"]["recv"]
    BY <1>0, <1>1, Zenon DEF Tagged, Runs, Sides, Tags
  <2> QED
    BY <1>0, <1>1, <1>2, <1>7, <2>1, <2>2, <2>3, Zenon DEF ServerFree, Tags
<1>8. CASE /\ sv.at = "handler" /\ sv' = [sv EXCEPT !.meta = FALSE] /\ ~UnaryResponse
           /\ bs["send"] # {} /\ "SendMsg" \in bs["send"] /\ ~Sends(bs, "SendStatus")
           /\ \A t \in Tags \ {"send"} : bs[t] = {}
           /\ ~Sends(bs, "RecvMsg")
  <2>1. sv'.at = "handler"
    BY <1>3, <1>8, Zenon
  <2>2. /\ ops'["server"]["RecvMsg"] = ops["server"]["RecvMsg"]
        /\ ops'["server"]["SendStatus"] = ops["server"]["SendStatus"]
        /\ batch'["server"]["recv"] = batch["server"]["recv"] /\ batch'["server"]["send"] = bs["send"]
        /\ fut'["server"]["status"] = fut["server"]["status"]
    BY <1>2, <1>8 DEF Sends, Ops, Tags
  <2> QED
    BY <1>0, <1>1, <1>8, <2>1, <2>2, Zenon DEF ServerFree
<1>9. CASE sv.at \in {"handler", "answered"} /\ sv' = sv /\ ~UnaryRequest /\ bs = One("recv", RecvOps)
  <2>1. /\ \A o \in Ops \ {"RecvMsg"} : ops'["server"][o] = ops["server"][o]
        /\ \A t \in Tags \ {"recv"} : /\ fut'["server"][t] = fut["server"][t]
                                      /\ batch'["server"][t] = batch["server"][t]
        /\ "RecvMsg" \in batch'["server"]["recv"]
    BY <1>2, <1>9, Zenon DEF One, RecvOps, Ops, Tags
  <2>2. sv'.at = sv.at
    BY <1>9, Zenon
  <2> QED
    BY <1>0, <1>1, <1>9, <2>1, <2>2, Zenon DEF ServerFree, Ops, Tags
<1> QED
  BY <1>4, <1>5, <1>6, <1>7, <1>8, <1>9, Zenon DEF ServerMove

(* It keeps metadata for the first batch that may have them.               *)
LEMMA MoveMeta ==
  ASSUME IInv, NEW bs, NEW st \in {"none", "ok", "fail"}, ServerMove(bs, st)
  PROVE  MetaFree' /\ Flags'
<1>0. Shapes /\ Flags /\ ServerFree /\ MetaFree
  BY TypeParts, Zenon DEF IInv
<1>1. /\ sv'.meta = sv.meta \/ (sv'.meta = FALSE /\ sv'.at = "handler" /\ ~UnaryResponse)
      /\ \/ sv.at \in {"wire", "payload"} /\ sv'.at \in {"aborted", "handler", "payload"}
         \/ sv.at = "handler" /\ sv'.at \in {"answered", "handler"}
         \/ sv.at = "answered" /\ sv'.at = "answered"
  BY <1>0, ServerFields, Zenon
<1>2. sv'.meta \in BOOLEAN
  BY <1>0, <1>1, Zenon DEF Flags
<1>3. down'.meta \in BOOLEAN
  <2> DEFINE a == IF Sends(bs, "SendMsg") THEN down.sent + 1 ELSE down.sent
             b == down.meta \/ Sends(bs, "SendMeta")
             c == IF Sends(bs, "SendStatus") THEN st ELSE down.status
  <2>1. down' = [down EXCEPT !.sent = a, !.meta = b, !.status = c]
    BY Zenon DEF ServerMove, ServerWire
  <2>2. b \in BOOLEAN
    BY Zenon
  <2> HIDE DEF a, b, c
  <2>3. down = [sent |-> down.sent, taken |-> down.taken, meta |-> down.meta, status |-> down.status]
    BY <1>0, Zenon DEF Shapes
  <2>4. down'.meta = b
    BY <2>1, <2>3, Zenon
  <2> QED
    BY <2>2, <2>4, Zenon
<1>4. over' = over /\ up' = up
  BY Zenon DEF ServerMove
<1>5. Flags'
  BY <1>0, <1>2, <1>3, <1>4, Zenon DEF Flags
<1>6. UnaryResponse' <=> UnaryResponse
  BY Zenon DEF ServerMove, UnaryResponse
<1>7. sv'.at \in {"wire", "payload"} => sv'.meta
  BY <1>0, <1>1, Zenon DEF MetaFree
<1>8. sv'.at = "handler" /\ UnaryResponse' => sv'.meta
  BY <1>0, <1>1, <1>6, Zenon DEF MetaFree
<1>9. ASSUME sv'.at = "handler", sv'.meta PROVE ops'["server"]["SendMeta"] = "free"
  <2>1. ops["server"]["SendMeta"] = "free"
    BY <1>0, <1>1, <1>9, Zenon DEF MetaFree, ServerFree, Ops
  <2>2. \A t \in Tags : "SendMeta" \notin bs[t]
    <3>1. CASE bs = One("accept", AcceptOps) \/ bs = One("recv", RecvOps)
      BY <3>1 DEF One, AcceptOps, RecvOps
    <3>2. CASE sv' = [sv EXCEPT !.meta = FALSE]
      <4>1. sv'.meta = FALSE
        BY <1>0, <3>2, Zenon DEF Shapes
      <4> QED
        BY <1>9, <4>1, Zenon
    <3>3. sv' = [sv EXCEPT !.at = "aborted"] => sv'.at = "aborted"
      BY <1>0, Zenon DEF Shapes
    <3>4. sv' = [sv EXCEPT !.at = "answered"] => sv'.at = "answered"
      BY <1>0, Zenon DEF Shapes
    <3> QED
      BY <1>9, <3>1, <3>2, <3>3, <3>4, Zenon DEF ServerMove
  <2>3. Runs("server", bs)
    BY Zenon DEF ServerMove
  <2>4. \A o \in Ops : ops'["server"][o] = IF \E t \in Tags : o \in bs[t] THEN "pending"
                                           ELSE ops["server"][o]
    BY <1>0, <2>3, RunShapes, Zenon DEF Sides
  <2> QED
    BY <2>1, <2>2, <2>4, Zenon DEF Ops
<1> QED
  BY <1>5, <1>7, <1>8, <1>9, Zenon DEF MetaFree

(* A status is final, nothing is sent after it, and the answer to a unary  *)
(* response has its one message.                                           *)
LEMMA MoveAnswers ==
  ASSUME IInv, NEW bs, NEW st \in {"none", "ok", "fail"}, ServerMove(bs, st)
  PROVE  Answered' /\ Known'
<1>0. Shapes /\ Answered /\ Known
  BY TypeParts, Zenon DEF IInv
<1>1. /\ down'.sent = IF Sends(bs, "SendMsg") THEN down.sent + 1 ELSE down.sent
      /\ down'.taken = down.taken
      /\ down'.status = IF Sends(bs, "SendStatus") THEN st ELSE down.status
  BY <1>0, ServerWireFields, Zenon DEF ServerMove
<1>2. (UnaryResponse' <=> UnaryResponse) /\ cl' = cl
  BY Zenon DEF ServerMove, UnaryResponse
<1>3. sv = [at |-> sv.at, meta |-> sv.meta]
  BY <1>0, Zenon DEF Shapes
<1>4. ASSUME bs = One("accept", AcceptOps) \/ bs = One("recv", RecvOps)
      PROVE  ~Sends(bs, "SendMsg") /\ ~Sends(bs, "SendStatus")
  BY <1>4 DEF One, AcceptOps, RecvOps, Sends
<1>5. \/ /\ sv.at \in {"wire", "payload"} /\ sv'.at = "aborted"
         /\ down'.status = "fail" /\ down'.sent = down.sent
      \/ /\ sv.at \in {"wire", "payload"} /\ sv'.at \in {"handler", "payload"}
         /\ down'.status = down.status /\ down'.sent = down.sent
      \/ /\ sv.at = "handler" /\ sv'.at = "answered" /\ down'.status = st /\ st \in {"ok", "fail"}
         /\ UnaryResponse => down'.sent = IF st = "ok" THEN down.sent + 1 ELSE down.sent
      \/ /\ sv.at = "handler" /\ sv'.at = "handler" /\ ~UnaryResponse /\ down'.status = down.status
      \/ /\ sv.at \in {"handler", "answered"} /\ sv'.at = sv.at
         /\ down'.status = down.status /\ down'.sent = down.sent
  <2>1. CASE /\ sv.at \in {"wire", "payload"} /\ sv' = [sv EXCEPT !.at = "aborted"] /\ st = "fail"
             /\ Sends(bs, "SendStatus") /\ ~Sends(bs, "SendMsg")
    BY <1>1, <1>3, <2>1, Zenon
  <2>2. CASE /\ sv.at \in {"wire", "payload"} /\ sv' = [sv EXCEPT !.at = "handler"]
             /\ bs = One("accept", AcceptOps)
    BY <1>1, <1>3, <1>4, <2>2, Zenon
  <2>3. CASE /\ sv.at = "wire" /\ sv' = [sv EXCEPT !.at = "payload"] /\ bs = One("recv", RecvOps)
    BY <1>1, <1>3, <1>4, <2>3, Zenon
  <2>4. CASE /\ sv.at = "handler" /\ sv' = [sv EXCEPT !.at = "answered"] /\ st \in {"ok", "fail"}
             /\ Sends(bs, "SendStatus") /\ (UnaryResponse => (Sends(bs, "SendMsg") <=> st = "ok"))
    <3>1. sv'.at = "answered"
      BY <1>3, <2>4, Zenon
    <3>2. down'.status = st /\ (UnaryResponse => down'.sent = IF st = "ok" THEN down.sent + 1 ELSE down.sent)
      BY <1>1, <2>4, Zenon
    <3> QED
      BY <2>4, <3>1, <3>2, Zenon
  <2>5. CASE /\ sv.at = "handler" /\ sv' = [sv EXCEPT !.meta = FALSE] /\ ~UnaryResponse
             /\ ~Sends(bs, "SendStatus")
    BY <1>1, <1>3, <2>5, Zenon
  <2>6. CASE /\ sv.at \in {"handler", "answered"} /\ sv' = sv /\ bs = One("recv", RecvOps)
    BY <1>1, <1>4, <2>6, Zenon
  <2> QED
    BY <2>1, <2>2, <2>3, <2>4, <2>5, <2>6, Zenon DEF ServerMove
<1>6. /\ down.sent \in Nat /\ down.taken \in Nat /\ down'.sent \in Nat /\ down'.sent >= down.sent
  BY <1>0, <1>1 DEF Shapes
<1>7. Answered'
  BY <1>0, <1>1, <1>2, <1>5, <1>6 DEF Answered
<1>8. down.status # "none" => down'.status = down.status /\ down'.sent = down.sent /\ sv'.at = sv.at
  BY <1>0, <1>5, Zenon DEF Answered
<1>9. \A r : StartTells(r) => StartTells(r)'
  BY <1>2, <1>8, Zenon DEF StartTells
<1>10. over' = over
  BY Zenon DEF ServerMove
<1>11. \A r : RecvTells(r) => RecvTells(r)'
  <2> SUFFICES ASSUME NEW r, RecvTells(r), r = "null", ~over' PROVE (down.taken = down.sent /\ down.status # "none")'
    BY Zenon DEF RecvTells
  <2>1. ~over
    BY <1>10, Zenon
  <2>2. down.taken = down.sent /\ down.status # "none"
    BY <2>1, Zenon DEF RecvTells
  <2> QED
    BY <1>1, <1>8, <2>2, Zenon
<1>12. /\ event'["client"] = event["client"] /\ fut'["client"] = fut["client"]
       /\ batch'["client"] = batch["client"]
  BY MoveBooks, Zenon
<1>13. ResultIsAnswer'
  <2>0. ResultIsAnswer
    BY <1>0, Zenon DEF Known
  <2>1. cl'.at # "unwrapped"
    BY <1>2, <2>0, Zenon DEF ResultIsAnswer
  <2> SUFFICES ASSUME cl'.at = "ok"
               PROVE  /\ sv'.at = "answered" /\ down'.status = "ok"
                      /\ ~over' => cl'.got = down'.sent
                      /\ UnaryResponse' => cl'.got = 1
    BY <2>1, Zenon DEF ResultIsAnswer
  <2>2. cl.at = "ok" /\ cl'.got = cl.got
    BY <1>2, Zenon
  <2>3. sv.at = "answered" /\ down.status = "ok" /\ (UnaryResponse => cl.got = 1)
    BY <2>0, <2>2, Zenon DEF ResultIsAnswer
  <2>4. ~over' => cl.got = down.sent
    BY <1>10, <2>0, <2>2, Zenon DEF ResultIsAnswer
  <2> QED
    BY <1>2, <1>8, <2>2, <2>3, <2>4, Zenon
<1>14. Known'
  <2>1. /\ StartTells(event["client"]["start"])' /\ StartTells(fut["client"]["start"])'
        /\ ~UnaryResponse' => RecvTells(event["client"]["recv"])' /\ RecvTells(fut["client"]["recv"])'
    BY <1>0, <1>2, <1>9, <1>11, <1>12, Zenon DEF Known
  <2> QED
    BY <1>0, <1>1, <1>2, <1>12, <1>13, <2>1, Zenon DEF Known, One01
<1> QED
  BY <1>7, <1>14, Zenon

(* A step in which the server's code starts batches keeps the invariant.   *)
LEMMA MoveInv ==
  ASSUME IInv, NEW bs, NEW st \in {"none", "ok", "fail"}, ServerMove(bs, st) PROVE IInv'
<1>1. TypeOK'
  BY MoveBooks, MoveMeta, TypeParts, PTL
<1> QED
  BY <1>1, MoveBooks, MoveFree, MoveMeta, MoveAnswers, Zenon DEF IInv

-----------------------------------------------------------------------------
(* The client's half that is not about results: the server's side of the   *)
(* books does not change.                                                  *)
ClientMove(bs) ==
  /\ Runs("client", bs) /\ ClientWire(bs)
  /\ UNCHANGED <<kind, event, down, over, sv>>

(* A step of the client that starts batches keeps the books of core, and   *)
(* what the server may still start free.                                   *)
LEMMA ClientBooks ==
  ASSUME IInv, NEW bs, ClientMove(bs), cl' = [at |-> "calling", got |-> cl'.got], cl'.got \in Nat
  PROVE  TypeOK' /\ Tagged' /\ CoreSound' /\ ServerFree' /\ MetaFree' /\ CoreAccepts' /\ Answered'
<1>0. Shapes /\ Flags /\ Tagged /\ CoreSound /\ ServerFree /\ MetaFree /\ CoreAccepts /\ Answered
  BY TypeParts, Zenon DEF IInv
<1>1. Runs("client", bs) /\ ClientWire(bs) /\ UNCHANGED <<kind, event, down, sv>> /\ UNCHANGED over
  BY Zenon DEF ClientMove
<1>2. Tagged' /\ CoreSound'
  BY <1>0, <1>1, RunSound, Zenon DEF Runs, Sides
<1>3. /\ ops' \in [Sides -> [Ops -> {"free", "pending", "used"}]]
      /\ batch' \in [Sides -> [Tags -> SUBSET Ops]]
      /\ fut' \in [Sides -> [Tags -> Outcome \cup {"pending"}]]
      /\ ops'["server"] = ops["server"] /\ batch'["server"] = batch["server"]
      /\ fut'["server"] = fut["server"]
  BY <1>0, <1>1, RunShapes, Zenon DEF Sides
<1>4. /\ up' = [sent |-> up'.sent, taken |-> up'.taken, closed |-> up'.closed]
      /\ up'.sent \in Nat /\ up'.taken \in Nat
  <2>1. /\ up' = [sent |-> up'.sent, taken |-> up'.taken, closed |-> up'.closed]
        /\ up'.sent = IF Sends(bs, "SendMsg") THEN up.sent + 1 ELSE up.sent
        /\ up'.taken = up.taken
    BY <1>0, <1>1, ClientWireFields, Zenon
  <2>2. up.sent \in Nat /\ up.taken \in Nat
    BY <1>0, Zenon DEF Shapes
  <2> QED
    BY <2>1, <2>2
<1>5. up'.closed \in BOOLEAN
  <2> DEFINE a == IF Sends(bs, "SendMsg") THEN up.sent + 1 ELSE up.sent
             b == up.closed \/ Sends(bs, "SendClose")
  <2>1. up' = [up EXCEPT !.sent = a, !.closed = b]
    BY <1>1, Zenon DEF ClientWire
  <2>2. b \in BOOLEAN
    BY Zenon
  <2> HIDE DEF a, b
  <2>3. up = [sent |-> up.sent, taken |-> up.taken, closed |-> up.closed]
    BY <1>0, Zenon DEF Shapes
  <2>4. up'.closed = b
    BY <2>1, <2>3, Zenon
  <2> QED
    BY <2>2, <2>4, Zenon
<1>6. Shapes'
  <2>1. cl'.at = "calling" /\ cl' = [at |-> cl'.at, got |-> cl'.got]
    OBVIOUS
  <2>2. kind' = kind /\ event' = event /\ down' = down /\ sv' = sv
    BY <1>1, Zenon
  <2> QED
    BY <1>0, <1>3, <1>4, <2>1, <2>2, Zenon DEF Shapes
<1>7. Flags'
  BY <1>0, <1>1, <1>5, Zenon DEF Flags
<1>8. ServerFree'
  BY <1>0, <1>1, <1>3 DEF ServerFree, UnaryRequest, UnaryResponse
<1>9. MetaFree'
  BY <1>0, <1>1, <1>3, Zenon DEF MetaFree, UnaryResponse
<1>10. CoreAccepts' /\ Answered'
  BY <1>0, <1>1 DEF CoreAccepts, Answered, UnaryResponse
<1>11. TypeOK'
  BY <1>6, <1>7, TypeParts, PTL
<1> QED
  BY <1>2, <1>8, <1>9, <1>10, <1>11, Zenon

(* Calls start, and their two halves go on.                                *)
LEMMA StartInv == ASSUME IInv, ClStart PROVE IInv'
<1>0. Shapes /\ ClientBatches /\ ClientFree /\ Known
  BY TypeParts, Zenon DEF IInv
<1>1. /\ ClientMove(StartBatches) /\ cl.at = "new"
      /\ cl' = [at |-> "calling", got |-> cl.got] /\ cl'.got = cl.got /\ cl'.got \in Nat
  <2>1. /\ Runs("client", StartBatches) /\ ClientWire(StartBatches)
        /\ cl' = [cl EXCEPT !.at = "calling"]
    BY ClStartRuns, Zenon
  <2>2. UNCHANGED <<kind, event, down, over, sv>> /\ cl.at = "new"
    BY Zenon DEF ClStart
  <2>3. cl' = [at |-> "calling", got |-> cl.got]
    BY <1>0, <2>1, Zenon DEF Shapes
  <2> QED
    BY <1>0, <2>1, <2>2, <2>3, Zenon DEF ClientMove, Shapes
<1>2. TypeOK' /\ Tagged' /\ CoreSound' /\ ServerFree' /\ MetaFree' /\ CoreAccepts' /\ Answered'
  BY <1>1, ClientBooks, Zenon
<1>3. /\ kind' = kind /\ event' = event /\ down' = down /\ sv' = sv
      /\ kind \in {"unary", "cstream", "sstream", "duplex"}
  BY <1>0, <1>1, Zenon DEF ClientMove, Shapes
<1>4. /\ \A o \in Ops : ops'["client"][o] = IF \E t \in Tags : o \in StartBatches[t] THEN "pending"
                                            ELSE ops["client"][o]
      /\ \A t \in Tags : batch'["client"][t] = IF StartBatches[t] # {} THEN StartBatches[t]
                                               ELSE batch["client"][t]
      /\ \A t \in Tags : fut'["client"][t] = IF StartBatches[t] # {} THEN "pending"
                                             ELSE fut["client"][t]
  BY <1>0, <1>1, RunShapes, Zenon DEF ClientMove, Sides
<1>5. /\ StartBatches["send"] = {} /\ StartBatches["recv"] = {} /\ StartBatches["accept"] = {}
      /\ StartBatches["close"] = {} /\ StartOps # {}
      /\ ~UnaryRequest => \A t \in Tags : "SendMsg" \notin StartBatches[t] /\ "SendClose" \notin StartBatches[t]
      /\ ~UnaryResponse => \A t \in Tags : "RecvMsg" \notin StartBatches[t]
  BY <1>3, Zenon DEF StartBatches, StartOps, One, Two, UnaryOps, ClientStreamingOps,
     ServerStreamingOps, DuplexOps,
              RecvMetaOps, Tags, UnaryRequest, UnaryResponse
<1>6. (UnaryRequest' <=> UnaryRequest) /\ (UnaryResponse' <=> UnaryResponse) /\ StartOps' = StartOps
  BY <1>3, Zenon DEF UnaryRequest, UnaryResponse, StartOps, StartBatches
<1>7. ClientBatches'
  BY <1>0, <1>4, <1>5, <1>6, Zenon DEF ClientBatches, Tags, StartOps
<1>8. ClientFree'
  BY <1>0, <1>1, <1>3, <1>4, <1>5, <1>6 DEF ClientFree, Tags, Ops
<1>9. fut["client"]["recv"] = "none" /\ fut'["client"]["recv"] = "none" /\ fut'["client"]["start"] = "pending"
  BY <1>0, <1>1, <1>4, <1>5, Zenon DEF ClientFree, Tags, StartOps
<1>10. ResultIsAnswer'
  BY <1>1, Zenon DEF ResultIsAnswer
<1>11. StartTells(event["client"]["start"])' /\ StartTells(fut["client"]["start"])'
  BY <1>0, <1>3, <1>6, <1>9, Zenon DEF Known, StartTells
<1>12. ~UnaryResponse' => RecvTells(event["client"]["recv"])' /\ RecvTells(fut["client"]["recv"])'
  <2>1. over' = over
    BY <1>1, Zenon DEF ClientMove
  <2>2. RecvTells(fut["client"]["recv"])'
    BY <1>9, Zenon DEF RecvTells
  <2>3. RecvTells(event["client"]["recv"]) => RecvTells(event["client"]["recv"])'
    BY <1>3, <2>1, Zenon DEF RecvTells
  <2> QED
    BY <1>0, <1>6, <2>2, <2>3, Zenon DEF Known
<1>13. Known'
  BY <1>0, <1>1, <1>3, <1>6, <1>9, <1>10, <1>11, <1>12, Zenon DEF Known, One01
<1> QED
  BY <1>2, <1>7, <1>8, <1>13, Zenon DEF IInv

(* A message, a half-close and a read of the client keep the invariant.    *)
LEMMA HalvesInv == ASSUME IInv, ClSend \/ ClClose \/ ClRecv PROVE IInv'
<1>0. Shapes /\ ClientBatches /\ ClientFree /\ Known
  BY TypeParts, Zenon DEF IInv
<1>1. PICK t \in {"send", "close", "recv"}, b \in {{"SendMsg"}, CloseOps, RecvOps} :
        /\ ClientMove(One(t, b)) /\ cl.at = "calling"
        /\ t = "send" => b = {"SendMsg"} /\ ~UnaryRequest
        /\ t = "close" => b = CloseOps /\ ~UnaryRequest
        /\ t = "recv" => b = RecvOps /\ ~UnaryResponse
        /\ t = "recv" => cl' = [cl EXCEPT !.got = IF fut["client"].recv = "data" THEN @ + 1 ELSE @]
        /\ t # "recv" => cl' = cl
  <2>1. CASE ClSend
    <3>1. Runs("client", One("send", {"SendMsg"})) /\ ClientWire(One("send", {"SendMsg"})) /\ cl' = cl
      BY <2>1, ClSendRuns, Zenon
    <3>2. cl.at = "calling" /\ ~UnaryRequest /\ UNCHANGED <<kind, event, down, over, sv>>
      BY <2>1, Zenon DEF ClSend
    <3> QED
      BY <3>1, <3>2, Zenon DEF ClientMove
  <2>2. CASE ClClose
    <3>1. Runs("client", One("close", CloseOps)) /\ ClientWire(One("close", CloseOps)) /\ cl' = cl
      BY <2>2, ClCloseRuns, Zenon
    <3>2. cl.at = "calling" /\ ~UnaryRequest /\ UNCHANGED <<kind, event, down, over, sv>>
      BY <2>2, Zenon DEF ClClose
    <3> QED
      BY <3>1, <3>2, Zenon DEF ClientMove
  <2>3. CASE ClRecv
    <3>1. /\ Runs("client", One("recv", RecvOps)) /\ ClientWire(One("recv", RecvOps))
          /\ cl' = [cl EXCEPT !.got = IF fut["client"].recv = "data" THEN @ + 1 ELSE @]
      BY <2>3, ClRecvRuns, Zenon
    <3>2. cl.at = "calling" /\ ~UnaryResponse /\ UNCHANGED <<kind, event, down, over, sv>>
      BY <2>3, Zenon DEF ClRecv
    <3> QED
      BY <3>1, <3>2, Zenon DEF ClientMove
  <2> QED
    BY <2>1, <2>2, <2>3, Zenon
<1>2. /\ cl' = [at |-> "calling", got |-> cl'.got] /\ cl'.got \in Nat
      /\ t # "recv" => cl'.got = cl.got
      /\ t = "recv" => cl'.got = cl.got + One01(fut["client"]["recv"] = "data")
  BY <1>0, <1>1 DEF Shapes, One01
<1>3. TypeOK' /\ Tagged' /\ CoreSound' /\ ServerFree' /\ MetaFree' /\ CoreAccepts' /\ Answered'
  BY <1>1, <1>2, ClientBooks, Zenon
<1>4. kind' = kind /\ event' = event /\ down' = down /\ sv' = sv
  BY <1>1, Zenon DEF ClientMove
<1>5. /\ One(t, b)[t] = b /\ \A u \in Tags \ {t} : One(t, b)[u] = {}
      /\ t \in Tags /\ b # {}
  BY <1>1, Zenon DEF One, Tags, CloseOps, RecvOps
<1>6. /\ \A o \in Ops : ops'["client"][o] = IF o \in b THEN "pending" ELSE ops["client"][o]
      /\ batch'["client"][t] = b /\ fut'["client"][t] = "pending"
      /\ \A u \in Tags \ {t} : /\ batch'["client"][u] = batch["client"][u]
                               /\ fut'["client"][u] = fut["client"][u]
  <2>1. /\ \A o \in Ops : ops'["client"][o] = IF \E u \in Tags : o \in One(t, b)[u] THEN "pending"
                                              ELSE ops["client"][o]
        /\ \A u \in Tags : batch'["client"][u] = IF One(t, b)[u] # {} THEN One(t, b)[u]
                                                 ELSE batch["client"][u]
        /\ \A u \in Tags : fut'["client"][u] = IF One(t, b)[u] # {} THEN "pending"
                                               ELSE fut["client"][u]
    BY <1>0, <1>1, RunShapes, Zenon DEF ClientMove, Sides
  <2> QED
    BY <1>5, <2>1, Zenon
<1>7. (UnaryRequest' <=> UnaryRequest) /\ (UnaryResponse' <=> UnaryResponse) /\ StartOps' = StartOps
  BY <1>4, Zenon DEF UnaryRequest, UnaryResponse, StartOps, StartBatches
<1>8. ClientBatches'
  BY <1>0, <1>1, <1>6, <1>7, Zenon DEF ClientBatches, Tags, RecvOps
<1>9. ClientFree'
  BY <1>0, <1>1, <1>2, <1>4, <1>6, <1>7 DEF ClientFree, Tags, Ops, CloseOps, RecvOps
<1>10. ResultIsAnswer'
  BY <1>2 DEF ResultIsAnswer
<1>11. StartTells(event["client"]["start"])' /\ StartTells(fut["client"]["start"])'
  BY <1>0, <1>1, <1>4, <1>6, <1>7, Zenon DEF Known, StartTells, Tags
<1>12. ~UnaryResponse' => RecvTells(event["client"]["recv"])' /\ RecvTells(fut["client"]["recv"])'
  <2>1. over' = over
    BY <1>1, Zenon DEF ClientMove
  <2>2. \A r : RecvTells(r) => RecvTells(r)'
    BY <1>4, <2>1, Zenon DEF RecvTells
  <2>3. RecvTells("pending")
    BY Zenon DEF RecvTells
  <2>4. fut'["client"]["recv"] \in {fut["client"]["recv"], "pending"}
    BY <1>1, <1>6, Zenon DEF Tags
  <2> QED
    BY <1>0, <1>4, <1>7, <2>2, <2>3, <2>4, Zenon DEF Known
<1>13. ~UnaryResponse =>
         down'.taken = cl'.got + One01(event'["client"]["recv"] = "data")
                              + One01(fut'["client"]["recv"] = "data")
  <2>1. CASE t = "recv"
    BY <1>0, <1>1, <1>2, <1>4, <1>6, <2>1 DEF Known, One01, Shapes
  <2>2. CASE t # "recv"
    BY <1>0, <1>1, <1>2, <1>4, <1>6, <2>2, Zenon DEF Known, Tags
  <2> QED
    BY <2>1, <2>2, Zenon
<1>14. Known'
  <2>1. UnaryResponse' /\ (cl'.at = "new" \/ batch'["client"]["start"] # {}) => down'.taken = 0
    BY <1>0, <1>1, <1>2, <1>4, <1>6, <1>7, Zenon DEF Known, Tags
  <2> QED
    BY <1>2, <1>7, <1>10, <1>11, <1>12, <1>13, <2>1, Zenon DEF Known
<1> QED
  BY <1>3, <1>8, <1>9, <1>14, Zenon DEF IInv

-----------------------------------------------------------------------------
(* The steps that start nothing: the end of a call for the client, its     *)
(* cancellation, and the drop of a sink.                                   *)
LEMMA EndInv == ASSUME IInv, ClStreamEnds \/ ClResponse PROVE IInv'
<1>0. Shapes /\ Flags /\ Tagged /\ ClientFree /\ Answered /\ Known /\ ServerFree /\ MetaFree
  BY TypeParts, Zenon DEF IInv
<1>1. /\ UNCHANGED <<kind, ops, batch, event, fut, up, down, sv>> /\ UNCHANGED over
      /\ cl.at = "calling"
  BY Zenon DEF ClStreamEnds, ClResponse
<1>2. /\ cl' = [at |-> cl'.at, got |-> cl'.got] /\ cl'.got \in Nat
      /\ \/ cl'.at = "failed"
         \/ /\ cl'.at = "ok" /\ cl'.got = cl.got /\ ~UnaryResponse
            /\ fut["client"]["start"] = "ok" /\ fut["client"]["recv"] = "null"
         \/ cl'.at = "ok" /\ cl'.got = 1 /\ UnaryResponse /\ fut["client"]["start"] = "data"
  <2>1. CASE ClStreamEnds
    BY <1>0, <2>1, Zenon DEF ClStreamEnds, Shapes
  <2>2. CASE ClResponse
    <3>1. fut["client"]["start"] # "null" /\ UnaryResponse
      BY <1>0, <2>2, Zenon DEF ClResponse, Known, StartTells
    <3> QED
      BY <1>0, <2>2, <3>1, Zenon DEF ClResponse, Shapes
  <2> QED
    BY <2>1, <2>2, Zenon
<1>3. ResultIsAnswer'
  <2>1. cl'.at # "unwrapped"
    BY <1>2, Zenon
  <2> SUFFICES ASSUME cl'.at = "ok"
               PROVE  /\ sv'.at = "answered" /\ down'.status = "ok"
                      /\ ~over' => cl'.got = down'.sent
                      /\ UnaryResponse' => cl'.got = 1
    BY <2>1, Zenon DEF ResultIsAnswer
  <2>2. down.status = "ok" /\ sv.at = "answered"
    BY <1>0, <1>2, Zenon DEF Known, StartTells, Answered
  <2>3. CASE UnaryResponse
    BY <1>0, <1>1, <1>2, <2>2, <2>3, Zenon DEF Answered, UnaryResponse
  <2>4. CASE ~UnaryResponse
    <3>1. event["client"]["recv"] = "none"
      BY <1>0, <1>2, <2>4, Zenon DEF Tagged, Sides, Tags
    <3>2. cl'.got = down.taken
      <4>1. /\ down.taken = cl.got + One01(event["client"]["recv"] = "data")
                             + One01(fut["client"]["recv"] = "data")
            /\ cl.got \in Nat /\ cl'.got = cl.got /\ fut["client"]["recv"] = "null"
        BY <1>0, <1>1, <1>2, <2>4, Zenon DEF Known, Shapes
      <4>2. /\ One01(event["client"]["recv"] = "data") = 0
            /\ One01(fut["client"]["recv"] = "data") = 0
        BY <3>1, <4>1, Zenon DEF One01
      <4> HIDE DEF One01
      <4> QED
        BY <4>1, <4>2
    <3>3. ~over => down.taken = down.sent
      BY <1>0, <1>2, <2>4, Zenon DEF Known, RecvTells
    <3>4. ~over' => ~over
      BY <1>1, Zenon
    <3> QED
      BY <1>1, <2>2, <2>4, <3>2, <3>3, <3>4, Zenon DEF UnaryResponse
  <2> QED
    BY <2>3, <2>4, Zenon
<1>4. Shapes'
  BY <1>0, <1>1, <1>2, Zenon DEF Shapes
<1>5. TypeOK'
  <2>1. Flags'
    BY <1>0, <1>1, Zenon DEF Flags
  <2> QED
    BY <1>4, <2>1, TypeParts, PTL
<1>6. Tagged' /\ CoreSound' /\ ClientBatches' /\ ServerFree' /\ Answered'
  <2>1. Tagged' /\ CoreSound'
    BY <1>0, <1>1, Zenon DEF IInv, Tagged, CoreSound
  <2>2. ClientBatches'
    BY <1>1, Zenon DEF IInv, ClientBatches, StartOps, StartBatches, UnaryResponse
  <2>3. ServerFree'
    BY <1>0, <1>1, Zenon DEF ServerFree, UnaryRequest, UnaryResponse
  <2>4. Answered'
    BY <1>0, <1>1, Zenon DEF Answered, UnaryResponse
  <2> QED
    BY <2>1, <2>2, <2>3, <2>4, Zenon
<1>7. MetaFree'
  BY <1>0, <1>1, Zenon DEF MetaFree, UnaryResponse
<1>8. ClientFree' /\ CoreAccepts'
  BY <1>0, <1>1, <1>2, Zenon DEF ClientFree, IInv, CoreAccepts, UnaryRequest, UnaryResponse
<1>9. Known'
  <2>1. \A r : RecvTells(r) => RecvTells(r)'
    BY <1>1, Zenon DEF RecvTells
  <2>2. \A r : StartTells(r) => StartTells(r)'
    BY <1>1, Zenon DEF StartTells, UnaryResponse
  <2>3. UnaryResponse' <=> UnaryResponse
    BY <1>1, Zenon DEF UnaryResponse
  <2> QED
    BY <1>0, <1>1, <1>2, <1>3, <2>1, <2>2, <2>3, Zenon DEF Known
<1> QED
  BY <1>5, <1>6, <1>7, <1>8, <1>9, Zenon DEF IInv

(* A cancel of the client, a payload that is not read and the drop of a    *)
(* server's sink keep the invariant.                                       *)
LEMMA OverInv == ASSUME IInv, Cancel \/ SvUnread \/ SvDrop PROVE IInv'
<1>0. Shapes /\ Flags /\ Tagged /\ ClientFree /\ Answered /\ Known /\ ServerFree /\ MetaFree
  BY TypeParts DEF IInv
<1>1. /\ kind' = kind /\ ops' = ops /\ batch' = batch /\ event' = event /\ fut' = fut /\ up' = up
      /\ down' = down /\ cl' = cl
  BY Zenon DEF Cancel, SvUnread, SvDrop
<1>2. over'
  <2>1. CASE SvUnread
    <3>1. over /\ over' = over
      BY <2>1, Zenon DEF SvUnread
    <3> QED
      BY <3>1
  <2>2. CASE Cancel \/ SvDrop
    BY <2>2, Zenon DEF Cancel, SvDrop
  <2> QED
    BY <2>1, <2>2, Zenon
<1>3. over' \in BOOLEAN
  <2>1. SvUnread => over' = over
    BY Zenon DEF SvUnread
  <2> QED
    BY <1>0, <2>1, Zenon DEF Cancel, SvDrop, Flags
<1>4. /\ sv' = [at |-> sv'.at, meta |-> sv.meta]
      /\ \/ sv'.at = sv.at /\ cl.at = "calling"
         \/ sv'.at = "dropped" /\ sv.at \in {"payload", "handler"}
  BY <1>0, Zenon DEF Cancel, SvUnread, SvDrop, Shapes
<1>5. Shapes'
  BY <1>0, <1>1, <1>4, Zenon DEF Shapes
<1>6. TypeOK'
  <2>1. sv'.meta = sv.meta
    BY <1>4
  <2>2. Flags'
    BY <1>0, <1>1, <1>3, <2>1, ZenonT(60) DEF Flags
  <2> QED
    BY <1>5, <2>2, TypeParts, PTL
<1>7. Tagged' /\ CoreSound'
  BY <1>0, <1>1, Zenon DEF IInv, Tagged, CoreSound
<1>8. (UnaryRequest' <=> UnaryRequest) /\ (UnaryResponse' <=> UnaryResponse) /\ StartOps' = StartOps
  BY <1>1, Zenon DEF UnaryRequest, UnaryResponse, StartOps, StartBatches
<1>9. ClientBatches'
  BY <1>1, <1>8, Zenon DEF IInv, ClientBatches
<1>10. ClientFree'
  BY <1>0, <1>1, <1>8, Zenon DEF ClientFree
<1>11. CoreAccepts'
  BY <1>1, <1>4, Zenon DEF IInv, CoreAccepts
<1>12. ServerFree'
  BY <1>0, <1>1, <1>4, <1>8, Zenon DEF ServerFree
<1>13. Answered'
  BY <1>0, <1>1, <1>4, <1>8, Zenon DEF Answered
<1>14. MetaFree'
  <2>1. sv'.meta = sv.meta
    BY <1>4
  <2>2. CASE sv'.at = sv.at
    BY <1>0, <1>1, <1>8, <2>1, <2>2, Zenon DEF MetaFree
  <2>3. CASE sv'.at = "dropped"
    BY <2>3, Zenon DEF MetaFree
  <2> QED
    BY <1>4, <2>2, <2>3, Zenon
<1>15. Known'
  <2>1. ResultIsAnswer'
    <3>1. cl.at # "ok" /\ cl.at # "unwrapped"
      BY <1>0, <1>4, Zenon DEF Known, ResultIsAnswer
    <3> QED
      BY <1>1, <3>1, Zenon DEF ResultIsAnswer
  <2>2. \A r : RecvTells(r)'
    BY <1>2, Zenon DEF RecvTells
  <2>3. \A r : StartTells(r) => StartTells(r)'
    BY <1>1, <1>8, Zenon DEF StartTells
  <2> QED
    BY <1>0, <1>1, <1>8, <2>1, <2>2, <2>3, Zenon DEF Known
<1> QED
  BY <1>6, <1>7, <1>9, <1>10, <1>11, <1>12, <1>13, <1>14, <1>15, Zenon DEF IInv

-----------------------------------------------------------------------------
(* Core finishes a batch. What the client's two results tell is true when  *)
(* they are made, and stays so: an answer is not taken back, and once the  *)
(* last message was taken nothing is left to take.                         *)
LEMMA StartResult ==
  ASSUME IInv, NEW r \in Results("client", batch["client"]["start"]), batch["client"]["start"] # {}
  PROVE  /\ r \in Outcome /\ r # "none" /\ StartTells(r)
         /\ r = "data" => down.taken < down.sent /\ UnaryResponse
<1>0. Shapes /\ ClientBatches /\ Answered /\ Known
  BY TypeParts, Zenon DEF IInv
<1>1. batch["client"]["start"] = StartOps
  BY <1>0, Zenon DEF ClientBatches
<1>2. /\ "RecvStatus" \in StartOps
      /\ UnaryResponse <=> "RecvMsg" \in StartOps
  BY <1>0, Zenon DEF Shapes, StartOps, StartBatches, One, Two, UnaryOps, ClientStreamingOps,
     ServerStreamingOps, DuplexOps, Tags, UnaryResponse
<1>3. Status \subseteq {"ok", "fail"} /\ ("ok" \in Status => down.status = "ok")
  BY <1>0, Zenon DEF Status, Shapes
<1>4. CASE UnaryResponse
  <2>1. PICK q \in Status : r = IF q = "ok" THEN Message("client") ELSE q
    BY <1>1, <1>2, <1>4, Zenon DEF Results
  <2>2. down.status = "ok" => HasMsg("client")
    BY <1>0, <1>1, <1>4 DEF HasMsg, Answered, Known, StartOps
  <2> QED
    BY <1>3, <1>4, <2>1, <2>2, Zenon DEF Message, HasMsg, StartTells, Outcome
<1>5. CASE ~UnaryResponse
  BY <1>1, <1>2, <1>3, <1>5, Zenon DEF Results, StartTells, Outcome
<1> QED
  BY <1>4, <1>5, Zenon

(* What a client's recv_message reports says whether the server's messages *)
(* are all taken, and a message is there if it reports one.                *)
LEMMA RecvResult ==
  ASSUME IInv, NEW r \in Results("client", {"RecvMsg"})
  PROVE  /\ r \in {"data", "null"} /\ RecvTells(r)
         /\ r = "data" => down.taken < down.sent
<1>0. Shapes /\ Answered
  BY TypeParts, Zenon DEF IInv
<1>1. \/ r = Message("client") /\ (HasMsg("client") \/ NoMore("client"))
      \/ over /\ r = "null"
  BY Zenon DEF Results
<1>2. CASE over /\ r = "null"
  BY <1>2, Zenon DEF RecvTells
<1>3. CASE r = Message("client") /\ (HasMsg("client") \/ NoMore("client"))
  <2>1. r = "null" => down.taken = down.sent /\ down.status # "none"
    <3>1. NoMore("client") => down.status # "none"
      BY Zenon DEF NoMore
    <3>2. r = "null" => ~HasMsg("client")
      BY <1>3, Zenon DEF Message
    <3>3. r = "null" => down.status # "none"
      BY <1>3, <3>1, <3>2, Zenon
    <3>4. ~HasMsg("client") => ~(down.taken < down.sent)
      BY Zenon DEF HasMsg
    <3>5. down.taken \in Nat /\ down.sent \in Nat /\ down.taken <= down.sent
      BY <1>0, Zenon DEF Answered, Shapes
    <3>6. r = "null" => ~(down.taken < down.sent)
      BY <3>2, <3>4, Zenon
    <3> QED
      BY <3>3, <3>5, <3>6
  <2>2. RecvTells(r)
    BY <2>1, Zenon DEF RecvTells
  <2> QED
    BY <1>3, <2>2, Zenon DEF Message, HasMsg
<1> QED
  <2>1. r \in {"data", "null"}
    BY <1>1, Zenon DEF Message
  <2>2. r = "data" => down.taken < down.sent
    BY <1>1, Zenon DEF Message, HasMsg
  <2> QED
    BY <1>1, <1>2, <1>3, <2>1, <2>2, Zenon

(* Batch::resolve gives a future one of the outcomes.                      *)
LEMMA ResultOutcome ==
  ASSUME Shapes, NEW s \in Sides, NEW b, NEW r \in Results(s, b)
  PROVE  r \in Outcome /\ r # "none"
<1>1. Status \subseteq {"ok", "fail"}
  BY Zenon DEF Status, Shapes
<1>2. Message(s) \in {"data", "null"}
  BY Zenon DEF Message
<1> QED
  BY <1>1, <1>2, Zenon DEF Results, Outcome

(* The completion of a batch by core keeps the invariant.                  *)
LEMMA CompleteInv ==
  ASSUME IInv, NEW s \in Sides, NEW t \in Watched, Complete(s, t)
  PROVE  IInv'
<1>0. /\ Shapes /\ Flags /\ Tagged /\ CoreSound /\ ClientBatches /\ ClientFree /\ Answered /\ Known
      /\ ServerFree /\ MetaFree /\ t \in Tags
  BY TypeParts, Zenon DEF IInv, Watched, Tags
<1>1. /\ kind' = kind /\ fut' = fut /\ over' = over /\ cl' = cl /\ sv' = sv
      /\ batch[s][t] # {} /\ Engaged(s)
  BY Zenon DEF Complete
<1>2. PICK r \in Results(s, batch[s][t]) :
        /\ event' = [event EXCEPT ![s][t] = r]
        /\ up' = [up EXCEPT !.taken = IF s = "server" /\ r = "data" THEN @ + 1 ELSE @]
        /\ down' = [down EXCEPT !.taken = IF s = "client" /\ r = "data" THEN @ + 1 ELSE @]
  BY Zenon DEF Complete
<1>3. /\ Tagged' /\ CoreSound'
      /\ \A u \in Sides, o \in Ops : ops[u][o] = "free" => ops'[u][o] = "free"
      /\ \A o \in {"SendMsg", "RecvMsg"} : o \in batch[s][t] => ops'[s][o] = "free"
      /\ \A u \in Sides, v \in Tags : batch'[u][v] = IF u = s /\ v = t THEN {} ELSE batch[u][v]
      /\ \A u \in Sides, v \in Tags : u # s \/ v # t => event'[u][v] = event[u][v]
  BY <1>0, CompleteSound, Zenon
<1>4. r \in Outcome /\ r # "none"
  BY <1>0, ResultOutcome, Zenon
<1>5. event'[s][t] = r /\ event' \in [Sides -> [Tags -> Outcome]]
  BY <1>0, <1>2, <1>4, Zenon DEF Shapes
<1>6. /\ up' = [sent |-> up.sent, taken |-> up'.taken, closed |-> up.closed] /\ up'.taken \in Nat
  <2> DEFINE a == IF s = "server" /\ r = "data" THEN up.taken + 1 ELSE up.taken
             d == up.closed
  <2>1. up = [sent |-> up.sent, taken |-> up.taken, closed |-> d] /\ up' = [up EXCEPT !.taken = a]
        /\ a \in Nat
    BY <1>0, <1>2 DEF Shapes
  <2> HIDE DEF a, d
  <2>2. up' = [sent |-> up.sent, taken |-> a, closed |-> d]
    BY <2>1
  <2> QED
    BY <2>1, <2>2, Zenon DEF d
<1>7. /\ down' = [sent |-> down.sent, taken |-> down'.taken, meta |-> down.meta,
                  status |-> down.status]
      /\ down'.taken = IF s = "client" /\ r = "data" THEN down.taken + 1 ELSE down.taken
  BY <1>0, <1>2, Zenon DEF Shapes
<1>8. /\ ops' \in [Sides -> [Ops -> {"free", "pending", "used"}]]
      /\ batch' \in [Sides -> [Tags -> SUBSET Ops]]
  BY <1>0 DEF Complete, Shapes
<1>a. down.sent \in Nat /\ down.taken \in Nat
  BY <1>0, Zenon DEF Shapes
<1>b. /\ down'.sent = down.sent /\ down'.meta = down.meta /\ down'.status = down.status
      /\ up'.sent = up.sent
  BY <1>6, <1>7
<1>c. down'.taken \in Nat
  BY <1>7, <1>a
<1>d. /\ up' = [sent |-> up'.sent, taken |-> up'.taken, closed |-> up'.closed]
      /\ down' = [sent |-> down'.sent, taken |-> down'.taken, meta |-> down'.meta,
                  status |-> down'.status]
  BY <1>6, <1>7
<1>9. Shapes'
  BY <1>0, <1>1, <1>5, <1>6, <1>8, <1>b, <1>c, <1>d, Zenon DEF Shapes
<1>10. TypeOK'
  <2>1. up'.closed = up.closed
    BY <1>6
  <2>2. down'.meta = down.meta
    BY <1>b, Zenon
  <2>3. Flags'
    BY <1>0, <1>1, <2>1, <2>2, Zenon DEF Flags
  <2> QED
    BY <1>9, <2>3, TypeParts, PTL
<1>11. (UnaryRequest' <=> UnaryRequest) /\ (UnaryResponse' <=> UnaryResponse) /\ StartOps' = StartOps
  BY <1>1, Zenon DEF UnaryRequest, UnaryResponse, StartOps, StartBatches
<1>12. ClientBatches'
  BY <1>0, <1>3, <1>11, Zenon DEF ClientBatches, Sides, Tags
<1>13. ClientFree'
  <2>1. cl'.at = "new" => /\ \A o \in Ops : ops'["client"][o] = "free"
                          /\ \A v \in Tags : fut'["client"][v] = "none"
    BY <1>0, <1>1, <1>3, Zenon DEF ClientFree, Sides
  <2>2. ~UnaryRequest' =>
          /\ ops'["client"]["SendMsg"] = "free" \/ "SendMsg" \in batch'["client"]["send"]
          /\ ops'["client"]["SendClose"] = "free" \/ fut'["client"]["close"] = "pending"
    BY <1>0, <1>1, <1>3, <1>11, SMTT(60) DEF ClientFree, Sides, Tags, Ops
  <2>3. ~UnaryResponse' =>
          ops'["client"]["RecvMsg"] = "free" \/ "RecvMsg" \in batch'["client"]["recv"]
    BY <1>0, <1>1, <1>3, <1>11, Zenon DEF ClientFree, Sides, Tags, Ops
  <2>4. event'["client"]["close"] = "none"
    BY <1>0, <1>3, Zenon DEF ClientFree, Sides, Tags, Watched
  <2> QED
    BY <2>1, <2>2, <2>3, <2>4, Zenon DEF ClientFree
<1>14. ServerFree'
  <2>1. sv'.at = "wire" => /\ \A o \in Ops : ops'["server"][o] = "free"
                           /\ \A v \in Tags : fut'["server"][v] = "none"
    BY <1>0, <1>1, <1>3, Zenon DEF ServerFree, Sides
  <2>2. sv'.at = "payload" => /\ \A o \in Ops \ {"RecvMsg"} : ops'["server"][o] = "free"
                              /\ \A v \in Tags \ {"recv"} : fut'["server"][v] = "none"
                              /\ UnaryRequest'
    BY <1>0, <1>1, <1>3, <1>11, Zenon DEF ServerFree, Sides
  <2>3. sv'.at = "handler" =>
         /\ ops'["server"]["SendStatus"] = "free" /\ fut'["server"]["status"] = "none"
         /\ UnaryResponse' => ops'["server"]["SendMsg"] = "free"
         /\ ~UnaryResponse' =>
              ops'["server"]["SendMsg"] = "free" \/ "SendMsg" \in batch'["server"]["send"]
    BY <1>0, <1>1, <1>3, <1>11, SMTT(60) DEF ServerFree, Sides, Tags, Ops
  <2>4. sv'.at \in {"handler", "answered"} /\ ~UnaryRequest' =>
          ops'["server"]["RecvMsg"] = "free" \/ "RecvMsg" \in batch'["server"]["recv"]
    BY <1>0, <1>1, <1>3, <1>11 DEF ServerFree, Sides, Tags, Ops
  <2> QED
    BY <2>1, <2>2, <2>3, <2>4, Zenon DEF ServerFree
<1>15. MetaFree'
  <2>1. ops["server"]["SendMeta"] = "free" => ops'["server"]["SendMeta"] = "free"
    BY <1>3, Zenon DEF Sides, Ops
  <2> QED
    BY <1>0, <1>1, <1>11, <2>1, Zenon DEF MetaFree
<1>16. CoreAccepts'
  BY <1>1, Zenon DEF IInv, CoreAccepts
<1>17. s = "client" => /\ cl.at = "calling"
                       /\ t = "start" \/ t = "recv" \/ (t = "send" /\ r # "data")
  <2> SUFFICES ASSUME s = "client"
               PROVE  cl.at = "calling" /\ (t = "start" \/ t = "recv" \/ (t = "send" /\ r # "data"))
    BY Zenon
  <2>1. cl.at = "calling"
    BY <1>1, Zenon DEF Engaged
  <2>2. t # "accept"
    BY <1>0, <1>1, Zenon DEF ClientBatches
  <2>3. t = "send" => r \in {"ok", "fail"}
    BY <1>0, <1>1, SMTT(60) DEF ClientBatches, Results
  <2> QED
    BY <2>1, <2>2, <2>3, Zenon DEF Watched
<1>18. s = "client" /\ t = "start" => StartTells(r) /\ (r = "data" => down.taken < down.sent /\ UnaryResponse)
  BY <1>1, StartResult, Zenon
<1>19. s = "client" /\ t = "recv" => /\ RecvTells(r) /\ (r = "data" => down.taken < down.sent)
                                     /\ ~UnaryResponse
  BY <1>0, <1>1, RecvResult, Zenon DEF ClientBatches
<1>20. s = "client" /\ r = "data" => down.taken < down.sent
  BY <1>17, <1>18, <1>19, Zenon
<1>21. Answered'
  <2>1. down'.taken <= down'.sent
    <3>1. down.taken <= down.sent
      BY <1>0, Zenon DEF Answered
    <3> QED
      BY <1>7, <1>20, <1>a, <1>b, <3>1
  <2> QED
    BY <1>0, <1>1, <1>11, <1>b, <2>1, Zenon DEF Answered
<1>22. ResultIsAnswer'
  <2>1. CASE cl.at = "calling"
    BY <1>1, <2>1, Zenon DEF ResultIsAnswer
  <2>2. CASE cl.at # "calling"
    <3>1. s # "client"
      BY <1>17, <2>2, Zenon
    <3>2. down'.sent = down.sent /\ down'.status = down.status
      BY <1>b, Zenon
    <3>3. ResultIsAnswer
      BY <1>0, Zenon DEF Known
    <3> QED
      BY <1>1, <1>11, <3>2, <3>3, Zenon DEF ResultIsAnswer
  <2> QED
    BY <2>1, <2>2, Zenon
<1>23. \A x : StartTells(x) => StartTells(x)'
  BY <1>11, <1>b, Zenon DEF StartTells
<1>24. down'.taken # down.taken => s = "client" /\ r = "data" /\ down.taken < down.sent
  BY <1>7, <1>20, Zenon
<1>25. \A x : RecvTells(x) => RecvTells(x)'
  <2> SUFFICES ASSUME NEW x, RecvTells(x), x = "null", ~over' PROVE down'.taken = down'.sent /\ down'.status # "none"
    BY Zenon DEF RecvTells
  <2>1. ~over
    BY <1>1, Zenon
  <2>2. down.taken = down.sent /\ down.status # "none"
    BY <2>1, ZenonT(60) DEF RecvTells
  <2>3. down'.taken = down.taken
    BY <1>24, <1>a, <2>2
  <2> QED
    BY <1>b, <2>2, <2>3, Zenon
<1>26. Known'
  <2>1. StartTells(event["client"]["start"])' /\ StartTells(fut["client"]["start"])'
    <3>1. StartTells(event'["client"]["start"])
      BY <1>0, <1>3, <1>5, <1>18, Zenon DEF Known, Sides, Tags
    <3> QED
      BY <1>0, <1>1, <1>23, <3>1, ZenonT(60) DEF Known
  <2>2. UnaryResponse' /\ (cl'.at = "new" \/ batch'["client"]["start"] # {}) => down'.taken = 0
    BY <1>0, <1>1, <1>3, <1>7, <1>11, <1>17, <1>19, Zenon DEF Known, Sides, Tags
  <2>3. ~UnaryResponse' => RecvTells(event["client"]["recv"])' /\ RecvTells(fut["client"]["recv"])'
    <3>1. ~UnaryResponse => RecvTells(event'["client"]["recv"])
      BY <1>0, <1>3, <1>5, <1>19, Zenon DEF Known, Sides, Tags
    <3> QED
      BY <1>0, <1>1, <1>11, <1>25, <3>1, ZenonT(60) DEF Known
  <2>4. ~UnaryResponse /\ cl.at \in {"new", "calling"} =>
          down'.taken = cl.got + One01(event'["client"]["recv"] = "data")
                               + One01(fut["client"]["recv"] = "data")
    <3> SUFFICES ASSUME ~UnaryResponse, cl.at \in {"new", "calling"}
                 PROVE  down'.taken = cl.got + One01(event'["client"]["recv"] = "data")
                                             + One01(fut["client"]["recv"] = "data")
      BY Zenon
    <3>1. down.taken = cl.got + One01(event["client"]["recv"] = "data")
                              + One01(fut["client"]["recv"] = "data")
      BY <1>0, Zenon DEF Known
    <3>2. CASE s = "client" /\ t = "recv"
      <4>1. event["client"]["recv"] = "none" /\ event'["client"]["recv"] = r
        BY <1>0, <1>1, <1>5, <3>2, Zenon DEF Tagged
      <4>2. /\ down.taken = cl.got + 0 + One01(fut["client"]["recv"] = "data")
            /\ cl.got \in Nat /\ One01(fut["client"]["recv"] = "data") \in {0, 1}
        BY <1>0, <3>1, <4>1, Zenon DEF One01, Shapes
      <4>3. CASE r = "data"
        <5>1. down'.taken = down.taken + 1 /\ One01(event'["client"]["recv"] = "data") = 1
          BY <1>7, <3>2, <4>1, <4>3, Zenon DEF One01
        <5> HIDE DEF One01
        <5> QED
          BY <4>2, <5>1
      <4>4. CASE r # "data"
        <5>1. down'.taken = down.taken /\ One01(event'["client"]["recv"] = "data") = 0
          BY <1>7, <4>1, <4>4, Zenon DEF One01
        <5> QED
          BY <4>2, <5>1, Zenon
      <4> QED
        BY <4>3, <4>4, Zenon
    <3>3. CASE ~(s = "client" /\ t = "recv")
      <4>1. event'["client"]["recv"] = event["client"]["recv"]
        BY <1>3, <3>3, Zenon DEF Sides, Tags
      <4>2. down'.taken = down.taken
        BY <1>7, <1>17, <1>18, <3>3, Zenon
      <4> QED
        BY <3>1, <4>1, <4>2, Zenon
    <3> QED
      BY <3>2, <3>3, Zenon
  <2> QED
    BY <1>1, <1>11, <1>22, <2>1, <2>2, <2>3, <2>4, ZenonT(60) DEF Known
<1> QED
  BY <1>3, <1>10, <1>12, <1>13, <1>14, <1>15, <1>16, <1>21, <1>26, Zenon DEF IInv

(* The poll thread moves a result from the queue to the future.            *)
LEMMA ResolveInv ==
  ASSUME IInv, NEW s \in Sides, NEW t \in Watched, Resolve(s, t)
  PROVE  IInv'
<1>0. /\ Shapes /\ Flags /\ Tagged /\ CoreSound /\ ClientBatches /\ ClientFree /\ Answered /\ Known
      /\ ServerFree /\ MetaFree /\ t \in Tags
  BY TypeParts DEF IInv, Watched, Tags
<1>1. /\ kind' = kind /\ ops' = ops /\ batch' = batch /\ up' = up /\ down' = down /\ over' = over
      /\ cl' = cl /\ sv' = sv /\ event[s][t] # "none" /\ Engaged(s)
      /\ ~(s = "server" /\ t = "recv" /\ sv.at = "payload")
  BY Zenon DEF Resolve
<1>2. /\ Tagged' /\ CoreSound' /\ fut[s][t] = "pending" /\ batch[s][t] = {}
      /\ fut'[s][t] = event[s][t] /\ event'[s][t] = "none"
      /\ \A u \in Sides, v \in Tags : u # s \/ v # t =>
           fut'[u][v] = fut[u][v] /\ event'[u][v] = event[u][v]
  BY <1>0, ResolveSound, Zenon
<1>3. /\ fut' \in [Sides -> [Tags -> Outcome \cup {"pending"}]]
      /\ event' \in [Sides -> [Tags -> Outcome]]
  <2>1. /\ fut \in [Sides -> [Tags -> Outcome \cup {"pending"}]]
        /\ event \in [Sides -> [Tags -> Outcome]]
        /\ event[s][t] \in Outcome /\ "none" \in Outcome
    BY <1>0, Zenon DEF Shapes, Outcome
  <2> QED
    BY <1>0, <2>1, Zenon DEF Resolve
<1>4. Shapes'
  BY <1>0, <1>1, <1>3, Zenon DEF Shapes
<1>5. TypeOK'
  <2>1. Flags'
    BY <1>0, <1>1, Zenon DEF Flags
  <2> QED
    BY <1>4, <2>1, TypeParts, PTL
<1>6. (UnaryRequest' <=> UnaryRequest) /\ (UnaryResponse' <=> UnaryResponse) /\ StartOps' = StartOps
  BY <1>1, Zenon DEF UnaryRequest, UnaryResponse, StartOps, StartBatches
<1>7. ClientBatches'
  BY <1>0, <1>1, <1>6, Zenon DEF ClientBatches
<1>8. t # "close" /\ t # "status"
  BY Zenon DEF Watched
<1>9. ClientFree'
  <2>1. cl.at = "new" => s # "client"
    BY <1>1, Zenon DEF Engaged
  <2>2. cl'.at = "new" => /\ \A o \in Ops : ops'["client"][o] = "free"
                          /\ \A v \in Tags : fut'["client"][v] = "none"
    BY <1>0, <1>1, <1>2, <2>1, Zenon DEF ClientFree, Sides
  <2>3. fut'["client"]["close"] = fut["client"]["close"] /\ event'["client"]["close"] = "none"
    BY <1>0, <1>2, <1>8, Zenon DEF ClientFree, Sides, Tags
  <2> QED
    BY <1>0, <1>1, <1>6, <2>2, <2>3, Zenon DEF ClientFree
<1>10. ServerFree'
  <2>1. sv.at = "wire" => s # "server"
    BY <1>1, Zenon DEF Engaged
  <2>2. sv.at = "payload" => s # "server"
    BY <1>0, <1>1, <1>2, Zenon DEF ServerFree, Tags
  <2>3. fut'["server"]["status"] = fut["server"]["status"]
    BY <1>2, <1>8, Zenon DEF Sides, Tags
  <2>4. (sv.at = "wire" \/ sv.at = "payload") => \A v \in Tags : fut'["server"][v] = fut["server"][v]
    BY <1>2, <2>1, <2>2, Zenon DEF Sides
  <2>5. sv'.at = "wire" => /\ \A o \in Ops : ops'["server"][o] = "free"
                           /\ \A v \in Tags : fut'["server"][v] = "none"
    BY <1>0, <1>1, <2>4, Zenon DEF ServerFree
  <2>6. sv'.at = "payload" => /\ \A o \in Ops \ {"RecvMsg"} : ops'["server"][o] = "free"
                              /\ \A v \in Tags \ {"recv"} : fut'["server"][v] = "none"
                              /\ UnaryRequest'
    BY <1>0, <1>1, <1>6, <2>4, Zenon DEF ServerFree
  <2> QED
    BY <1>0, <1>1, <1>6, <2>3, <2>5, <2>6, Zenon DEF ServerFree
<1>11. MetaFree'
  BY <1>0, <1>1, <1>6, Zenon DEF MetaFree
<1>12. CoreAccepts'
  BY <1>1, Zenon DEF IInv, CoreAccepts
<1>13. Answered'
  BY <1>0, <1>1, <1>6, Zenon DEF Answered
<1>14. ResultIsAnswer'
  BY <1>0, <1>1, <1>6, Zenon DEF ResultIsAnswer, Known
<1>15. \A x : (StartTells(x) => StartTells(x)')
  BY <1>1, <1>6, Zenon DEF StartTells
<1>16. \A x : (RecvTells(x) => RecvTells(x)')
  BY <1>1, ZenonT(60) DEF RecvTells
<1>17. Known'
  <2>1. StartTells("none") /\ RecvTells("none")
    BY Zenon DEF StartTells, RecvTells
  <2>2. /\ fut'["client"]["start"] \in {fut["client"]["start"], event["client"]["start"]}
        /\ event'["client"]["start"] \in {"none", event["client"]["start"]}
        /\ fut'["client"]["recv"] \in {fut["client"]["recv"], event["client"]["recv"]}
        /\ event'["client"]["recv"] \in {"none", event["client"]["recv"]}
    BY <1>0, <1>2, Zenon DEF Sides, Tags
  <2>3. StartTells(event["client"]["start"])' /\ StartTells(fut["client"]["start"])'
    BY <1>0, <1>15, <2>1, <2>2, Zenon DEF Known
  <2>4. ~UnaryResponse' => RecvTells(event["client"]["recv"])' /\ RecvTells(fut["client"]["recv"])'
    BY <1>0, <1>6, <1>16, <2>1, <2>2, Zenon DEF Known
  <2>5. One01(event'["client"]["recv"] = "data") + One01(fut'["client"]["recv"] = "data")
          = One01(event["client"]["recv"] = "data") + One01(fut["client"]["recv"] = "data")
    <3>1. CASE s = "client" /\ t = "recv"
      <4>1. /\ One01(event'["client"]["recv"] = "data") = 0
            /\ One01(fut["client"]["recv"] = "data") = 0
            /\ fut'["client"]["recv"] = event["client"]["recv"]
        BY <1>2, <3>1, Zenon DEF One01
      <4>2. One01(event["client"]["recv"] = "data") \in {0, 1}
        BY Zenon DEF One01
      <4> HIDE DEF One01
      <4> QED
        BY <4>1, <4>2
    <3>2. CASE ~(s = "client" /\ t = "recv")
      <4>1. event'["client"]["recv"] = event["client"]["recv"] /\ fut'["client"]["recv"] = fut["client"]["recv"]
        BY <1>2, <3>2, Zenon DEF Sides, Tags
      <4> QED
        BY <4>1, Zenon
    <3> QED
      BY <3>1, <3>2, Zenon
  <2>6. ~UnaryResponse /\ cl.at \in {"new", "calling"} =>
          down.taken = cl.got + One01(event'["client"]["recv"] = "data")
                              + One01(fut'["client"]["recv"] = "data")
    <3>1. ~UnaryResponse /\ cl.at \in {"new", "calling"} =>
            down.taken = cl.got + One01(event["client"]["recv"] = "data")
                                + One01(fut["client"]["recv"] = "data")
      BY <1>0, Zenon DEF Known
    <3>2. /\ cl.got \in Nat /\ \A b : One01(b) \in Nat
      BY <1>0, Zenon DEF Shapes, One01
    <3> HIDE DEF One01
    <3> QED
      BY <2>5, <3>1, <3>2
  <2> QED
    BY <1>0, <1>1, <1>6, <1>14, <2>3, <2>4, <2>6, Zenon DEF Known
<1> QED
  BY <1>2, <1>5, <1>7, <1>9, <1>10, <1>11, <1>12, <1>13, <1>17, Zenon DEF IInv

-----------------------------------------------------------------------------
(* Before a call starts nothing has been sent, taken or started.           *)
LEMMA InitInv == Init => IInv
<1> SUFFICES ASSUME Init PROVE IInv
  BY Zenon
<1>1. TypeOK
  <2>1. Shapes
    BY Zenon DEF Init, Kinds, Shapes, Outcome
  <2>2. Flags
    BY Zenon DEF Init, Flags
  <2> QED
    BY <2>1, <2>2, TypeParts, Zenon
<1>2. CoreAccepts /\ Tagged /\ CoreSound
  BY Zenon DEF Init, CoreAccepts, Tagged, CoreSound
<1>a. ClientFree
  BY Zenon DEF Init, ClientFree, Sides, Tags, Ops
<1>b. ServerFree
  BY Zenon DEF Init, ServerFree, Sides, Tags, Ops
<1>c. Answered
  BY DEF Init, Answered
<1>3. ClientBatches /\ MetaFree
  BY Zenon DEF Init, ClientBatches, MetaFree, Sides, Tags, Ops
<1>4. Known
  <2>1. /\ event["client"]["start"] = "none" /\ fut["client"]["start"] = "none"
        /\ event["client"]["recv"] = "none" /\ fut["client"]["recv"] = "none"
        /\ down.taken = 0 /\ cl.got = 0 /\ cl.at = "new"
    BY Zenon DEF Init, Sides, Tags
  <2>2. \A b \in {FALSE} : 0 = 0 + One01(b) + One01(b)
    BY DEF One01
  <2>3. ResultIsAnswer
    BY <2>1, Zenon DEF ResultIsAnswer
  <2> QED
    BY <2>1, <2>2, <2>3 DEF Known, StartTells, RecvTells, One01
<1> QED
  BY <1>1, <1>2, <1>a, <1>b, <1>c, <1>3, <1>4, Zenon DEF IInv

(* Every step keeps the books of core, of the wire and of both sides.      *)
LEMMA StepInv == IInv /\ [Next]_vars => IInv'
<1> SUFFICES ASSUME IInv, [Next]_vars PROVE IInv'
  BY Zenon
<1>1. CASE ClStart
  BY <1>1, StartInv, Zenon
<1>2. CASE ClSend \/ ClClose \/ ClRecv
  BY <1>2, HalvesInv, Zenon
<1>3. CASE ClStreamEnds \/ ClResponse
  BY <1>3, EndInv, Zenon
<1>4. CASE Cancel \/ SvUnread \/ SvDrop
  BY <1>4, OverInv, Zenon
<1>5. CASE SvRequest \/ SvPayload \/ SvSuccess \/ SvSend \/ SvClose \/ SvFail \/ SvRecv
  BY <1>5, RequestMoves, HandlerMoves, MoveInv, Zenon
<1>6. ASSUME NEW s \in Sides, NEW t \in Watched, Complete(s, t) PROVE IInv'
  BY <1>6, CompleteInv, Zenon
<1>7. ASSUME NEW s \in Sides, NEW t \in Watched, Resolve(s, t) PROVE IInv'
  BY <1>7, ResolveInv, Zenon
<1>8. CASE UNCHANGED vars
  <2>1. UNCHANGED <<kind, ops, batch, event, fut, up, down, over, cl, sv>>
    BY <1>8, Zenon DEF vars
  <2>2. (UnaryRequest' <=> UnaryRequest) /\ (UnaryResponse' <=> UnaryResponse) /\ StartOps' = StartOps
    BY <2>1, Zenon DEF UnaryRequest, UnaryResponse, StartOps, StartBatches
  <2>3. TypeOK' /\ CoreAccepts' /\ Tagged' /\ CoreSound'
    <3>1. Shapes'
      BY <2>1, TypeParts, ZenonT(60) DEF IInv, Shapes
    <3>2. Flags'
      BY <2>1, TypeParts, Zenon DEF IInv, Flags
    <3>3. TypeOK'
      BY <3>1, <3>2, TypeParts, PTL
    <3>4. CoreAccepts' /\ Tagged' /\ CoreSound'
      BY <2>1, Zenon DEF IInv, CoreAccepts, Tagged, CoreSound
    <3> QED
      BY <3>3, <3>4, Zenon
  <2>4. ClientBatches' /\ ClientFree' /\ ServerFree'
    <3>1. ClientBatches'
      BY <2>1, <2>2, Zenon DEF IInv, ClientBatches
    <3>2. ClientFree'
      BY <2>1, <2>2, Zenon DEF IInv, ClientFree
    <3>3. ServerFree'
      BY <2>1, <2>2, Zenon DEF IInv, ServerFree
    <3> QED
      BY <3>1, <3>2, <3>3, Zenon
  <2>5. MetaFree' /\ Answered'
    BY <2>1, <2>2, Zenon DEF IInv, MetaFree, Answered
  <2>6. \A r : (StartTells(r) <=> StartTells(r)') /\ (RecvTells(r) <=> RecvTells(r)')
    BY <2>1, <2>2, Zenon DEF StartTells, RecvTells
  <2>7. ResultIsAnswer'
    BY <2>1, <2>2, Zenon DEF IInv, Known, ResultIsAnswer
  <2>8. Known'
    BY <2>1, <2>2, <2>6, <2>7, Zenon DEF IInv, Known
  <2> QED
    BY <2>3, <2>4, <2>5, <2>8, Zenon DEF IInv
<1> QED
  BY <1>1, <1>2, <1>3, <1>4, <1>5, <1>6, <1>7, <1>8, Zenon DEF Next, Done

(* The invariant that the two results below rest on: what is in core, in   *)
(* the queues, on the wire and in the hands of the two sides agrees.       *)
THEOREM Inductive == Spec => []IInv
BY InitInv, StepInv, PTL DEF Spec

(* The variables keep their types, whatever the bounds.                    *)
THEOREM TypeCorrect == Spec => []TypeOK
<1>1. IInv => TypeOK
  BY Zenon DEF IInv
<1> QED
  BY <1>1, Inductive, PTL

(* For every kind of call and any number of messages, core accepts each    *)
(* batch that unary_async to duplex_streaming, the sinks, the streams,     *)
(* execute and abort start: check_run and abort never panic on it.         *)
THEOREM NeverRejected == Spec => []CoreAccepts
<1>1. IInv => CoreAccepts
  BY Zenon DEF IInv
<1> QED
  BY <1>1, Inductive, PTL

(* A call that ends well for its client was answered OK by the handler,    *)
(* with all the messages it had sent unless the call was cut short, and a  *)
(* unary response is there to be unwrapped by ClientUnaryReceiver.         *)
THEOREM TrueResult == Spec => []ResultIsAnswer
<1>1. IInv => ResultIsAnswer
  BY Zenon DEF IInv, Known
<1> QED
  BY <1>1, Inductive, PTL
=============================================================================
