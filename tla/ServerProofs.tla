------------------------------ MODULE ServerProofs ------------------------------
(***************************************************************************)
(* Proofs about Server, for any queues, slots and calls: no request slot   *)
(* is lost or handled by the poll thread of another queue, no call is      *)
(* answered twice, and an owner that awaits the shutdown before the drop   *)
(* has core's server destroyed only after it.                              *)
(*                                                                         *)
(* And about the health service a server may offer (Health), for any       *)
(* setters, watchers, casts and statuses. Everybody who refers to a cast   *)
(* refers to the one the map holds (SharedCast); with that, a broadcast    *)
(* reaches every sleeping watcher (NoLostUpdate), and in turns the one     *)
(* setter between the locks carries the status of the map (InTurns), which *)
(* its broadcast makes the status of the cast.                             *)
(***************************************************************************)
EXTENDS Server, Health, TLAPS

(* A slot whose context is in a tag, or with core behind one.              *)
InTag == {"core", "failed", "matched", "recv", "payload", "empty", "broken"}

(* A slot that has a call which is not answered yet.                       *)
Serving(s) ==
  \/ slot[s] \in {"matched", "recv", "payload", "empty", "broken"}
  \/ slot[s] = "thread" /\ loop[SlotCq[s]].at = "execute"

(* Who has the slots: a tag is with the queue of its slot's registry, and  *)
(* a slot on a poll thread is on the one of that queue, which has no other.*)
Hands ==
  /\ \A q \in Cqs : loop[q].at = "next" <=> loop[q].slot = None
  /\ \A q \in Cqs : loop[q].slot # None =>
       slot[loop[q].slot] = "thread" /\ SlotCq[loop[q].slot] = q
  /\ \A s \in Slots : slot[s] = "thread" => loop[SlotCq[s]].slot = s
  /\ \A s \in Slots : slot[s] \in InTag => tagCq[s] = SlotCq[s]

(* Only the flag or a closed queue ends a slot.                            *)
Given == \A s \in Slots : slot[s] = "gone" => flag \/ SlotCq[s] \notin open

(* A call that is not answered yet is with one slot at most, and a call no *)
(* slot has been given is not answered.                                    *)
Served ==
  /\ \A s \in Slots : Serving(s) => /\ taken[s] \in Calls /\ answers[taken[s]] = <<>>
                                    /\ call[taken[s]] \in {"taken", "over"}
  /\ \A s, t \in Slots : Serving(s) /\ Serving(t) /\ taken[s] = taken[t] => s = t
  /\ \A c \in Calls : call[c] \in {"none", "incoming"} => answers[c] = <<>>
  /\ \A c \in Calls : Len(answers[c]) <= 1

(* The owner that awaits the end of the shutdown.                          *)
Awaited ==
  /\ owner \in {"cancel", "released"} => notified = "done"

IInv == TypeOK /\ Hands /\ Given /\ Served
-----------------------------------------------------------------------------
(* The steps that leave the slots and the poll threads where they are:     *)
(* those of the owner and of core that are not about a request.            *)
Still == UNCHANGED <<slot, tagCq, taken, loop>>
Quiet ==
  \/ \E c \in Calls : Arrive(c) \/ CallOver(c)
  \/ ShutdownComplete \/ ResolveShutdown \/ Start \/ Started \/ ShutdownPanic \/ StoreFlag
  \/ DropAfterShutdown \/ Cancel \/ Unblock
  \/ \E q \in Cqs : CloseQueue(q)
  \/ UNCHANGED vars

(* The steps of the model, sorted by what they do to a slot: nothing, a    *)
(* request, a completion, or the work of a poll thread.                    *)
LEMMA Steps ==
  ASSUME [Next]_vars
  PROVE  \/ Quiet
         \/ \E s \in Slots : StartSlot(s) \/ Received(s) \/ \E c \in Calls : Match(c, s)
         \/ ShutdownAndNotify
         \/ \E q \in Cqs, s \in Slots :
              \/ ResolveFailed(q, s) \/ ResolveStream(q, s) \/ ResolveUnary(q, s)
              \/ ResolvePayload(q, s) \/ ResolveEmpty(q, s)
         \/ \E q \in Cqs : Execute(q) \/ LoadSet(q) \/ LoadUnset(q) \/ Issue(q) \/ IssueClosed(q)
BY Zenon DEF Next, PollThread, OwnerNext, Core, Terminated, Quiet

(* A quiet step leaves every slot where it is.                             *)
LEMMA QuietStill == ASSUME Quiet PROVE Still
BY Zenon DEF Quiet, Still, Arrive, CallOver, ShutdownComplete, ResolveShutdown, Start, Started,
       ShutdownPanic, StoreFlag, DropAfterShutdown, Cancel, Unblock, CloseQueue, vars, Step

(* A built server has no slot in anybody's hands and no call.              *)
LEMMA InitInv == Init => IInv
<1> SUFFICES ASSUME Init PROVE IInv
  BY Zenon
<1> USE QueuesAssumption, NoneAssumption
<1>1. /\ slot \in [Slots -> SlotStates] /\ tagCq \in [Slots -> Cqs \cup {None}]
      /\ taken \in [Slots -> Calls \cup {None}]
      /\ loop \in [Cqs -> [at : LoopStates, slot : Slots \cup {None}]]
      /\ call \in [Calls -> CallStates] /\ answers \in [Calls -> Seq(Answers)]
      /\ owner \in OwnerStates /\ notified \in {"no", "core", "queued", "done"}
      /\ open \subseteq Cqs
  BY DEF Init, SlotStates, LoopStates, CallStates, OwnerStates, Idle
<1>2. flag \in BOOLEAN /\ coreShut \in BOOLEAN
  BY Zenon DEF Init
<1>3. Hands
  BY Zenon DEF Init, Hands, Idle, InTag
<1>4. Given
  BY Zenon DEF Init, Given
<1>5. Served
  BY DEF Init, Served, Serving, Idle
<1> QED
  BY <1>1, <1>2, <1>3, <1>4, <1>5, Zenon DEF IInv, TypeOK

(* Every step keeps the types; the flags apart from the rest.              *)
LEMMA FlagsTyped == ASSUME TypeOK, [Next]_vars PROVE (flag \in BOOLEAN /\ coreShut \in BOOLEAN)'
<1>1. \/ UNCHANGED <<flag, coreShut>> \/ (flag' = TRUE /\ coreShut' = coreShut)
      \/ (coreShut' = TRUE /\ flag' = flag)
  BY Zenon, Steps DEF Quiet, Arrive, CallOver, ShutdownComplete, ResolveShutdown, Start, Started,
       ShutdownPanic, StoreFlag, DropAfterShutdown, Cancel, Unblock, CloseQueue, vars, OwnerSame,
       StartSlot, Received, Match, ShutdownAndNotify, ResolveFailed, ResolveStream, ResolveUnary,
       ResolvePayload, ResolveEmpty, Execute, LoadSet, LoadUnset, Issue, IssueClosed
<1> QED
  BY <1>1, Zenon DEF TypeOK

(* The type invariant without the flags.                                   *)
Typed ==
  /\ slot \in [Slots -> SlotStates] /\ tagCq \in [Slots -> Cqs \cup {None}]
  /\ taken \in [Slots -> Calls \cup {None}]
  /\ loop \in [Cqs -> [at : LoopStates, slot : Slots \cup {None}]]
  /\ call \in [Calls -> CallStates] /\ answers \in [Calls -> Seq(Answers)]
  /\ owner \in OwnerStates /\ notified \in {"no", "core", "queued", "done"}
  /\ open \subseteq Cqs

LEMMA TypedIs == TypeOK => Typed
BY Zenon DEF TypeOK, Typed

LEMMA TypeStep == ASSUME TypeOK, Hands, Served, [Next]_vars PROVE TypeOK'
<1> USE QueuesAssumption, NoneAssumption
<1>0. Typed
  BY TypedIs, Zenon
<1> USE DEF Typed, SlotStates, LoopStates, CallStates, OwnerStates, Answers, CallsSame, OwnerSame
<1>1. CASE Quiet
  <2>1. Still
    BY <1>1, QuietStill, Zenon
  <2>2. call' \in [Calls -> CallStates] /\ answers' = answers
    BY <1>0, <1>1, Zenon DEF Quiet, Arrive, CallOver, ShutdownComplete, ResolveShutdown, Start,
       Started,
       ShutdownPanic, StoreFlag, DropAfterShutdown, Cancel, Unblock, CloseQueue, vars
  <2>3. owner' \in OwnerStates /\ notified' \in {"no", "core", "queued", "done"} /\ open' \subseteq Cqs
    BY <1>0, <1>1 DEF Quiet, Arrive, CallOver, ShutdownComplete, ResolveShutdown, Start, Started,
       ShutdownPanic, StoreFlag, DropAfterShutdown, Cancel, Unblock, CloseQueue, vars, Step
  <2> QED
    BY <1>0, <2>1, <2>2, <2>3, FlagsTyped, Zenon DEF Still, TypeOK
<1>2. ASSUME NEW s \in Slots, StartSlot(s) PROVE Typed'
  BY <1>0, <1>2, Zenon DEF StartSlot, Request
<1>3. ASSUME NEW s \in Slots, Received(s) PROVE Typed'
  BY <1>0, <1>3 DEF Received
<1>4. ASSUME NEW s \in Slots, NEW c \in Calls, Match(c, s) PROVE Typed'
  BY <1>0, <1>4, Zenon DEF Match
<1>5. CASE ShutdownAndNotify
  BY <1>0, <1>5, FlagsTyped, Zenon DEF ShutdownAndNotify, TypeOK
<1>6. ASSUME NEW q \in Cqs, NEW s \in Slots,
             ResolveFailed(q, s) \/ ResolveStream(q, s) \/ ResolvePayload(q, s)
      PROVE  Typed'
  <2>1. PICK at \in {"load", "execute"} : Busy(q, s, at)
    BY <1>6, Zenon DEF ResolveFailed, ResolveStream, ResolvePayload
  <2>2. UNCHANGED <<tagCq, taken, call, answers, owner, notified, open>>
    BY <1>6, Zenon DEF ResolveFailed, ResolveStream, ResolvePayload
  <2>3. [at |-> at, slot |-> s] \in [at : LoopStates, slot : Slots \cup {None}]
    BY Zenon
  <2>4. loop' \in [Cqs -> [at : LoopStates, slot : Slots \cup {None}]]
    BY <1>0, <2>1, <2>3, Zenon DEF Busy
  <2> QED
    BY <1>0, <2>1, <2>2, <2>4, Zenon DEF Busy
<1>7. ASSUME NEW q \in Cqs, NEW s \in Slots, ResolveUnary(q, s) PROVE Typed'
  BY <1>0, <1>7, Zenon DEF ResolveUnary
<1>8. ASSUME NEW q \in Cqs, NEW s \in Slots, ResolveEmpty(q, s) PROVE Typed'
  <2>1. taken[s] \in Calls
    BY <1>8, Zenon DEF ResolveEmpty, NextTag, Served, Serving
  <2> QED
    BY <1>0, <1>8, <2>1 DEF ResolveEmpty, Busy, Answer
<1>9. ASSUME NEW q \in Cqs, Execute(q) PROVE Typed'
  <2>1. loop[q].slot \in Slots /\ Serving(loop[q].slot)
    BY <1>0, <1>9 DEF Execute, Hands, Serving
  <2>2. taken[loop[q].slot] \in Calls
    BY <2>1, Zenon DEF Served
  <2>3. PICK a \in Outcomes(q, taken[loop[q].slot]) : Answer(taken[loop[q].slot], a)
    BY <1>9, Zenon DEF Execute
  <2>4. a \in Answers
    BY <2>3, Zenon DEF Outcomes
  <2> QED
    BY <1>0, <1>9, <2>2, <2>3, <2>4 DEF Execute, Answer
<1>10. ASSUME NEW q \in Cqs, LoadSet(q) \/ LoadUnset(q) \/ Issue(q) \/ IssueClosed(q) PROVE Typed'
  <2>1. loop[q].slot \in Slots
    BY <1>0, <1>10 DEF LoadSet, LoadUnset, Issue, IssueClosed, Hands
  <2>2. UNCHANGED <<call, answers, owner, notified, open>>
    BY <1>10, Zenon DEF LoadSet, LoadUnset, Issue, IssueClosed
  <2>3. CASE LoadSet(q) \/ IssueClosed(q)
    <3>1. Retire(q) /\ UNCHANGED <<tagCq, taken>>
      BY <2>3, Zenon DEF LoadSet, IssueClosed
    <3> QED
      BY <1>0, <2>1, <2>2, <3>1, Zenon DEF Retire, Idle
  <2>4. CASE LoadUnset(q)
    BY <1>0, <2>1, <2>2, <2>4 DEF LoadUnset
  <2>5. CASE Issue(q)
    BY <1>0, <2>1, <2>2, <2>5, Zenon DEF Issue, Request, Idle
  <2> QED
    BY <1>10, <2>3, <2>4, <2>5, Zenon
<1>11. Typed' => TypeOK'
  BY FlagsTyped, Zenon DEF TypeOK
<1> QED
  BY <1>1, <1>2, <1>3, <1>4, <1>5, <1>6, <1>7, <1>8, <1>9, <1>10, <1>11, Steps, Zenon

(* Every step keeps the slots in the hands they belong to.                 *)
LEMMA HandsStep == ASSUME IInv, [Next]_vars PROVE Hands'
<1> USE QueuesAssumption, NoneAssumption
<1>0. Typed /\ Hands
  BY TypedIs, Zenon DEF IInv
<1> USE DEF Typed, SlotStates, LoopStates
<1>1. CASE Quiet
  BY <1>0, <1>1, QuietStill DEF Still, Hands
<1>2. ASSUME NEW s \in Slots, StartSlot(s) PROVE Hands'
  <2>1. /\ \/ slot' = [slot EXCEPT ![s] = "failed"] /\ tagCq' = [tagCq EXCEPT ![s] = SlotCq[s]]
           \/ slot' = [slot EXCEPT ![s] = "core"] /\ tagCq' = [tagCq EXCEPT ![s] = SlotCq[s]]
           \/ slot' = [slot EXCEPT ![s] = "gone"] /\ tagCq' = tagCq
        /\ slot[s] = "new" /\ loop' = loop
    BY <1>2, Zenon DEF StartSlot, Request
  <2> QED
    BY <1>0, <2>1 DEF Hands, InTag
<1>3. ASSUME NEW s \in Slots, Received(s) PROVE Hands'
  BY <1>0, <1>3 DEF Received, Hands, InTag
<1>4. ASSUME NEW s \in Slots, NEW c \in Calls, Match(c, s) PROVE Hands'
  BY <1>0, <1>4 DEF Match, Hands, InTag
<1>5. CASE ShutdownAndNotify
  BY <1>0, <1>5 DEF ShutdownAndNotify, Hands, InTag
<1>6. ASSUME NEW q \in Cqs, NEW s \in Slots, NEW at \in {"load", "execute"}, Busy(q, s, at),
             tagCq' = tagCq, slot[s] \in InTag, tagCq[s] = q, loop[q] = Idle
      PROVE  Hands'
  <2>1. SlotCq[s] = q /\ loop[q].slot = None
    BY <1>0, <1>6 DEF Hands, Idle
  <2>2. /\ \A t \in Slots : slot'[t] = IF t = s THEN "thread" ELSE slot[t]
        /\ \A p \in Cqs : loop'[p] = IF p = q THEN [at |-> at, slot |-> s] ELSE loop[p]
    BY <1>0, <1>6, Zenon DEF Busy
  <2>3. \A t \in Slots : slot[t] = "thread" => SlotCq[t] # q
    BY <1>0, <2>1 DEF Hands
  <2>4. loop'[q].at = at /\ loop'[q].slot = s /\ \A p \in Cqs \ {q} : loop'[p] = loop[p]
    BY <1>0, <1>6, Zenon DEF Busy
  <2>5. \A p \in Cqs : loop'[p].at = "next" <=> loop'[p].slot = None
    BY <1>0, <1>6, <2>4 DEF Hands
  <2>6. \A p \in Cqs : loop'[p].slot # None =>
          slot'[loop'[p].slot] = "thread" /\ SlotCq[loop'[p].slot] = p
    BY <1>0, <1>6, <2>1, <2>2, <2>4, SMTT(60) DEF Hands, InTag
  <2>7. \A t \in Slots : slot'[t] = "thread" => loop'[SlotCq[t]].slot = t
    BY <1>0, <2>1, <2>2, <2>3, <2>4 DEF Hands
  <2>8. \A t \in Slots : slot'[t] \in InTag => tagCq'[t] = SlotCq[t]
    BY <1>0, <1>6, <2>2, Zenon DEF Hands, InTag
  <2> QED
    BY <2>5, <2>6, <2>7, <2>8, Zenon DEF Hands
<1>7. ASSUME NEW q \in Cqs, NEW s \in Slots,
             \/ ResolveFailed(q, s) \/ ResolveStream(q, s) \/ ResolvePayload(q, s)
             \/ ResolveEmpty(q, s)
      PROVE  Hands'
  <2>1. /\ Busy(q, s, "load") \/ Busy(q, s, "execute")
        /\ tagCq' = tagCq /\ slot[s] \in InTag /\ tagCq[s] = q /\ loop[q] = Idle
    BY <1>7, Zenon DEF ResolveFailed, ResolveStream, ResolvePayload, ResolveEmpty, NextTag, InTag
  <2> QED
    BY <1>6, <2>1, Zenon
<1>8. ASSUME NEW q \in Cqs, NEW s \in Slots, ResolveUnary(q, s) PROVE Hands'
  BY <1>0, <1>8 DEF ResolveUnary, NextTag, Hands, InTag
<1>9. ASSUME NEW q \in Cqs, Execute(q) \/ LoadUnset(q) PROVE Hands'
  <2>1. PICK at \in {"load", "issue"} : loop' = [loop EXCEPT ![q].at = at]
    BY <1>9, Zenon DEF Execute, LoadUnset
  <2>2. loop[q].slot # None /\ UNCHANGED <<slot, tagCq>>
    BY <1>0, <1>9, Zenon DEF Execute, LoadUnset, Hands
  <2>3. /\ loop'[q].at = at /\ loop'[q].slot = loop[q].slot
        /\ \A p \in Cqs \ {q} : loop'[p] = loop[p]
    BY <1>0, <2>1
  <2>4. \A p \in Cqs : loop'[p].at = "next" <=> loop'[p].slot = None
    BY <1>0, <2>1, <2>2, <2>3 DEF Hands
  <2>5. \A p \in Cqs : loop'[p].slot = loop[p].slot
    BY <2>3, Zenon
  <2> QED
    BY <1>0, <2>2, <2>4, <2>5 DEF Hands
<1>10. ASSUME NEW q \in Cqs, LoadSet(q) \/ Issue(q) \/ IssueClosed(q) PROVE Hands'
  <2>1. loop[q].slot \in Slots /\ SlotCq[loop[q].slot] = q /\ slot[loop[q].slot] = "thread"
    BY <1>0, <1>10 DEF LoadSet, Issue, IssueClosed, Hands
  <2>2. /\ loop' = [loop EXCEPT ![q] = Idle]
        /\ \/ /\ slot' = [slot EXCEPT ![loop[q].slot] = "gone"] /\ tagCq' = tagCq
           \/ /\ \/ slot' = [slot EXCEPT ![loop[q].slot] = "failed"]
                 \/ slot' = [slot EXCEPT ![loop[q].slot] = "core"]
              /\ tagCq' = [tagCq EXCEPT ![loop[q].slot] = q]
    BY <1>10, Zenon DEF LoadSet, Issue, IssueClosed, Retire, Request
  <2>3. \A p \in Cqs : loop'[p] = IF p = q THEN Idle ELSE loop[p]
    BY <1>0, <2>2, Zenon
  <2>4. \A p \in Cqs \ {q} : loop[p].slot # loop[q].slot
    BY <1>0, <2>1 DEF Hands
  <2> QED
    BY <1>0, <2>1, <2>2, <2>3, <2>4 DEF Hands, InTag, Idle
<1> QED
  BY <1>1, <1>2, <1>3, <1>4, <1>5, <1>7, <1>8, <1>9, <1>10, Steps, Zenon

(* The flag is not taken back, and no queue opens again.                   *)
LEMMA Monotone == ASSUME TypeOK, [Next]_vars PROVE (flag => flag') /\ open' \subseteq open
<1>1. flag' = flag \/ flag' = TRUE
  BY Zenon, Steps DEF Quiet, Arrive, CallOver, ShutdownComplete, ResolveShutdown, Start, Started,
       ShutdownPanic, StoreFlag, DropAfterShutdown, Cancel, Unblock, CloseQueue, vars, OwnerSame,
       StartSlot, Received, Match, ShutdownAndNotify, ResolveFailed, ResolveStream, ResolveUnary,
       ResolvePayload, ResolveEmpty, Execute, LoadSet, LoadUnset, Issue, IssueClosed
<1>2. open' = open \/ \E q \in Cqs : open' = open \ {q}
  BY Zenon, Steps DEF Quiet, Arrive, CallOver, ShutdownComplete, ResolveShutdown, Start, Started,
       ShutdownPanic, StoreFlag, DropAfterShutdown, Cancel, Unblock, CloseQueue, vars, OwnerSame,
       StartSlot, Received, Match, ShutdownAndNotify, ResolveFailed, ResolveStream, ResolveUnary,
       ResolvePayload, ResolveEmpty, Execute, LoadSet, LoadUnset, Issue, IssueClosed
<1>3. flag => flag'
  BY <1>1, Zenon
<1> QED
  BY <1>2, <1>3, Zenon

(* A slot is given up only for the flag or for its own queue.              *)
LEMMA GivenStep == ASSUME IInv, [Next]_vars PROVE Given'
<1> USE QueuesAssumption
<1>0. Typed /\ Hands
  BY TypedIs, Zenon DEF IInv
<1>1. ASSUME NEW s \in Slots, slot'[s] = "gone", slot[s] # "gone"
      PROVE  flag \/ SlotCq[s] \notin open
  <2>1. CASE Quiet
    BY <2>1, <1>1, QuietStill, Zenon DEF Still
  <2>2. ASSUME NEW t \in Slots, StartSlot(t) PROVE flag \/ SlotCq[s] \notin open
    BY <1>0, <1>1, <2>2, Zenon DEF StartSlot, Request, Typed
  <2>3. ASSUME NEW t \in Slots, Received(t) \/ \E c \in Calls : Match(c, t) PROVE FALSE
    BY <1>0, <1>1, <2>3, Zenon DEF Received, Match, Typed
  <2>4. CASE ShutdownAndNotify
    BY <1>0, <1>1, <2>4, Zenon DEF ShutdownAndNotify, Typed
  <2>5. ASSUME NEW q \in Cqs, NEW t \in Slots,
               \/ ResolveFailed(q, t) \/ ResolveStream(q, t) \/ ResolveUnary(q, t)
               \/ ResolvePayload(q, t) \/ ResolveEmpty(q, t)
        PROVE  FALSE
    <3>1. slot' = [slot EXCEPT ![t] = "thread"] \/ slot' = [slot EXCEPT ![t] = "recv"]
      BY <2>5, Zenon DEF ResolveFailed, ResolveStream, ResolveUnary, ResolvePayload,
         ResolveEmpty, Busy
    <3> QED
      BY <1>0, <1>1, <3>1, Zenon DEF Typed
  <2>6. ASSUME NEW q \in Cqs, Execute(q) \/ LoadUnset(q) PROVE FALSE
    BY <1>1, <2>6, Zenon DEF Execute, LoadUnset
  <2>7. ASSUME NEW q \in Cqs, Issue(q) PROVE FALSE
    <3>1. slot' = [slot EXCEPT ![loop[q].slot] = "core"] \/ slot' = [slot EXCEPT ![loop[q].slot] = "failed"]
      BY <2>7, Zenon DEF Issue, Request
    <3> QED
      BY <1>0, <1>1, <3>1, Zenon DEF Typed
  <2>8. ASSUME NEW q \in Cqs, LoadSet(q) PROVE flag
    BY <2>8, Zenon DEF LoadSet
  <2>9. ASSUME NEW q \in Cqs, IssueClosed(q) PROVE SlotCq[s] \notin open
    <3>1. slot' = [slot EXCEPT ![loop[q].slot] = "gone"] /\ q \notin open /\ loop[q].at = "issue"
      BY <2>9, Zenon DEF IssueClosed, Retire
    <3>2. s = loop[q].slot
      BY <1>0, <1>1, <3>1, Zenon DEF Typed
    <3> QED
      BY <1>0, <3>1, <3>2, NoneAssumption, Zenon DEF Hands
  <2> QED
    BY <2>1, <2>2, <2>3, <2>4, <2>5, <2>6, <2>7, <2>8, <2>9, Steps, Zenon
<1>2. TypeOK /\ Given
  BY Zenon DEF IInv
<1>3. (flag => flag') /\ open' \subseteq open
  BY <1>2, Monotone, Zenon
<1> SUFFICES ASSUME NEW s \in Slots, slot'[s] = "gone" PROVE flag' \/ SlotCq[s] \notin open'
  BY Zenon DEF Given
<1>4. flag \/ SlotCq[s] \notin open
  BY <1>1, <1>2, Zenon DEF Given
<1> QED
  BY <1>3, <1>4, Zenon

(* A step that answers no call and gives no slot a call.                   *)
LEMMA ServedFrame ==
  ASSUME Served, Typed, answers' = answers,
         \A t \in Slots : Serving(t)' => Serving(t) /\ taken'[t] = taken[t],
         \A c \in Calls : /\ call'[c] \in {"none", "incoming"} => call[c] \in {"none", "incoming"}
                          /\ call[c] \in {"taken", "over"} => call'[c] \in {"taken", "over"}
  PROVE  Served'
<1> DEFINE S(t) == Serving(t)
           T(t) == Serving(t)'
<1>1. \A t \in Slots : T(t) => S(t) /\ taken'[t] = taken[t]
  BY Zenon
<1>2. /\ \A t \in Slots : S(t) => /\ taken[t] \in Calls /\ answers[taken[t]] = <<>>
                                  /\ call[taken[t]] \in {"taken", "over"}
      /\ \A s, t \in Slots : S(s) /\ S(t) /\ taken[s] = taken[t] => s = t
  BY Zenon DEF Served
<1> HIDE DEF S, T
<1>3. /\ \A t \in Slots : T(t) => /\ taken'[t] \in Calls /\ answers'[taken'[t]] = <<>>
                                  /\ call'[taken'[t]] \in {"taken", "over"}
      /\ \A s, t \in Slots : T(s) /\ T(t) /\ taken'[s] = taken'[t] => s = t
  BY <1>1, <1>2
<1>4. /\ \A c \in Calls : call'[c] \in {"none", "incoming"} => answers'[c] = <<>>
      /\ \A c \in Calls : Len(answers'[c]) <= 1
  BY Zenon DEF Served
<1> QED
  BY <1>3, <1>4, Zenon DEF Served, T

(* A step that answers the call of a slot that is then through with it.    *)
LEMMA ServedAnswer ==
  ASSUME Served, Typed, call' = call, taken' = taken, NEW s \in Slots, NEW a,
         Serving(s), ~Serving(s)', Answer(taken[s], a),
         \A t \in Slots \ {s} : Serving(t)' => Serving(t)
  PROVE  Served'
<1> DEFINE S(t) == Serving(t)
           T(t) == Serving(t)'
<1>1. S(s) /\ ~T(s) /\ \A t \in Slots \ {s} : T(t) => S(t)
  BY Zenon
<1>2. /\ \A t \in Slots : S(t) => /\ taken[t] \in Calls /\ answers[taken[t]] = <<>>
                                  /\ call[taken[t]] \in {"taken", "over"}
      /\ \A u, t \in Slots : S(u) /\ S(t) /\ taken[u] = taken[t] => u = t
  BY Zenon DEF Served
<1> HIDE DEF S, T
<1>3. taken[s] \in Calls /\ answers[taken[s]] = <<>> /\ call[taken[s]] \in {"taken", "over"}
  BY <1>1, <1>2, Zenon
<1>4. /\ \A c \in Calls \ {taken[s]} : answers'[c] = answers[c]
      /\ answers'[taken[s]] = Append(<<>>, a)
  BY <1>3, Zenon DEF Answer, Typed
<1>5. /\ \A t \in Slots : T(t) => /\ taken'[t] \in Calls /\ answers'[taken'[t]] = <<>>
                                  /\ call'[taken'[t]] \in {"taken", "over"}
      /\ \A u, t \in Slots : T(u) /\ T(t) /\ taken'[u] = taken'[t] => u = t
  BY <1>1, <1>2, <1>4, Zenon
<1>6. \A c \in Calls : call'[c] \in {"none", "incoming"} => answers'[c] = <<>>
  BY <1>3, <1>4, Zenon DEF Served
<1>7. \A c \in Calls : Len(answers'[c]) <= 1
  <2>1. Len(Append(<<>>, a)) = 1
    OBVIOUS
  <2>2. Len(answers'[taken[s]]) <= 1
    BY <1>4, <2>1
  <2>3. \A c \in Calls \ {taken[s]} : Len(answers'[c]) <= 1
    BY <1>4, Zenon DEF Served
  <2> QED
    BY <2>2, <2>3, Zenon
<1> QED
  BY <1>5, <1>6, <1>7, Zenon DEF Served, T

(* Every step answers at most a call that was not answered, for a slot     *)
(* that is through with it.                                                *)
LEMMA ServedStep == ASSUME IInv, [Next]_vars PROVE Served'
<1> USE QueuesAssumption, NoneAssumption
<1>0. Typed /\ Hands /\ Served
  BY TypedIs, Zenon DEF IInv
<1>1. CASE Quiet
  <2>1. Still
    BY <1>1, QuietStill, Zenon
  <2>2. \A t \in Slots : Serving(t)' => Serving(t) /\ taken'[t] = taken[t]
    BY <2>1, Zenon DEF Still, Serving
  <2>3. /\ answers' = answers
        /\ \A c \in Calls : /\ call'[c] \in {"none", "incoming"} => call[c] \in {"none", "incoming"}
                            /\ call[c] \in {"taken", "over"} => call'[c] \in {"taken", "over"}
    BY <1>0, <1>1, Zenon DEF Quiet, Arrive, CallOver, ShutdownComplete, ResolveShutdown, Start,
       Started,
       ShutdownPanic, StoreFlag, DropAfterShutdown, Cancel, Unblock, CloseQueue, vars, CallsSame,
       Typed
  <2> QED
    BY <1>0, <2>2, <2>3, ServedFrame, Zenon
<1>2. ASSUME NEW s \in Slots, StartSlot(s) PROVE Served'
  <2>1. /\ \/ slot' = [slot EXCEPT ![s] = "failed"]
           \/ slot' = [slot EXCEPT ![s] = "core"]
           \/ slot' = [slot EXCEPT ![s] = "gone"]
        /\ taken' = taken \/ taken' = [taken EXCEPT ![s] = None]
        /\ loop' = loop /\ UNCHANGED <<call, answers>>
    BY <1>2, Zenon DEF StartSlot, Request, CallsSame
  <2>2. \A t \in Slots : Serving(t)' => Serving(t) /\ taken'[t] = taken[t]
    BY <1>0, <2>1 DEF Serving, Typed
  <2> QED
    BY <1>0, <2>1, <2>2, ServedFrame, Zenon
<1>3. ASSUME NEW s \in Slots, Received(s) PROVE Served'
  <2>1. \A t \in Slots : Serving(t)' => Serving(t) /\ taken'[t] = taken[t]
    BY <1>0, <1>3, Zenon DEF Received, Serving, Typed
  <2> QED
    BY <1>0, <1>3, <2>1, ServedFrame, Zenon DEF Received, CallsSame
<1>4. ASSUME NEW s \in Slots, NEW c \in Calls, Match(c, s) PROVE Served'
  <2>1. /\ \A t \in Slots \ {s} : taken'[t] = taken[t] /\ slot'[t] = slot[t]
        /\ loop' = loop /\ answers' = answers /\ taken'[s] = c /\ call'[c] = "taken"
        /\ \A d \in Calls \ {c} : call'[d] = call[d]
        /\ call[c] = "incoming"
    BY <1>0, <1>4, Zenon DEF Match, Typed
  <2>2. \A t \in Slots \ {s} : Serving(t)' => Serving(t)
    BY <2>1, Zenon DEF Serving
  <2>3. \A t \in Slots \ {s} : Serving(t) => taken[t] # c
    BY <1>0, <2>1, Zenon DEF Served
  <2>4. \A t \in Slots : Serving(t)' => /\ taken'[t] \in Calls /\ answers'[taken'[t]] = <<>>
                                        /\ call'[taken'[t]] \in {"taken", "over"}
    BY <1>0, <2>1, <2>2, <2>3 DEF Served
  <2>5. \A t, u \in Slots : Serving(t)' /\ Serving(u)' /\ taken'[t] = taken'[u] => t = u
    BY <1>0, <2>1, <2>2, <2>3 DEF Served
  <2> QED
    BY <1>0, <2>1, <2>4, <2>5, Zenon DEF Served
<1>5. CASE ShutdownAndNotify
  <2>1. \A t \in Slots : Serving(t)' => Serving(t) /\ taken'[t] = taken[t]
    BY <1>0, <1>5, Zenon DEF ShutdownAndNotify, Serving, Typed
  <2>2. /\ answers' = answers
        /\ \A c \in Calls : /\ call'[c] \in {"none", "incoming"} => call[c] \in {"none", "incoming"}
                            /\ call[c] \in {"taken", "over"} => call'[c] \in {"taken", "over"}
    BY <1>0, <1>5, Zenon DEF ShutdownAndNotify, Typed
  <2> QED
    BY <1>0, <2>1, <2>2, ServedFrame
<1>6. ASSUME NEW q \in Cqs, NEW s \in Slots, NEW at \in {"load", "execute"}, Busy(q, s, at),
             slot[s] \in InTag, tagCq[s] = q, loop[q] = Idle
      PROVE  /\ Serving(s)' <=> at = "execute"
             /\ \A t \in Slots \ {s} : Serving(t)' => Serving(t)
  <2>1. SlotCq[s] = q /\ loop[q].slot = None
    BY <1>0, <1>6 DEF Hands, Idle
  <2>2. \A t \in Slots : slot[t] = "thread" => SlotCq[t] # q
    BY <1>0, <2>1 DEF Hands
  <2>3. /\ slot'[s] = "thread" /\ \A t \in Slots \ {s} : slot'[t] = slot[t]
        /\ loop'[q].at = at /\ \A p \in Cqs \ {q} : loop'[p] = loop[p]
    BY <1>0, <1>6, Zenon DEF Busy, Typed
  <2> QED
    BY <2>1, <2>2, <2>3, Zenon DEF Serving
<1>7. ASSUME NEW q \in Cqs, NEW s \in Slots,
             ResolveFailed(q, s) \/ ResolveStream(q, s) \/ ResolvePayload(q, s)
      PROVE  Served'
  <2>1. /\ UNCHANGED <<taken, call, answers>> /\ slot[s] \in InTag /\ tagCq[s] = q /\ loop[q] = Idle
        /\ Busy(q, s, "load") \/ (Busy(q, s, "execute") /\ Serving(s))
    BY <1>7, Zenon DEF ResolveFailed, ResolveStream, ResolvePayload, NextTag, InTag, CallsSame,
       Serving
  <2>2. \A t \in Slots : Serving(t)' => Serving(t) /\ taken'[t] = taken[t]
    BY <1>6, <2>1, Zenon
  <2> QED
    BY <1>0, <2>1, <2>2, ServedFrame, Zenon
<1>8. ASSUME NEW q \in Cqs, NEW s \in Slots, ResolveEmpty(q, s) PROVE Served'
  <2>1. /\ UNCHANGED <<taken, call>> /\ slot[s] \in InTag /\ tagCq[s] = q /\ loop[q] = Idle
        /\ Busy(q, s, "load") /\ Serving(s)
    BY <1>8, Zenon DEF ResolveEmpty, NextTag, InTag, Serving
  <2>2. PICK a : Answer(taken[s], a)
    BY <1>8, Zenon DEF ResolveEmpty
  <2>3. ~Serving(s)' /\ \A t \in Slots \ {s} : Serving(t)' => Serving(t)
    BY <1>6, <2>1, Zenon
  <2> QED
    BY <1>0, <2>1, <2>2, <2>3, ServedAnswer, Zenon
<1>9. ASSUME NEW q \in Cqs, NEW s \in Slots, ResolveUnary(q, s) PROVE Served'
  <2>1. \A t \in Slots : Serving(t)' => Serving(t) /\ taken'[t] = taken[t]
    BY <1>0, <1>9, Zenon DEF ResolveUnary, NextTag, Serving, Typed
  <2> QED
    BY <1>0, <1>9, <2>1, ServedFrame, Zenon DEF ResolveUnary, CallsSame
<1>10. ASSUME NEW q \in Cqs, loop[q].at # "next"
       PROVE  /\ loop[q].slot \in Slots /\ SlotCq[loop[q].slot] = q
              /\ slot[loop[q].slot] = "thread"
              /\ \A t \in Slots \ {loop[q].slot} : slot[t] = "thread" => SlotCq[t] # q
  BY <1>0, <1>10 DEF Hands, Typed
<1>11. ASSUME NEW q \in Cqs, Execute(q) PROVE Served'
  <2>0. PICK s \in Slots : s = loop[q].slot
    BY <1>10, <1>11, Zenon DEF Execute
  <2>1. /\ SlotCq[s] = q /\ slot[s] = "thread"
        /\ \A t \in Slots \ {s} : slot[t] = "thread" => SlotCq[t] # q
    BY <1>10, <1>11, <2>0, Zenon DEF Execute
  <2>2. UNCHANGED <<slot, taken, call>> /\ Serving(s) /\ \E a : Answer(taken[s], a)
    BY <1>11, <2>0, <2>1, Zenon DEF Execute, Serving
  <2>3. loop'[q].at = "load" /\ \A p \in Cqs \ {q} : loop'[p] = loop[p]
    BY <1>0, <1>11 DEF Execute, Typed
  <2>4. ~Serving(s)' /\ \A t \in Slots \ {s} : Serving(t)' => Serving(t)
    BY <2>1, <2>2, <2>3, Zenon DEF Serving
  <2> QED
    BY <1>0, <2>1, <2>2, <2>4, ServedAnswer, Zenon
<1>12. ASSUME NEW q \in Cqs, LoadSet(q) \/ LoadUnset(q) \/ Issue(q) \/ IssueClosed(q)
       PROVE  Served'
  <2> DEFINE s == loop[q].slot
  <2>1. /\ s \in Slots /\ SlotCq[s] = q /\ slot[s] = "thread"
        /\ \A t \in Slots \ {s} : slot[t] = "thread" => SlotCq[t] # q
    BY <1>10, <1>12, Zenon DEF LoadSet, LoadUnset, Issue, IssueClosed
  <2>2. /\ UNCHANGED <<call, answers>>
        /\ \/ loop' = [loop EXCEPT ![q].at = "issue"] /\ UNCHANGED <<slot, taken>>
           \/ /\ loop' = [loop EXCEPT ![q] = Idle]
              /\ \/ slot' = [slot EXCEPT ![s] = "gone"]
                 \/ slot' = [slot EXCEPT ![s] = "failed"]
                 \/ slot' = [slot EXCEPT ![s] = "core"]
              /\ taken' = taken \/ taken' = [taken EXCEPT ![s] = None]
    BY <1>12, Zenon DEF LoadSet, LoadUnset, Issue, IssueClosed, Retire, Request, CallsSame
  <2>3. loop'[q].at \in {"issue", "next"} /\ \A p \in Cqs \ {q} : loop'[p] = loop[p]
    BY <1>0, <2>2 DEF Typed, Idle
  <2>4. \A t \in Slots \ {s} : slot'[t] = slot[t] /\ taken'[t] = taken[t]
    BY <1>0, <2>1, <2>2, Zenon DEF Typed
  <2>5. slot'[s] \in {"thread", "gone", "failed", "core"}
    BY <1>0, <2>1, <2>2, Zenon DEF Typed
  <2> HIDE DEF s
  <2>6. \A t \in Slots : Serving(t)' => Serving(t) /\ taken'[t] = taken[t]
    BY <2>1, <2>3, <2>4, <2>5, Zenon DEF Serving
  <2> QED
    BY <1>0, <2>2, <2>6, ServedFrame, Zenon
<1> QED
  BY <1>1, <1>2, <1>3, <1>4, <1>5, <1>7, <1>8, <1>9, <1>11, <1>12, Steps, Zenon

(* The inductive invariant.                                                *)
THEOREM Inductive == Spec => []IInv
<1>1. IInv /\ [Next]_vars => IInv'
  <2> SUFFICES ASSUME IInv, [Next]_vars PROVE IInv'
    BY Zenon
  <2>1. TypeOK'
    BY TypeStep, Zenon DEF IInv
  <2> QED
    BY <2>1, HandsStep, GivenStep, ServedStep, Zenon DEF IInv
<1> QED
  BY <1>1, InitInv, PTL DEF Spec

(* Every variable of Server keeps its type.                                *)
THEOREM TypeCorrect == Spec => []TypeOK
<1>1. IInv => TypeOK
  BY Zenon DEF IInv
<1> QED
  BY <1>1, Inductive, PTL

(* Request::resolve and UnaryRequest::resolve (task/callback.rs:22-64)     *)
(* bring every slot back to request_call on its own queue's poll thread    *)
(* until the flag is set or that queue is closed, and no path through them *)
(* answers a call twice.                                                   *)
THEOREM SlotsKept == Spec => []SlotsConserved
<1>1. IInv => SlotsConserved
  <2> SUFFICES ASSUME IInv PROVE SlotsConserved
    BY Zenon
  <2> USE QueuesAssumption, NoneAssumption
  <2>1. ASSUME NEW s \in Slots PROVE slot[s] = "gone" => flag \/ SlotCq[s] \notin open
    BY Zenon DEF IInv, Given
  <2>2. ASSUME NEW s \in Slots
        PROVE  {q \in Cqs : loop[q].slot = s} = IF slot[s] = "thread" THEN {SlotCq[s]} ELSE {}
    BY DEF IInv, Hands
  <2>3. \A c \in Calls : Len(answers[c]) <= 1
    BY Zenon DEF IInv, Served
  <2> QED
    BY <2>1, <2>2, <2>3, Zenon DEF SlotsConserved
<1> QED
  BY <1>1, Inductive, PTL

(* The step before: an owner that awaits its ShutdownFuture is past it     *)
(* when the drop comes to the destruction.                                 *)
LEMMA AwaitedStep == ASSUME AwaitShutdown = TRUE, Awaited, [Next]_vars PROVE Awaited'
BY Steps, ZenonT(60) DEF Awaited, Quiet, Arrive, CallOver, ShutdownComplete, ResolveShutdown, Start,
   Started, ShutdownPanic, StoreFlag, DropAfterShutdown, Cancel, Unblock, CloseQueue, vars,
   OwnerSame,
   StartSlot, Received, Match, ShutdownAndNotify, ResolveFailed, ResolveStream, ResolveUnary,
   ResolvePayload, ResolveEmpty, Execute, LoadSet, LoadUnset, Issue, IssueClosed, Step, ShutdownFrom

(* An owner that awaits the ShutdownFuture, or leaves the shutdown to the  *)
(* drop, has core's server destroyed only after the end of its shutdown:   *)
(* the comment at server.rs:627 holds for this use of the Server.          *)
THEOREM DestroyedLate == AwaitShutdown => (Spec => []DestroyedAfterShutdown)
<1> SUFFICES ASSUME AwaitShutdown PROVE Spec => []DestroyedAfterShutdown
  BY Zenon
<1>0. AwaitShutdown = TRUE
  BY UsageAssumption, Zenon
<1>1. Init => Awaited
  BY Zenon DEF Init, Awaited
<1>2. Awaited /\ [Next]_vars => Awaited'
  BY <1>0, AwaitedStep, Zenon
<1>3. Awaited => DestroyedAfterShutdown
  BY Zenon DEF Awaited, DestroyedAfterShutdown, Destroyed
<1> QED
  BY <1>1, <1>2, <1>3, PTL DEF Spec

-----------------------------------------------------------------------------
(* Every watcher hangs on the cast that the map holds, and so does every   *)
(* setter between the two locks: a cast that is referred to is not removed *)
(* (service.rs:226-232).                                                   *)
SharedCast ==
  /\ \A w \in Watchers :
       /\ watcher[w].cast # Absent => watcher[w].cast = cast
       /\ watcher[w].at \in {"awake", "locking", "asleep"} => watcher[w].cast # Absent
  /\ \A p \in Setters : setter[p] # AtRest =>
       setter[p].cast = cast /\ cast # Absent /\ setter[p].st \in Statuses

(* A watcher that sleeps has seen the state of its cast and has its waker  *)
(* there: no update falls between the load and the registration of         *)
(* poll_next (service.rs:74-100).                                          *)
NoLostUpdate ==
  \A w \in Watchers : watcher[w].at = "asleep" =>
    watcher[w].last = Current(w) /\ w \in subs[watcher[w].cast]

(* Callers that take turns: one setter at most is between the locks, and   *)
(* what it is to broadcast is what it wrote to the map.                    *)
InTurns ==
  serial =>
    /\ \A p, q \in Setters : setter[p] # AtRest /\ setter[q] # AtRest => p = q
    /\ \A p \in Setters : setter[p] # AtRest => setter[p].st = status

HealthInv == HealthTypeOK /\ SharedCast /\ NoLostUpdate /\ InTurns /\ CastAgreesWithMap

-----------------------------------------------------------------------------
(* The service before its first call satisfies the invariant.              *)
LEMMA HealthInitial == HealthInit => HealthInv
<1> SUFFICES ASSUME HealthInit PROVE HealthInv
  OBVIOUS
<1> USE StatusAssumption, UpdatesAssumption, AbsentAssumption
<1>1. HealthTypeOK
  <2>1. stopped \in BOOLEAN /\ serial \in BOOLEAN
    BY Zenon DEF HealthInit
  <2>2. Zero \in States /\ AtRest \in [cast : Casts \cup {Absent}, st : Statuses \cup {Absent}]
    BY Zenon DEF Zero, States, AtRest
  <2>3. [at |-> "none", cast |-> Absent, last |-> Zero]
          \in [at : {"none", "awake", "locking", "asleep", "leaving", "gone"},
               cast : Casts \cup {Absent}, last : States]
    BY <2>2, Zenon
  <2>4. /\ status \in Statuses \cup {Absent} /\ cast \in Casts \cup {Absent} /\ fresh \subseteq Casts
        /\ updates \in 0..MaxUpdates /\ stopping \in {"before", "after"}
    BY DEF HealthInit
  <2>5. /\ state \in [Casts -> States] /\ subs \in [Casts -> SUBSET Watchers]
        /\ setter \in [Setters -> [cast : Casts \cup {Absent}, st : Statuses \cup {Absent}]]
    BY <2>2, Zenon DEF HealthInit
  <2> QED
    BY <2>1, <2>2, <2>3, <2>4, <2>5, Zenon DEF HealthInit, HealthTypeOK
<1>2. SharedCast
  BY Zenon DEF HealthInit, SharedCast
<1>3. NoLostUpdate
  BY Zenon DEF HealthInit, NoLostUpdate
<1>4. InTurns /\ CastAgreesWithMap
  BY Zenon DEF HealthInit, InTurns, CastAgreesWithMap, Check
<1> QED
  BY <1>1, <1>2, <1>3, <1>4, Zenon DEF HealthInv

(* A broadcast on the cast of the map (StatusCast::broadcast) keeps the    *)
(* types, gives the cast the status, and leaves every watcher awake or as  *)
(* it was; none stays asleep.                                              *)
LEMMA BroadcastReaches ==
  ASSUME HealthInv, cast # Absent, NEW st \in Statuses, Broadcast(cast, st)
  PROVE  /\ state' \in [Casts -> States] /\ subs' \in [Casts -> SUBSET Watchers]
         /\ watcher' \in [Watchers -> [at : {"none", "awake", "locking", "asleep", "leaving", "gone"},
                                       cast : Casts \cup {Absent}, last : States]]
         /\ state'[cast].st = st
         /\ \A w \in Watchers : /\ watcher'[w].cast = watcher[w].cast
                                /\ watcher'[w].at # "asleep"
                                /\ watcher'[w].at = watcher[w].at \/ watcher'[w].at = "awake"
                                /\ watcher'[w].at \in {"awake", "locking", "asleep"} =>
                                     watcher[w].at \in {"awake", "locking", "asleep"}
<1> USE DEF HealthInv
<1>1. state' \in [Casts -> States] /\ state'[cast].st = st
  <2>1. cast \in Casts /\ state[cast].ver + 1 \in Nat
    BY DEF HealthTypeOK, States
  <2> QED
    BY <2>1, Zenon DEF HealthTypeOK, Broadcast, States
<1>2. subs' \in [Casts -> SUBSET Watchers]
  BY Zenon DEF HealthTypeOK, Broadcast
<1>3. ASSUME NEW w \in Watchers
      PROVE  /\ watcher'[w] \in [at : {"none", "awake", "locking", "asleep", "leaving", "gone"},
                                  cast : Casts \cup {Absent}, last : States]
             /\ watcher'[w].cast = watcher[w].cast
             /\ watcher'[w].at # "asleep"
             /\ watcher'[w].at = watcher[w].at \/ watcher'[w].at = "awake"
             /\ watcher'[w].at \in {"awake", "locking", "asleep"} =>
                  watcher[w].at \in {"awake", "locking", "asleep"}
  <2>1. watcher[w].at = "asleep" => w \in subs[cast]
    BY <1>3, Zenon DEF SharedCast, NoLostUpdate
  <2>2. watcher'[w] = IF w \in subs[cast] /\ watcher[w].at = "asleep"
                      THEN [watcher[w] EXCEPT !.at = "awake"] ELSE watcher[w]
    BY <1>3, Zenon DEF Broadcast
  <2> QED
    BY <2>1, <2>2, <1>3, Zenon DEF HealthTypeOK
<1>4. watcher' \in [Watchers -> [at : {"none", "awake", "locking", "asleep", "leaving", "gone"},
                                 cast : Casts \cup {Absent}, last : States]]
  BY <1>3, Zenon DEF Broadcast
<1> QED
  BY <1>1, <1>2, <1>3, <1>4, Zenon

(* set_serving_status under the lock of Inner preserves the invariant: a   *)
(* setter that goes on to the broadcast carries the cast of the map.       *)
LEMMA StepSetStatus ==
  ASSUME HealthInv, serial' = serial, NEW p \in Setters, NEW st \in Statuses, SetStatus(p, st)
  PROVE  HealthInv'
<1> USE StatusAssumption, UpdatesAssumption, AbsentAssumption DEF HealthInv
<1> USE DEF SetStatus, CastSame
<1>1. setter' \in [Setters -> [cast : Casts \cup {Absent}, st : Statuses \cup {Absent}]]
  BY Zenon DEF HealthTypeOK, AtRest
<1>2. HealthTypeOK'
  <2>1. stopped' \in BOOLEAN /\ serial' \in BOOLEAN
    BY Zenon DEF HealthTypeOK
  <2>2. status' \in Statuses \cup {Absent} /\ updates' \in 0..MaxUpdates
    BY DEF HealthTypeOK
  <2> QED
    BY <1>1, <2>1, <2>2, Zenon DEF HealthTypeOK
<1>3. \A q \in Setters : setter'[q] # AtRest =>
        \/ q # p /\ setter'[q] = setter[q]
        \/ q = p /\ cast # Absent /\ setter'[q] = [cast |-> cast, st |-> st]
  BY Zenon DEF HealthTypeOK
<1>4. SharedCast'
  BY <1>3, SMTT(60) DEF SharedCast
<1>5. NoLostUpdate'
  BY Zenon DEF NoLostUpdate, Current
<1>6. InTurns'
  BY <1>3, SMTT(60) DEF InTurns, MayCall
<1>7. CastAgreesWithMap'
  <2>1. cast # Absent => setter'[p] # AtRest
    BY Zenon DEF HealthTypeOK, AtRest
  <2> QED
    BY <2>1, Zenon DEF CastAgreesWithMap, Check
<1> QED
  BY <1>2, <1>4, <1>5, <1>6, <1>7, Zenon

(* The broadcast of set_serving_status preserves the invariant: it reaches *)
(* everybody who hangs on the cast, and brings it the status of the map.   *)
LEMMA StepSetBroadcast ==
  ASSUME HealthInv, serial' = serial, NEW p \in Setters, SetBroadcast(p)
  PROVE  HealthInv'
<1> USE StatusAssumption, UpdatesAssumption, AbsentAssumption DEF HealthInv
<1> USE DEF SetBroadcast, InnerSame
<1>1. setter[p].cast = cast /\ cast # Absent /\ setter[p].st \in Statuses
  BY Zenon DEF SharedCast
<1>2. Broadcast(cast, setter[p].st)
  BY <1>1, Zenon
<1> DEFINE WatcherType == [at : {"none", "awake", "locking", "asleep", "leaving", "gone"},
                           cast : Casts \cup {Absent}, last : States]
<1>3. /\ state' \in [Casts -> States] /\ subs' \in [Casts -> SUBSET Watchers]
      /\ watcher' \in [Watchers -> WatcherType]
      /\ state'[cast].st = setter[p].st
      /\ \A w \in Watchers : /\ watcher'[w].cast = watcher[w].cast
                             /\ watcher'[w].at # "asleep"
                             /\ watcher'[w].at \in {"awake", "locking", "asleep"} =>
                                  watcher[w].at \in {"awake", "locking", "asleep"}
  BY <1>1, <1>2, BroadcastReaches, Zenon
<1>4. setter' \in [Setters -> [cast : Casts \cup {Absent}, st : Statuses \cup {Absent}]]
  BY Zenon DEF HealthTypeOK, AtRest
<1>5. HealthTypeOK'
  BY <1>3, <1>4, Zenon DEF HealthTypeOK
<1>6. \A q \in Setters : setter'[q] # AtRest => setter'[q] = setter[q] /\ q # p
  BY Zenon DEF HealthTypeOK
<1>7. SharedCast'
  BY <1>3, <1>6, SMTT(60) DEF SharedCast
<1>8. NoLostUpdate'
  BY <1>3, Zenon DEF NoLostUpdate
<1>9. InTurns'
  BY <1>6, Zenon DEF InTurns
<1>10. CastAgreesWithMap'
  BY <1>3, Zenon DEF CastAgreesWithMap, Check, InTurns
<1> QED
  BY <1>5, <1>7, <1>8, <1>9, <1>10, Zenon

(* shutdown preserves the invariant, as it broadcasts under the lock.      *)
LEMMA StepShutdown ==
  ASSUME HealthInv, serial' = serial, Shutdown
  PROVE  HealthInv'
<1> USE StatusAssumption, UpdatesAssumption, AbsentAssumption DEF HealthInv
<1> USE DEF Shutdown
<1> DEFINE WatcherType == [at : {"none", "awake", "locking", "asleep", "leaving", "gone"},
                           cast : Casts \cup {Absent}, last : States]
<1>1. CASE cast = Absent
  <2>1. status' \in Statuses \cup {Absent} /\ stopping' \in {"before", "after"}
    BY Zenon DEF HealthTypeOK
  <2>2. HealthTypeOK'
    BY <1>1, <2>1, ZenonT(60) DEF HealthTypeOK, CastSame
  <2>3. SharedCast' /\ NoLostUpdate'
    BY <1>1 DEF SharedCast, NoLostUpdate, Current, CastSame
  <2>4. InTurns' /\ CastAgreesWithMap'
    BY <1>1, Zenon DEF InTurns, CastAgreesWithMap, Check, MayCall
  <2> QED
    BY <2>2, <2>3, <2>4, Zenon
<1>2. CASE cast # Absent
  <2>1. /\ state' \in [Casts -> States] /\ subs' \in [Casts -> SUBSET Watchers]
        /\ watcher' \in [Watchers -> WatcherType]
        /\ state'[cast].st = NotServing
        /\ \A w \in Watchers : /\ watcher'[w].cast = watcher[w].cast
                               /\ watcher'[w].at # "asleep"
                               /\ watcher'[w].at \in {"awake", "locking", "asleep"} =>
                                    watcher[w].at \in {"awake", "locking", "asleep"}
    BY <1>2, BroadcastReaches, Zenon
  <2>2. status' \in Statuses \cup {Absent} /\ stopping' \in {"before", "after"}
    BY DEF HealthTypeOK
  <2>3. HealthTypeOK'
    BY <2>1, <2>2, ZenonT(60) DEF HealthTypeOK
  <2>4. SharedCast' /\ NoLostUpdate'
    BY <2>1, Zenon DEF SharedCast, NoLostUpdate
  <2>5. InTurns' /\ CastAgreesWithMap'
    BY <2>1, Zenon DEF InTurns, CastAgreesWithMap, Check, MayCall
  <2> QED
    BY <2>3, <2>4, <2>5
<1> QED
  BY <1>1, <1>2, Zenon

(* A watcher that joins the cast of the map preserves the invariant.       *)
LEMMA StepWatchJoin ==
  ASSUME HealthInv, serial' = serial, NEW w \in Watchers, WatchJoin(w)
  PROVE  HealthInv'
<1> USE StatusAssumption, UpdatesAssumption, AbsentAssumption DEF HealthInv
<1> USE DEF WatchJoin, InnerSame, CastSame
<1> DEFINE WatcherType == [at : {"none", "awake", "locking", "asleep", "leaving", "gone"},
                           cast : Casts \cup {Absent}, last : States]
<1>1. watcher' \in [Watchers -> WatcherType]
  <2>1. watcher[w] \in WatcherType /\ cast \in Casts
    BY Zenon DEF HealthTypeOK, SharedCast, Current
  <2>2. [watcher[w] EXCEPT !.at = "awake", !.cast = cast] \in WatcherType
    BY <2>1, Zenon
  <2>3. \A v \in Watchers : watcher'[v] = IF v = w THEN [watcher[w] EXCEPT !.at = "awake", !.cast = cast] ELSE watcher[v]
    BY <2>1, Zenon DEF HealthTypeOK
  <2>4. watcher' = [v \in Watchers |-> watcher'[v]]
    BY Zenon DEF HealthTypeOK
  <2> QED
    BY <2>2, <2>3, <2>4, Zenon DEF HealthTypeOK
<1>2. \A v \in Watchers \ {w} : watcher'[v] = watcher[v]
  BY Zenon DEF HealthTypeOK
<1>3. HealthTypeOK'
  BY <1>1, Zenon DEF HealthTypeOK
<1>4. SharedCast'
  BY <1>2 DEF SharedCast, HealthTypeOK
<1>5. NoLostUpdate'
  BY <1>2 DEF NoLostUpdate, Current, HealthTypeOK
<1>6. InTurns' /\ CastAgreesWithMap'
  BY Zenon DEF InTurns, CastAgreesWithMap, Check
<1> QED
  BY <1>3, <1>4, <1>5, <1>6, Zenon

(* A poll that finds a new state preserves the invariant.                  *)
LEMMA StepPollChanged ==
  ASSUME HealthInv, serial' = serial, NEW w \in Watchers, PollChanged(w)
  PROVE  HealthInv'
<1> USE StatusAssumption, UpdatesAssumption, AbsentAssumption DEF HealthInv
<1> USE DEF PollChanged, InnerSame, CastSame
<1> DEFINE WatcherType == [at : {"none", "awake", "locking", "asleep", "leaving", "gone"},
                           cast : Casts \cup {Absent}, last : States]
<1>1. watcher' \in [Watchers -> WatcherType]
  <2>1. watcher[w] \in WatcherType /\ Current(w) \in States
    BY Zenon DEF HealthTypeOK, SharedCast, Current
  <2>2. [watcher[w] EXCEPT !.last = Current(w), !.at = "awake"] \in WatcherType
    BY <2>1, Zenon
  <2>3. \A v \in Watchers : watcher'[v] = IF v = w THEN [watcher[w] EXCEPT !.last = Current(w), !.at = "awake"] ELSE watcher[v]
    BY <2>1, Zenon DEF HealthTypeOK
  <2>4. watcher' = [v \in Watchers |-> watcher'[v]]
    BY Zenon DEF HealthTypeOK
  <2> QED
    BY <2>2, <2>3, <2>4, Zenon DEF HealthTypeOK
<1>2. \A v \in Watchers \ {w} : watcher'[v] = watcher[v]
  BY Zenon DEF HealthTypeOK
<1>3. HealthTypeOK'
  BY <1>1, Zenon DEF HealthTypeOK
<1>4. SharedCast'
  BY <1>2 DEF SharedCast, HealthTypeOK
<1>5. NoLostUpdate'
  BY <1>2 DEF NoLostUpdate, Current, HealthTypeOK
<1>6. InTurns' /\ CastAgreesWithMap'
  BY Zenon DEF InTurns, CastAgreesWithMap, Check
<1> QED
  BY <1>3, <1>4, <1>5, <1>6, Zenon

(* A poll that finds nothing new goes on to the lock.                      *)
LEMMA StepPollSame ==
  ASSUME HealthInv, serial' = serial, NEW w \in Watchers, PollSame(w)
  PROVE  HealthInv'
<1> USE StatusAssumption, UpdatesAssumption, AbsentAssumption DEF HealthInv
<1> USE DEF PollSame, InnerSame, CastSame
<1> DEFINE WatcherType == [at : {"none", "awake", "locking", "asleep", "leaving", "gone"},
                           cast : Casts \cup {Absent}, last : States]
<1>1. watcher' \in [Watchers -> WatcherType]
  BY DEF HealthTypeOK, SharedCast, Current
<1>2. \A v \in Watchers \ {w} : watcher'[v] = watcher[v]
  BY Zenon DEF HealthTypeOK
<1>3. HealthTypeOK'
  BY <1>1, Zenon DEF HealthTypeOK
<1>4. SharedCast'
  BY <1>2 DEF SharedCast, HealthTypeOK
<1>5. NoLostUpdate'
  BY <1>2 DEF NoLostUpdate, Current, HealthTypeOK
<1>6. InTurns' /\ CastAgreesWithMap'
  BY Zenon DEF InTurns, CastAgreesWithMap, Check
<1> QED
  BY <1>3, <1>4, <1>5, <1>6, Zenon

(* A watcher goes to sleep only when it finds, under the lock, the state   *)
(* that it has seen, and its waker is registered by then.                  *)
LEMMA StepPollSubscribe ==
  ASSUME HealthInv, serial' = serial, NEW w \in Watchers, PollSubscribe(w)
  PROVE  HealthInv'
<1> USE StatusAssumption, UpdatesAssumption, AbsentAssumption DEF HealthInv
<1> USE DEF PollSubscribe, InnerSame
<1> DEFINE WatcherType == [at : {"none", "awake", "locking", "asleep", "leaving", "gone"},
                           cast : Casts \cup {Absent}, last : States]
<1>1. watcher' \in [Watchers -> WatcherType]
  BY DEF HealthTypeOK, SharedCast, Current
<1>0. subs' \in [Casts -> SUBSET Watchers]
  BY Zenon DEF HealthTypeOK, SharedCast
<1>2. \A v \in Watchers \ {w} : watcher'[v] = watcher[v]
  BY Zenon DEF HealthTypeOK
<1>3. HealthTypeOK'
  BY <1>1, <1>0, Zenon DEF HealthTypeOK
<1>4. SharedCast'
  BY <1>2 DEF SharedCast, HealthTypeOK
<1>5. NoLostUpdate'
  BY <1>2 DEF NoLostUpdate, Current, HealthTypeOK, SharedCast
<1>6. InTurns' /\ CastAgreesWithMap'
  BY Zenon DEF InTurns, CastAgreesWithMap, Check
<1> QED
  BY <1>3, <1>4, <1>5, <1>6, Zenon

(* A watcher that leaves takes its own waker with it and no other.         *)
LEMMA StepLeave ==
  ASSUME HealthInv, serial' = serial, NEW w \in Watchers, Leave(w)
  PROVE  HealthInv'
<1> USE StatusAssumption, UpdatesAssumption, AbsentAssumption DEF HealthInv
<1> USE DEF Leave, InnerSame
<1> DEFINE WatcherType == [at : {"none", "awake", "locking", "asleep", "leaving", "gone"},
                           cast : Casts \cup {Absent}, last : States]
<1>1. watcher' \in [Watchers -> WatcherType]
  BY DEF HealthTypeOK, SharedCast, Current
<1>0. subs' \in [Casts -> SUBSET Watchers]
  BY Zenon DEF HealthTypeOK, SharedCast
<1>2. \A v \in Watchers \ {w} : watcher'[v] = watcher[v]
  BY Zenon DEF HealthTypeOK
<1>3. HealthTypeOK'
  BY <1>1, <1>0, Zenon DEF HealthTypeOK
<1>4. SharedCast'
  BY <1>2 DEF SharedCast, HealthTypeOK
<1>5. NoLostUpdate'
  BY <1>2 DEF NoLostUpdate, Current, HealthTypeOK, SharedCast
<1>6. InTurns' /\ CastAgreesWithMap'
  BY Zenon DEF InTurns, CastAgreesWithMap, Check
<1> QED
  BY <1>3, <1>4, <1>5, <1>6, Zenon

(* A new cast is made only when nobody refers to another, and starts with  *)
(* the status of the map.                                                  *)
LEMMA StepWatchNew ==
  ASSUME HealthInv, serial' = serial, NEW w \in Watchers, WatchNew(w)
  PROVE  HealthInv'
<1> USE StatusAssumption, UpdatesAssumption, AbsentAssumption DEF HealthInv
<1> USE DEF WatchNew
<1> DEFINE WatcherType == [at : {"none", "awake", "locking", "asleep", "leaving", "gone"},
                           cast : Casts \cup {Absent}, last : States]
<1>0. PICK c \in fresh :
        /\ cast' = c /\ fresh' = fresh \ {c}
        /\ state' = [state EXCEPT ![c] = Fresh(IF status = Absent THEN Unknown ELSE status)]
        /\ watcher' = [watcher EXCEPT ![w].at = "awake", ![w].cast = c]
  BY Zenon
<1>1. c \in Casts /\ c # Absent /\ cast = Absent
  BY DEF HealthTypeOK
<1>2. watcher' \in [Watchers -> WatcherType]
  <2>1. watcher[w] \in WatcherType /\ c \in Casts
    BY <1>0, <1>1, Zenon DEF HealthTypeOK, SharedCast, Current
  <2>2. [at |-> "awake", cast |-> c, last |-> watcher[w].last] \in WatcherType
    BY <2>1, Zenon
  <2>3. watcher' = [watcher EXCEPT ![w] = [at |-> "awake", cast |-> c, last |-> watcher[w].last]]
    BY <2>1, <1>0, <1>1, ZenonT(60) DEF HealthTypeOK
  <2> QED
    BY <2>2, <2>3, Zenon DEF HealthTypeOK
<1>3. state' \in [Casts -> States] /\ (status # Absent => state'[c].st = status)
  BY <1>0, <1>1 DEF HealthTypeOK, Fresh, States
<1>4. \A v \in Watchers \ {w} : watcher'[v] = watcher[v] /\ watcher[v].cast = Absent
  BY <1>0, <1>1 DEF HealthTypeOK, SharedCast
<1>5. HealthTypeOK'
  <2>1. cast' \in Casts \cup {Absent} /\ fresh' \subseteq Casts
    BY <1>0, <1>1, Zenon DEF HealthTypeOK
  <2> QED
    BY <1>2, <1>3, <2>1, Zenon DEF HealthTypeOK
<1>6. watcher'[w].at = "awake" /\ watcher'[w].cast = c
  BY <1>0 DEF HealthTypeOK
<1>7. \A p \in Setters : setter[p] = AtRest
  BY <1>1, Zenon DEF SharedCast
<1>8. SharedCast'
  BY <1>0, <1>1, <1>4, <1>6, <1>7, ZenonT(60) DEF SharedCast
<1>9. NoLostUpdate'
  BY <1>4, <1>6, Zenon DEF NoLostUpdate, SharedCast
<1>10. InTurns' /\ CastAgreesWithMap'
  BY <1>0, <1>3, <1>7, Zenon DEF InTurns, CastAgreesWithMap, Check
<1> QED
  BY <1>5, <1>8, <1>9, <1>10, Zenon

(* The map lets go of a cast only when nobody refers to it.                *)
LEMMA StepCleanup ==
  ASSUME HealthInv, serial' = serial, NEW w \in Watchers, Cleanup(w)
  PROVE  HealthInv'
<1> USE StatusAssumption, UpdatesAssumption, AbsentAssumption DEF HealthInv
<1> USE DEF Cleanup, CastSame
<1> DEFINE WatcherType == [at : {"none", "awake", "locking", "asleep", "leaving", "gone"},
                           cast : Casts \cup {Absent}, last : States]
<1>1. watcher' \in [Watchers -> WatcherType]
  BY DEF HealthTypeOK
<1>2. /\ \A v \in Watchers \ {w} : watcher'[v] = watcher[v]
      /\ watcher'[w].at = "gone" /\ watcher'[w].cast = watcher[w].cast
  BY Zenon DEF HealthTypeOK
<1>3. cast' \in Casts \cup {Absent}
  BY Zenon DEF HealthTypeOK
<1>4. HealthTypeOK'
  BY <1>1, <1>3, Zenon DEF HealthTypeOK
<1>5. /\ \A v \in Watchers : watcher[v].cast # Absent => cast' = cast
      /\ \A p \in Setters : setter[p] # AtRest => cast' = cast
  BY Zenon DEF SharedCast, Referrers
<1>6. SharedCast'
  BY <1>2, <1>5 DEF SharedCast
<1>7. NoLostUpdate'
  BY <1>2 DEF NoLostUpdate, Current
<1>8. InTurns' /\ CastAgreesWithMap'
  BY Zenon DEF InTurns, CastAgreesWithMap, Check
<1> QED
  BY <1>4, <1>6, <1>7, <1>8, Zenon

(* Every step of the service preserves the invariant.                      *)
LEMMA HealthStep == HealthInv /\ [HealthNext]_healthVars => HealthInv'
<1> SUFFICES ASSUME HealthInv, [HealthNext]_healthVars PROVE HealthInv'
  OBVIOUS
<1>1. CASE UNCHANGED healthVars
  <2>1. HealthTypeOK'
    BY <1>1, ZenonT(60) DEF healthVars, HealthInv, HealthTypeOK
  <2>2. SharedCast' /\ NoLostUpdate' /\ InTurns' /\ CastAgreesWithMap'
    BY <1>1, Zenon DEF healthVars, HealthInv, SharedCast, NoLostUpdate, InTurns,
       CastAgreesWithMap, Check, Current
  <2> QED
    BY <2>1, <2>2, Zenon DEF HealthInv
<1>2. ASSUME serial' = serial, NEW p \in Setters, NEW st \in Statuses, SetStatus(p, st)
      PROVE  HealthInv'
  BY <1>2, StepSetStatus, Zenon
<1>3. ASSUME serial' = serial, NEW p \in Setters, SetIgnored(p) PROVE HealthInv'
  <2> USE <1>3, UpdatesAssumption DEF SetIgnored, InnerSame, CastSame, HealthInv
  <2>1. updates' \in 0..MaxUpdates
    BY DEF HealthTypeOK
  <2>2. HealthTypeOK'
    BY <2>1, ZenonT(60) DEF HealthTypeOK
  <2>3. SharedCast' /\ NoLostUpdate' /\ InTurns' /\ CastAgreesWithMap'
    BY Zenon DEF SharedCast, NoLostUpdate, InTurns, CastAgreesWithMap, Check, Current
  <2> QED
    BY <2>2, <2>3, Zenon
<1>4. ASSUME serial' = serial, NEW p \in Setters, SetBroadcast(p) PROVE HealthInv'
  BY <1>4, StepSetBroadcast, Zenon
<1>5. ASSUME serial' = serial, Shutdown PROVE HealthInv'
  BY <1>5, StepShutdown, Zenon
<1>6. ASSUME serial' = serial, NEW w \in Watchers, WatchJoin(w) \/ WatchNew(w)
      PROVE  HealthInv'
  BY <1>6, StepWatchJoin, StepWatchNew, Zenon
<1>7. ASSUME serial' = serial, NEW w \in Watchers,
             PollChanged(w) \/ PollSame(w) \/ PollSubscribe(w)
      PROVE  HealthInv'
  BY <1>7, StepPollChanged, StepPollSame, StepPollSubscribe, Zenon
<1>8. ASSUME serial' = serial, NEW w \in Watchers, Leave(w) \/ Cleanup(w)
      PROVE  HealthInv'
  BY <1>8, StepLeave, StepCleanup
<1> QED
  BY <1>1, <1>2, <1>3, <1>4, <1>5, <1>6, <1>7, <1>8, Zenon DEF HealthNext, HealthAction

-----------------------------------------------------------------------------
(* The invariant holds in every behaviour of the service.                  *)
LEMMA HealthAlways == HealthSpec => []HealthInv
<1> QED
  BY HealthInitial, HealthStep, PTL DEF HealthSpec

(* For any setters, watchers and statuses: when the callers of             *)
(* set_serving_status and shutdown take turns, what watch shows is what    *)
(* check answers, as soon as no broadcast is on its way                    *)
(* (service.rs:125-163).                                                   *)
THEOREM WatchAgreesWithCheck == HealthSpec => []CastAgreesWithMap
<1>1. HealthInv => CastAgreesWithMap
  BY Zenon DEF HealthInv
<1> QED
  BY <1>1, HealthAlways, PTL

(* For any setters, watchers and statuses: a watcher that sleeps has seen  *)
(* the state of its cast and will be woken by the next broadcast, in turns *)
(* or not (StatusSubscriber::poll_next, service.rs:69-102).                *)
THEOREM UpdateKept == HealthSpec => []NoLostUpdate
<1>1. HealthInv => NoLostUpdate
  BY Zenon DEF HealthInv
<1> QED
  BY <1>1, HealthAlways, PTL

(* All watchers of a name, and all setters on their way to them, refer to  *)
(* the one cast the map holds, though casts come and go with their         *)
(* watchers (HealthService::watch, service.rs:199-236).                    *)
THEOREM OneCast == HealthSpec => []SharedCast
<1>1. HealthInv => SharedCast
  BY Zenon DEF HealthInv
<1> QED
  BY <1>1, HealthAlways, PTL
=============================================================================
