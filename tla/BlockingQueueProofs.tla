------------------------- MODULE BlockingQueueProofs -------------------------
(***************************************************************************)
(* Proofs about lib/blockq.h for every number of pushers and poppers and   *)
(* every set of values.                                                    *)
(***************************************************************************)
EXTENDS BlockingQueue, FiniteSetTheorems, SequenceTheorems, TLAPS

-----------------------------------------------------------------------------
(* The inductive invariant.  Between its lock and its unlock a thread      *)
(* relies on what it tested: that there is room, that q is not empty.      *)
(* Poppers are counted from the moment they are woken to the moment they   *)
(* return or wait again: NoLostWakeup speaks of the moments at which mut   *)
(* is free, and holds there because the sum never falls behind Len(q).     *)

RoomReserved == \A t \in Pusher : pc[t] = "push" => Len(q) < MaxLen

OwnCalls == /\ \A t \in Pusher : pc[t] \in {"idle", "push"}
            /\ \A t \in Popper : pc[t] # "push"

Coming == {t \in Popper : pc[t] \in {"woken", "test", "take", "testNoBlock"}}

EnoughComing == Waiting # {} => Len(q) <= Cardinality(Coming)

IInv ==
    /\ TypeOK
    /\ FrontOfNonEmpty
    /\ RoomReserved
    /\ OwnCalls
    /\ EnoughComing
-----------------------------------------------------------------------------
\* No call is in progress.
LEMMA InitIInv == Init => IInv
<1> SUFFICES ASSUME Init PROVE IInv
  OBVIOUS
<1>1. TypeOK
  BY EmptySeq, ThreadAssumption, MaxLenAssumption DEF Init, TypeOK
<1>2. FrontOfNonEmpty /\ RoomReserved /\ OwnCalls /\ EnoughComing
  BY DEF Init, FrontOfNonEmpty, RoomReserved, OwnCalls, EnoughComing, Waiting, Thread
<1>3. QED BY <1>1, <1>2 DEF IInv

\* Sets of poppers are finite, and one popper more or less is one more or less.
LEMMA ComingCount ==
    ASSUME NEW S \in SUBSET Popper, NEW w \in Popper
    PROVE  /\ Cardinality(S) \in Nat
           /\ w \notin S => Cardinality(S \cup {w}) = Cardinality(S) + 1
           /\ w \in S => Cardinality(S \ {w}) = Cardinality(S) - 1
BY FiniteAssumption, FS_Subset, FS_CardinalityType, FS_AddElement, FS_RemoveElement

\* A change of a popper's step neither takes it away from the others nor adds it
\* twice.
LEMMA MoreComing ==
    ASSUME NEW S \in SUBSET Popper, NEW T \in SUBSET Popper, S \subseteq T
    PROVE  Cardinality(S) <= Cardinality(T)
BY FiniteAssumption, FS_Subset

-----------------------------------------------------------------------------
(* push                                                                    *)

\* push (blockq.h) takes the mutex, and no other push uses up the room it found.
LEMMA PushLockIInv == ASSUME IInv, NEW t \in Pusher, PushLock(t) PROVE IInv'
<1> USE DEF IInv, TypeOK, PushLock, Goto
<1>0. /\ t \in Thread /\ t \notin Popper /\ Popper \subseteq Thread /\ Pusher \subseteq Thread
  BY ThreadAssumption DEF Thread
<1>1. TypeOK'
  BY <1>0, ThreadAssumption
<1>2. FrontOfNonEmpty' /\ RoomReserved' /\ OwnCalls'
  BY <1>0 DEF FrontOfNonEmpty, RoomReserved, OwnCalls
<1>3. EnoughComing'
  BY <1>0 DEF EnoughComing, Waiting, Coming
<1>4. QED BY <1>1, <1>2, <1>3

\* push appends and wakes one of the poppers that wait: one more is coming for one more
\* value.
LEMMA PushIInv ==
    ASSUME IInv, NEW t \in Pusher, NEW v \in Value, Push(t, v) PROVE IInv'
<1> USE DEF IInv, TypeOK
<1>0. /\ t \in Thread /\ t \notin Popper /\ Popper \subseteq Thread /\ Pusher \subseteq Thread
      /\ pc[t] = "push" /\ mut = t /\ mut' = NoThread /\ NoThread \notin Thread
      /\ q' = Append(q, v) /\ popped' = popped /\ Len(q) < MaxLen
      /\ q' \in Seq(Value) /\ Len(q') = Len(q) + 1 /\ q' # << >> /\ Len(q) \in Nat
  BY ThreadAssumption, AppendProperties, LenProperties DEF Thread, Push, RoomReserved
<1>1. CASE Waiting = {}
  <2>1. pc' = [pc EXCEPT ![t] = "idle"]
    BY <1>1 DEF Push, Goto
  <2>2. TypeOK'
    BY <1>0, <2>1, MaxLenAssumption
  <2>3. FrontOfNonEmpty' /\ RoomReserved' /\ OwnCalls'
    BY <1>0, <2>1 DEF FrontOfNonEmpty, RoomReserved, OwnCalls
  <2>4. EnoughComing'
    BY <1>0, <1>1, <2>1 DEF EnoughComing, Waiting
  <2>5. QED BY <2>2, <2>3, <2>4
<1>2. CASE Waiting # {}
  <2>1. PICK w \in Waiting : pc' = [pc EXCEPT ![t] = "idle", ![w] = "woken"]
    BY <1>2 DEF Push
  <2>2. w \in Popper /\ w \in Thread /\ w # t /\ pc[w] = "waiting" /\ w \notin Coming
    BY <1>0, <2>1 DEF Waiting, Coming
  <2>3. \A u \in Thread : pc'[u] = IF u = t THEN "idle" ELSE IF u = w THEN "woken" ELSE pc[u]
    BY <2>1, <2>2, <1>0
  <2>4. TypeOK'
    BY <1>0, <2>1, <2>2, <2>3, MaxLenAssumption
  <2>5. FrontOfNonEmpty' /\ OwnCalls'
    BY <1>0, <2>2, <2>3 DEF FrontOfNonEmpty, OwnCalls
  <2>10. \A u \in Pusher : pc'[u] # "push"
    BY <1>0, <2>2, <2>3
  <2>11. RoomReserved'
    BY <2>10 DEF RoomReserved
  <2>6. Coming' = Coming \cup {w}
    BY <1>0, <2>2, <2>3 DEF Coming
  <2>7. Coming \in SUBSET Popper
    BY DEF Coming
  <2>8. Cardinality(Coming') = Cardinality(Coming) + 1 /\ Cardinality(Coming) \in Nat
    BY <2>2, <2>6, <2>7, ComingCount
  <2>9. EnoughComing'
    BY <1>0, <1>2, <2>8 DEF EnoughComing
  <2>12. QED BY <2>4, <2>5, <2>11, <2>9
<1>3. QED BY <1>1, <1>2

-----------------------------------------------------------------------------
(* pop and popNoBlock                                                      *)

\* The steps that take mut, or keep it, and stay on their way to a value.
LEMMA ApproachIInv ==
    ASSUME IInv, NEW t \in Popper,
           PopLock(t) \/ NoBlockLock(t) \/ Relock(t) \/ PopNonEmpty(t) \/ NoBlockNonEmpty(t)
    PROVE  IInv'
<1> USE DEF IInv, TypeOK
<1>0. /\ t \in Thread /\ t \notin Pusher /\ Popper \subseteq Thread /\ Pusher \subseteq Thread
      /\ NoThread \notin Thread /\ q' = q /\ popped' = popped /\ Len(q) \in Nat
  BY ThreadAssumption, LenProperties
     DEF Thread, PopLock, NoBlockLock, Relock, PopNonEmpty, NoBlockNonEmpty
<1>1. PICK step \in {"test", "testNoBlock", "take"} : pc' = [pc EXCEPT ![t] = step]
  BY DEF Goto, PopLock, NoBlockLock, Relock, PopNonEmpty, NoBlockNonEmpty
<1>2. \A u \in Thread : pc'[u] = IF u = t THEN step ELSE pc[u]
  BY <1>0, <1>1
<1>3. mut' = t /\ pc[t] # "waiting" /\ mut \in {NoThread, t}
  BY <1>0 DEF PopLock, NoBlockLock, Relock, PopNonEmpty, NoBlockNonEmpty
<1>4. TypeOK'
  BY <1>0, <1>1, <1>2, <1>3
<1>5. step = "take" => q # << >>
  BY <1>0, <1>2 DEF Goto, PopLock, NoBlockLock, Relock, PopNonEmpty, NoBlockNonEmpty
<1>6. FrontOfNonEmpty' /\ RoomReserved' /\ OwnCalls'
  BY <1>0, <1>2, <1>5 DEF FrontOfNonEmpty, RoomReserved, OwnCalls
<1>7. Coming \subseteq Coming' /\ Coming' \in SUBSET Popper /\ Waiting' = Waiting
  BY <1>0, <1>2, <1>3 DEF Coming, Waiting
<1>8. Cardinality(Coming) <= Cardinality(Coming') /\ Cardinality(Coming) \in Nat
      /\ Cardinality(Coming') \in Nat
  BY <1>7, MoreComing, ComingCount
<1>9. EnoughComing'
  BY <1>0, <1>7, <1>8 DEF EnoughComing
<1>10. QED BY <1>4, <1>6, <1>9

\* The steps that find q empty: no value has to be come for.
LEMMA EmptyIInv ==
    ASSUME IInv, NEW t \in Popper, PopWait(t) \/ NoBlockEmpty(t)
    PROVE  IInv'
<1> USE DEF IInv, TypeOK
<1>0. /\ t \in Thread /\ t \notin Pusher /\ Popper \subseteq Thread /\ Pusher \subseteq Thread
      /\ NoThread \notin Thread /\ q' = q /\ q = << >> /\ popped' \in Value \cup {NoValue}
      /\ mut = t /\ mut' = NoThread
  BY ThreadAssumption DEF Thread, PopWait, NoBlockEmpty
<1>1. PICK step \in {"waiting", "idle"} : pc' = [pc EXCEPT ![t] = step]
  BY DEF Goto, PopWait, NoBlockEmpty
<1>2. \A u \in Thread : pc'[u] = IF u = t THEN step ELSE pc[u]
  BY <1>0, <1>1
<1>3. TypeOK'
  BY <1>0, <1>1, <1>2
<1>4. FrontOfNonEmpty' /\ RoomReserved' /\ OwnCalls'
  BY <1>0, <1>2, MaxLenAssumption DEF FrontOfNonEmpty, RoomReserved, OwnCalls
<1>5. Coming' \in SUBSET Popper /\ Len(q') = 0
  BY <1>0 DEF Coming
<1>6. Cardinality(Coming') \in Nat
  BY <1>5, ComingCount
<1>7. EnoughComing'
  BY <1>5, <1>6 DEF EnoughComing
<1>8. QED BY <1>3, <1>4, <1>7

\* A popper may wake without a notification.
LEMMA SpuriousWakeupIInv ==
    ASSUME IInv, NEW t \in Popper, SpuriousWakeup(t) PROVE IInv'
<1> USE DEF IInv, TypeOK
<1>0. /\ t \in Thread /\ t \notin Pusher /\ Popper \subseteq Thread /\ Pusher \subseteq Thread
      /\ q' = q /\ popped' = popped /\ mut' = mut /\ pc[t] = "waiting" /\ Len(q) \in Nat
  BY ThreadAssumption, LenProperties DEF Thread, SpuriousWakeup
<1>1. pc' = [pc EXCEPT ![t] = "woken"]
  BY DEF Goto, SpuriousWakeup
<1>2. TypeOK'
  BY <1>0, <1>1
<1>3. FrontOfNonEmpty' /\ RoomReserved' /\ OwnCalls'
  BY <1>0, <1>1 DEF FrontOfNonEmpty, RoomReserved, OwnCalls
<1>4. Coming \subseteq Coming' /\ Coming' \in SUBSET Popper /\ Waiting' \subseteq Waiting
  BY <1>0, <1>1 DEF Coming, Waiting
<1>5. Cardinality(Coming) <= Cardinality(Coming') /\ Cardinality(Coming) \in Nat
      /\ Cardinality(Coming') \in Nat
  BY <1>4, <1>0, MoreComing, ComingCount
<1>6. EnoughComing'
  BY <1>0, <1>4, <1>5 DEF EnoughComing
<1>7. QED BY <1>2, <1>3, <1>6

\* One value and one popper that came for it are gone.
LEMMA TakeIInv == ASSUME IInv, NEW t \in Popper, Take(t) PROVE IInv'
<1> USE DEF IInv, TypeOK
<1>0. /\ t \in Thread /\ t \notin Pusher /\ Popper \subseteq Thread /\ Pusher \subseteq Thread
      /\ NoThread \notin Thread /\ mut = t /\ mut' = NoThread /\ pc[t] = "take"
      /\ pc' = [pc EXCEPT ![t] = "idle"]
  BY ThreadAssumption DEF Thread, Take, Goto
<1>1. /\ q # << >> /\ popped' = Head(q) /\ q' = Tail(q) /\ Head(q) \in Value
      /\ Tail(q) \in Seq(Value) /\ Len(Tail(q)) = Len(q) - 1 /\ Len(q) \in Nat
  BY <1>0, HeadTailProperties, LenProperties DEF FrontOfNonEmpty, Take
<1>2. \A u \in Thread : pc'[u] = IF u = t THEN "idle" ELSE pc[u]
  BY <1>0
<1>3. TypeOK'
  BY <1>0, <1>1, <1>2, MaxLenAssumption
<1>4. FrontOfNonEmpty' /\ RoomReserved' /\ OwnCalls'
  BY <1>0, <1>2, <1>1 DEF FrontOfNonEmpty, RoomReserved, OwnCalls
<1>5. Coming' = Coming \ {t} /\ t \in Coming /\ Coming \in SUBSET Popper /\ Waiting' = Waiting
  BY <1>0, <1>2 DEF Coming, Waiting
<1>6. Cardinality(Coming') = Cardinality(Coming) - 1 /\ Cardinality(Coming) \in Nat
  BY <1>5, ComingCount
<1>7. EnoughComing'
  BY <1>1, <1>5, <1>6 DEF EnoughComing
<1>8. QED BY <1>3, <1>4, <1>7

\* Every step of pushers and poppers keeps the invariant.
LEMMA NextIInv == IInv /\ [Next]_vars => IInv'
<1> SUFFICES ASSUME IInv, [Next]_vars PROVE IInv'
  OBVIOUS
<1>1. ASSUME NEW t \in Pusher, PushLock(t) PROVE IInv'
  BY <1>1, PushLockIInv
<1>2. ASSUME NEW t \in Pusher, PushRuns(t) PROVE IInv'
  BY <1>2, PushIInv DEF PushRuns
<1>3. ASSUME NEW t \in Popper, PopLock(t) \/ NoBlockLock(t) PROVE IInv'
  BY <1>3, ApproachIInv
<1>4. ASSUME NEW t \in Popper, PopRuns(t) PROVE IInv'
  BY <1>4, ApproachIInv, EmptyIInv, TakeIInv DEF PopRuns
<1>5. ASSUME NEW t \in Popper, SpuriousWakeup(t) PROVE IInv'
  BY <1>5, SpuriousWakeupIInv
<1>6. CASE UNCHANGED vars
  BY <1>6 DEF vars, IInv, TypeOK, FrontOfNonEmpty, RoomReserved, OwnCalls, EnoughComing,
              Coming, Waiting
<1>7. QED BY <1>1, <1>2, <1>3, <1>4, <1>5, <1>6 DEF Next

\* The invariant of the queue's callers (blockq.h), for any pushers and poppers.
THEOREM SpecIInv == Spec => []IInv
BY InitIInv, NextIInv, PTL DEF Spec

-----------------------------------------------------------------------------
(* The members and the threads' steps keep their types, and mut excludes:  *)
(* exactly the thread between a lock and its unlock holds it.              *)
THEOREM BlockingQueueTypeOK == Spec => []TypeOK
BY SpecIInv, PTL DEF IInv

(* q.front() and q.pop() (blockq.h:38, 47) never run on an empty queue,    *)
(* whatever other threads took and however often cv.wait returned early.   *)
THEOREM BlockingQueueFrontOfNonEmpty == Spec => []FrontOfNonEmpty
BY SpecIInv, PTL DEF IInv

(* One notify_one for each push (blockq.h:27) is enough: no popper sleeps  *)
(* in cv.wait through a value for which nobody else is on the way, with    *)
(* any number of pushers and poppers.                                      *)
THEOREM BlockingQueueNoLostWakeup == Spec => []NoLostWakeup
<1>1. IInv => NoLostWakeup
  <2> SUFFICES ASSUME IInv, Waiting # {}, mut = NoThread
               PROVE  Len(q) <= Cardinality({t \in Popper : pc[t] = "woken"})
    BY DEF NoLostWakeup
  <2>1. Coming = {t \in Popper : pc[t] = "woken"}
    BY ThreadAssumption DEF IInv, TypeOK, Coming, Thread
  <2>2. QED BY <2>1 DEF IInv, EnoughComing
<1>2. QED BY <1>1, SpecIInv, PTL

(* BlockingQueue implements the FIFO of module Fifo: a push, a take and a  *)
(* popNoBlock that finds nothing are its three operations, every other     *)
(* step is invisible in it.                                                *)
THEOREM BlockingQueueImplementsFifo == Spec => ImplementsFifo
<1>1. Init => Channel!FifoInit
  BY DEF Init, Channel!FifoInit
<1>2. IInv /\ [Next]_vars => [Channel!FifoNext]_Channel!fifoVars
  <2> SUFFICES ASSUME IInv, [Next]_vars PROVE [Channel!FifoNext]_Channel!fifoVars
    OBVIOUS
  <2> USE DEF Channel!FifoNext, Channel!fifoVars
  <2>1. ASSUME NEW t \in Pusher, NEW v \in Value, Push(t, v) PROVE Channel!Put(v)
    BY <2>1 DEF Push, IInv, RoomReserved, Channel!Put
  <2>2. ASSUME NEW t \in Popper, Take(t) PROVE Channel!Get
    BY <2>2 DEF Take, IInv, FrontOfNonEmpty, Channel!Get
  <2>3. ASSUME NEW t \in Popper, NoBlockEmpty(t) PROVE Channel!NothingToGet
    BY <2>3 DEF NoBlockEmpty, Channel!NothingToGet
  <2>4. ASSUME NEW t \in Pusher, PushLock(t) PROVE UNCHANGED Channel!fifoVars
    BY <2>4 DEF PushLock
  <2>5. ASSUME NEW t \in Popper,
               \/ PopLock(t) \/ NoBlockLock(t) \/ PopWait(t) \/ Relock(t)
               \/ PopNonEmpty(t) \/ NoBlockNonEmpty(t) \/ SpuriousWakeup(t)
        PROVE  UNCHANGED Channel!fifoVars
    BY <2>5 DEF PopLock, NoBlockLock, PopWait, Relock, PopNonEmpty, NoBlockNonEmpty,
                SpuriousWakeup
  <2>6. CASE UNCHANGED vars
    BY <2>6 DEF vars
  <2>7. QED
    BY <2>1, <2>2, <2>3, <2>4, <2>5, <2>6 DEF Next, PushRuns, PopRuns
<1>3. QED BY <1>1, <1>2, SpecIInv, PTL DEF Spec, Channel!FifoSpec, ImplementsFifo
=============================================================================
