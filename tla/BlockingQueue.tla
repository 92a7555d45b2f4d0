---------------------------- MODULE BlockingQueue ----------------------------
(***************************************************************************)
(* lib/blockq.h: the queue through which the main thread hands TimeBuffers *)
(* to a server thread (Server::inQ).  push, pop and popNoBlock run under   *)
(* the mutex mut; pop waits on the condition variable cv while q is empty. *)
(*                                                                         *)
(* A thread holds mut from the step that acquires it to the step that      *)
(* returns (or waits), so what it does in between is one step.  cv.wait    *)
(* releases mut and joins the waiters in one step, as std guarantees, and  *)
(* may return without a notification (a spurious wakeup).                  *)
(*                                                                         *)
(* In distributAr every queue has one pusher (main) and one popper (the    *)
(* server); the class, and the model, admit any number of both.            *)
(***************************************************************************)
EXTENDS Naturals, Sequences, FiniteSets

CONSTANTS Pusher, Popper,   \* the threads that call push; pop and popNoBlock
          Value,            \* the TBPtr values that can be pushed
          NoValue,          \* no value
          NoThread,         \* mut is free
          MaxLen            \* bound of the model: the code bounds q by nothing

Thread == Pusher \cup Popper

ASSUME ThreadAssumption == NoThread \notin Thread /\ Pusher \cap Popper = {}
ASSUME FiniteAssumption == IsFiniteSet(Popper)
ASSUME MaxLenAssumption == MaxLen \in Nat \ {0}
ASSUME NoValueAssumption == NoValue \notin Value

VARIABLES q, mut,      \* the members; cv is the set of threads that wait on it
          pc,          \* what each thread is doing
          popped       \* what the latest completed pop or popNoBlock returned

vars == <<q, mut, pc, popped>>

Waiting == {t \in Popper : pc[t] = "waiting"}

Init ==
    /\ q = << >>
    /\ mut = NoThread
    /\ pc = [t \in Thread |-> "idle"]
    /\ popped = NoValue

Goto(t, step) == pc' = [pc EXCEPT ![t] = step]

-----------------------------------------------------------------------------
(* push(val)                                                               *)

PushLock(t) ==
    /\ pc[t] = "idle" /\ mut = NoThread
    /\ Len(q) < MaxLen
    /\ mut' = t
    /\ Goto(t, "push")
    /\ UNCHANGED <<q, popped>>

\* Mutation (NoLostWakeup): the notification is forgotten.
PushSilent(t, v) ==
    /\ pc[t] = "push"
    /\ q' = Append(q, v)
    /\ mut' = NoThread
    /\ Goto(t, "idle")
    /\ UNCHANGED popped

\* q.push(val), notify_one, unlock: one waiter, if any, stops waiting.
Push(t, v) ==
    /\ pc[t] = "push"
    /\ q' = Append(q, v)
    /\ mut' = NoThread
    /\ IF Waiting = {}
         THEN Goto(t, "idle")
         ELSE \E w \in Waiting : pc' = [pc EXCEPT ![t] = "idle", ![w] = "woken"]
    /\ UNCHANGED popped

-----------------------------------------------------------------------------
(* pop(val)                                                                *)

PopLock(t) ==
    /\ pc[t] = "idle" /\ mut = NoThread
    /\ mut' = t
    /\ Goto(t, "test")
    /\ UNCHANGED <<q, popped>>

\* Mutation (EventuallyPopped): waits without looking at q first.
PopWaitAlways(t) ==
    /\ pc[t] = "test"
    /\ mut' = NoThread
    /\ Goto(t, "waiting")
    /\ UNCHANGED <<q, popped>>

\* while(q.empty()) cv.wait(lock): mut is released as the wait begins
PopWait(t) ==
    /\ pc[t] = "test" /\ q = << >>
    /\ mut' = NoThread
    /\ Goto(t, "waiting")
    /\ UNCHANGED <<q, popped>>

SpuriousWakeup(t) ==
    /\ pc[t] = "waiting"
    /\ Goto(t, "woken")
    /\ UNCHANGED <<q, mut, popped>>

\* Mutation (FrontOfNonEmpty): "if" instead of "while" around the wait.
RelockNoTest(t) ==
    /\ pc[t] = "woken" /\ mut = NoThread
    /\ mut' = t
    /\ Goto(t, "take")
    /\ UNCHANGED <<q, popped>>

\* cv.wait returns with mut held; the loop tests q again
Relock(t) ==
    /\ pc[t] = "woken" /\ mut = NoThread
    /\ mut' = t
    /\ Goto(t, "test")
    /\ UNCHANGED <<q, popped>>

PopNonEmpty(t) ==
    /\ pc[t] = "test" /\ q # << >>
    /\ Goto(t, "take")
    /\ UNCHANGED <<q, mut, popped>>

\* Mutation (ImplementsFifo): the value is copied and left in q.
TakeCopy(t) ==
    /\ pc[t] = "take"
    /\ popped' = Head(q)
    /\ mut' = NoThread
    /\ Goto(t, "idle")
    /\ UNCHANGED q

\* val = q.front(); q.pop(); unlock
Take(t) ==
    /\ pc[t] = "take"
    /\ popped' = Head(q)
    /\ q' = Tail(q)
    /\ mut' = NoThread
    /\ Goto(t, "idle")

-----------------------------------------------------------------------------
(* popNoBlock(val)                                                         *)

NoBlockLock(t) ==
    /\ pc[t] = "idle" /\ mut = NoThread
    /\ mut' = t
    /\ Goto(t, "testNoBlock")
    /\ UNCHANGED <<q, popped>>

\* Mutation (TypeOK): the early return leaves the thread in the call.
NoBlockEmptyStuck(t) ==
    /\ pc[t] = "testNoBlock" /\ q = << >>
    /\ popped' = NoValue
    /\ mut' = NoThread
    /\ Goto(t, "return false")
    /\ UNCHANGED q

NoBlockEmpty(t) ==
    /\ pc[t] = "testNoBlock" /\ q = << >>
    /\ popped' = NoValue
    /\ mut' = NoThread
    /\ Goto(t, "idle")
    /\ UNCHANGED q

NoBlockNonEmpty(t) ==
    /\ pc[t] = "testNoBlock" /\ q # << >>
    /\ Goto(t, "take")
    /\ UNCHANGED <<q, mut, popped>>

-----------------------------------------------------------------------------
(* The steps of a call that is under way.                                  *)
PushRuns(t) == \E v \in Value : Push(t, v)
PopRuns(t) == PopWait(t) \/ Relock(t) \/ PopNonEmpty(t) \/ Take(t)
              \/ NoBlockEmpty(t) \/ NoBlockNonEmpty(t)

Next ==
    \/ \E t \in Pusher : PushLock(t) \/ PushRuns(t)
    \/ \E t \in Popper : PopLock(t) \/ NoBlockLock(t) \/ PopRuns(t) \/ SpuriousWakeup(t)

\* A call under way goes on, and Server::performIO calls pop or popNoBlock on
\* every turn of its loop.  The scheduler hands mut to a thread that keeps
\* asking for it (strong fairness).  Nothing makes main push, and no spurious
\* wakeup is promised.
Fairness ==
    /\ \A t \in Pusher : WF_vars(PushRuns(t))
    /\ \A t \in Popper : SF_vars(PopLock(t) \/ NoBlockLock(t) \/ PopRuns(t))

Spec == Init /\ [][Next]_vars
FairSpec == Spec /\ Fairness

-----------------------------------------------------------------------------
Channel == INSTANCE Fifo WITH queue <- q, accepted <- TRUE, Capacity <- MaxLen

(* The members and the threads' steps have their types, and mut is held by *)
(* exactly the thread that is between a lock and its unlock.               *)
TypeOK ==
    /\ q \in Seq(Value) /\ Len(q) <= MaxLen
    /\ mut \in Thread \cup {NoThread}
    /\ pc \in [Thread -> {"idle", "push", "test", "waiting", "woken", "take", "testNoBlock"}]
    /\ popped \in Value \cup {NoValue}
    /\ \A t \in Thread : mut = t <=> pc[t] \in {"push", "test", "take", "testNoBlock"}

(* q.front() and q.pop() run on a non-empty queue only (they are undefined *)
(* on an empty one), also when a wakeup was spurious or another thread     *)
(* took the value first.                                                   *)
FrontOfNonEmpty == \A t \in Popper : pc[t] = "take" => q # << >>

(* While values are queued and a popper sleeps in cv.wait, at least as many *)
(* poppers are already awake and on their way to them, so that none sleeps  *)
(* through a value that nobody else comes for.                              *)
NoLostWakeup ==
    (Waiting # {} /\ mut = NoThread)
        => Len(q) <= Cardinality({t \in Popper : pc[t] = "woken"})

(* The queue behaves as one FIFO on which each call takes effect at once:   *)
(* nothing lost, repeated or reordered; popNoBlock reports an empty queue   *)
(* only when it is empty.                                                   *)
ImplementsFifo == Channel!FifoSpec

(* No value stays in the queue for ever: while it is not empty, values keep *)
(* being taken, first one first, by a server that keeps calling pop or      *)
(* popNoBlock.                                                              *)
EventuallyPopped == []<>(q = << >>) \/ []<><<\E t \in Popper : Take(t)>>_vars
=============================================================================
