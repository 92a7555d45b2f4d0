------------------------------ MODULE FreeQueue ------------------------------
(***************************************************************************)
(* lib/queue.h: the lock-free ring through which a server thread (the one  *)
(* producer, Server::write) hands full TimeBuffers to the main thread (the *)
(* one consumer, main's delivery loop).                                    *)
(*                                                                         *)
(* Every access to memory the two threads share is a step of its own: the  *)
(* loads and stores of the atomics ain and aout, and the copies of a       *)
(* shared_ptr into and out of a slot.  Such a copy is not atomic: a thread *)
(* whose program counter is "write" or "read" is inside it.                *)
(***************************************************************************)
EXTENDS Naturals, Sequences

CONSTANTS SIZE,      \* slots of the ring (MAX_MSG_Q_SIZE, lib/main.h)
          Value,     \* the TBPtr values that can be pushed
          NoValue    \* a default constructed (null) TBPtr

ASSUME SizeAssumption == SIZE \in Nat /\ SIZE >= 2
ASSUME NoValueAssumption == NoValue \notin Value

VARIABLES ain, aout, buff,           \* the members of FreeQueue
          ppc, pval, accepted,       \* producer: step, argument, last result
          cpc, cval, popped          \* consumer: step, out parameter, last result

vars == <<ain, aout, buff, ppc, pval, accepted, cpc, cval, popped>>

Slot == 0 .. SIZE - 1

\* Mutation (TypeOK): the index advances without the remainder.
AdvanceNoWrap(i) == i + 1

Advance(i) == (i + 1) % SIZE

Init ==
    /\ ain = 0 /\ aout = 0
    /\ buff = [i \in Slot |-> NoValue]
    /\ ppc = "idle" /\ pval = NoValue /\ accepted = TRUE
    /\ cpc = "idle" /\ cval = NoValue /\ popped = NoValue

-----------------------------------------------------------------------------
(* push(val).  Only the producer stores ain, so the local copy in = ain    *)
(* stays equal to it until the final store.                                *)

PushCall(v) ==
    /\ ppc = "idle"
    /\ ppc' = "loadOut"
    /\ pval' = v
    /\ UNCHANGED <<ain, aout, buff, accepted, cpc, cval, popped>>

\* Mutation (ImplementsFifo): off by one, a push is refused with a slot to spare.
PushFullEarly ==
    /\ ppc = "loadOut"
    /\ aout \in {Advance(ain), Advance(Advance(ain))}
    /\ ppc' = "idle"
    /\ accepted' = FALSE
    /\ UNCHANGED <<ain, aout, buff, pval, cpc, cval, popped>>

PushFull ==
    /\ ppc = "loadOut"
    /\ Advance(ain) = aout
    /\ ppc' = "idle"
    /\ accepted' = FALSE
    /\ UNCHANGED <<ain, aout, buff, pval, cpc, cval, popped>>

\* Mutation (NoSlotRace): no room is kept between in and out.
PushRoomUnchecked ==
    /\ ppc = "loadOut"
    /\ ppc' = "write"
    /\ UNCHANGED <<ain, aout, buff, pval, accepted, cpc, cval, popped>>

\* Mutation (NeverPopsNull): ain is stored before the slot is written.
PushRoomPublishFirst ==
    /\ ppc = "loadOut"
    /\ Advance(ain) # aout
    /\ ain' = Advance(ain)
    /\ ppc' = "write"
    /\ UNCHANGED <<aout, buff, pval, accepted, cpc, cval, popped>>

PushRoom ==
    /\ ppc = "loadOut"
    /\ Advance(ain) # aout
    /\ ppc' = "write"
    /\ UNCHANGED <<ain, aout, buff, pval, accepted, cpc, cval, popped>>

PushWrite ==
    /\ ppc = "write"
    /\ buff' = [buff EXCEPT ![ain] = pval]
    /\ ppc' = "publish"
    /\ UNCHANGED <<ain, aout, pval, accepted, cpc, cval, popped>>

PushPublish ==
    /\ ppc = "publish"
    /\ ain' = Advance(ain)
    /\ accepted' = TRUE
    /\ ppc' = "idle"
    /\ UNCHANGED <<aout, buff, pval, cpc, cval, popped>>

-----------------------------------------------------------------------------
(* pop(val).  Only the consumer stores aout.  The slot keeps its pointer   *)
(* after the pop: nothing resets it.                                       *)

PopCall ==
    /\ cpc = "idle"
    /\ cpc' = "loadIn"
    /\ UNCHANGED <<ain, aout, buff, ppc, pval, accepted, cval, popped>>

\* Mutation (PublishedIsTaken): the empty check copies the full check.
PopEmptyOneLeft ==
    /\ cpc = "loadIn"
    /\ ain \in {aout, Advance(aout)}
    /\ cpc' = "idle"
    /\ popped' = NoValue
    /\ UNCHANGED <<ain, aout, buff, ppc, pval, accepted, cval>>

PopEmpty ==
    /\ cpc = "loadIn"
    /\ ain = aout
    /\ cpc' = "idle"
    /\ popped' = NoValue
    /\ UNCHANGED <<ain, aout, buff, ppc, pval, accepted, cval>>

PopSome ==
    /\ cpc = "loadIn"
    /\ ain # aout
    /\ cpc' = "read"
    /\ UNCHANGED <<ain, aout, buff, ppc, pval, accepted, cval, popped>>

PopRead ==
    /\ cpc = "read"
    /\ cval' = buff[aout]
    /\ cpc' = "release"
    /\ UNCHANGED <<ain, aout, buff, ppc, pval, accepted, popped>>

PopRelease ==
    /\ cpc = "release"
    /\ aout' = Advance(aout)
    /\ popped' = cval
    /\ cpc' = "idle"
    /\ UNCHANGED <<ain, buff, ppc, pval, accepted, cval>>

-----------------------------------------------------------------------------
Producer == (\E v \in Value : PushCall(v)) \/ PushFull \/ PushRoom \/ PushWrite \/ PushPublish
Consumer == PopCall \/ PopEmpty \/ PopSome \/ PopRead \/ PopRelease

Next == Producer \/ Consumer

\* A thread inside push or pop goes on (neither blocks), and the main thread
\* calls pop on every turn of its for(;;) loop.  Nothing makes a server push.
Fairness == WF_vars(PushFull \/ PushRoom \/ PushWrite \/ PushPublish) /\ WF_vars(Consumer)

Spec == Init /\ [][Next]_vars
FairSpec == Spec /\ Fairness

-----------------------------------------------------------------------------
(* The queue the members stand for.                                        *)

Held == IF ain >= aout THEN ain - aout ELSE (ain - aout) + SIZE
SlotAt(i) == IF aout + i < SIZE THEN aout + i ELSE (aout + i) - SIZE
Contents == [i \in 1 .. Held |-> buff[SlotAt(i - 1)]]

Ring == INSTANCE Fifo WITH queue <- Contents, Capacity <- SIZE - 1

-----------------------------------------------------------------------------
(* The members and the locals of both threads have their types.            *)
TypeOK ==
    /\ ain \in Slot /\ aout \in Slot
    /\ buff \in [Slot -> Value \cup {NoValue}]
    /\ ppc \in {"idle", "loadOut", "write", "publish"}
    /\ pval \in Value \cup {NoValue}
    /\ accepted \in BOOLEAN
    /\ cpc \in {"idle", "loadIn", "read", "release"}
    /\ cval \in Value \cup {NoValue}
    /\ popped \in Value \cup {NoValue}

(* The two threads are never inside the copy of the same slot: no torn or  *)
(* doubly released shared_ptr.  The code relies on in != out between the   *)
(* checks at the top of push and pop and the slot accesses that follow.    *)
NoSlotRace == ~(ppc = "write" /\ cpc = "read" /\ ain = aout)

(* pop never hands out a null pointer: main dereferences what it popped    *)
(* (data->getSrcClusterId()) without a check.                              *)
NeverPopsNull == cpc = "release" => cval # NoValue

(* push and pop behave as one FIFO of SIZE - 1 values on which every call  *)
(* takes effect at once: nothing lost, repeated or reordered, a push       *)
(* refused only when the queue is full, a pop empty only when it is empty. *)
ImplementsFifo == Ring!FifoSpec

(* Whatever a server has published is taken by the main loop: while the    *)
(* ring is not empty, values keep being popped, first one first.           *)
PublishedIsTaken == []<>(Held = 0) \/ []<><<PopRelease>>_vars

=============================================================================
