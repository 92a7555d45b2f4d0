--------------------------- MODULE FreeQueueProofs ---------------------------
(***************************************************************************)
(* Proofs about lib/queue.h for every ring size and every set of values.   *)
(***************************************************************************)
EXTENDS FreeQueue, SequenceTheorems, TLAPS

(* The remainder in "(in+1) % SIZE" and "(out+1) % SIZE" (queue.h:16, 29)  *)
(* is a wrap at the last slot and nothing else.                            *)
LEMMA AdvanceValue ==
    ASSUME NEW i \in Slot
    PROVE  Advance(i) = IF i = SIZE - 1 THEN 0 ELSE i + 1
<1>1. CASE i = SIZE - 1
  <2>1. SIZE % SIZE = 0
    BY SizeAssumption
  <2>2. QED BY <1>1, <2>1, SizeAssumption DEF Advance, Slot
<1>2. CASE i # SIZE - 1
  <2>1. i + 1 \in 0 .. SIZE - 1
    BY <1>2, SizeAssumption DEF Slot
  <2>2. (i + 1) % SIZE = i + 1
    BY <2>1, SizeAssumption
  <2>3. QED BY <1>2, <2>2 DEF Advance
<1>3. QED BY <1>1, <1>2
(* Held counts the slots from aout up to ain: none when the two indices    *)
(* are equal (pop's empty test), all but one when ain is just behind aout  *)
(* (push's full test); the n-th held slot is SlotAt(n), and the slot after *)
(* the last one is ain itself.                                             *)
LEMMA HeldProperties ==
    ASSUME ain \in Slot, aout \in Slot
    PROVE  /\ Held \in 0 .. SIZE - 1
           /\ Held = 0 <=> ain = aout
           /\ Held = SIZE - 1 <=> Advance(ain) = aout
           /\ SlotAt(Held) = ain
           /\ SlotAt(0) = aout
           /\ \A i \in 0 .. SIZE - 1 : SlotAt(i) \in Slot
           /\ \A i, j \in 0 .. SIZE - 1 : SlotAt(i) = SlotAt(j) => i = j
<1>1. Advance(ain) = IF ain = SIZE - 1 THEN 0 ELSE ain + 1
  BY AdvanceValue
<1>2. QED BY <1>1, SizeAssumption DEF Held, SlotAt, Slot

-----------------------------------------------------------------------------
(* The inductive invariant: what each thread relies on between its test of *)
(* the other thread's index and its own final store.                       *)

RoomReserved == ppc \in {"write", "publish"} => Held # SIZE - 1
ItemReserved == cpc \in {"read", "release"} => ain # aout
ArgumentIsValue == ppc # "idle" => pval \in Value
WrittenNotPublished == ppc = "publish" => buff[ain] = pval
CopiedNotReleased == cpc = "release" => cval = buff[aout]
PublishedAreValues == \A i \in 0 .. Held - 1 : buff[SlotAt(i)] \in Value

IInv ==
    /\ TypeOK
    /\ RoomReserved
    /\ ItemReserved
    /\ ArgumentIsValue
    /\ WrittenNotPublished
    /\ CopiedNotReleased
    /\ PublishedAreValues

\* The ring starts empty with both threads idle.
LEMMA InitIInv == Init => IInv
<1> SUFFICES ASSUME Init PROVE IInv
  OBVIOUS
<1>1. TypeOK
  BY SizeAssumption DEF Init, TypeOK, Slot
<1>2. Held = 0
  BY SizeAssumption DEF Init, Held
<1>3. QED
  BY <1>1, <1>2 DEF Init, IInv, RoomReserved, ItemReserved, ArgumentIsValue,
     WrittenNotPublished, CopiedNotReleased, PublishedAreValues

(* push's final store appends one held slot and moves no other.            *)
LEMMA PublishGrows ==
    ASSUME ain \in Slot, aout \in Slot, Held # SIZE - 1,
           ain' = Advance(ain), aout' = aout
    PROVE  /\ ain' \in Slot
           /\ Held' = Held + 1
           /\ \A i \in 0 .. SIZE - 1 : SlotAt(i)' = SlotAt(i)
<1>1. Advance(ain) = IF ain = SIZE - 1 THEN 0 ELSE ain + 1
  BY AdvanceValue
<1>2. QED BY <1>1, SizeAssumption DEF Held, SlotAt, Slot

(* pop's final store drops the first held slot: the others move up by one. *)
LEMMA ReleaseShrinks ==
    ASSUME ain \in Slot, aout \in Slot, ain # aout,
           aout' = Advance(aout), ain' = ain
    PROVE  /\ aout' \in Slot
           /\ Held' = Held - 1
           /\ \A i \in 0 .. SIZE - 2 : SlotAt(i)' = SlotAt(i + 1)
<1>1. Advance(aout) = IF aout = SIZE - 1 THEN 0 ELSE aout + 1
  BY AdvanceValue
<1>2. QED BY <1>1, SizeAssumption DEF Held, SlotAt, Slot

-----------------------------------------------------------------------------
(* Every step of either thread, whatever the other one is doing, preserves *)
(* the invariant.                                                          *)
LEMMA NextIInv == IInv /\ [Next]_vars => IInv'
<1> SUFFICES ASSUME IInv, [Next]_vars PROVE IInv'
  OBVIOUS
<1> USE DEF IInv
<1>t. /\ ain \in Slot /\ aout \in Slot
      /\ buff \in [Slot -> Value \cup {NoValue}]
  BY DEF TypeOK
<1>h. /\ Held \in 0 .. SIZE - 1
      /\ Held = 0 <=> ain = aout
      /\ Held = SIZE - 1 <=> Advance(ain) = aout
      /\ SlotAt(Held) = ain
      /\ SlotAt(0) = aout
      /\ \A i \in 0 .. SIZE - 1 : SlotAt(i) \in Slot
      /\ \A i, j \in 0 .. SIZE - 1 : SlotAt(i) = SlotAt(j) => i = j
  BY <1>t, HeldProperties
<1>u. ASSUME UNCHANGED <<ain, aout, buff>>
      PROVE  PublishedAreValues'
  BY <1>u DEF PublishedAreValues, Held, SlotAt
<1>1. ASSUME NEW v \in Value, PushCall(v) PROVE IInv'
  BY <1>1, <1>u DEF PushCall, TypeOK, RoomReserved, ItemReserved, ArgumentIsValue,
     WrittenNotPublished, CopiedNotReleased
<1>2. CASE PushFull
  BY <1>2, <1>u DEF PushFull, TypeOK, RoomReserved, ItemReserved, ArgumentIsValue,
     WrittenNotPublished, CopiedNotReleased
<1>3. CASE PushRoom
  <2>1. Held # SIZE - 1
    BY <1>3, <1>h DEF PushRoom
  <2>2. RoomReserved'
    BY <1>3, <2>1 DEF PushRoom, RoomReserved, Held
  <2>3. QED
    BY <1>3, <1>u, <2>2 DEF PushRoom, TypeOK, ItemReserved, ArgumentIsValue,
       WrittenNotPublished, CopiedNotReleased
<1>4. CASE PushWrite
  <2>1. /\ UNCHANGED <<ain, aout, pval, cpc, cval>>
        /\ buff' = [buff EXCEPT ![ain] = pval]
    BY <1>4 DEF PushWrite
  <2>2. TypeOK'
    BY <1>4 DEF PushWrite, TypeOK
  <2>3. \A i \in 0 .. Held - 1 : SlotAt(i) # ain
    BY <1>h, SizeAssumption
  <2>4. PublishedAreValues'
    BY <1>t, <1>h, <2>1, <2>3, SizeAssumption DEF PublishedAreValues, Held, SlotAt
  <2>5. CopiedNotReleased'
    BY <1>t, <2>1 DEF CopiedNotReleased, ItemReserved
  <2>6. WrittenNotPublished'
    BY <1>t, <2>1 DEF WrittenNotPublished
  <2>7. RoomReserved'
    BY <1>4 DEF PushWrite, RoomReserved, Held
  <2>8. QED
    BY <1>4, <2>2, <2>4, <2>5, <2>6, <2>7 DEF PushWrite, ItemReserved, ArgumentIsValue
<1>5. CASE PushPublish
  <2>1. /\ UNCHANGED <<aout, buff, pval, cpc, cval>>
        /\ ain' = Advance(ain) /\ ppc' = "idle" /\ ppc = "publish"
    BY <1>5 DEF PushPublish
  <2>2. Held # SIZE - 1
    BY <2>1 DEF RoomReserved
  <2>3. /\ ain' \in Slot
        /\ Held' = Held + 1
        /\ \A i \in 0 .. SIZE - 1 : SlotAt(i)' = SlotAt(i)
    BY <1>t, <2>1, <2>2, PublishGrows
  <2>4. TypeOK'
    BY <1>5, <2>3 DEF PushPublish, TypeOK
  <2>5. PublishedAreValues'
    BY <1>h, <2>1, <2>3, SizeAssumption
       DEF PublishedAreValues, WrittenNotPublished, ArgumentIsValue
  <2>6. ItemReserved'
    <3>1. ain' # aout'
      BY <1>t, <1>h, <2>1, <2>2
    <3>2. QED BY <3>1 DEF ItemReserved
  <2>7. QED
    BY <2>1, <2>4, <2>5, <2>6 DEF RoomReserved, ArgumentIsValue,
       WrittenNotPublished, CopiedNotReleased
<1>6. CASE PopCall
  BY <1>6, <1>u DEF PopCall, TypeOK, RoomReserved, ItemReserved, ArgumentIsValue,
     WrittenNotPublished, CopiedNotReleased, Held
<1>7. CASE PopEmpty
  BY <1>7, <1>u DEF PopEmpty, TypeOK, RoomReserved, ItemReserved, ArgumentIsValue,
     WrittenNotPublished, CopiedNotReleased, Held
<1>8. CASE PopSome
  BY <1>8, <1>u DEF PopSome, TypeOK, RoomReserved, ItemReserved, ArgumentIsValue,
     WrittenNotPublished, CopiedNotReleased, Held
<1>9. CASE PopRead
  BY <1>9, <1>u DEF PopRead, TypeOK, RoomReserved, ItemReserved, ArgumentIsValue,
     WrittenNotPublished, CopiedNotReleased, Held
<1>10. CASE PopRelease
  <2>1. /\ UNCHANGED <<ain, buff, ppc, pval>>
        /\ aout' = Advance(aout) /\ cpc' = "idle" /\ cpc = "release"
    BY <1>10 DEF PopRelease
  <2>2. ain # aout
    BY <2>1 DEF ItemReserved
  <2>3. /\ aout' \in Slot
        /\ Held' = Held - 1
        /\ \A i \in 0 .. SIZE - 2 : SlotAt(i)' = SlotAt(i + 1)
    BY <1>t, <2>1, <2>2, ReleaseShrinks
  <2>4. TypeOK'
    BY <1>10, <2>3 DEF PopRelease, TypeOK
  <2>5. PublishedAreValues'
    BY <1>h, <2>1, <2>3, SizeAssumption DEF PublishedAreValues
  <2>6. RoomReserved'
    BY <1>h, <2>1, <2>3, SizeAssumption DEF RoomReserved
  <2>7. QED
    BY <2>1, <2>4, <2>5, <2>6 DEF ItemReserved, ArgumentIsValue,
       WrittenNotPublished, CopiedNotReleased
<1>11. CASE UNCHANGED vars
  BY <1>11, <1>u DEF vars, TypeOK, RoomReserved, ItemReserved, ArgumentIsValue,
     WrittenNotPublished, CopiedNotReleased, Held
<1>12. QED
  BY <1>1, <1>2, <1>3, <1>4, <1>5, <1>6, <1>7, <1>8, <1>9, <1>10, <1>11
     DEF Next, Producer, Consumer

\* The invariant of the two threads (queue.h), for every SIZE.
LEMMA SpecIInv == Spec => []IInv
<1>1. QED BY InitIInv, NextIInv, PTL DEF Spec

(* Every member and local of a push or a pop keeps its type, whatever the  *)
(* size of the ring: no index ever leaves the ring.                        *)
THEOREM TypeCorrect == Spec => []TypeOK
<1>1. IInv => TypeOK
  BY DEF IInv
<1>2. QED BY <1>1, SpecIInv, PTL

(* The producer's copy into a slot and the consumer's copy out of a slot   *)
(* never touch the same shared_ptr at once.                                *)
THEOREM NoSlotRaceCorrect == Spec => []NoSlotRace
<1>1. IInv => NoSlotRace
  BY DEF IInv, ItemReserved, NoSlotRace
<1>2. QED BY <1>1, SpecIInv, PTL

(* pop hands out a pointer that a push stored, never a null one: main      *)
(* dereferences it at once.                                                *)
THEOREM NeverPopsNullCorrect == Spec => []NeverPopsNull
<1>1. IInv => NeverPopsNull
  <2> SUFFICES ASSUME IInv, cpc = "release" PROVE cval # NoValue
    BY DEF NeverPopsNull
  <2>1. ain # aout /\ cval = buff[aout] /\ ain \in Slot /\ aout \in Slot
    BY DEF IInv, TypeOK, ItemReserved, CopiedNotReleased
  <2>2. Held \in 1 .. SIZE - 1 /\ SlotAt(0) = aout
    BY <2>1, HeldProperties, SizeAssumption
  <2>3. buff[aout] \in Value
    BY <2>2, SizeAssumption DEF IInv, PublishedAreValues
  <2>4. QED BY <2>1, <2>3, NoValueAssumption
<1>2. QED BY <1>1, SpecIInv, PTL

-----------------------------------------------------------------------------
(* The refinement.  A push takes effect at its store to ain, or where it   *)
(* finds the ring full; a pop at its store to aout, or where it finds the  *)
(* ring empty.  Every other step leaves the abstract queue as it is.       *)

Stored == Value \cup {NoValue}

\* What the ring holds is a sequence of values.
LEMMA ContentsIsSeq ==
    ASSUME TypeOK
    PROVE  /\ Contents \in Seq(Stored)
           /\ Len(Contents) = Held
           /\ \A i \in 1 .. Held : Contents[i] = buff[SlotAt(i - 1)]
<1>1. /\ Held \in 0 .. SIZE - 1
      /\ \A i \in 0 .. SIZE - 1 : SlotAt(i) \in Slot
  BY HeldProperties DEF TypeOK
<1>2. \A i \in 1 .. Held : buff[SlotAt(i - 1)] \in Stored
  BY <1>1, SizeAssumption DEF TypeOK, Stored
<1>3. Contents \in [1 .. Held -> Stored]
  BY <1>2 DEF Contents
<1>4. QED BY <1>1, <1>3 DEF Contents

(* push's store to ain appends the pushed value.                           *)
LEMMA PublishIsPut == IInv /\ IInv' /\ PushPublish => \E v \in Value : Ring!Put(v)
<1> SUFFICES ASSUME IInv, IInv', PushPublish PROVE \E v \in Value : Ring!Put(v)
  OBVIOUS
<1>1. TypeOK /\ TypeOK' /\ pval \in Value /\ buff[ain] = pval /\ Held # SIZE - 1
  BY DEF IInv, PushPublish, ArgumentIsValue, WrittenNotPublished, RoomReserved
<1>2. /\ ain \in Slot /\ aout \in Slot
      /\ Held \in 0 .. SIZE - 1 /\ SlotAt(Held) = ain
  BY <1>1, HeldProperties DEF TypeOK
<1>3. /\ Held' = Held + 1
      /\ \A i \in 0 .. SIZE - 1 : SlotAt(i)' = SlotAt(i)
  BY <1>1, <1>2, PublishGrows DEF PushPublish
<1>4. /\ Contents \in Seq(Stored) /\ Len(Contents) = Held
      /\ \A i \in 1 .. Held : Contents[i] = buff[SlotAt(i - 1)]
  BY <1>1, ContentsIsSeq
<1>5. /\ Contents' \in Seq(Stored) /\ Len(Contents') = Held + 1
      /\ \A i \in 1 .. Held + 1 : Contents'[i] = buff'[SlotAt(i - 1)']
  <2>1. (TypeOK => /\ Contents \in Seq(Stored)
                   /\ Len(Contents) = Held
                   /\ \A i \in 1 .. Held : Contents[i] = buff[SlotAt(i - 1)])'
    BY ContentsIsSeq, PTL
  <2>2. QED BY <1>1, <1>3, <2>1
<1>6. /\ Append(Contents, pval) \in Seq(Stored)
      /\ Len(Append(Contents, pval)) = Held + 1
      /\ \A i \in 1 .. Held : Append(Contents, pval)[i] = Contents[i]
      /\ Append(Contents, pval)[Held + 1] = pval
  BY <1>1, <1>4, AppendProperties DEF Stored
<1>7. Contents' = Append(Contents, pval)
  <2>1. ASSUME NEW i \in 1 .. Held + 1
        PROVE  Contents'[i] = Append(Contents, pval)[i]
    <3>1. i - 1 \in 0 .. SIZE - 1 /\ buff' = buff
      BY <1>1, <1>2, SizeAssumption DEF PushPublish
    <3>2. Contents'[i] = buff[SlotAt(i - 1)]
      BY <1>3, <1>5, <3>1
    <3>3. QED BY <1>1, <1>2, <1>4, <1>6, <3>2
  <2>2. QED BY <1>5, <1>6, <2>1, SeqEqual
<1>8. QED
  BY <1>1, <1>2, <1>4, <1>7, SizeAssumption DEF Ring!Put, PushPublish

(* The same facts about the contents after a step.                         *)
LEMMA ContentsIsSeqNext ==
    TypeOK' => /\ Contents' \in Seq(Stored)
               /\ Len(Contents') = Held'
               /\ \A i \in 1 .. Held' : Contents'[i] = buff'[SlotAt(i - 1)']
<1>1. (TypeOK => /\ Contents \in Seq(Stored)
                 /\ Len(Contents) = Held
                 /\ \A i \in 1 .. Held : Contents[i] = buff[SlotAt(i - 1)])'
  BY ContentsIsSeq, PTL
<1>2. QED BY <1>1

(* pop's store to aout takes the head of the queue and returns it.         *)
LEMMA ReleaseIsGet == IInv /\ IInv' /\ PopRelease => Ring!Get
<1> SUFFICES ASSUME IInv, IInv', PopRelease PROVE Ring!Get
  OBVIOUS
<1>1. TypeOK /\ TypeOK' /\ ain # aout /\ cval = buff[aout]
  BY DEF IInv, PopRelease, ItemReserved, CopiedNotReleased
<1>2. /\ ain \in Slot /\ aout \in Slot
      /\ Held \in 1 .. SIZE - 1 /\ SlotAt(0) = aout
  BY <1>1, HeldProperties, SizeAssumption DEF TypeOK
<1>3. /\ Held' = Held - 1
      /\ \A i \in 0 .. SIZE - 2 : SlotAt(i)' = SlotAt(i + 1)
  BY <1>1, <1>2, ReleaseShrinks DEF PopRelease
<1>4. /\ Contents \in Seq(Stored) /\ Len(Contents) = Held
      /\ \A i \in 1 .. Held : Contents[i] = buff[SlotAt(i - 1)]
  BY <1>1, ContentsIsSeq
<1>5. /\ Contents' \in Seq(Stored) /\ Len(Contents') = Held - 1
      /\ \A i \in 1 .. Held - 1 : Contents'[i] = buff'[SlotAt(i - 1)']
  BY <1>1, <1>3, ContentsIsSeqNext
<1>6. /\ Contents # << >>
      /\ Head(Contents) = Contents[1]
      /\ Tail(Contents) \in Seq(Stored)
      /\ Len(Tail(Contents)) = Held - 1
      /\ \A i \in 1 .. Held - 1 : Tail(Contents)[i] = Contents[i + 1]
  <2>1. Contents # << >>
    BY <1>2, <1>4
  <2>2. QED BY <1>2, <1>4, <2>1, HeadTailProperties
<1>7. Head(Contents) = cval
  BY <1>1, <1>2, <1>4, <1>6
<1>8. Contents' = Tail(Contents)
  <2>1. ASSUME NEW i \in 1 .. Held - 1
        PROVE  Contents'[i] = Tail(Contents)[i]
    <3>1. i - 1 \in 0 .. SIZE - 2 /\ buff' = buff
      BY <1>2, SizeAssumption DEF PopRelease
    <3>2. Contents'[i] = buff[SlotAt(i)]
      BY <1>3, <1>5, <3>1
    <3>3. Contents[i + 1] = buff[SlotAt(i)]
      BY <1>2, <1>4
    <3>4. QED BY <1>6, <3>2, <3>3
  <2>2. QED BY <1>5, <1>6, <2>1, SeqEqual
<1>9. QED BY <1>6, <1>7, <1>8 DEF Ring!Get, PopRelease

(* A push refused found SIZE - 1 values: the queue really was full.        *)
LEMMA FullIsRefuse == IInv /\ PushFull => Ring!Refuse
<1> SUFFICES ASSUME IInv, PushFull PROVE Ring!Refuse
  OBVIOUS
<1>1. TypeOK /\ ain \in Slot /\ aout \in Slot
  BY DEF IInv, TypeOK
<1>2. Len(Contents) = SIZE - 1
  BY <1>1, HeldProperties, ContentsIsSeq DEF PushFull
<1>3. Contents' = Contents
  BY DEF PushFull, Contents, Held, SlotAt
<1>4. QED BY <1>2, <1>3 DEF Ring!Refuse, PushFull

(* A pop that reports an empty ring found no value in it.                  *)
LEMMA EmptyIsNothingToGet == IInv /\ PopEmpty => Ring!NothingToGet
<1> SUFFICES ASSUME IInv, PopEmpty PROVE Ring!NothingToGet
  OBVIOUS
<1>1. TypeOK /\ ain \in Slot /\ aout \in Slot
  BY DEF IInv, TypeOK
<1>2. Contents = << >>
  BY <1>1, HeldProperties, ContentsIsSeq, EmptySeq DEF PopEmpty
<1>3. Contents' = Contents
  BY DEF PopEmpty, Contents, Held, SlotAt
<1>4. QED BY <1>2, <1>3 DEF Ring!NothingToGet, PopEmpty

(* Filling the slot at ain changes no value that is already published.     *)
LEMMA WriteIsInvisible == IInv /\ PushWrite => Contents' = Contents
<1> SUFFICES ASSUME IInv, PushWrite PROVE Contents' = Contents
  OBVIOUS
<1>1. /\ ain \in Slot /\ aout \in Slot /\ buff \in [Slot -> Stored]
      /\ buff' = [buff EXCEPT ![ain] = pval] /\ UNCHANGED <<ain, aout>>
  BY DEF IInv, TypeOK, PushWrite, Stored
<1>2. /\ Held \in 0 .. SIZE - 1 /\ SlotAt(Held) = ain
      /\ \A i \in 0 .. SIZE - 1 : SlotAt(i) \in Slot
      /\ \A i, j \in 0 .. SIZE - 1 : SlotAt(i) = SlotAt(j) => i = j
  BY <1>1, HeldProperties
<1>3. \A i \in 0 .. Held - 1 : buff'[SlotAt(i)] = buff[SlotAt(i)]
  BY <1>1, <1>2, SizeAssumption
<1>4. Held' = Held /\ \A i \in 0 .. SIZE - 1 : SlotAt(i)' = SlotAt(i)
  BY <1>1 DEF Held, SlotAt
<1>5. \A i \in 1 .. Held : buff'[SlotAt(i - 1)'] = buff[SlotAt(i - 1)]
  BY <1>2, <1>3, <1>4, SizeAssumption
<1>6. QED BY <1>4, <1>5 DEF Contents

(* FreeQueue implements the bounded FIFO: its initial state is an empty    *)
(* queue, and each of its steps is one operation of the FIFO or is         *)
(* invisible in it, for every ring size and every set of values.           *)
THEOREM FreeQueueImplementsFifo == Spec => ImplementsFifo
<1>1. Init => Ring!FifoInit
  <2> SUFFICES ASSUME Init PROVE Ring!FifoInit
    OBVIOUS
  <2>1. Held = 0
    BY SizeAssumption DEF Init, Held
  <2>2. Contents = << >>
    BY <2>1 DEF Contents
  <2>3. QED BY <2>2 DEF Init, Ring!FifoInit
<1>2. IInv /\ IInv' /\ [Next]_vars => [Ring!FifoNext]_Ring!fifoVars
  <2> SUFFICES ASSUME IInv, IInv', [Next]_vars PROVE [Ring!FifoNext]_Ring!fifoVars
    OBVIOUS
  <2> USE DEF Ring!FifoNext, Ring!fifoVars
  <2>u. ASSUME UNCHANGED <<ain, aout, buff>> PROVE Contents' = Contents
    BY <2>u DEF Contents, Held, SlotAt
  <2>1. ASSUME NEW v \in Value, PushCall(v) PROVE UNCHANGED Ring!fifoVars
    BY <2>1, <2>u DEF PushCall
  <2>2. CASE PushFull
    BY <2>2, FullIsRefuse
  <2>3. CASE PushRoom
    BY <2>3, <2>u DEF PushRoom
  <2>4. CASE PushWrite
    BY <2>4, WriteIsInvisible DEF PushWrite
  <2>5. CASE PushPublish
    BY <2>5, PublishIsPut
  <2>6. CASE PopCall \/ PopSome \/ PopRead
    BY <2>6, <2>u DEF PopCall, PopSome, PopRead
  <2>7. CASE PopEmpty
    BY <2>7, EmptyIsNothingToGet
  <2>8. CASE PopRelease
    BY <2>8, ReleaseIsGet
  <2>9. CASE UNCHANGED vars
    BY <2>9, <2>u DEF vars
  <2>10. QED
    BY <2>1, <2>2, <2>3, <2>4, <2>5, <2>6, <2>7, <2>8, <2>9
       DEF Next, Producer, Consumer
<1>3. QED BY <1>1, <1>2, SpecIInv, PTL DEF Spec, Ring!FifoSpec, ImplementsFifo
=============================================================================
