-------------------------- MODULE TimeBufferProofs --------------------------
(***************************************************************************)
(* Proofs about TimeBuffer for every width of its integers, every life     *)
(* time of a datagram, and any error of the hosts' deltas.                 *)
(***************************************************************************)
EXTENDS TimeBuffer, TLAPS

(* A number cut to a signed type is one of its numbers ...                 *)
LEMMA CutInRange ==
    ASSUME NEW half \in Nat \ {0}, NEW x \in Int
    PROVE  Cut(x, half) \in -half .. half - 1
<1> DEFINE m == 2 * half
<1>1. m \in Nat \ {0} /\ x + half \in Int
  OBVIOUS
<1>2. \A a \in Int : a % m \in 0 .. m - 1
  <2> HIDE DEF m
  <2> QED BY <1>1
<1>3. (x + half) % m \in 0 .. m - 1
  BY <1>1, <1>2
<1>4. QED BY <1>3 DEF Cut

(* ... itself, if it is small enough ...                                   *)
LEMMA CutSmall ==
    ASSUME NEW half \in Nat \ {0}, NEW x \in -half .. half - 1
    PROVE  Cut(x, half) = x
<1> DEFINE m == 2 * half
<1>1. m \in Nat \ {0} /\ x + half \in 0 .. m - 1
  OBVIOUS
<1>2. \A a \in 0 .. m - 1 : a % m = a
  <2> HIDE DEF m
  <2> QED BY <1>1
<1>3. (x + half) % m = x + half
  BY <1>1, <1>2
<1>4. QED BY <1>3 DEF Cut

(* ... and is off by a whole turn if it is less than one turn away.        *)
LEMMA CutTurn ==
    ASSUME NEW half \in Nat \ {0}, NEW x \in Int
    PROVE  /\ x \in half .. 3 * half - 1 => Cut(x, half) = x - 2 * half
           /\ x \in -3 * half .. -half - 1 => Cut(x, half) = x + 2 * half
<1> DEFINE m == 2 * half
<1>1. m \in Nat \ {0}
  OBVIOUS
<1>2. /\ \A a \in m .. 2 * m - 1 : a % m = a - m
      /\ \A a \in -m .. -1 : a % m = a + m
  <2> HIDE DEF m
  <2> QED BY <1>1
<1>3. ASSUME x \in half .. 3 * half - 1
      PROVE  Cut(x, half) = x - 2 * half
  <2>1. x + half \in m .. 2 * m - 1
    BY <1>3
  <2>2. (x + half) % m = x + half - m
    BY <1>2, <2>1
  <2>3. QED BY <2>2 DEF Cut
<1>4. ASSUME x \in -3 * half .. -half - 1
      PROVE  Cut(x, half) = x + 2 * half
  <2>1. x + half \in -m .. -1
    BY <1>4
  <2>2. (x + half) % m = x + half + m
    BY <1>2, <2>1
  <2>3. QED BY <2>2 DEF Cut
<1>5. QED BY <1>3, <1>4

-----------------------------------------------------------------------------
\* A buffer that holds something began within MaxAhead of its first impulse,
\* and its offsets are exact unless one was a whole turn away.
Exact(b) == \A i \in DOMAIN b.imp : Unwrapped(b, i) => b.imp[i].dt = b.imp[i].at - b.base
Held(b) ==
    /\ b.base \in b.begun .. b.begun + MaxAhead
    /\ b.begun <= now
    /\ Exact(b)

Filling == ~IsNew => Held(timeBuff) /\ timeBuff.time = timeBuff.base

\* A buffer that left before it was full was passed by the clock.
PartialLate(b) ==
    (MaxAhead < HALF_SHORT /\ Len(b.imp) < MAX_OUTPUT_NODES)
        => b.base + HALF_SHORT <= now + MaxAhead
Sent ==
    \A n \in DOMAIN sent :
        /\ Held(sent[n])
        /\ Within(sent[n].time, sent[n].base, MaxDelta)
        /\ PartialLate(sent[n])

LatestOfLast ==
    /\ last = 0 => latest <= -(2 * MaxDelta)
    /\ last # 0 => Within(latest, sent[last].time, MaxDelta)

IInv == TypeOK /\ Filling /\ Sent /\ LatestOfLast /\ FullOrLate

\* What the assumptions on widths come to.
LEMMA Constants ==
    /\ MAX_OUTPUT_NODES \in Nat \ {0} /\ HALF_SHORT \in Nat \ {0} /\ HALF_INT \in Nat \ {0}
    /\ HALF_SHORT <= HALF_INT
    /\ PACKET_LIFE_TIME \in Nat /\ MaxAhead \in Nat /\ MaxDelta \in Nat
<1>1. QED BY WidthAssumption, TimeAssumption

\* Nothing was written yet.
LEMMA InitIInv == Init => IInv
<1> SUFFICES ASSUME Init PROVE IInv
  OBVIOUS
<1> USE Constants
<1>1. NewBuffer \in BufferType /\ Len(NewBuffer.imp) = 0
  BY DEF NewBuffer, BufferType
<1>2. IsNew
  BY DEF Init, IsNew, NewBuffer
<1>3. TypeOK
  <2>1. delta \in [Host -> -MaxDelta .. MaxDelta] /\ latest \in Int /\ now \in Nat
    BY DEF Init
  <2>2. sent = << >> /\ DOMAIN sent = {} /\ sent \in Seq(BufferType) /\ Len(sent) = 0
    BY DEF Init
  <2>3. QED BY <1>1, <2>1, <2>2 DEF Init, TypeOK
<1>4. Sent /\ LatestOfLast /\ FullOrLate
  BY DEF Init, Sent, LatestOfLast, FullOrLate
<1>5. QED BY <1>2, <1>3, <1>4 DEF IInv, Filling

-----------------------------------------------------------------------------
(* A time that a cluster writes now is not further below the time of the   *)
(* buffer than it may be ahead of its clock, and an offset that passes     *)
(* write's checks is exact unless it is a whole turn away.                 *)
LEMMA OffsetKept ==
    ASSUME IInv, ~IsNew, NEW t \in now .. now + MaxAhead
    PROVE  /\ t \in Nat /\ t - timeBuff.time \in Int
           /\ t - timeBuff.time >= -MaxAhead
           /\ Offset(t) = Cut(t - timeBuff.time, HALF_INT)
           /\ Offset(t) \in -HALF_INT .. HALF_INT - 1
           /\ Offset(t) \in -HALF_SHORT .. HALF_SHORT - 1 =>
                /\ Cut(Offset(t), HALF_SHORT) = Offset(t)
                /\ t - timeBuff.time \in
                     HALF_SHORT - 2 * HALF_INT .. 2 * HALF_INT - HALF_SHORT - 1
                   => Offset(t) = t - timeBuff.time
<1> USE Constants
<1>1. /\ now \in Nat /\ timeBuff.time = timeBuff.base /\ timeBuff.base \in Nat
      /\ timeBuff.begun \in Nat /\ timeBuff.begun <= now
      /\ timeBuff.base <= timeBuff.begun + MaxAhead
  BY DEF IInv, TypeOK, Filling, Held, BufferType
<1>2. t \in Nat /\ t - timeBuff.time \in Int /\ t - timeBuff.time >= -MaxAhead
  BY <1>1
<1>3. Offset(t) = Cut(t - timeBuff.time, HALF_INT)
  BY DEF Offset
<1>4. Offset(t) \in -HALF_INT .. HALF_INT - 1
  BY <1>2, <1>3, CutInRange
<1>5. ASSUME Offset(t) \in -HALF_SHORT .. HALF_SHORT - 1
      PROVE  Cut(Offset(t), HALF_SHORT) = Offset(t)
  BY <1>5, CutSmall
<1>6. ASSUME Offset(t) \in -HALF_SHORT .. HALF_SHORT - 1,
             t - timeBuff.time \in HALF_SHORT - 2 * HALF_INT .. 2 * HALF_INT - HALF_SHORT - 1
      PROVE  Offset(t) = t - timeBuff.time
  <2> DEFINE x == t - timeBuff.time
  <2>1. CASE x \in -HALF_INT .. HALF_INT - 1
    BY <2>1, <1>3, CutSmall
  <2>2. CASE x >= HALF_INT
    <3>1. x \in HALF_INT .. 3 * HALF_INT - 1
      BY <1>2, <1>6, <2>2
    <3>2. Offset(t) = x - 2 * HALF_INT
      BY <1>2, <1>3, <3>1, CutTurn
    <3>3. QED BY <1>2, <1>6, <3>2
  <2>3. CASE x < -HALF_INT
    <3>1. x \in -3 * HALF_INT .. -HALF_INT - 1
      BY <1>2, <1>6, <2>3
    <3>2. Offset(t) = x + 2 * HALF_INT
      BY <1>2, <1>3, <3>1, CutTurn
    <3>3. QED BY <1>2, <1>6, <3>2
  <2>4. QED BY <1>2, <2>1, <2>2, <2>3
<1>7. QED BY <1>2, <1>3, <1>4, <1>5, <1>6

(* The first impulse of a buffer is its time.                              *)
LEMMA FirstHeld ==
    ASSUME IInv, NEW t \in now .. now + MaxAhead
    PROVE  /\ First(t) \in BufferType /\ Len(First(t).imp) <= MAX_OUTPUT_NODES
           /\ Held(First(t)) /\ First(t).time = First(t).base /\ First(t).imp # << >>
<1> USE Constants
<1>1. now \in Nat /\ t \in Nat
  BY DEF IInv, TypeOK
<1>2. Cut(0, HALF_SHORT) = 0
  BY CutSmall
<1>3. Impulse(0, t) = [dt |-> 0, at |-> t] /\ Impulse(0, t) \in ImpulseType
  BY <1>1, <1>2 DEF Impulse, ImpulseType
<1>4. /\ First(t).imp = <<Impulse(0, t)>> /\ Len(First(t).imp) = 1
      /\ First(t).imp \in Seq(ImpulseType) /\ First(t).imp # << >>
      /\ DOMAIN First(t).imp = {1} /\ First(t).imp[1] = Impulse(0, t)
      /\ First(t).time = t /\ First(t).base = t /\ First(t).begun = now
  BY <1>3 DEF First
<1>5. First(t) \in BufferType
  BY <1>1, <1>3 DEF First, BufferType
<1>6. Exact(First(t))
  BY <1>1, <1>3, <1>4 DEF Exact
<1>7. Len(First(t).imp) <= MAX_OUTPUT_NODES
  BY <1>4
<1>8. Held(First(t))
  BY <1>1, <1>4, <1>6 DEF Held
<1>9. QED BY <1>4, <1>5, <1>7, <1>8

-----------------------------------------------------------------------------
\* write (timebuff.h) stores an impulse in a buffer that has room.
LEMMA StoreIInv ==
    ASSUME IInv, NEW t \in now .. now + MaxAhead, Store(t)
    PROVE  IInv'
<1> USE Constants
<1>1. CASE IsNew
  <2>1. timeBuff' = First(t) /\ UNCHANGED <<now, delta, sent, latest, last>>
    BY <1>1 DEF Store
  <2>2. TypeOK'
    BY <2>1, FirstHeld DEF IInv, TypeOK
  <2>3. Filling'
    BY <2>1, FirstHeld DEF Filling, Held, Exact, Unwrapped
  <2>4. Sent' /\ LatestOfLast' /\ FullOrLate'
    BY <2>1 DEF IInv, Sent, LatestOfLast, FullOrLate, Held, Exact, Unwrapped, PartialLate
  <2>5. QED BY <2>2, <2>3, <2>4 DEF IInv
<1>2. CASE ~IsNew
  <2> DEFINE new == Impulse(Offset(t), t)
  <2>1. /\ timeBuff' = [timeBuff EXCEPT !.imp = Append(@, new)]
        /\ UNCHANGED <<now, delta, sent, latest, last>>
        /\ Len(timeBuff.imp) < MAX_OUTPUT_NODES
        /\ Offset(t) \in -HALF_SHORT .. HALF_SHORT - 1
    <3>1. Len(timeBuff.imp) \in Nat
      BY DEF IInv, TypeOK, BufferType
    <3>2. Offset(t) \in Int
      BY <1>2, OffsetKept
    <3>3. QED BY <1>2, <3>1, <3>2 DEF Store, Old, NoRoom
  <2>2. /\ timeBuff \in BufferType /\ timeBuff.imp \in Seq(ImpulseType)
        /\ Held(timeBuff) /\ timeBuff.time = timeBuff.base
    BY <1>2 DEF IInv, TypeOK, BufferType, Filling
  <2>3. new = [dt |-> Offset(t), at |-> t] /\ new \in ImpulseType
    BY <1>2, <2>1, OffsetKept DEF Impulse, ImpulseType
  <2>4. /\ timeBuff'.imp = Append(timeBuff.imp, new)
        /\ timeBuff'.time = timeBuff.time /\ timeBuff'.base = timeBuff.base
        /\ timeBuff'.begun = timeBuff.begun
        /\ timeBuff' \in BufferType
    <3> HIDE DEF new
    <3>1. Append(timeBuff.imp, new) \in Seq(ImpulseType)
      BY <2>2, <2>3
    <3>2. timeBuff' = [timeBuff EXCEPT !.imp = Append(timeBuff.imp, new)]
      BY <2>1
    <3>3. QED BY <2>2, <3>1, <3>2 DEF BufferType
  <2>5. Len(timeBuff'.imp) = Len(timeBuff.imp) + 1 /\ Len(timeBuff.imp) \in Nat
    BY <2>2, <2>3, <2>4
  <2>6. Exact(timeBuff')
    <3> SUFFICES ASSUME NEW i \in DOMAIN timeBuff'.imp, Unwrapped(timeBuff', i)
                 PROVE  timeBuff'.imp[i].dt = timeBuff'.imp[i].at - timeBuff'.base
      BY DEF Exact
    <3>1. CASE i \in DOMAIN timeBuff.imp
      <4>1. timeBuff'.imp[i] = timeBuff.imp[i]
        BY <2>2, <2>3, <2>4, <3>1
      <4>2. Unwrapped(timeBuff, i)
        BY <2>4, <4>1 DEF Unwrapped
      <4>3. QED BY <2>2, <2>4, <3>1, <4>1, <4>2 DEF Held, Exact
    <3>2. CASE i = Len(timeBuff.imp) + 1
      <4>1. timeBuff'.imp[i] = new
        BY <2>2, <2>3, <2>4, <3>2
      <4>2. timeBuff'.imp[i].dt = Offset(t) /\ timeBuff'.imp[i].at = t
        BY <2>3, <4>1
      <4>3. t - timeBuff.time \in HALF_SHORT - 2 * HALF_INT .. 2 * HALF_INT - HALF_SHORT - 1
        BY <2>2, <2>4, <4>2 DEF Unwrapped
      <4>4. Offset(t) = t - timeBuff.time
        BY <1>2, <2>1, <4>3, OffsetKept
      <4>5. QED BY <2>2, <2>4, <4>2, <4>4
    <3>3. QED BY <2>2, <2>3, <2>4, <2>5, <3>1, <3>2
  <2>7. Filling'
    <3>1. Exact(timeBuff)' /\ Held(timeBuff)'
      BY <2>1, <2>2, <2>4, <2>6 DEF Held, Exact, Unwrapped
    <3>2. QED BY <2>2, <2>4, <3>1 DEF Filling
  <2>8. TypeOK'
    BY <2>1, <2>4, <2>5 DEF IInv, TypeOK
  <2>9. Sent' /\ LatestOfLast' /\ FullOrLate'
    BY <2>1 DEF IInv, Sent, LatestOfLast, FullOrLate, Held, Exact, Unwrapped, PartialLate
  <2>10. QED BY <2>7, <2>8, <2>9 DEF IInv
<1>3. QED BY <1>1, <1>2

\* A buffer without room is sent, and the next one begun.
LEMMA SendIInv ==
    ASSUME IInv, NEW t \in now .. now + MaxAhead, SendAndStore(t)
    PROVE  IInv'
<1> USE Constants
<1> DEFINE b == [timeBuff EXCEPT !.time = ToNetwork(@)]
<1>1. /\ ~Old(t) /\ NoRoom(t) /\ sent' = Append(sent, b) /\ timeBuff' = First(t)
      /\ UNCHANGED <<now, delta, latest, last>>
  BY DEF SendAndStore
<1>2. ~IsNew /\ Len(timeBuff.imp) \in 1 .. MAX_OUTPUT_NODES
  <2>1. timeBuff.imp \in Seq(ImpulseType) /\ Len(timeBuff.imp) \in 0 .. MAX_OUTPUT_NODES
    BY DEF IInv, TypeOK, BufferType
  <2>2. ASSUME IsNew PROVE FALSE
    BY <1>1, <2>1, <2>2 DEF NoRoom, Offset, IsNew
  <2>3. QED BY <2>1, <2>2 DEF IsNew
<1>3. /\ timeBuff \in BufferType /\ Held(timeBuff) /\ timeBuff.time = timeBuff.base
      /\ delta["writer"] \in -MaxDelta .. MaxDelta /\ now \in Nat /\ sent \in Seq(BufferType)
      /\ timeBuff.time \in Int /\ timeBuff.base \in Nat
  BY <1>2 DEF IInv, TypeOK, Filling, Host, BufferType
<1>4. /\ b \in BufferType /\ b.time = timeBuff.time - delta["writer"]
      /\ b.base = timeBuff.base /\ b.begun = timeBuff.begun /\ b.imp = timeBuff.imp
  <2>1. ToNetwork(timeBuff.time) = timeBuff.time - delta["writer"]
    BY DEF ToNetwork
  <2>2. ToNetwork(timeBuff.time) \in Int
    BY <1>3, <2>1
  <2>3. QED BY <1>3, <2>1, <2>2 DEF BufferType
<1>5. Held(b) /\ Within(b.time, b.base, MaxDelta)
  BY <1>3, <1>4 DEF Held, Exact, Unwrapped, Within
<1>6. PartialLate(b)
  <2> SUFFICES ASSUME MaxAhead < HALF_SHORT, Len(timeBuff.imp) < MAX_OUTPUT_NODES
               PROVE  timeBuff.base + HALF_SHORT <= now + MaxAhead
    BY <1>4 DEF PartialLate
  <2> DEFINE x == t - timeBuff.time
  <2>1. Len(timeBuff.imp) \in Nat /\ Offset(t) > HALF_SHORT - 1
    BY <1>1, <1>2 DEF NoRoom
  <2>2. x \in Int /\ x >= -MaxAhead /\ Offset(t) = Cut(x, HALF_INT)
    BY <1>2, OffsetKept
  <2>3. x >= HALF_SHORT
    <3>1. CASE x >= HALF_INT
      BY <2>2, <3>1
    <3>2. CASE x < HALF_INT
      <4>1. x \in -HALF_INT .. HALF_INT - 1
        BY <2>2, <3>2
      <4>2. QED BY <2>1, <2>2, <4>1, CutSmall
    <3>3. QED BY <2>2, <3>1, <3>2
  <2>4. QED BY <1>3, <2>3
<1>7. /\ sent' \in Seq(BufferType) /\ Len(sent') = Len(sent) + 1 /\ Len(sent) \in Nat
      /\ \A n \in DOMAIN sent : n \in DOMAIN sent' /\ sent'[n] = sent[n]
      /\ sent'[Len(sent) + 1] = b
      /\ \A n \in DOMAIN sent' : n \in DOMAIN sent \/ n = Len(sent) + 1
  BY <1>1, <1>3, <1>4
<1>8. TypeOK'
  <2>1. timeBuff' \in BufferType /\ Len(timeBuff'.imp) <= MAX_OUTPUT_NODES
    BY <1>1, FirstHeld
  <2>2. \A n \in DOMAIN sent' : Len(sent'[n].imp) \in 1 .. MAX_OUTPUT_NODES
    BY <1>2, <1>4, <1>7 DEF IInv, TypeOK
  <2>3. last' \in 0 .. Len(sent')
    BY <1>1, <1>7 DEF IInv, TypeOK
  <2>4. QED BY <1>1, <1>7, <2>1, <2>2, <2>3 DEF IInv, TypeOK
<1>9. Filling'
  BY <1>1, FirstHeld DEF Filling, Held, Exact, Unwrapped
<1>10. Sent'
  <2> SUFFICES ASSUME NEW n \in DOMAIN sent'
               PROVE  /\ Held(sent'[n]) /\ Within(sent'[n].time, sent'[n].base, MaxDelta)
                      /\ PartialLate(sent'[n])
    BY <1>1 DEF Sent, Held, Exact, Unwrapped, PartialLate
  <2>1. CASE n \in DOMAIN sent
    BY <1>7, <2>1 DEF IInv, Sent
  <2>2. CASE n = Len(sent) + 1
    BY <1>5, <1>6, <1>7, <2>2
  <2>3. QED BY <1>7, <2>1, <2>2
<1>11. last # 0 => last \in DOMAIN sent
  BY <1>3 DEF IInv, TypeOK
<1>12. LatestOfLast' /\ FullOrLate'
  BY <1>1, <1>7, <1>11 DEF IInv, LatestOfLast, FullOrLate
<1>13. QED BY <1>8, <1>9, <1>10, <1>12 DEF IInv

\* A subscriber accepts a buffer.
LEMMA AcceptIInv ==
    ASSUME IInv, NEW n \in DOMAIN sent, Accept(n)
    PROVE  IInv'
<1> USE Constants
<1>1. /\ ~TooOld(sent[n])
      /\ latest' = sent[n].time + delta["reader"] /\ last' = n
      /\ UNCHANGED <<now, delta, timeBuff, sent>>
  BY DEF Accept, ToLocal
<1>2. /\ sent \in Seq(BufferType) /\ sent[n] \in BufferType /\ n \in 1 .. Len(sent)
      /\ delta["reader"] \in -MaxDelta .. MaxDelta /\ now \in Nat
  BY DEF IInv, TypeOK, Host
<1>3. /\ sent[n].time \in Int /\ sent[n].base \in Nat /\ sent[n].begun \in Nat
      /\ Len(sent[n].imp) \in 1 .. MAX_OUTPUT_NODES
  BY <1>2 DEF BufferType, IInv, TypeOK
<1>4. latest' \in Int /\ Within(latest', sent[n].time, MaxDelta)
  BY <1>1, <1>2, <1>3 DEF Within
<1>5. TypeOK'
  BY <1>1, <1>2, <1>4 DEF IInv, TypeOK
<1>6. Filling' /\ Sent'
  BY <1>1 DEF IInv, Filling, IsNew, Sent, Held, Exact, Unwrapped, PartialLate
<1>7. LatestOfLast'
  BY <1>1, <1>2, <1>4 DEF LatestOfLast
<1>8. FullOrLate'
  <2> SUFFICES ASSUME MaxAhead + PACKET_LIFE_TIME + 2 * MaxDelta < HALF_SHORT
               PROVE  Len(sent[n].imp) = MAX_OUTPUT_NODES
    BY <1>1 DEF FullOrLate
  <2>1. sent[n].time + delta["reader"] + PACKET_LIFE_TIME >= now
    BY <1>1, <1>2, <1>3 DEF TooOld, ToLocal
  <2>2. sent[n].time <= sent[n].base + MaxDelta
    BY <1>3 DEF IInv, Sent, Within
  <2> DEFINE d == delta["reader"]
             base == sent[n].base
             time == sent[n].time
  <2>3. base + HALF_SHORT > now + MaxAhead
    <3>1. d \in Int /\ d <= MaxDelta /\ time \in Int /\ base \in Int /\ now \in Int
      BY <1>2, <1>3
    <3>2. time <= base + MaxDelta /\ time + d + PACKET_LIFE_TIME >= now
      BY <2>1, <2>2
    <3> HIDE DEF d, base, time
    <3>3. QED BY <3>1, <3>2
  <2>4. ~(base + HALF_SHORT <= now + MaxAhead) /\ MaxAhead < HALF_SHORT
    <3>1. base \in Int /\ now \in Int
      BY <1>2, <1>3
    <3> HIDE DEF base
    <3>2. QED BY <2>3, <3>1
  <2>5. ~(Len(sent[n].imp) < MAX_OUTPUT_NODES)
    BY <2>4 DEF IInv, Sent, PartialLate
  <2>6. QED BY <1>3, <2>5
<1>9. QED BY <1>5, <1>6, <1>7, <1>8 DEF IInv

\* A delta changes.
LEMMA AdjustIInv ==
    ASSUME IInv, NEW h \in Host, NEW d \in -MaxDelta .. MaxDelta, Adjust(h, d)
    PROVE  IInv'
<1>1. delta' \in [Host -> -MaxDelta .. MaxDelta] /\ UNCHANGED <<now, timeBuff, sent, latest, last>>
  BY DEF Adjust, IInv, TypeOK
<1>2. TypeOK'
  BY <1>1 DEF IInv, TypeOK
<1>3. Filling' /\ Sent' /\ LatestOfLast' /\ FullOrLate'
  BY <1>1 DEF IInv, Filling, IsNew, Sent, LatestOfLast, FullOrLate, Held, Exact, Unwrapped,
              PartialLate
<1>4. QED BY <1>2, <1>3 DEF IInv

\* The clock goes on.
LEMMA TickIInv == IInv /\ Tick => IInv'
<1> SUFFICES ASSUME IInv, Tick PROVE IInv'
  OBVIOUS
<1>1. /\ now \in Nat /\ now' = now + 1 /\ now' \in Nat /\ now' >= now
      /\ UNCHANGED <<delta, timeBuff, sent, latest, last>>
      /\ timeBuff \in BufferType /\ \A n \in DOMAIN sent : sent[n] \in BufferType
  BY DEF Tick, IInv, TypeOK
<1>2. TypeOK'
  BY <1>1 DEF IInv, TypeOK
<1>3. \A b \in BufferType : Held(b) => b.base \in b.begun .. b.begun + MaxAhead /\ b.begun <= now + 1 /\ Exact(b)
  <2> SUFFICES ASSUME NEW b \in BufferType, Held(b)
               PROVE  b.begun <= now + 1
    BY DEF Held
  <2>1. b.begun \in Nat
    BY DEF BufferType
  <2>2. QED BY <1>1, <2>1 DEF Held
<1>4. Filling'
  <2>1. ~IsNew => Held(timeBuff)'
    BY <1>1, <1>3 DEF IInv, Filling, Held, Exact, Unwrapped
  <2>2. QED BY <1>1, <2>1 DEF IInv, Filling, IsNew
<1>5. Sent'
  <2> SUFFICES ASSUME NEW n \in DOMAIN sent
               PROVE  /\ Held(sent[n])' /\ Within(sent[n].time, sent[n].base, MaxDelta)
                      /\ PartialLate(sent[n])'
    BY <1>1 DEF Sent, Within
  <2>1. Held(sent[n])'
    BY <1>1, <1>3 DEF IInv, Sent, Held, Exact, Unwrapped
  <2>2. PartialLate(sent[n])'
    <3>1. sent[n].base \in Nat
      BY <1>1 DEF BufferType
    <3>2. PartialLate(sent[n])
      BY DEF IInv, Sent
    <3>3. QED BY <1>1, <3>1, <3>2, Constants DEF PartialLate
  <2>3. QED BY <2>1, <2>2 DEF IInv, Sent
<1>6. LatestOfLast' /\ FullOrLate'
  BY <1>1 DEF IInv, LatestOfLast, FullOrLate
<1>7. QED BY <1>2, <1>4, <1>5, <1>6 DEF IInv

\* Every step keeps the invariant.
LEMMA NextIInv == IInv /\ [Next]_vars => IInv'
<1> SUFFICES ASSUME IInv, [Next]_vars PROVE IInv'
  OBVIOUS
<1>1. CASE UNCHANGED vars
  BY <1>1 DEF vars, IInv, TypeOK, Filling, IsNew, Sent, LatestOfLast, FullOrLate, Held, Exact,
              Unwrapped, PartialLate
<1>2. QED
  BY <1>1, StoreIInv, SendIInv, AcceptIInv, AdjustIInv, TickIInv DEF Next

\* The inductive invariant of buffers, clocks and subscribers.
LEMMA SpecIInv == Spec => []IInv
<1>1. QED BY InitIInv, NextIInv, PTL DEF Spec

-----------------------------------------------------------------------------
(* Type correctness: no buffer holds more than MAX_OUTPUT_NODES impulses,  *)
(* none is sent empty, and no offset leaves the range of int16_t.          *)
THEOREM TimeBufferTypeCorrect == Spec => []TypeOK
<1>1. IInv => TypeOK
  BY DEF IInv
<1>2. QED BY <1>1, SpecIInv, PTL

(* Subscribers on both paths read the time that was written, up to the     *)
(* errors of the deltas (TimeBuffer::write, read and prepareRead).         *)
THEOREM SubscribersReadWhatWasWritten == Spec => []TimesKept
<1>1. IInv => TimesKept
  <2> SUFFICES ASSUME IInv PROVE TimesKept
    OBVIOUS
  <2> USE Constants
  <2>1. ASSUME NEW n \in DOMAIN sent, NEW i \in DOMAIN sent[n].imp, Unwrapped(sent[n], i)
        PROVE  /\ sent[n].time \in Int /\ sent[n].base \in Int
               /\ sent[n].imp[i].dt \in Int /\ sent[n].imp[i].at \in Int
               /\ sent[n].imp[i].dt = sent[n].imp[i].at - sent[n].base
               /\ Within(sent[n].time, sent[n].base, MaxDelta)
    <3>1. sent[n] \in BufferType
      BY DEF IInv, TypeOK
    <3>2. sent[n].imp[i] \in ImpulseType
      BY <3>1 DEF BufferType
    <3>3. Exact(sent[n]) /\ Within(sent[n].time, sent[n].base, MaxDelta)
      BY DEF IInv, Sent, Held
    <3>4. QED BY <2>1, <3>1, <3>2, <3>3 DEF BufferType, ImpulseType, Exact
  <2>2. ASSUME NEW n \in DOMAIN sent, NEW i \in DOMAIN sent[n].imp, Unwrapped(sent[n], i)
        PROVE  Within(Read(sent[n].time, sent[n], i), sent[n].imp[i].at, MaxDelta)
    <3> DEFINE time == sent[n].time
               base == sent[n].base
               dt == sent[n].imp[i].dt
               at == sent[n].imp[i].at
    <3>1. /\ time \in Int /\ base \in Int /\ dt \in Int /\ at \in Int
          /\ dt = at - base /\ Within(time, base, MaxDelta)
      BY <2>1, <2>2
    <3>2. Within(time + dt, at, MaxDelta)
      <4> HIDE DEF time, base, dt, at
      <4>1. QED BY <3>1 DEF Within
    <3>3. QED BY <3>2 DEF Read
  <2>3. ASSUME last # 0, NEW i \in DOMAIN sent[last].imp, Unwrapped(sent[last], i)
        PROVE  Within(Read(latest, sent[last], i), sent[last].imp[i].at, 2 * MaxDelta)
    <3>1. last \in DOMAIN sent /\ latest \in Int
      BY <2>3 DEF IInv, TypeOK
    <3>2. Within(latest, sent[last].time, MaxDelta)
      BY <2>3 DEF IInv, LatestOfLast
    <3>3. ASSUME NEW x \in Int, NEW y \in Int, NEW z \in Int,
                 Within(x, y, MaxDelta), Within(y, z, MaxDelta)
          PROVE  Within(x, z, 2 * MaxDelta)
      BY <3>3 DEF Within
    <3> DEFINE time == sent[last].time
               base == sent[last].base
               dt == sent[last].imp[i].dt
               at == sent[last].imp[i].at
    <3>4. /\ time \in Int /\ base \in Int /\ dt \in Int /\ at \in Int
          /\ dt = at - base /\ Within(time, base, MaxDelta)
      BY <2>1, <2>3, <3>1
    <3>5. Within(latest + dt, at, 2 * MaxDelta)
      <4>1. Within(latest, time, MaxDelta) /\ latest \in Int
        BY <3>1, <3>2
      <4> HIDE DEF time, base, dt, at
      <4>2. Within(latest, base, 2 * MaxDelta)
        BY <3>3, <3>4, <4>1
      <4>3. QED BY <3>4, <4>1, <4>2 DEF Within
    <3>6. QED BY <3>5 DEF Read
  <2>4. QED BY <2>2, <2>3 DEF TimesKept
<1>2. QED BY <1>1, SpecIInv, PTL

(* Only a buffer that waited for half the range of an int makes write      *)
(* throw away impulses of a cluster that keeps near its clock.             *)
THEOREM ImpulsesLostOnlyWhenIdle == Spec => []LostOnlyIdle
<1>1. IInv => LostOnlyIdle
  <2> SUFFICES ASSUME IInv, MaxAhead <= HALF_SHORT, NEW t \in now .. now + MaxAhead, Old(t)
               PROVE  now - timeBuff.begun >= HALF_INT - MaxAhead
    BY DEF LostOnlyIdle
  <2> USE Constants
  <2> DEFINE x == t - timeBuff.time
  <2>1. ~IsNew
    BY DEF Old, Offset
  <2>2. /\ timeBuff.time \in Int /\ timeBuff.begun \in Int /\ now \in Int
        /\ timeBuff.time >= timeBuff.begun
    BY <2>1 DEF IInv, TypeOK, BufferType, Filling, Held
  <2>3. x \in Int /\ x >= -MaxAhead /\ Offset(t) = Cut(x, HALF_INT)
    BY <2>1, OffsetKept
  <2>4. ASSUME x < HALF_INT PROVE FALSE
    <3>1. x \in -HALF_INT .. HALF_INT - 1
      BY <2>3, <2>4
    <3>2. Offset(t) = x
      BY <2>3, <3>1, CutSmall
    <3>3. QED BY <2>3, <3>2 DEF Old
  <2>5. QED BY <2>2, <2>3, <2>4
<1>2. QED BY <1>1, SpecIInv, PTL

(* What reaches another host is full: a buffer that an impulse too far     *)
(* away pushed out is older than a datagram may be.                        *)
THEOREM OnlyFullBuffersInTime == Spec => []FullOrLate
<1>1. IInv => FullOrLate
  BY DEF IInv
<1>2. QED BY <1>1, SpecIInv, PTL

(* The reader refuses the buffers of a source as out of order for a        *)
(* bounded time only, whatever the source's times and the deltas do.       *)
THEOREM SourcesAreNotSilenced == Spec => []SilenceIsShort
<1>1. IInv => SilenceIsShort
  <2> SUFFICES ASSUME IInv, NEW n \in DOMAIN sent, OutOfOrder(sent[n])
               PROVE  last # 0 /\ sent[n].begun < sent[last].begun + MaxAhead + 4 * MaxDelta
    BY DEF SilenceIsShort
  <2> USE Constants
  <2>1. \A k \in DOMAIN sent :
          /\ sent[k].time \in Int /\ sent[k].base \in Int /\ sent[k].begun \in Int
          /\ sent[k].base >= sent[k].begun /\ sent[k].base <= sent[k].begun + MaxAhead
          /\ sent[k].time <= sent[k].base + MaxDelta /\ sent[k].time >= sent[k].base - MaxDelta
          /\ sent[k].time >= -MaxDelta
    <3> SUFFICES ASSUME NEW k \in DOMAIN sent
                 PROVE  /\ sent[k].time \in Int /\ sent[k].base \in Int /\ sent[k].begun \in Int
                        /\ sent[k].base >= sent[k].begun /\ sent[k].base <= sent[k].begun + MaxAhead
                        /\ sent[k].time <= sent[k].base + MaxDelta
                        /\ sent[k].time >= sent[k].base - MaxDelta
                        /\ sent[k].time >= -MaxDelta
      OBVIOUS
    <3> DEFINE time == sent[k].time
               base == sent[k].base
               begun == sent[k].begun
    <3>1. time \in Int /\ base \in Nat /\ begun \in Nat
      <4>1. sent[k] \in BufferType
        BY DEF IInv, TypeOK
      <4>2. QED BY <4>1 DEF BufferType
    <3>2. base \in begun .. begun + MaxAhead /\ Within(time, base, MaxDelta)
      BY DEF IInv, Sent, Held
    <3>3. /\ time \in Int /\ base \in Int /\ begun \in Int
          /\ base >= begun /\ base <= begun + MaxAhead
          /\ time <= base + MaxDelta /\ time >= base - MaxDelta /\ time >= -MaxDelta
      <4> HIDE DEF time, base, begun
      <4>1. QED BY <3>1, <3>2 DEF Within
    <3>4. QED BY <3>3
  <2>2. /\ delta["reader"] \in Int /\ delta["reader"] >= -MaxDelta
        /\ latest \in Int /\ latest > sent[n].time + delta["reader"]
    BY DEF OutOfOrder, ToLocal, IInv, TypeOK, Host
  <2>3. last # 0
    BY <2>1, <2>2 DEF IInv, LatestOfLast
  <2>4. last \in DOMAIN sent /\ latest <= sent[last].time + MaxDelta
    <3>1. last \in DOMAIN sent
      BY <2>3 DEF IInv, TypeOK
    <3>2. Within(latest, sent[last].time, MaxDelta)
      BY <2>3 DEF IInv, LatestOfLast
    <3>3. QED BY <2>1, <2>2, <3>1, <3>2 DEF Within
  <2>5. QED BY <2>1, <2>2, <2>3, <2>4
<1>2. QED BY <1>1, SpecIInv, PTL
=============================================================================
