----------------------------- MODULE TimeBuffer -----------------------------
(***************************************************************************)
(* The times of impulses on their way from a cluster to its subscribers:   *)
(* TimeBuffer (lib/timebuff.h), Server::write that fills and sends it, the *)
(* checks of Network::readVerify, and TimeSync's conversions.  A buffer    *)
(* stores the time of its first impulse and 16 bit offsets from it.        *)
(*                                                                         *)
(* A server on host "writer" sends over the network to host "reader" and   *)
(* through memory to a subscriber of its own process.  The clocks of both  *)
(* hosts agree (see TimeSync for clocks that do not) and are one variable; *)
(* their deltas move, as TimeSync adjusts them.  A datagram may be read    *)
(* late, out of order, many times or never.                                *)
(*                                                                         *)
(* A time is a number of microseconds; base, begun and at are recorded     *)
(* for the properties only, the program does not have them.                *)
(***************************************************************************)
EXTENDS Integers, Sequences

CONSTANTS MAX_OUTPUT_NODES,  \* impulses a buffer holds
          HALF_SHORT,        \* int16_t holds -HALF_SHORT .. HALF_SHORT - 1
          HALF_INT,          \* int holds -HALF_INT .. HALF_INT - 1
          PACKET_LIFE_TIME,  \* a datagram older than this is dropped
          MaxAhead,          \* how far a cluster's times are ahead of its clock
          MaxDelta,          \* how far delta is from 0 on either host
          MaxNow,            \* bound of the model: the last time
          MaxSent            \* bound of the model: buffers sent, after which no impulse comes

ASSUME WidthAssumption ==
    /\ MAX_OUTPUT_NODES \in Nat \ {0}
    /\ HALF_SHORT \in Nat \ {0} /\ HALF_INT \in Nat /\ HALF_SHORT <= HALF_INT
ASSUME TimeAssumption ==
    /\ PACKET_LIFE_TIME \in Nat /\ MaxAhead \in Nat /\ MaxDelta \in Nat
    /\ MaxNow \in Nat /\ MaxSent \in Nat

Host == {"writer", "reader"}

VARIABLES now,       \* the clock of both hosts
          delta,     \* TimeSync::delta of each host
          timeBuff,  \* Server: the buffer being filled
          sent,      \* the buffers handed to outQ and to the network
          latest,    \* the reader's sequences[] entry for the writer's cluster:
                     \* the time of the last buffer that readVerify let pass
          last       \* which buffer that was; 0: none yet

vars == <<now, delta, timeBuff, sent, latest, last>>

ToNetwork(t) == t - delta["writer"]
ToLocal(t) == t + delta["reader"]

\* A time is unset in a buffer that holds nothing, and only there.
NewBuffer == [time |-> 0, base |-> 0, begun |-> 0, imp |-> << >>]
IsNew == timeBuff.imp = << >>

\* A long long cut to a signed type that holds -half .. half - 1
Cut(x, half) == ((x + half) % (2 * half)) - half

Init ==
    /\ now = 0
    /\ delta \in [Host -> -MaxDelta .. MaxDelta]
    /\ timeBuff = NewBuffer
    /\ sent = << >>
    /\ latest = -(2 * MaxDelta + PACKET_LIFE_TIME)    \* the epoch, long ago
    /\ last = 0

-----------------------------------------------------------------------------
(* TimeBuffer::write and the loop around it in Server::write               *)

\* deltaTus: t - time in microseconds, an int
Offset(t) == IF IsNew THEN 0 ELSE Cut(t - timeBuff.time, HALF_INT)

\* Mutation (LostOnlyIdle): every impulse earlier than the first is old.
OldNegative(t) == Offset(t) < 0

\* "throw away old impulses": write returns 0 and nothing changes
Old(t) == Offset(t) < -HALF_SHORT

\* Mutation (TimesKept): offsets are not compared with the range of int16_t.
NoRoomUnranged(t) == Len(timeBuff.imp) >= MAX_OUTPUT_NODES
\* Mutation (TypeOK): one impulse too many.
NoRoomOffByOne(t) ==
    \/ Len(timeBuff.imp) > MAX_OUTPUT_NODES
    \/ Offset(t) > HALF_SHORT - 1

NoRoom(t) ==
    \/ Len(timeBuff.imp) >= MAX_OUTPUT_NODES
    \/ Offset(t) > HALF_SHORT - 1

Impulse(dt, t) == [dt |-> Cut(dt, HALF_SHORT), at |-> t]
First(t) == [time |-> t, base |-> t, begun |-> now, imp |-> <<Impulse(0, t)>>]

Store(t) ==
    /\ ~Old(t) /\ ~NoRoom(t)
    /\ Len(sent) < MaxSent
    /\ timeBuff' = IF IsNew THEN First(t)
                   ELSE [timeBuff EXCEPT !.imp = Append(@, Impulse(Offset(t), t))]
    /\ UNCHANGED <<now, delta, sent, latest, last>>

\* write fails: it has converted the buffer's time, the buffer goes to outQ and
\* to the network, and the second call writes to a new one.
SendAndStore(t) ==
    /\ ~Old(t) /\ NoRoom(t)
    /\ Len(sent) < MaxSent
    /\ sent' = Append(sent, [timeBuff EXCEPT !.time = ToNetwork(@)])
    /\ timeBuff' = First(t)
    /\ UNCHANGED <<now, delta, latest, last>>

-----------------------------------------------------------------------------
(* Network::readVerify on the reader, of any buffer sent so far.  One that *)
(* is dropped changes nothing.                                             *)

TooOld(b) == ToLocal(b.time) + PACKET_LIFE_TIME < now
\* Mutation (SilenceIsShort): the life time is counted where it does not belong.
OutOfOrderEarly(b) == latest + PACKET_LIFE_TIME > ToLocal(b.time)

OutOfOrder(b) == latest > ToLocal(b.time)

\* Mutation (FullOrLate): the age of a datagram is not looked at.
AcceptAnyAge(n) ==
    LET b == sent[n] IN
    /\ ~OutOfOrder(b)
    /\ latest' = ToLocal(b.time)
    /\ last' = n
    /\ UNCHANGED <<now, delta, timeBuff, sent>>

Accept(n) ==
    LET b == sent[n] IN
    /\ ~TooOld(b) /\ ~OutOfOrder(b)
    /\ latest' = ToLocal(b.time)
    /\ last' = n
    /\ UNCHANGED <<now, delta, timeBuff, sent>>

-----------------------------------------------------------------------------
\* TimeSync::calculate on either host
Adjust(h, d) ==
    /\ d # delta[h]
    /\ delta' = [delta EXCEPT ![h] = d]
    /\ UNCHANGED <<now, timeBuff, sent, latest, last>>

Tick ==
    /\ now < MaxNow
    /\ now' = now + 1
    /\ UNCHANGED <<delta, timeBuff, sent, latest, last>>

\* A cluster stamps its impulses with its clock or, as the dummy cluster does
\* (dummy.cpp:27), with times that run ahead of it; their order is arbitrary.
Next ==
    \/ \E t \in now .. now + MaxAhead : Store(t) \/ SendAndStore(t)
    \/ \E n \in DOMAIN sent : Accept(n)
    \/ \E h \in Host, d \in -MaxDelta .. MaxDelta : Adjust(h, d)
    \/ Tick

Spec == Init /\ [][Next]_vars

-----------------------------------------------------------------------------
\* TimeBuffer::read: when impulse i of b fires for a subscriber whose copy of
\* the buffer has that time
Read(time, b, i) == time + b.imp[i].dt

Within(x, y, error) == x - y <= error /\ y - x <= error

ImpulseType == [dt : -HALF_SHORT .. HALF_SHORT - 1, at : Nat]
BufferType == [time : Int, base : Nat, begun : Nat, imp : Seq(ImpulseType)]

(* The widths and the capacity are kept; what is sent is never empty.      *)
TypeOK ==
    /\ now \in Nat
    /\ delta \in [Host -> -MaxDelta .. MaxDelta]
    /\ timeBuff \in BufferType /\ Len(timeBuff.imp) <= MAX_OUTPUT_NODES
    /\ sent \in Seq(BufferType)
    /\ \A n \in DOMAIN sent : Len(sent[n].imp) \in 1 .. MAX_OUTPUT_NODES
    /\ latest \in Int
    /\ last \in 0 .. Len(sent)

\* The offset was not cut to a wrong one: HALF_INT is 2^31, 36 minutes.
Unwrapped(b, i) ==
    b.imp[i].at - b.base \in HALF_SHORT - 2 * HALF_INT .. 2 * HALF_INT - HALF_SHORT - 1

(* Every subscriber reads the time that was written, but for the deltas of *)
(* the hosts the buffer passed: two over the network, where prepareRead    *)
(* undoes the conversion, one through memory, where nothing does           *)
(* (main.cpp:104).  Only an impulse 2^32 microseconds away from the first  *)
(* one of its buffer is read as another time (timebuff.h:47).              *)
TimesKept ==
    /\ \A n \in DOMAIN sent : \A i \in DOMAIN sent[n].imp :
          Unwrapped(sent[n], i)
            => Within(Read(sent[n].time, sent[n], i), sent[n].imp[i].at, MaxDelta)
    /\ last # 0 => \A i \in DOMAIN sent[last].imp :
          Unwrapped(sent[last], i)
            => Within(Read(latest, sent[last], i), sent[last].imp[i].at, 2 * MaxDelta)

(* A cluster that is not further ahead of its clock than an offset reaches *)
(* has no impulse thrown away as old (timebuff.h:48), until its buffer has *)
(* waited for half the range of an int: then impulses are lost although    *)
(* they are new.                                                           *)
LostOnlyIdle ==
    MaxAhead <= HALF_SHORT =>
        \A t \in now .. now + MaxAhead :
            Old(t) => now - timeBuff.begun >= HALF_INT - MaxAhead

(* A buffer that was not full when it left is always too old for the other *)
(* host: it left because an impulse came more than 32 ms after its first   *)
(* one (timebuff.h:50), and PACKET_LIFE_TIME_MS is 20.  Only full buffers  *)
(* reach other hosts.                                                      *)
FullOrLate ==
    MaxAhead + PACKET_LIFE_TIME + 2 * MaxDelta < HALF_SHORT =>
        last = 0 \/ Len(sent[last].imp) = MAX_OUTPUT_NODES

(* The reader drops as out of order (network.cpp:104) only what was begun  *)
(* before, or soon after, the buffer it accepted last: a cluster whose     *)
(* times go back, or a delta that moves, silences a source no longer.      *)
SilenceIsShort ==
    \A n \in DOMAIN sent : OutOfOrder(sent[n]) =>
        last # 0 /\ sent[n].begun < sent[last].begun + MaxAhead + 4 * MaxDelta
=============================================================================
