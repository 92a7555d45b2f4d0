--------------------------- MODULE TimeSyncProofs ---------------------------
(***************************************************************************)
(* Proofs about TimeSync for any number of hosts, any skew, any delay and  *)
(* any behaviour of the time server, the tracker and UDP.                  *)
(***************************************************************************)
EXTENDS TimeSync, TLAPS

(* A third of the way, rounded towards zero, does not pass the goal.       *)
LEMMA QuotientApproaches ==
    ASSUME NEW d \in Int
    PROVE  /\ Quotient(d, 3) \in Int
           /\ d >= 0 => Quotient(d, 3) \in 0 .. d
           /\ d < 0 => Quotient(d, 3) \in d .. 0
<1>1. CASE d >= 0
  <2>1. d \div 3 \in 0 .. d
    BY <1>1
  <2>2. QED BY <1>1, <2>1 DEF Quotient
<1>2. CASE d < 0
  <2>1. (-d) \div 3 \in 0 .. -d
    BY <1>2
  <2>2. QED BY <1>2, <2>1 DEF Quotient
<1>3. QED BY <1>1, <1>2

(* The latest request is not older than the one a datagram belongs to: this*)
(* is what bounds the error of an estimate made from the wrong request.    *)
Matched ==
    \A m \in net :
        /\ m.cmd = "TIME" => lastLocal[m.host] <= m.age
        /\ m.cmd = "T" => lastLocal[m.host] <= m.age + MaxDelay

IInv == TypeOK /\ Matched /\ DeltaBounded

\* Sending adds at most one datagram.
LEMMA SendAdds ==
    ASSUME NEW others, NEW m, Send(others, m)
    PROVE  net' \subseteq others \cup {m}
<1>1. QED BY DEF Send

\* What a datagram is follows from its kind.
LEMMA MessageForms ==
    ASSUME NEW m \in Message
    PROVE  /\ m.age \in 0 .. MaxDelay
           /\ m.cmd \in {"GET", "DROP", "T"} =>
                m \in [cmd : {"GET", "DROP", "T"}, host : Host, age : 0 .. MaxDelay]
           /\ m.cmd \in {"POINT", "TIME"} =>
                m \in [cmd : {"POINT", "TIME"}, host : Host, addr : Port, age : 0 .. MaxDelay]
           /\ m.cmd = "ID" => m \in [cmd : {"ID"}, addr : Port, age : 0 .. MaxDelay]
           /\ m.cmd \in {"GET", "DROP", "T", "POINT", "TIME", "ID"}
<1>1. CASE m \in [cmd : {"GET", "DROP", "T"}, host : Host, age : 0 .. MaxDelay]
  BY <1>1
<1>2. CASE m \in [cmd : {"POINT", "TIME"}, host : Host, addr : Port, age : 0 .. MaxDelay]
  BY <1>2
<1>3. CASE m \in [cmd : {"ID"}, addr : Port, age : 0 .. MaxDelay]
  BY <1>3
<1>4. QED BY <1>1, <1>2, <1>3 DEF Message

\* What is sent has its type.
LEMMA NewMessages ==
    ASSUME NEW h \in Host, NEW p \in Port
    PROVE  /\ \A c \in {"GET", "DROP", "T"} : Request(c, h) \in Message
           /\ \A c \in {"POINT", "TIME"} : Addressed(c, h, p) \in Message
           /\ Registration(p) \in Message
<1>1. 0 \in 0 .. MaxDelay
  BY IntervalAssumption
<1>2. QED BY <1>1 DEF Message, Request, Addressed, Registration

(* An estimate is off by no more than the delay.                           *)
LEMMA DiffClose ==
    ASSUME NEW h \in Host, NEW age \in 0 .. MaxDelay, TypeOK,
           lastLocal[h] <= age + MaxDelay
    PROVE  Diff(h, age) \in (skew[h] - MaxDelay) .. (skew[h] + MaxDelay)
<1>1. /\ skew[h] \in Int /\ lastLocal[h] \in Int /\ lastLocal[h] >= 0
      /\ MaxDelay \in Nat /\ age \in Int /\ 0 <= age /\ age <= MaxDelay
  <2>1. skew[h] \in Skew /\ lastLocal[h] \in 0 .. MaxAge
    BY DEF TypeOK
  <2>2. skew[h] \in Int
    BY <2>1, SkewAssumption
  <2>3. MaxAge \in Nat
    BY IntervalAssumption DEF MaxAge, SYNC_TIMEOUT
  <2>4. QED BY <2>1, <2>2, <2>3, IntervalAssumption
<1>2. QED
  <2> DEFINE half == lastLocal[h] \div 2
  <2>1. half \in Int /\ 2 * half <= lastLocal[h] /\ lastLocal[h] <= 2 * half + 1
    BY <1>1
  <2>2. Diff(h, age) = (skew[h] + lastLocal[h] - age) - half
    BY DEF Diff
  <2> HIDE DEF half
  <2>3. Diff(h, age) \in Int
    BY <1>1, <2>1, <2>2
  <2>4. skew[h] - MaxDelay <= Diff(h, age)
    BY <1>1, <2>1, <2>2
  <2>5. Diff(h, age) <= skew[h] + MaxDelay
    BY <1>1, <2>1, <2>2
  <2>6. QED BY <1>1, <2>3, <2>4, <2>5

-----------------------------------------------------------------------------
\* Nothing was asked yet.
LEMMA InitIInv == Init => IInv
<1> SUFFICES ASSUME Init PROVE IInv
  OBVIOUS
<1>1. TypeOK
  BY IntervalAssumption, BoundAssumption, PortAssumption
  DEF Init, TypeOK, MaxAge, SYNC_TIMEOUT
<1>2. Matched
  BY DEF Init, Matched
<1>3. DeltaBounded
  <2> SUFFICES ASSUME NEW h \in Host
               PROVE  /\ Least(0, skew[h] - MaxDelay) <= delta[h]
                      /\ delta[h] <= Greatest(0, skew[h] + MaxDelay)
    BY DEF DeltaBounded
  <2>1. skew[h] \in Int /\ delta[h] = 0 /\ MaxDelay \in Nat
    BY SkewAssumption, IntervalAssumption DEF Init
  <2>2. QED BY <2>1 DEF Least, Greatest
<1>4. QED BY <1>1, <1>2, <1>3 DEF IInv

(* One calculation keeps delta in its bounds.                              *)
LEMMA CalculateBounded ==
    ASSUME TypeOK, DeltaBounded, NEW h \in Host, NEW age \in 0 .. MaxDelay,
           lastLocal[h] <= age + MaxDelay, Calculate(h, age), skew' = skew
    PROVE  delta' \in [Host -> Int] /\ DeltaBounded'
<1> DEFINE d == Diff(h, age) - delta[h]
<1>1. /\ skew \in [Host -> Int] /\ delta \in [Host -> Int] /\ MaxDelay \in Nat
  BY SkewAssumption, IntervalAssumption DEF TypeOK
<1>2. Diff(h, age) \in (skew[h] - MaxDelay) .. (skew[h] + MaxDelay)
  BY DiffClose
<1>3. d \in Int
  BY <1>1, <1>2
<1>4. /\ Quotient(d, 3) \in Int
      /\ d >= 0 => Quotient(d, 3) \in 0 .. d
      /\ d < 0 => Quotient(d, 3) \in d .. 0
  BY <1>3, QuotientApproaches
<1>5. delta' = [delta EXCEPT ![h] = @ + Quotient(d, 3)]
  BY DEF Calculate
<1> HIDE DEF d
<1>6. delta' \in [Host -> Int]
  BY <1>1, <1>4, <1>5
<1>7. ASSUME NEW g \in Host
      PROVE  /\ Least(0, skew[g] - MaxDelay) <= delta'[g]
             /\ delta'[g] <= Greatest(0, skew[g] + MaxDelay)
  <2>1. /\ Least(0, skew[g] - MaxDelay) <= delta[g]
        /\ delta[g] <= Greatest(0, skew[g] + MaxDelay)
    BY DEF DeltaBounded
  <2>2. CASE g # h
    BY <1>1, <1>5, <2>1, <2>2
  <2>3. CASE g = h
    <3>1. delta'[h] = delta[h] + Quotient(d, 3)
      BY <1>1, <1>5
    <3>2. d = Diff(h, age) - delta[h]
      BY DEF d
    <3>3. CASE d >= 0
      BY <1>1, <1>2, <1>3, <1>4, <2>1, <2>3, <3>1, <3>2, <3>3 DEF Least, Greatest
    <3>4. CASE d < 0
      BY <1>1, <1>2, <1>3, <1>4, <2>1, <2>3, <3>1, <3>2, <3>4 DEF Least, Greatest
    <3>5. QED BY <1>3, <3>3, <3>4
  <2>4. QED BY <2>2, <2>3
<1>8. QED BY <1>6, <1>7 DEF DeltaBounded

-----------------------------------------------------------------------------
(* Steps that only send: one datagram joins net, or some leave it.         *)
LEMMA NetStep ==
    ASSUME IInv, UNCHANGED <<skew, delta, lastLocal, port, moves>>,
           lastReply' \in [Host -> 0 .. MaxAge],
           serverAddr' \in [Host -> Port \cup {NoPort}],
           record' \in Port \cup {NoPort}, forgets' \in 0 .. MaxForgets,
           \A m \in net' \ net :
               /\ m \in Message
               /\ m.cmd = "TIME" => lastLocal[m.host] <= m.age
               /\ m.cmd = "T" => lastLocal[m.host] <= m.age + MaxDelay
    PROVE  IInv'
<1>1. TypeOK'
  BY DEF IInv, TypeOK
<1>2. Matched'
  BY DEF IInv, Matched
<1>3. DeltaBounded'
  BY DEF IInv, DeltaBounded
<1>4. QED BY <1>1, <1>2, <1>3 DEF IInv

\* A new request is the latest.
LEMMA ZeroAge == 0 \in 0 .. MaxAge /\ MaxAge \in Nat
<1>1. QED BY IntervalAssumption DEF MaxAge, SYNC_TIMEOUT

\* Taking a datagram leaves a subset.
LEMMA TakenShrinks ==
    ASSUME NEW m, Taken(m)
    PROVE  net' \subseteq net
<1>1. QED BY DEF Taken

\* Every step of hosts, servers and clock keeps the invariant.
LEMMA NextIInv ==
    ASSUME IInv, [Next]_vars
    PROVE  IInv'
<1> USE DEF IInv
<1>1. ASSUME NEW h \in Host, AskTracker(h) PROVE IInv'
  <2>1. net' \subseteq net \cup {Request("GET", h)}
    BY <1>1, SendAdds DEF AskTracker
  <2>2. Request("GET", h) \in Message /\ Request("GET", h).cmd = "GET"
    BY NewMessages, PortAssumption DEF Request, TypeOK
  <2>3. lastReply' \in [Host -> 0 .. MaxAge]
    BY <1>1, ZeroAge DEF AskTracker, TypeOK
  <2>4. QED BY <1>1, <2>1, <2>2, <2>3, NetStep DEF AskTracker, world, TypeOK
<1>2. ASSUME NEW h \in Host, AskTime(h) PROVE IInv'
  <2> DEFINE m == Addressed("TIME", h, serverAddr[h])
  <2>1. serverAddr[h] \in Port
    BY <1>2 DEF AskTime, TypeOK
  <2>2. m \in Message /\ m.cmd = "TIME" /\ m.host = h /\ m.age = 0
    BY <2>1, NewMessages DEF Addressed
  <2>3. net' \subseteq net \cup {m}
    BY <1>2, SendAdds DEF AskTime
  <2> HIDE DEF m
  <2>4. lastLocal' = [lastLocal EXCEPT ![h] = 0] /\ lastLocal \in [Host -> 0 .. MaxAge]
    BY <1>2 DEF AskTime, TypeOK
  <2>5. TypeOK'
    BY <1>2, <2>2, <2>3, <2>4, ZeroAge DEF AskTime, world, TypeOK
  <2>6. ASSUME NEW n \in net'
        PROVE  /\ n.cmd = "TIME" => lastLocal'[n.host] <= n.age
               /\ n.cmd = "T" => lastLocal'[n.host] <= n.age + MaxDelay
    <3>1. CASE n = m
      <4>1. lastLocal'[h] = 0
        BY <2>4
      <4>2. QED BY <2>2, <3>1, <4>1
    <3>2. CASE n \in net /\ n.cmd \in {"T", "TIME"}
      <4>1. n \in Message
        BY <3>2 DEF TypeOK
      <4>2. n.host \in Host /\ n.age \in 0 .. MaxDelay
        BY <3>2, <4>1, MessageForms
      <4>3. lastLocal'[n.host] \in {0, lastLocal[n.host]}
        BY <2>4, <4>2
      <4>4. MaxDelay \in Nat
        BY IntervalAssumption
      <4>5. QED BY <3>2, <4>2, <4>3, <4>4 DEF Matched
    <3>3. QED BY <2>3, <3>1, <3>2
  <2>7. Matched'
    BY <2>6 DEF Matched
  <2>8. DeltaBounded'
    BY <1>2 DEF AskTime, world, DeltaBounded
  <2>9. QED BY <2>5, <2>7, <2>8
<1>3. ASSUME NEW h \in Host, ReceiveT(h) PROVE IInv'
  <2>1. PICK m \in net : /\ m.cmd = "T" /\ m.host = h
                         /\ Taken(m) /\ Calculate(h, m.age)
    BY <1>3 DEF ReceiveT
  <2>2. UNCHANGED <<lastLocal, serverAddr, skew, port, record, moves, forgets>>
    BY <1>3 DEF ReceiveT, world
  <2>3. lastReply' = [lastReply EXCEPT ![h] = 0]
    BY <1>3 DEF ReceiveT
  <2>4. m.age \in 0 .. MaxDelay
    BY MessageForms DEF TypeOK
  <2>5. lastLocal[h] <= m.age + MaxDelay
    BY <2>1 DEF Matched
  <2>6. delta' \in [Host -> Int] /\ DeltaBounded'
    BY <2>1, <2>2, <2>4, <2>5, CalculateBounded
  <2>7. net' \subseteq net
    BY <2>1, TakenShrinks
  <2>8. TypeOK'
    BY <2>2, <2>3, <2>6, <2>7, ZeroAge DEF TypeOK
  <2>9. Matched'
    BY <2>2, <2>7 DEF Matched
  <2>10. QED BY <2>6, <2>8, <2>9
<1>4. ASSUME NEW h \in Host, ReceivePoint(h) PROVE IInv'
  <2>1. PICK m \in net : /\ m.cmd = "POINT" /\ Taken(m)
                         /\ serverAddr' = [serverAddr EXCEPT ![h] = m.addr]
    BY <1>4 DEF ReceivePoint
  <2>2. m \in Message
    BY DEF TypeOK
  <2>3. m.addr \in Port
    BY <2>1, <2>2, MessageForms
  <2>4. net' \subseteq net
    BY <2>1, TakenShrinks
  <2>5. QED BY <1>4, <2>1, <2>3, <2>4, NetStep DEF ReceivePoint, world, TypeOK
<1>5. ASSUME NEW h \in Host, ReceiveDrop(h) PROVE IInv'
  <2>1. net' \subseteq net /\ serverAddr' = [serverAddr EXCEPT ![h] = NoPort]
    BY <1>5, TakenShrinks DEF ReceiveDrop
  <2>2. QED BY <1>5, <2>1, NetStep DEF ReceiveDrop, world, TypeOK
<1>6. ASSUME NEW h \in Host, AnswerTime(h) PROVE IInv'
  <2>1. PICK m \in net : /\ m.cmd = "TIME" /\ m.host = h
                         /\ \E others \in {net, net \ {m}} : Send(others, Request("T", h))
    BY <1>6 DEF AnswerTime
  <2>2. net' \subseteq net \cup {Request("T", h)}
    BY <2>1, SendAdds
  <2>3. /\ Request("T", h) \in Message /\ Request("T", h).cmd = "T"
        /\ Request("T", h).host = h /\ Request("T", h).age = 0
    BY NewMessages DEF Request, TypeOK
  <2>4. lastLocal[h] <= 0 + MaxDelay
    <3>1. m.age \in 0 .. MaxDelay /\ lastLocal[h] <= m.age
      BY <2>1, MessageForms DEF TypeOK, Matched
    <3>2. lastLocal[h] \in Int /\ MaxDelay \in Nat
      BY ZeroAge, IntervalAssumption DEF TypeOK
    <3>3. QED BY <3>1, <3>2
  <2>5. QED BY <1>6, <2>2, <2>3, <2>4, NetStep DEF AnswerTime, host, world, TypeOK
<1>7. ASSUME NEW h \in Host, AnswerGet(h) PROVE IInv'
  <2> DEFINE r == IF record = NoPort THEN Request("DROP", h)
                  ELSE Addressed("POINT", h, record)
  <2>1. net' \subseteq net \cup {r}
    BY <1>7, SendAdds DEF AnswerGet
  <2>2. r \in Message /\ r.cmd \in {"DROP", "POINT"}
    <3>1. CASE record = NoPort
      BY <3>1, NewMessages DEF Request, TypeOK
    <3>2. CASE record \in Port
      BY <3>2, NewMessages, PortAssumption DEF Addressed
    <3>3. QED BY <3>1, <3>2 DEF TypeOK
  <2> HIDE DEF r
  <2>3. QED BY <1>7, <2>1, <2>2, NetStep DEF AnswerGet, host, world, TypeOK
<1>8. CASE Announce
  <2>1. net' \subseteq net \cup {Registration(port)}
    BY <1>8, SendAdds DEF Announce
  <2>2. Registration(port) \in Message /\ Registration(port).cmd = "ID"
    <3>1. 0 \in 0 .. MaxDelay
      BY IntervalAssumption
    <3>2. QED BY <3>1 DEF Registration, Message, TypeOK
  <2>3. QED BY <1>8, <2>1, <2>2, NetStep DEF Announce, host, world, TypeOK
<1>9. CASE Move
  <2>1. TypeOK'
    BY <1>9, BoundAssumption DEF Move, host, TypeOK
  <2>2. QED BY <1>9, <2>1 DEF Move, host, Matched, DeltaBounded
<1>10. CASE Register
  <2>1. PICK m \in net : m.cmd = "ID" /\ Taken(m) /\ record' = m.addr
    BY <1>10 DEF Register
  <2>2. m \in Message
    BY DEF TypeOK
  <2>3. m.addr \in Port
    BY <2>1, <2>2, MessageForms
  <2>4. net' \subseteq net
    BY <2>1, TakenShrinks
  <2>5. QED BY <1>10, <2>1, <2>3, <2>4, NetStep DEF Register, host, TypeOK
<1>11. CASE Forget
  <2>1. forgets' \in 0 .. MaxForgets
    BY <1>11, BoundAssumption DEF Forget, TypeOK
  <2>2. QED BY <1>11, <2>1, NetStep DEF Forget, host, TypeOK
<1>12. CASE Lose
  BY <1>12, NetStep DEF Lose, host, world, TypeOK
<1>13. CASE Tick
  <2>1. ASSUME NEW a \in 0 .. MaxAge PROVE Older(a) \in 0 .. MaxAge /\ Older(a) <= a + 1
    BY ZeroAge DEF Older
  <2>2. /\ lastLocal' = [h \in Host |-> Older(lastLocal[h])]
        /\ lastReply' = [h \in Host |-> Older(lastReply[h])]
        /\ net' = {[m EXCEPT !.age = @ + 1] : m \in {n \in net : n.age < MaxDelay}}
        /\ UNCHANGED <<delta, serverAddr, skew, port, record, moves, forgets>>
    BY <1>13 DEF Tick, world
  <2>3. ASSUME NEW n \in net'
        PROVE  /\ n \in Message
               /\ n.cmd = "TIME" => lastLocal'[n.host] <= n.age
               /\ n.cmd = "T" => lastLocal'[n.host] <= n.age + MaxDelay
    <3>1. PICK m \in net : m.age < MaxDelay /\ n = [m EXCEPT !.age = @ + 1]
      BY <2>2
    <3>2. m \in Message
      BY DEF TypeOK
    <3>3. /\ m.age \in 0 .. MaxDelay /\ m.age + 1 \in 0 .. MaxDelay
          /\ MaxDelay \in Nat
      BY <3>1, <3>2, MessageForms, IntervalAssumption
    <3>4. CASE m.cmd \in {"GET", "DROP", "T"}
      <4>1. m \in [cmd : {"GET", "DROP", "T"}, host : Host, age : 0 .. MaxDelay]
        BY <3>2, <3>4, MessageForms
      <4>2. /\ n \in [cmd : {"GET", "DROP", "T"}, host : Host, age : 0 .. MaxDelay]
            /\ n.cmd = m.cmd /\ n.host = m.host /\ n.age = m.age + 1 /\ m.host \in Host
        BY <3>1, <3>3, <4>1
      <4>3. /\ lastLocal[m.host] \in 0 .. MaxAge
            /\ lastLocal'[m.host] = Older(lastLocal[m.host])
        BY <2>2, <4>2 DEF TypeOK
      <4>4. n \in Message
        BY <4>2 DEF Message
      <4>5. n.cmd = "T" => lastLocal[m.host] <= m.age + MaxDelay
        BY <4>2 DEF Matched
      <4>6. QED BY <2>1, <3>3, <3>4, <4>2, <4>3, <4>4, <4>5, ZeroAge
    <3>5. CASE m.cmd \in {"POINT", "TIME"}
      <4>1. m \in [cmd : {"POINT", "TIME"}, host : Host, addr : Port, age : 0 .. MaxDelay]
        BY <3>2, <3>5, MessageForms
      <4>2. /\ n \in [cmd : {"POINT", "TIME"}, host : Host, addr : Port, age : 0 .. MaxDelay]
            /\ n.cmd = m.cmd /\ n.host = m.host /\ n.age = m.age + 1 /\ m.host \in Host
        BY <3>1, <3>3, <4>1
      <4>3. /\ lastLocal[m.host] \in 0 .. MaxAge
            /\ lastLocal'[m.host] = Older(lastLocal[m.host])
        BY <2>2, <4>2 DEF TypeOK
      <4>4. n \in Message
        BY <4>2 DEF Message
      <4>5. n.cmd = "TIME" => lastLocal[m.host] <= m.age
        BY <4>2 DEF Matched
      <4>6. QED BY <2>1, <3>3, <3>5, <4>2, <4>3, <4>4, <4>5, ZeroAge
    <3>6. CASE m.cmd = "ID"
      <4>1. m \in [cmd : {"ID"}, addr : Port, age : 0 .. MaxDelay]
        BY <3>2, <3>6, MessageForms
      <4>2. n \in [cmd : {"ID"}, addr : Port, age : 0 .. MaxDelay] /\ n.cmd = "ID"
        BY <3>1, <3>3, <4>1
      <4>3. QED BY <4>2 DEF Message
    <3>7. QED BY <3>2, <3>4, <3>5, <3>6, MessageForms
  <2>4. TypeOK'
    BY <2>1, <2>2, <2>3 DEF TypeOK
  <2>5. Matched'
    BY <2>3 DEF Matched
  <2>6. DeltaBounded'
    BY <2>2 DEF DeltaBounded
  <2>7. QED BY <2>4, <2>5, <2>6
<1>14. CASE UNCHANGED vars
  BY <1>14 DEF vars, TypeOK, Matched, DeltaBounded
<1>15. QED
  BY <1>1, <1>2, <1>3, <1>4, <1>5, <1>6, <1>7, <1>8, <1>9, <1>10, <1>11, <1>12,
     <1>13, <1>14 DEF Next

\* The inductive invariant of the synchronisation (timesync.cpp).
LEMMA SpecIInv == Spec => []IInv
<1>1. QED BY InitIInv, NextIInv, PTL DEF Spec

-----------------------------------------------------------------------------
(* Type correctness of the synchronisation with its clients, server and    *)
(* tracker.                                                                *)
THEOREM TimeSyncTypeCorrect == Spec => []TypeOK
<1>1. IInv => TypeOK
  BY DEF IInv
<1>2. QED BY <1>1, SpecIInv, PTL

(* delta never overshoots the skew by more than the delay, however many    *)
(* replies are lost, repeated, late or taken for the answer to another     *)
(* request (TimeSync::calculate).                                          *)
THEOREM DeltaStaysBounded == Spec => []DeltaBounded
<1>1. IInv => DeltaBounded
  BY DEF IInv
<1>2. QED BY <1>1, SpecIInv, PTL
=============================================================================
