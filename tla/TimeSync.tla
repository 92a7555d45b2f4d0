------------------------------ MODULE TimeSync ------------------------------
(***************************************************************************)
(* Clock synchronisation: TimeSync::sync on every host (lib/timesync.cpp), *)
(* the time server (utils/timeserv.cpp) and the tracker's answers to GET   *)
(* for TIME_SERVER_ID (utils/tracker.cpp).                                 *)
(*                                                                         *)
(* Time is a number of ticks that only differences are taken of: lastLocal *)
(* and lastReply are kept as their ages, and a datagram carries its own.   *)
(* "T" needs no value: what the time server wrote into it is the server's  *)
(* clock at the datagram's age 0.  UDP loses datagrams, repeats and        *)
(* reorders them, and delivers none that is older than MaxDelay.           *)
(***************************************************************************)
EXTENDS Integers, FiniteSets

CONSTANTS Host,          \* the processes that run TimeSync
          Port,          \* the addresses the time server gets
          NoPort,        \* sin_port 0: no address known
          Skew,          \* what the server's clock may be ahead of a host's
          SYNC_INTERVAL, \* ticks between two requests
          MaxDelay,      \* ticks a datagram is under way at most
          MaxInFlight,   \* bound of the model: datagrams in net
          MaxMoves,      \* bound of the model: restarts of the time server
          MaxForgets     \* bound of the model: the tracker loses its entry

SYNC_TIMEOUT == 3 * SYNC_INTERVAL

ASSUME IntervalAssumption == SYNC_INTERVAL \in Nat /\ MaxDelay \in Nat /\ 2 * MaxDelay <= SYNC_TIMEOUT
ASSUME SkewAssumption == Skew \subseteq Int
ASSUME PortAssumption == NoPort \notin Port
ASSUME BoundAssumption == {MaxInFlight, MaxMoves, MaxForgets} \subseteq Nat

VARIABLES
    skew,       \* the server's clock minus the host's; clocks do not drift
    delta,      \* TimeSync::delta
    lastLocal,  \* age of the latest TIME request
    lastReply,  \* age of the latest T reply or GET request
    serverAddr, \* where the host believes the time server is
    port,       \* where the time server is
    record,     \* where the tracker believes it is: clusters[TIME_SERVER_ID]
    net,        \* the datagrams under way
    moves, forgets

host == <<delta, lastLocal, lastReply, serverAddr>>
world == <<skew, port, record, moves, forgets>>
vars == <<skew, delta, lastLocal, lastReply, serverAddr, port, record, net, moves, forgets>>

\* Beyond MaxAge all ages are alike: the timeout has passed, and whatever is
\* still under way is younger than the request it answers.
MaxAge == SYNC_TIMEOUT + 1
Older(age) == IF age < MaxAge THEN age + 1 ELSE age

Request(c, h) == [cmd |-> c, host |-> h, age |-> 0]
Addressed(c, h, p) == [cmd |-> c, host |-> h, addr |-> p, age |-> 0]
Registration(p) == [cmd |-> "ID", addr |-> p, age |-> 0]

\* m joins the datagrams under way; when they are MaxInFlight, one is lost.
Send(others, m) ==
    \/ /\ Cardinality(others \cup {m}) <= MaxInFlight
       /\ net' = others \cup {m}
    \/ /\ Cardinality(others \cup {m}) > MaxInFlight
       /\ \E lost \in others : net' = (others \ {lost}) \cup {m}

Message ==
    [cmd : {"GET", "DROP", "T"}, host : Host, age : 0 .. MaxDelay]
    \cup [cmd : {"POINT", "TIME"}, host : Host, addr : Port, age : 0 .. MaxDelay]
    \cup [cmd : {"ID"}, addr : Port, age : 0 .. MaxDelay]

Init ==
    /\ skew \in [Host -> Skew]
    /\ delta = [h \in Host |-> 0]
    /\ lastLocal = [h \in Host |-> SYNC_TIMEOUT]
    /\ lastReply = [h \in Host |-> SYNC_TIMEOUT]
    /\ serverAddr = [h \in Host |-> NoPort]
    /\ port \in Port
    /\ record = NoPort
    /\ net = {}
    /\ moves = 0 /\ forgets = 0

-----------------------------------------------------------------------------
(* TimeSync::sync: what one turn does when nothing was received.           *)

\* Mutation (Settles): once it has an address, the host never asks for another.
AskTrackerOnce(h) ==
    /\ lastReply[h] > SYNC_TIMEOUT /\ serverAddr[h] = NoPort
    /\ Send(net, Request("GET", h))
    /\ lastReply' = [lastReply EXCEPT ![h] = 0]
    /\ UNCHANGED <<delta, lastLocal, serverAddr, world>>

AskTracker(h) ==
    /\ lastReply[h] > SYNC_TIMEOUT
    /\ Send(net, Request("GET", h))
    /\ lastReply' = [lastReply EXCEPT ![h] = 0]
    /\ UNCHANGED <<delta, lastLocal, serverAddr, world>>

\* Mutation (TypeOK): a request is sent to no address.
AskTimeUnaddressed(h) ==
    /\ lastReply[h] <= SYNC_TIMEOUT
    /\ lastLocal[h] > SYNC_INTERVAL
    /\ Send(net, Addressed("TIME", h, serverAddr[h]))
    /\ lastLocal' = [lastLocal EXCEPT ![h] = 0]
    /\ UNCHANGED <<delta, lastReply, serverAddr, world>>

AskTime(h) ==
    /\ lastReply[h] <= SYNC_TIMEOUT
    /\ serverAddr[h] # NoPort
    /\ lastLocal[h] > SYNC_INTERVAL
    /\ Send(net, Addressed("TIME", h, serverAddr[h]))
    /\ lastLocal' = [lastLocal EXCEPT ![h] = 0]
    /\ UNCHANGED <<delta, lastReply, serverAddr, world>>

-----------------------------------------------------------------------------
(* What it does with a datagram.  UDP may keep it to deliver it again.     *)

Taken(m) == net' \in {net, net \ {m}}

\* C++ division: the quotient is rounded towards zero.
Quotient(a, b) == IF a >= 0 THEN a \div b ELSE -((-a) \div b)

\* The estimate of calculate for a reply stamped age ticks ago: remoteUs - sent
\* is the skew plus the ticks from the latest request to the stamp.
Diff(h, age) == (skew[h] + lastLocal[h] - age) - lastLocal[h] \div 2

\* Mutation (DeltaBounded): the estimate is added up instead of approached.
CalculateSum(h, age) == delta' = [delta EXCEPT ![h] = @ + Quotient(Diff(h, age), 3)]

Calculate(h, age) == delta' = [delta EXCEPT ![h] = @ + Quotient(Diff(h, age) - @, 3)]

ReceiveT(h) ==
    \E m \in net :
        /\ m.cmd = "T" /\ m.host = h
        /\ Taken(m)
        /\ Calculate(h, m.age)
        /\ lastReply' = [lastReply EXCEPT ![h] = 0]
        /\ UNCHANGED <<lastLocal, serverAddr, world>>

ReceivePoint(h) ==
    \E m \in net :
        /\ m.cmd = "POINT" /\ m.host = h
        /\ Taken(m)
        /\ serverAddr' = [serverAddr EXCEPT ![h] = m.addr]
        /\ UNCHANGED <<delta, lastLocal, lastReply, world>>

ReceiveDrop(h) ==
    \E m \in net :
        /\ m.cmd = "DROP" /\ m.host = h
        /\ Taken(m)
        /\ serverAddr' = [serverAddr EXCEPT ![h] = NoPort]
        /\ UNCHANGED <<delta, lastLocal, lastReply, world>>

-----------------------------------------------------------------------------
(* The time server and the tracker.                                        *)

AnswerTime(h) ==
    \E m \in net :
        /\ m.cmd = "TIME" /\ m.host = h /\ m.addr = port
        /\ \E others \in {net, net \ {m}} : Send(others, Request("T", h))
        /\ UNCHANGED <<host, world>>

\* Every 180 seconds, longer than any datagram lives.
Announce ==
    /\ \A m \in net : ~(m.cmd = "ID" /\ m.addr = port)
    /\ Send(net, Registration(port))
    /\ UNCHANGED <<host, world>>

\* The time server is started again and gets another port.
Move ==
    /\ moves < MaxMoves
    /\ moves' = moves + 1
    /\ port' \in Port \ {port}
    /\ UNCHANGED <<host, skew, record, net, forgets>>

Register ==
    \E m \in net :
        /\ m.cmd = "ID"
        /\ Taken(m)
        /\ record' = m.addr
        /\ UNCHANGED <<host, skew, port, moves, forgets>>

AnswerGet(h) ==
    \E m \in net :
        /\ m.cmd = "GET" /\ m.host = h
        /\ \E others \in {net, net \ {m}} :
             Send(others, IF record = NoPort THEN Request("DROP", h)
                          ELSE Addressed("POINT", h, record))
        /\ UNCHANGED <<host, world>>

\* The tracker purges the entry as old (on some GET), or is started again.
Forget ==
    /\ forgets < MaxForgets /\ record # NoPort
    /\ forgets' = forgets + 1
    /\ record' = NoPort
    /\ UNCHANGED <<host, skew, port, net, moves>>

Lose ==
    /\ \E m \in net : net' = net \ {m}
    /\ UNCHANGED <<host, world>>

\* A tick passes; a datagram that is MaxDelay old by then is lost.
Tick ==
    /\ lastLocal' = [h \in Host |-> Older(lastLocal[h])]
    /\ lastReply' = [h \in Host |-> Older(lastReply[h])]
    /\ net' = {[m EXCEPT !.age = @ + 1] : m \in {n \in net : n.age < MaxDelay}}
    /\ UNCHANGED <<delta, serverAddr, world>>

-----------------------------------------------------------------------------
Next ==
    \/ \E h \in Host :
          \/ AskTracker(h) \/ AskTime(h)
          \/ ReceiveT(h) \/ ReceivePoint(h) \/ ReceiveDrop(h)
          \/ AnswerTime(h) \/ AnswerGet(h)
    \/ Announce \/ Move \/ Register \/ Forget \/ Lose \/ Tick

Spec == Init /\ [][Next]_vars

\* Time passes, both loops keep turning, and a datagram that is sent again and
\* again arrives in time again and again.
Fairness ==
    /\ WF_vars(Tick) /\ WF_vars(Announce) /\ SF_vars(Register)
    /\ \A h \in Host :
          /\ WF_vars(AskTracker(h)) /\ SF_vars(AskTime(h))
          /\ SF_vars(AnswerGet(h)) /\ SF_vars(ReceivePoint(h))
          /\ SF_vars(AnswerTime(h)) /\ SF_vars(ReceiveT(h))

FairSpec == Spec /\ Fairness

-----------------------------------------------------------------------------
(* All variables have their types.                                         *)
TypeOK ==
    /\ skew \in [Host -> Skew]
    /\ delta \in [Host -> Int]
    /\ lastLocal \in [Host -> 0 .. MaxAge]
    /\ lastReply \in [Host -> 0 .. MaxAge]
    /\ serverAddr \in [Host -> Port \cup {NoPort}]
    /\ port \in Port /\ record \in Port \cup {NoPort}
    /\ net \subseteq Message
    /\ moves \in 0 .. MaxMoves /\ forgets \in 0 .. MaxForgets

Least(a, b) == IF a <= b THEN a ELSE b
Greatest(a, b) == IF a <= b THEN b ELSE a

(* delta approaches the skew and never overshoots it, or leaves it on the  *)
(* other side, by more than a datagram's delay, although calculate matches *)
(* a late or repeated T with whatever request was the latest.              *)
DeltaBounded ==
    \A h \in Host :
        /\ Least(0, skew[h] - MaxDelay) <= delta[h]
        /\ delta[h] <= Greatest(0, skew[h] + MaxDelay)

\* As close as calculate can get: its division by 3 gives 0 for the last 2.
Settled(h) ==
    /\ skew[h] - MaxDelay - 2 <= delta[h]
    /\ delta[h] <= skew[h] + MaxDelay + 2

(* "slowly approach" (timesync.cpp:38): delta comes within the delay of    *)
(* the skew and stays there, although the time server moves and the        *)
(* tracker forgets it.                                                     *)
Settles == \A h \in Host : <>[]Settled(h)

\* timesync.h: toNetwork and toLocal
ToNetwork(h, local) == local - delta[h]
ToLocal(h, network) == network + delta[h]

(* "all machines (spike time clocks on all machines) are synchronized in   *)
(* time" (README.md:6): when two hosts have settled, a time taken on one,  *)
(* sent as network time and read on the other, is the other's clock at     *)
(* that moment, up to what the deltas may be off.  At the server's 0, the  *)
(* clock of host h shows -skew[h].                                         *)
Synchronized ==
    \A h, i \in Host : (Settled(h) /\ Settled(i)) =>
        ToLocal(i, ToNetwork(h, -skew[h])) - (-skew[i])
            \in -(2 * MaxDelay + 4) .. 2 * MaxDelay + 4
=============================================================================
