---------------------------- MODULE DeliveryProofs ----------------------------
(***************************************************************************)
(* Proofs about one server process (network.cpp, server.cpp, main.cpp) for *)
(* every number of servers, every set of ids and every queue size, under   *)
(* the order createNetwork keeps (Spec).                                   *)
(***************************************************************************)
EXTENDS Delivery, SequenceTheorems, TLAPS

-----------------------------------------------------------------------------
(* The inductive invariant, in two halves.  The first is about the         *)
(* commands and the rebuild of the routes: it reads and writes none of the *)
(* queues.                                                                 *)

ControlType ==
    /\ id \in [Server -> Id \cup {0}]
    /\ subscriptions \in [Id -> SUBSET Id]
    /\ dirty \in BOOLEAN /\ alive \in BOOLEAN
    /\ joined \subseteq Id
    /\ subscribers \in [Id -> [Server -> 0 .. 1]]
    /\ todo \subseteq Id

\* What getSubscriptions has copied so far is right, because neither a command
\* nor a RUN comes between: commands wait for spinLock, and RUN is over by then.
CopiedSoFar ==
    /\ Locked => ~dirty
    /\ \A l \in todo : subscriptions[l] # {}
    /\ ~dirty => \A r \in Id, s \in Server :
            subscribers[r][s] = IF Connected(s, r) /\ id[s] \notin todo THEN 1 ELSE 0

\* Edges connect nodes of the graph, and so do the routes, fresh or not.
OnlyGraph ==
    /\ \A l \in Id : subscriptions[l] \subseteq GraphId
    /\ \A r \in Id, s \in Server : subscribers[r][s] # 0 => r \in GraphId

OwnIds ==
    /\ \A s, t \in Server : (id[s] = id[t] /\ id[s] # 0) => s = t
    /\ \A s \in Server : id[s] \notin RemoteId

CInv ==
    /\ ControlType
    /\ CopiedSoFar
    /\ OnlyGraph
    /\ OwnIds
    /\ MembershipExact

(* The second half follows a buffer from its writer to inQ.  A node is     *)
(* either local or remote for ever, and its buffers take one way only:     *)
(* outQ, where they stay in the order they were written, or the socket,    *)
(* where sequences puts them in order.                                     *)

DataType ==
    /\ sequences \in [Id -> 0 .. MaxTime]
    /\ outQ \in [Server -> Seq(Buffer)]
    /\ \A s \in Server : Len(outQ[s]) <= OutCapacity
    /\ inQ \in [Server -> Seq(Buffer)]
    /\ wire \subseteq Buffer /\ sock \in Seq(Buffer)
    /\ time \in 0 .. MaxTime /\ repeats \in 0 .. MaxRepeats

WireOwned == \A b \in wire : b.src \in GraphId => b.src \in RemoteId \cup LocalIds

SockRemote == \A i \in DOMAIN sock : sock[i].src \in RemoteId

OutOwned ==
    \A s \in Server : \A i \in DOMAIN outQ[s] :
        /\ outQ[s][i].src \notin RemoteId
        /\ outQ[s][i].src \in GraphId => id[s] = outQ[s][i].src

OutOrdered ==
    \A s \in Server : \A i, j \in DOMAIN outQ[s] :
        i < j => outQ[s][i].time < outQ[s][j].time

Written ==
    /\ \A s \in Server : \A i \in DOMAIN outQ[s] : outQ[s][i].time <= time
    /\ \A s \in Server : \A i \in DOMAIN inQ[s] : inQ[s][i].time <= time
    /\ \A b \in wire : b.time <= time
    /\ \A i \in DOMAIN sock : sock[i].time <= time

\* What a local node still has in its outQ is newer than what anybody has seen
\* of it.
LocalBehind ==
    \A s, t \in Server : \A i \in DOMAIN inQ[s], j \in DOMAIN outQ[t] :
        inQ[s][i].src = outQ[t][j].src => inQ[s][i].time < outQ[t][j].time

\* What was seen of a remote node is not newer than what sequences says.
RemoteBehind ==
    \A s \in Server : \A i \in DOMAIN inQ[s] :
        inQ[s][i].src \in RemoteId => inQ[s][i].time <= sequences[inQ[s][i].src]

LocalOnce ==
    \A s \in Server : \A i, j \in DOMAIN inQ[s] :
        (i < j /\ inQ[s][i].src = inQ[s][j].src /\ inQ[s][i].src \notin RemoteId)
            => inQ[s][i].time < inQ[s][j].time

DInv ==
    /\ DataType
    /\ WireOwned
    /\ SockRemote
    /\ OutOwned
    /\ OutOrdered
    /\ Written
    /\ LocalBehind
    /\ RemoteBehind
    /\ LocalOnce
    /\ InOrder

IInv == CInv /\ DInv
\* No subscriptions and no memberships at the start.
LEMMA NobodyListed ==
    /\ Nobody \in [Id -> [Server -> 0 .. 1]]
    /\ \A r \in Id, s \in Server : Nobody[r][s] = 0
<1>1. [s \in Server |-> 0] \in [Server -> 0 .. 1]
  OBVIOUS
<1>2. QED BY <1>1 DEF Nobody

\* The process starts without subscriptions.
LEMMA InitCInv == Init => CInv
<1> SUFFICES ASSUME Init PROVE CInv
  OBVIOUS
<1>1. ControlType /\ CopiedSoFar /\ OnlyGraph
  BY NobodyListed DEF Init, ControlType, CopiedSoFar, OnlyGraph, Locked, Connected
<1>2. OwnIds
  BY IdAssumption DEF Init, OwnIds
<1>3. MembershipExact
  BY DEF Init, MembershipExact
<1>4. QED BY <1>1, <1>2, <1>3 DEF CInv

-----------------------------------------------------------------------------
(* Steps of the commands and of the rebuild keep the first half.           *)

controlVars == <<id, subscriptions, dirty, joined, subscribers, todo, alive>>
dataVars == <<sequences, outQ, inQ, wire, sock, time, repeats>>

\* RUN (server.cpp) before any connection changes an id that no route names.
LEMMA RunEarlyCInv ==
    ASSUME CInv, NEW s \in Server, NEW new \in Id, RunEarly(s, new) PROVE CInv'
<1> USE DEF CInv
<1>1. /\ id' = [id EXCEPT ![s] = new]
      /\ UNCHANGED <<subscriptions, dirty, joined, subscribers, todo, alive>>
      /\ \A l \in Id : subscriptions[l] = {}
      /\ new \notin LocalIds /\ new \notin RemoteId
  BY DEF RunEarly, RunNode, Run
<1>2. todo = {}
  BY <1>1 DEF CopiedSoFar, ControlType
<1>3. ControlType'
  BY <1>1 DEF ControlType
<1>4. CopiedSoFar'
  BY <1>1, <1>2, <1>3, IdAssumption DEF CopiedSoFar, Locked, Connected, ControlType
<1>5. OnlyGraph'
  BY <1>1 DEF OnlyGraph
<1>6. \A t \in Server : id[t] # new
  BY <1>1, IdAssumption DEF LocalIds
<1>7. OwnIds'
  BY <1>1, <1>6 DEF OwnIds, ControlType
<1>8. joined = {}
  BY <1>1 DEF MembershipExact
<1>9. MembershipExact'
  BY <1>1, <1>8 DEF MembershipExact
<1>10. QED BY <1>3, <1>4, <1>5, <1>7, <1>9

\* subscribe (network.cpp) lists the server, joins the group and marks the routes.
LEMMA ConnectCInv ==
    ASSUME CInv, NEW s \in Server, NEW remote \in GraphId, Connect(s, remote) PROVE CInv'
<1> USE DEF CInv
<1>1. /\ id[s] # 0 /\ todo = {} /\ dirty' = TRUE
      /\ subscriptions' = [subscriptions EXCEPT ![id[s]] = @ \cup {remote}]
      /\ joined' = IF remote \in subscriptions[id[s]] \cup LocalIds
                     THEN joined ELSE joined \cup {remote}
      /\ UNCHANGED <<id, subscribers, todo, alive>>
  BY DEF Connect, Locked
<1>2. id[s] \in Id /\ remote \in Id /\ LocalIds' = LocalIds
  BY <1>1, IdAssumption DEF ControlType, LocalIds
<1>3. ControlType'
  BY <1>1, <1>2 DEF ControlType
<1>4. CopiedSoFar' /\ OnlyGraph'
  BY <1>1, <1>2 DEF CopiedSoFar, Locked, OnlyGraph, ControlType
<1>5. OwnIds'
  BY <1>1 DEF OwnIds
<1>6. \A l \in Id : subscriptions'[l] = subscriptions[l] \cup (IF l = id[s] THEN {remote} ELSE {})
  BY <1>1, <1>2 DEF ControlType
<1>7. MembershipExact'
  BY <1>1, <1>2, <1>6 DEF MembershipExact
<1>8. QED BY <1>3, <1>4, <1>5, <1>7

\* unsubscribe (network.cpp) takes the server out and leaves the group with the last.
LEMMA DropCInv ==
    ASSUME CInv, NEW s \in Server, NEW remote \in GraphId, Drop(s, remote) PROVE CInv'
<1> USE DEF CInv
<1>1. /\ id[s] # 0 /\ todo = {} /\ dirty' = TRUE /\ remote \in subscriptions[id[s]]
      /\ subscriptions' = [subscriptions EXCEPT ![id[s]] = @ \ {remote}]
      /\ joined' = IF remote \in LocalIds \/ \E l \in Id : remote \in subscriptions'[l]
                     THEN joined ELSE joined \ {remote}
      /\ UNCHANGED <<id, subscribers, todo, alive>>
  BY DEF Drop, Leave, Locked
<1>2. id[s] \in Id /\ remote \in Id /\ LocalIds' = LocalIds
  BY <1>1, IdAssumption DEF ControlType, LocalIds
<1>3. ControlType'
  BY <1>1, <1>2 DEF ControlType
<1>4. CopiedSoFar' /\ OnlyGraph'
  BY <1>1, <1>2 DEF CopiedSoFar, Locked, OnlyGraph, ControlType
<1>5. OwnIds'
  BY <1>1 DEF OwnIds
<1>6. \A l \in Id : subscriptions'[l] = subscriptions[l] \ (IF l = id[s] THEN {remote} ELSE {})
  BY <1>1, <1>2 DEF ControlType
<1>7. MembershipExact'
  BY <1>1, <1>2, <1>6 DEF MembershipExact
<1>8. QED BY <1>3, <1>4, <1>5, <1>7

\* getSubscriptions starts a copy with nothing visited.
LEMMA RebuildBeginCInv == ASSUME CInv, RebuildBegin PROVE CInv'
<1> USE DEF CInv
<1>1. /\ dirty' = FALSE /\ subscribers' = Nobody
      /\ todo' = {l \in Id : subscriptions[l] # {}}
      /\ UNCHANGED <<id, subscriptions, joined, alive>>
  BY DEF RebuildBegin
<1>2. ControlType'
  BY <1>1, NobodyListed DEF ControlType
<1>3. CopiedSoFar'
  BY <1>1, NobodyListed DEF CopiedSoFar, ControlType, Connected, Locked
<1>4. OnlyGraph' /\ OwnIds'
  BY <1>1, NobodyListed DEF OnlyGraph, OwnIds
<1>5. MembershipExact'
  BY <1>1 DEF MembershipExact, LocalIds
<1>6. QED BY <1>2, <1>3, <1>4, <1>5

\* It copies the subscribers of one id.
LEMMA RebuildLocalCInv == ASSUME CInv, NEW l \in Id, RebuildLocal(l) PROVE CInv'
<1> USE DEF CInv
<1>1. /\ l \in todo /\ todo' = todo \ {l}
      /\ subscribers' =
           [r \in Id |-> [s \in Server |->
              subscribers[r][s] + IF r \in subscriptions[l] /\ id[s] = l THEN 1 ELSE 0]]
      /\ UNCHANGED <<id, subscriptions, dirty, joined, alive>>
  BY DEF RebuildLocal
<1>2. ~dirty /\ l # 0
  BY <1>1, IdAssumption DEF CopiedSoFar, Locked
<1>3. \A r \in Id, s \in Server :
        subscribers[r][s] = IF Connected(s, r) /\ id[s] \notin todo THEN 1 ELSE 0
  BY <1>2 DEF CopiedSoFar
<1>4. \A r \in Id, s \in Server :
        subscribers'[r][s] = IF Connected(s, r) /\ id[s] \notin todo' THEN 1 ELSE 0
  <2> SUFFICES ASSUME NEW r \in Id, NEW s \in Server
               PROVE  subscribers'[r][s] = IF Connected(s, r) /\ id[s] \notin todo' THEN 1 ELSE 0
    OBVIOUS
  <2>1. subscribers'[r][s] =
            subscribers[r][s] + IF r \in subscriptions[l] /\ id[s] = l THEN 1 ELSE 0
    BY <1>1
  <2>2. CASE id[s] = l
    BY <1>1, <1>2, <1>3, <2>1, <2>2 DEF Connected
  <2>3. CASE id[s] # l
    BY <1>1, <1>3, <2>1, <2>3
  <2>4. QED BY <2>2, <2>3
<1>5. \A r \in Id, s \in Server : Connected(s, r)' = Connected(s, r)
  BY <1>1 DEF Connected
<1>6. ControlType'
  <2>1. subscribers' = [r \in Id |-> [s \in Server |->
                           IF Connected(s, r) /\ id[s] \notin todo' THEN 1 ELSE 0]]
    BY <1>1, <1>4
  <2>2. QED BY <1>1, <2>1 DEF ControlType
<1>7. CopiedSoFar'
  BY <1>1, <1>2, <1>4, <1>5 DEF CopiedSoFar, Locked
<1>8. OnlyGraph'
  BY <1>1, <1>4 DEF OnlyGraph, ControlType, Connected
<1>9. OwnIds' /\ MembershipExact'
  BY <1>1 DEF OwnIds, MembershipExact, LocalIds
<1>10. QED BY <1>6, <1>7, <1>8, <1>9

\* A step that touches no subscription, id or route.
LEMMA UnchangedCInv == ASSUME CInv, UNCHANGED controlVars PROVE CInv'
BY DEF CInv, controlVars, ControlType, CopiedSoFar, OnlyGraph, OwnIds, MembershipExact,
       Locked, Connected, LocalIds

\* Every step of servers and main loop keeps the routes' invariant.
LEMMA NextCInv == CInv /\ [Next]_vars => CInv'
<1> SUFFICES ASSUME CInv, [Next]_vars PROVE CInv'
  OBVIOUS
<1>1. ASSUME NEW s \in Server, NEW i \in Id, RunEarly(s, i) PROVE CInv'
  BY <1>1, RunEarlyCInv
<1>2. ASSUME NEW s \in Server, NEW i \in GraphId, Connect(s, i) \/ Drop(s, i) PROVE CInv'
  BY <1>2, ConnectCInv, DropCInv
<1>3. CASE Rebuild
  BY <1>3, RebuildBeginCInv, RebuildLocalCInv DEF Rebuild
<1>4. ASSUME NEW s \in Server, Write(s) \/ TakeOutgoing(s) PROVE CInv'
  BY <1>4, UnchangedCInv DEF Write, TakeOutgoing, controlVars
<1>5. CASE Environment
  BY <1>5, UnchangedCInv DEF Environment, RemoteWrite, Arrive, controlVars
<1>6. CASE ReadAccepted \/ ReadDropped
  BY <1>6, UnchangedCInv DEF ReadAccepted, ReadDropped, controlVars
<1>7. CASE UNCHANGED vars
  BY <1>7, UnchangedCInv DEF vars, netVars, controlVars
<1>8. QED BY <1>1, <1>2, <1>3, <1>4, <1>5, <1>6, <1>7 DEF Next, Commands, Main
-----------------------------------------------------------------------------
(* What the queue operations do to the elements.                           *)

\* Appending changes no earlier element.
LEMMA AppendAt ==
    ASSUME NEW S, NEW q \in Seq(S), NEW b \in S
    PROVE  /\ Append(q, b) \in Seq(S) /\ Len(Append(q, b)) = Len(q) + 1 /\ Len(q) \in Nat
           /\ DOMAIN q = 1 .. Len(q)
           /\ \A i \in DOMAIN Append(q, b) :
                 \/ i \in DOMAIN q /\ Append(q, b)[i] = q[i]
                 \/ i = Len(q) + 1 /\ Append(q, b)[i] = b
BY AppendProperties, LenProperties

\* Tail moves every element up by one.
LEMMA TailAt ==
    ASSUME NEW S, NEW q \in Seq(S), q # << >>
    PROVE  /\ Tail(q) \in Seq(S) /\ Len(Tail(q)) = Len(q) - 1 /\ Len(q) \in Nat
           /\ 1 \in DOMAIN q /\ Head(q) = q[1] /\ Head(q) \in S
           /\ \A i \in DOMAIN Tail(q) :
                 i \in Nat \ {0} /\ i + 1 \in DOMAIN q /\ Tail(q)[i] = q[i + 1]
<1>1. Len(q) \in Nat \ {0} /\ DOMAIN q = 1 .. Len(q)
  BY LenProperties, EmptySeq
<1>2. Tail(q) \in Seq(S) /\ Len(Tail(q)) = Len(q) - 1 /\ Head(q) = q[1] /\ Head(q) \in S
  BY <1>1, HeadTailProperties, ElementOfSeq
<1>3. DOMAIN Tail(q) = 1 .. Len(q) - 1
  BY <1>2, LenProperties
<1>4. \A i \in 1 .. Len(q) - 1 : Tail(q)[i] = q[i + 1]
  BY <1>1, <1>2, <1>3, HeadTailProperties
<1>5. QED BY <1>1, <1>2, <1>3, <1>4

\* What holds of all elements, and of one appended, holds of the longer sequence.
LEMMA OneMoreAt ==
    ASSUME NEW S, NEW q \in Seq(S), NEW b \in S, NEW n \in 0 .. 1
    PROVE  /\ q \o Times(b, n) \in Seq(S) /\ Len(q) \in Nat
           /\ DOMAIN q = 1 .. Len(q)
           /\ \A i \in DOMAIN (q \o Times(b, n)) :
                 \/ i \in DOMAIN q /\ (q \o Times(b, n))[i] = q[i]
                 \/ i = Len(q) + 1 /\ (q \o Times(b, n))[i] = b /\ n # 0
<1> DEFINE more == q \o Times(b, n)
<1>1. Len(q) \in Nat /\ DOMAIN q = 1 .. Len(q)
  BY LenProperties
<1>2. /\ Times(b, n) \in Seq(S)
      /\ Len(Times(b, n)) = n
      /\ n = 1 => Times(b, n)[1] = b
  <2>1. Times(b, n) \in [1 .. n -> S]
    BY DEF Times
  <2>2. QED BY <2>1 DEF Times
<1>3. /\ more \in Seq(S) /\ Len(more) = Len(q) + n
      /\ \A i \in 1 .. Len(q) + n :
            more[i] = IF i <= Len(q) THEN q[i] ELSE Times(b, n)[i - Len(q)]
  BY <1>2, ConcatProperties
<1>4. DOMAIN more = 1 .. Len(q) + n
  BY <1>3, LenProperties
<1>5. ASSUME NEW i \in DOMAIN more
      PROVE  \/ i \in DOMAIN q /\ more[i] = q[i]
             \/ i = Len(q) + 1 /\ more[i] = b /\ n # 0
  <2>1. CASE i <= Len(q)
    BY <1>1, <1>3, <1>4, <1>5, <2>1
  <2>2. CASE i > Len(q)
    <3>1. n = 1 /\ i = Len(q) + 1
      BY <1>1, <1>4, <1>5, <2>2
    <3>2. more[i] = Times(b, n)[1]
      BY <1>1, <1>3, <3>1
    <3>3. QED BY <1>2, <3>1, <3>2
  <2>3. QED BY <1>1, <1>4, <1>5, <2>1, <2>2
<1>6. QED BY <1>1, <1>3, <1>5

\* A buffer goes at most once to each server, and only along a route.
LEMMA DeliverAt ==
    ASSUME ControlType, DataType, NEW b \in Buffer, Deliver(b)
    PROVE  /\ inQ' \in [Server -> Seq(Buffer)]
           /\ \A s \in Server :
                /\ DOMAIN inQ[s] = 1 .. Len(inQ[s]) /\ Len(inQ[s]) \in Nat
                /\ \A i \in DOMAIN inQ'[s] :
                    \/ i \in DOMAIN inQ[s] /\ inQ'[s][i] = inQ[s][i]
                    \/ /\ i = Len(inQ[s]) + 1 /\ inQ'[s][i] = b
                       /\ subscribers[b.src][s] # 0
<1>1. b.src \in Id
  BY DEF Buffer
<1>2. ASSUME NEW s \in Server
      PROVE  /\ inQ'[s] \in Seq(Buffer)
             /\ DOMAIN inQ[s] = 1 .. Len(inQ[s]) /\ Len(inQ[s]) \in Nat
             /\ \A i \in DOMAIN inQ'[s] :
                    \/ i \in DOMAIN inQ[s] /\ inQ'[s][i] = inQ[s][i]
                    \/ /\ i = Len(inQ[s]) + 1 /\ inQ'[s][i] = b
                       /\ subscribers[b.src][s] # 0
  <2>1. subscribers[b.src][s] \in 0 .. 1 /\ inQ[s] \in Seq(Buffer)
    BY <1>1, <1>2 DEF ControlType, DataType
  <2> DEFINE q == inQ[s]
             n == subscribers[b.src][s]
  <2>2. inQ'[s] = q \o Times(b, n)
    BY <1>2 DEF Deliver
  <2>3. q \in Seq(Buffer) /\ n \in 0 .. 1
    BY <2>1
  <2> HIDE DEF q, n
  <2>4. /\ q \o Times(b, n) \in Seq(Buffer) /\ Len(q) \in Nat
        /\ DOMAIN q = 1 .. Len(q)
        /\ \A i \in DOMAIN (q \o Times(b, n)) :
              \/ i \in DOMAIN q /\ (q \o Times(b, n))[i] = q[i]
              \/ i = Len(q) + 1 /\ (q \o Times(b, n))[i] = b /\ n # 0
    BY <2>3, OneMoreAt
  <2>5. /\ inQ'[s] \in Seq(Buffer) /\ Len(q) \in Nat
        /\ DOMAIN q = 1 .. Len(q)
        /\ \A i \in DOMAIN inQ'[s] :
              \/ i \in DOMAIN q /\ inQ'[s][i] = q[i]
              \/ i = Len(q) + 1 /\ inQ'[s][i] = b /\ n # 0
    BY <2>2, <2>4
  <2>6. QED BY <2>5 DEF q, n
<1>3. inQ' = [s \in Server |-> inQ[s] \o Times(b, subscribers[b.src][s])]
  BY DEF Deliver
<1>4. inQ' \in [Server -> Seq(Buffer)]
  BY <1>2, <1>3
<1>5. QED BY <1>2, <1>4
-----------------------------------------------------------------------------
(* Steps of the writers, of the network and of main keep the second half.  *)

\* Nothing was written or delivered yet.
LEMMA InitDInv == Init => DInv
<1> SUFFICES ASSUME Init PROVE DInv
  OBVIOUS
<1>1. /\ \A s \in Server : outQ[s] = << >> /\ inQ[s] = << >>
      /\ sock = << >> /\ wire = {} /\ time = 0 /\ DOMAIN << >> = {}
      /\ << >> \in Seq(Buffer) /\ Len(<< >>) = 0
  BY EmptySeq DEF Init
<1>2. DataType
  BY <1>1, BoundAssumption DEF Init, DataType
<1>3. WireOwned /\ SockRemote /\ OutOwned /\ OutOrdered /\ Written
  BY <1>1 DEF WireOwned, SockRemote, OutOwned, OutOrdered, Written
<1>4. LocalBehind /\ RemoteBehind /\ LocalOnce /\ InOrder
  BY <1>1 DEF LocalBehind, RemoteBehind, LocalOnce, InOrder
<1>5. QED BY <1>2, <1>3, <1>4 DEF DInv

\* The elements of the queues are buffers, written before now.
LEMMA Elements ==
    ASSUME DataType, Written
    PROVE  /\ \A s \in Server : \A i \in DOMAIN outQ[s] :
                 /\ outQ[s][i] \in Buffer /\ outQ[s][i].time \in Nat /\ i \in Nat
                 /\ outQ[s][i].time <= time /\ i < Len(outQ[s]) + 1
           /\ \A s \in Server : \A i \in DOMAIN inQ[s] :
                 /\ inQ[s][i] \in Buffer /\ inQ[s][i].time \in Nat /\ i \in Nat
                 /\ inQ[s][i].time <= time /\ i < Len(inQ[s]) + 1
           /\ \A i \in DOMAIN sock :
                 /\ sock[i] \in Buffer /\ sock[i].time \in Nat /\ i \in Nat
                 /\ sock[i].time <= time /\ i < Len(sock) + 1
<1>1. ASSUME NEW q \in Seq(Buffer), NEW i \in DOMAIN q
      PROVE  q[i] \in Buffer /\ q[i].time \in Nat /\ i \in Nat /\ i < Len(q) + 1
  <2>1. DOMAIN q = 1 .. Len(q) /\ Len(q) \in Nat
    BY <1>1, LenProperties
  <2>2. q[i] \in Buffer
    BY <1>1, <2>1, ElementOfSeq
  <2>3. QED BY <1>1, <2>1, <2>2 DEF Buffer
<1>2. /\ \A s \in Server : outQ[s] \in Seq(Buffer) /\ inQ[s] \in Seq(Buffer)
      /\ sock \in Seq(Buffer)
  BY DEF DataType
<1>3. QED BY <1>1, <1>2 DEF Written

\* A RUN leaves the nodes that are running where they are.
LEMMA ControlDInv ==
    ASSUME DInv, UNCHANGED dataVars, \A s \in Server : id[s] \in GraphId => id'[s] = id[s]
    PROVE  DInv'
<1> USE DEF DInv, dataVars
<1>1. WireOwned'
  BY IdAssumption DEF WireOwned, LocalIds
<1>2. OutOwned'
  BY DEF OutOwned
<1>3. DataType' /\ SockRemote' /\ OutOrdered' /\ Written'
  BY DEF DataType, SockRemote, OutOrdered, Written
<1>4. LocalBehind' /\ RemoteBehind' /\ LocalOnce' /\ InOrder'
  BY DEF LocalBehind, RemoteBehind, LocalOnce, InOrder
<1>5. QED BY <1>1, <1>2, <1>3, <1>4

\* A server pushes on its outQ, and sends to its group.
LEMMA WriteDInv == ASSUME CInv, DInv, NEW s \in Server, Write(s) PROVE DInv'
<1> USE DEF DInv
<1> DEFINE b == [src |-> id[s], time |-> time + 1]
<1>1. /\ id[s] # 0 /\ time < MaxTime /\ time' = time + 1
      /\ outQ' = IF Len(outQ[s]) < OutCapacity
                  THEN [outQ EXCEPT ![s] = Append(@, b)] ELSE outQ
      /\ wire' = wire \cup {b}
      /\ UNCHANGED <<id, sequences, inQ, sock, repeats>>
  BY DEF Write
<1>2. /\ id[s] \in Id /\ id[s] \in LocalIds /\ id[s] \notin RemoteId /\ LocalIds' = LocalIds
      /\ time \in 0 .. MaxTime /\ time + 1 \in 1 .. MaxTime /\ MaxTime \in Nat
  BY <1>1, BoundAssumption DEF CInv, ControlType, OwnIds, LocalIds, DataType
<1>3. b \in Buffer /\ b.src = id[s] /\ b.time = time + 1
  BY <1>2 DEF Buffer
<1> HIDE DEF b
<1>3a. /\ \A t \in Server : \A i \in DOMAIN outQ[t] :
            /\ outQ[t][i].time \in Nat /\ outQ[t][i].time <= time
            /\ i \in Nat /\ i < Len(outQ[t]) + 1
      /\ \A t \in Server : \A i \in DOMAIN inQ[t] :
            inQ[t][i].time \in Nat /\ inQ[t][i].time <= time
  BY Elements
<1>4. /\ outQ' \in [Server -> Seq(Buffer)]
      /\ \A t \in Server : Len(outQ'[t]) <= OutCapacity
      /\ \A t \in Server : \A i \in DOMAIN outQ'[t] :
            \/ i \in DOMAIN outQ[t] /\ outQ'[t][i] = outQ[t][i]
            \/ t = s /\ i = Len(outQ[t]) + 1 /\ outQ'[t][i] = b
  <2>1. CASE Len(outQ[s]) < OutCapacity
    <3>1. outQ[s] \in Seq(Buffer)
      BY DEF DataType
    <3>2. /\ Append(outQ[s], b) \in Seq(Buffer) /\ Len(Append(outQ[s], b)) = Len(outQ[s]) + 1
          /\ Len(outQ[s]) \in Nat
          /\ \A i \in DOMAIN Append(outQ[s], b) :
                 \/ i \in DOMAIN outQ[s] /\ Append(outQ[s], b)[i] = outQ[s][i]
                 \/ i = Len(outQ[s]) + 1 /\ Append(outQ[s], b)[i] = b
      BY <1>3, <3>1, AppendAt
    <3>3. \A t \in Server : outQ'[t] = IF t = s THEN Append(outQ[s], b) ELSE outQ[t]
      BY <1>1, <2>1 DEF DataType
    <3>4. outQ' \in [Server -> Seq(Buffer)]
      BY <1>1, <2>1, <3>2 DEF DataType
    <3>4a. OutCapacity \in Nat /\ Len(outQ[s]) + 1 <= OutCapacity
      BY <2>1, <3>2, BoundAssumption
    <3>5. \A t \in Server : Len(outQ'[t]) <= OutCapacity
      BY <3>2, <3>3, <3>4a DEF DataType
    <3>6. QED BY <3>2, <3>3, <3>4, <3>5
  <2>2. CASE ~(Len(outQ[s]) < OutCapacity)
    BY <1>1, <2>2 DEF DataType
  <2>3. QED BY <2>1, <2>2
<1>5. DataType'
  BY <1>1, <1>2, <1>3, <1>4 DEF DataType
<1>6. WireOwned' /\ SockRemote'
  BY <1>1, <1>2, <1>3 DEF WireOwned, SockRemote
<1>7. OutOwned'
  BY <1>1, <1>2, <1>3, <1>4 DEF OutOwned
<1>8. OutOrdered'
  <2> SUFFICES ASSUME NEW t \in Server, NEW i \in DOMAIN outQ'[t], NEW j \in DOMAIN outQ'[t],
                      i < j
               PROVE  outQ'[t][i].time < outQ'[t][j].time
    BY DEF OutOrdered
  <2>1. CASE j \in DOMAIN outQ[t] /\ outQ'[t][j] = outQ[t][j]
    <3>1. i \in DOMAIN outQ[t] /\ outQ'[t][i] = outQ[t][i]
      BY <1>4, <1>3a, <2>1
    <3>2. QED BY <2>1, <3>1 DEF OutOrdered
  <2>2. CASE j = Len(outQ[t]) + 1 /\ outQ'[t][j] = b
    <3>1. i \in DOMAIN outQ[t] /\ outQ'[t][i] = outQ[t][i]
      BY <1>4, <2>2
    <3>2. QED BY <1>2, <1>3, <1>3a, <2>2, <3>1
  <2>3. QED BY <1>4, <2>1, <2>2
<1>9. Written'
  <2>1. time \in Nat /\ time' = time + 1 /\ inQ' = inQ /\ sock' = sock
    BY <1>1, <1>2
  <2>2. \A t \in Server : \A i \in DOMAIN outQ'[t] : outQ'[t][i].time <= time + 1
    BY <1>3, <1>4, <1>3a, <2>1
  <2>3. \A d \in wire' : d.time <= time + 1
    BY <1>1, <1>3, <2>1 DEF DataType, Buffer, Written
  <2>4. time \in Nat
    BY <1>2
  <2>5. \A t \in Server : \A i \in DOMAIN inQ[t] : inQ[t][i].time <= time + 1
    BY <1>3a, <2>4
  <2>6. \A i \in DOMAIN sock : sock[i].time <= time + 1
    <3>1. \A i \in DOMAIN sock : sock[i].time \in Nat /\ sock[i].time <= time
      BY Elements
    <3>2. QED BY <2>4, <3>1
  <2>7. QED BY <2>1, <2>2, <2>3, <2>5, <2>6 DEF Written
<1>10. LocalBehind'
  <2> SUFFICES ASSUME NEW r \in Server, NEW t \in Server, NEW i \in DOMAIN inQ[r],
                      NEW j \in DOMAIN outQ'[t], inQ[r][i].src = outQ'[t][j].src
               PROVE  inQ[r][i].time < outQ'[t][j].time
    BY <1>1 DEF LocalBehind
  <2>1. CASE j \in DOMAIN outQ[t] /\ outQ'[t][j] = outQ[t][j]
    BY <2>1 DEF LocalBehind
  <2>2. CASE outQ'[t][j] = b
    BY <1>2, <1>3, <1>3a, <2>2
  <2>3. QED BY <1>4, <2>1, <2>2
<1>11. RemoteBehind' /\ LocalOnce' /\ InOrder'
  BY <1>1 DEF RemoteBehind, LocalOnce, InOrder
<1>12. QED BY <1>5, <1>6, <1>7, <1>8, <1>9, <1>10, <1>11
\* A remote node sends to its group.
LEMMA RemoteWriteDInv == ASSUME DInv, NEW n \in RemoteId, RemoteWrite(n) PROVE DInv'
<1> USE DEF DInv
<1> DEFINE b == [src |-> n, time |-> time + 1]
<1>1. /\ time < MaxTime /\ time' = time + 1 /\ wire' = wire \cup {b}
      /\ UNCHANGED <<id, sequences, outQ, inQ, sock, repeats>>
  BY DEF RemoteWrite
<1>2. /\ time \in 0 .. MaxTime /\ time + 1 \in 1 .. MaxTime /\ n \in Id /\ LocalIds' = LocalIds
  BY <1>1, IdAssumption, BoundAssumption DEF DataType, LocalIds
<1>3. b \in Buffer /\ b.src = n /\ b.time = time + 1
  BY <1>2 DEF Buffer
<1> HIDE DEF b
<1>4. DataType'
  BY <1>1, <1>2, <1>3 DEF DataType
<1>5. WireOwned' /\ SockRemote' /\ OutOwned'
  BY <1>1, <1>2, <1>3 DEF WireOwned, SockRemote, OutOwned
<1>6. Written'
  <2>1. \A d \in wire' : d.time <= time + 1
    BY <1>1, <1>2, <1>3 DEF DataType, Buffer, Written
  <2>2. QED BY <1>1, <1>2, <2>1, Elements DEF Written
<1>7. OutOrdered' /\ LocalBehind' /\ RemoteBehind' /\ LocalOnce' /\ InOrder'
  BY <1>1 DEF OutOrdered, LocalBehind, RemoteBehind, LocalOnce, InOrder
<1>8. QED BY <1>4, <1>5, <1>6, <1>7

\* Only groups of remote nodes are joined, so that nothing a local node wrote
\* comes back through the socket.
LEMMA ArriveDInv == ASSUME CInv, DInv, NEW b \in wire, Arrive(b) PROVE DInv'
<1> USE DEF DInv
<1>1. /\ b.src \in joined /\ sock' = Append(sock, b) /\ wire' \subseteq wire
      /\ repeats' \in {repeats, repeats + 1} /\ (repeats' = repeats \/ repeats < MaxRepeats)
      /\ UNCHANGED <<id, sequences, outQ, inQ, time>>
  BY DEF Arrive
<1>2. b.src \in GraphId /\ b.src \notin LocalIds
  BY <1>1 DEF CInv, MembershipExact, OnlyGraph
<1>3. b.src \in RemoteId /\ b \in Buffer /\ b.time <= time
  BY <1>2 DEF WireOwned, DataType, Written
<1>4. /\ sock' \in Seq(Buffer)
      /\ \A i \in DOMAIN sock' :
            \/ i \in DOMAIN sock /\ sock'[i] = sock[i]
            \/ sock'[i] = b
  BY <1>1, <1>3, AppendAt DEF DataType
<1>5. DataType'
  BY <1>1, <1>4, BoundAssumption DEF DataType
<1>6. WireOwned' /\ OutOwned'
  BY <1>1 DEF WireOwned, OutOwned, LocalIds
<1>7. SockRemote' /\ Written'
  BY <1>1, <1>3, <1>4 DEF SockRemote, Written
<1>8. OutOrdered' /\ LocalBehind' /\ RemoteBehind' /\ LocalOnce' /\ InOrder'
  BY <1>1 DEF OutOrdered, LocalBehind, RemoteBehind, LocalOnce, InOrder
<1>9. QED BY <1>5, <1>6, <1>7, <1>8

\* readVerify (network.cpp) throws a datagram away.
LEMMA ReadDroppedDInv == ASSUME DInv, ReadDropped PROVE DInv'
<1> USE DEF DInv
<1>1. /\ sock # << >> /\ sock' = Tail(sock)
      /\ UNCHANGED <<id, sequences, outQ, inQ, wire, time, repeats>>
  BY DEF ReadDropped
<1>2. /\ sock' \in Seq(Buffer)
      /\ \A i \in DOMAIN sock' : i + 1 \in DOMAIN sock /\ sock'[i] = sock[i + 1]
  BY <1>1, TailAt DEF DataType
<1>3. DataType' /\ SockRemote' /\ Written'
  BY <1>1, <1>2 DEF DataType, SockRemote, Written
<1>4. WireOwned' /\ OutOwned'
  BY <1>1 DEF WireOwned, OutOwned, LocalIds
<1>5. OutOrdered' /\ LocalBehind' /\ RemoteBehind' /\ LocalOnce' /\ InOrder'
  BY <1>1 DEF OutOrdered, LocalBehind, RemoteBehind, LocalOnce, InOrder
<1>6. QED BY <1>3, <1>4, <1>5

\* The time that sequences keeps is that of the latest buffer pushed.
LEMMA ReadAcceptedDInv == ASSUME CInv, DInv, ReadAccepted PROVE DInv'
<1> USE DEF DInv
<1> DEFINE b == Head(sock)
<1>1. /\ sock # << >> /\ sequences[b.src] <= b.time
      /\ sequences' = [sequences EXCEPT ![b.src] = b.time]
      /\ Deliver(b) /\ sock' = Tail(sock)
      /\ UNCHANGED <<id, outQ, wire, time, repeats>>
  BY DEF ReadAccepted
<1>2. /\ sock' \in Seq(Buffer)
      /\ \A i \in DOMAIN sock' : i + 1 \in DOMAIN sock /\ sock'[i] = sock[i + 1]
      /\ 1 \in DOMAIN sock /\ b = sock[1] /\ b \in Buffer
  BY <1>1, TailAt DEF DataType
<1>3. b.src \in RemoteId /\ b.time <= time
  BY <1>2 DEF SockRemote, Written
<1>4. b.src \in Id /\ b.time \in 1 .. MaxTime /\ MaxTime \in Nat /\ time \in 0 .. MaxTime
  BY <1>2, BoundAssumption DEF Buffer, DataType
<1> HIDE DEF b
<1>5. /\ inQ' \in [Server -> Seq(Buffer)]
      /\ \A s \in Server :
            /\ DOMAIN inQ[s] = 1 .. Len(inQ[s]) /\ Len(inQ[s]) \in Nat
            /\ \A i \in DOMAIN inQ'[s] :
                \/ i \in DOMAIN inQ[s] /\ inQ'[s][i] = inQ[s][i]
                \/ i = Len(inQ[s]) + 1 /\ inQ'[s][i] = b
  BY <1>1, <1>2, DeliverAt DEF CInv
<1>6. DataType'
  BY <1>1, <1>2, <1>4, <1>5 DEF DataType
<1>7. WireOwned' /\ OutOwned' /\ OutOrdered'
  BY <1>1 DEF WireOwned, OutOwned, OutOrdered, LocalIds
<1>8. SockRemote' /\ Written'
  BY <1>1, <1>2, <1>3, <1>5 DEF SockRemote, Written
<1>9. LocalBehind'
  <2>1. \A t \in Server : \A j \in DOMAIN outQ[t] : outQ[t][j].src # b.src
    BY <1>3 DEF OutOwned
  <2>2. QED BY <1>1, <1>5, <2>1 DEF LocalBehind
<1>10. \A s \in Server : \A i \in DOMAIN inQ[s] :
          /\ inQ[s][i].src = b.src => inQ[s][i].time <= sequences[b.src]
          /\ inQ[s][i].time \in Nat
  BY <1>3, Elements DEF RemoteBehind
<1>11. RemoteBehind'
  <2> SUFFICES ASSUME NEW s \in Server, NEW i \in DOMAIN inQ'[s], inQ'[s][i].src \in RemoteId
               PROVE  inQ'[s][i].time <= sequences'[inQ'[s][i].src]
    BY DEF RemoteBehind
  <2>0. sequences[b.src] \in 0 .. MaxTime
    BY <1>4 DEF DataType
  <2>0a. \A r \in Id : sequences'[r] = IF r = b.src THEN b.time ELSE sequences[r]
    BY <1>1 DEF DataType
  <2>1. CASE i \in DOMAIN inQ[s] /\ inQ'[s][i] = inQ[s][i] /\ inQ[s][i].src = b.src
    <3>1. inQ[s][i].time <= sequences[b.src] /\ inQ[s][i].time \in Nat
      BY <1>10, <2>1
    <3>2. QED BY <1>1, <1>4, <2>0, <2>0a, <2>1, <3>1
  <2>2. CASE i \in DOMAIN inQ[s] /\ inQ'[s][i] = inQ[s][i] /\ inQ[s][i].src # b.src
    <3>1. inQ[s][i].src \in Id
      BY <2>2, IdAssumption
    <3>2. QED BY <2>0a, <2>2, <3>1 DEF RemoteBehind
  <2>3. CASE inQ'[s][i] = b
    BY <1>4, <2>0a, <2>3
  <2>4. QED BY <1>5, <2>1, <2>2, <2>3
<1>12. LocalOnce'
  <2> SUFFICES ASSUME NEW s \in Server, NEW i \in DOMAIN inQ'[s], NEW j \in DOMAIN inQ'[s],
                      i < j, inQ'[s][i].src = inQ'[s][j].src, inQ'[s][i].src \notin RemoteId
               PROVE  inQ'[s][i].time < inQ'[s][j].time
    BY DEF LocalOnce
  <2>1. /\ i \in DOMAIN inQ[s] /\ inQ'[s][i] = inQ[s][i]
        /\ j \in DOMAIN inQ[s] /\ inQ'[s][j] = inQ[s][j]
    BY <1>3, <1>5
  <2>2. QED BY <2>1 DEF LocalOnce
<1>13. InOrder'
  <2> SUFFICES ASSUME NEW s \in Server, NEW i \in DOMAIN inQ'[s], NEW j \in DOMAIN inQ'[s],
                      i < j, inQ'[s][i].src = inQ'[s][j].src
               PROVE  inQ'[s][i].time <= inQ'[s][j].time
    BY DEF InOrder
  <2>1. i \in DOMAIN inQ[s] /\ inQ'[s][i] = inQ[s][i]
    <3>1. /\ DOMAIN inQ[s] = 1 .. Len(inQ[s]) /\ Len(inQ[s]) \in Nat
          /\ i \in DOMAIN inQ[s] \/ i = Len(inQ[s]) + 1
          /\ j \in DOMAIN inQ[s] \/ j = Len(inQ[s]) + 1
      BY <1>5
    <3>2. i # Len(inQ[s]) + 1
      BY <3>1
    <3>3. QED BY <1>5, <3>2
  <2>2. CASE j \in DOMAIN inQ[s] /\ inQ'[s][j] = inQ[s][j]
    BY <2>1, <2>2 DEF InOrder
  <2>3. CASE inQ'[s][j] = b
    <3>1. inQ[s][i].time <= sequences[b.src] /\ inQ[s][i].time \in Nat
      BY <1>10, <2>1, <2>3
    <3>2. sequences[b.src] \in 0 .. MaxTime
      BY <1>4 DEF DataType
    <3>3. QED BY <1>1, <1>4, <2>1, <2>3, <3>1, <3>2
  <2>4. QED BY <1>5, <2>2, <2>3
<1>14. QED BY <1>6, <1>7, <1>8, <1>9, <1>11, <1>12, <1>13
\* The buffer taken is newer than what was seen of its node, and what is left
\* of the node is newer still: only the node's own outQ holds any of it.
LEMMA TakeOutgoingDInv ==
    ASSUME CInv, DInv, NEW s \in Server, TakeOutgoing(s) PROVE DInv'
<1> USE DEF DInv
<1> DEFINE b == Head(outQ[s])
<1>1. /\ outQ[s] # << >> /\ Deliver(b) /\ outQ' = [outQ EXCEPT ![s] = Tail(@)]
      /\ UNCHANGED <<id, sequences, wire, sock, time, repeats>>
  BY DEF TakeOutgoing, netVars
<1>2. /\ Tail(outQ[s]) \in Seq(Buffer) /\ Len(Tail(outQ[s])) <= OutCapacity
      /\ \A i \in DOMAIN Tail(outQ[s]) :
            /\ i \in Nat \ {0} /\ i + 1 \in DOMAIN outQ[s]
            /\ Tail(outQ[s])[i] = outQ[s][i + 1]
      /\ 1 \in DOMAIN outQ[s] /\ b = outQ[s][1] /\ b \in Buffer
  <2>1. outQ[s] \in Seq(Buffer) /\ Len(outQ[s]) <= OutCapacity /\ OutCapacity \in Nat
    BY BoundAssumption DEF DataType
  <2>2. QED BY <1>1, <2>1, TailAt
<1>3. /\ b.src \notin RemoteId /\ b.time <= time /\ b.src \in Id /\ b.src # 0 /\ b.time \in Nat
      /\ b.src \in GraphId => id[s] = b.src
  BY <1>2, IdAssumption DEF OutOwned, Written, Buffer
<1>4. \A i \in DOMAIN outQ[s] : 1 < i => b.time < outQ[s][i].time
  BY <1>2 DEF OutOrdered
<1> HIDE DEF b
<1>5. /\ inQ' \in [Server -> Seq(Buffer)]
      /\ \A t \in Server :
            /\ DOMAIN inQ[t] = 1 .. Len(inQ[t]) /\ Len(inQ[t]) \in Nat
            /\ \A i \in DOMAIN inQ'[t] :
                \/ i \in DOMAIN inQ[t] /\ inQ'[t][i] = inQ[t][i]
                \/ i = Len(inQ[t]) + 1 /\ inQ'[t][i] = b /\ b.src \in GraphId
  <2>1. \A t \in Server : subscribers[b.src][t] # 0 => b.src \in GraphId
    BY <1>3 DEF CInv, OnlyGraph
  <2>2. /\ inQ' \in [Server -> Seq(Buffer)]
        /\ \A t \in Server :
              /\ DOMAIN inQ[t] = 1 .. Len(inQ[t]) /\ Len(inQ[t]) \in Nat
              /\ \A i \in DOMAIN inQ'[t] :
                  \/ i \in DOMAIN inQ[t] /\ inQ'[t][i] = inQ[t][i]
                  \/ i = Len(inQ[t]) + 1 /\ inQ'[t][i] = b /\ subscribers[b.src][t] # 0
    BY <1>1, <1>2, DeliverAt DEF CInv
  <2>3. QED BY <2>1, <2>2
<1>6. /\ outQ' \in [Server -> Seq(Buffer)]
      /\ \A t \in Server : outQ'[t] = IF t = s THEN Tail(outQ[s]) ELSE outQ[t]
  BY <1>1, <1>2 DEF DataType
<1>7. \A t \in Server : \A i \in DOMAIN outQ'[t] :
         \/ t # s /\ i \in DOMAIN outQ[t] /\ outQ'[t][i] = outQ[t][i]
         \/ /\ t = s /\ i \in Nat \ {0} /\ i + 1 \in DOMAIN outQ[t]
            /\ outQ'[t][i] = outQ[t][i + 1]
  BY <1>2, <1>6
<1>8. DataType'
  <2>1. \A t \in Server : Len(outQ'[t]) <= OutCapacity
    BY <1>2, <1>6 DEF DataType
  <2>2. QED BY <1>1, <1>5, <1>6, <2>1 DEF DataType
<1>9. WireOwned' /\ SockRemote'
  BY <1>1 DEF WireOwned, SockRemote, LocalIds
<1>10. OutOwned'
  BY <1>1, <1>7 DEF OutOwned
<1>11. OutOrdered'
  <2> SUFFICES ASSUME NEW t \in Server, NEW i \in DOMAIN outQ'[t], NEW j \in DOMAIN outQ'[t],
                      i < j
               PROVE  outQ'[t][i].time < outQ'[t][j].time
    BY DEF OutOrdered
  <2>1. CASE t = s
    <3>1. /\ i \in Nat /\ i + 1 \in DOMAIN outQ[s] /\ outQ'[s][i] = outQ[s][i + 1]
          /\ j \in Nat /\ j + 1 \in DOMAIN outQ[s] /\ outQ'[s][j] = outQ[s][j + 1]
      BY <1>7, <2>1
    <3>2. i + 1 < j + 1
      BY <3>1
    <3>3. QED BY <2>1, <3>1, <3>2 DEF OutOrdered
  <2>2. CASE t # s
    BY <1>6, <2>2 DEF OutOrdered
  <2>3. QED BY <2>1, <2>2
<1>12. Written'
  BY <1>1, <1>3, <1>5, <1>7 DEF Written
<1>13. LocalBehind'
  <2> SUFFICES ASSUME NEW r \in Server, NEW t \in Server, NEW i \in DOMAIN inQ'[r],
                      NEW j \in DOMAIN outQ'[t], inQ'[r][i].src = outQ'[t][j].src
               PROVE  inQ'[r][i].time < outQ'[t][j].time
    BY DEF LocalBehind
  <2>1. PICK m \in DOMAIN outQ[t] : outQ'[t][j] = outQ[t][m] /\ (t = s => 1 < m)
    <3>1. CASE t # s
      BY <1>7, <3>1
    <3>2. CASE t = s
      <4>1. j \in Nat \ {0} /\ j + 1 \in DOMAIN outQ[t] /\ outQ'[t][j] = outQ[t][j + 1]
        BY <1>7, <3>2
      <4>2. 1 < j + 1
        BY <4>1
      <4>3. QED BY <4>1, <4>2
    <3>3. QED BY <3>1, <3>2
  <2>2. CASE i \in DOMAIN inQ[r] /\ inQ'[r][i] = inQ[r][i]
    BY <2>1, <2>2 DEF LocalBehind
  <2>3. CASE inQ'[r][i] = b /\ b.src \in GraphId
    <3>1. id[s] = b.src /\ id[t] = b.src
      BY <1>3, <2>1, <2>3 DEF OutOwned
    <3>2. t = s
      BY <1>3, <3>1 DEF CInv, OwnIds
    <3>3. QED BY <1>4, <2>1, <2>3, <3>2
  <2>4. QED BY <1>5, <2>2, <2>3
<1>14. RemoteBehind'
  BY <1>1, <1>3, <1>5 DEF RemoteBehind
<1>15. \A t \in Server : \A i \in DOMAIN inQ[t] :
          /\ inQ[t][i].src = b.src => inQ[t][i].time < b.time
          /\ inQ[t][i].time \in Nat
  BY <1>2, Elements DEF LocalBehind
<1>16. ASSUME NEW t \in Server, NEW i \in DOMAIN inQ'[t], NEW j \in DOMAIN inQ'[t],
              i < j, inQ'[t][i].src = inQ'[t][j].src
       PROVE  \/ /\ i \in DOMAIN inQ[t] /\ inQ'[t][i] = inQ[t][i]
                 /\ j \in DOMAIN inQ[t] /\ inQ'[t][j] = inQ[t][j]
              \/ /\ inQ'[t][i].time < inQ'[t][j].time
                 /\ inQ'[t][i].time \in Nat /\ inQ'[t][j].time \in Nat
  <2>1. i \in DOMAIN inQ[t] /\ inQ'[t][i] = inQ[t][i]
    <3>1. /\ DOMAIN inQ[t] = 1 .. Len(inQ[t]) /\ Len(inQ[t]) \in Nat
          /\ i \in DOMAIN inQ[t] \/ i = Len(inQ[t]) + 1
          /\ j \in DOMAIN inQ[t] \/ j = Len(inQ[t]) + 1
      BY <1>5, <1>16
    <3>2. i # Len(inQ[t]) + 1
      BY <1>16, <3>1
    <3>3. QED BY <1>5, <1>16, <3>2
  <2>2. CASE j \in DOMAIN inQ[t] /\ inQ'[t][j] = inQ[t][j]
    BY <2>1, <2>2
  <2>3. CASE inQ'[t][j] = b
    BY <1>3, <1>15, <1>16, <2>1, <2>3
  <2>4. QED BY <1>5, <1>16, <2>2, <2>3
<1>17. LocalOnce'
  BY <1>16 DEF LocalOnce
<1>18. InOrder'
  <2> SUFFICES ASSUME NEW t \in Server, NEW i \in DOMAIN inQ'[t], NEW j \in DOMAIN inQ'[t],
                      i < j, inQ'[t][i].src = inQ'[t][j].src
               PROVE  inQ'[t][i].time <= inQ'[t][j].time
    BY DEF InOrder
  <2>1. CASE /\ i \in DOMAIN inQ[t] /\ inQ'[t][i] = inQ[t][i]
             /\ j \in DOMAIN inQ[t] /\ inQ'[t][j] = inQ[t][j]
    BY <2>1 DEF InOrder
  <2>2. CASE /\ inQ'[t][i].time < inQ'[t][j].time
             /\ inQ'[t][i].time \in Nat /\ inQ'[t][j].time \in Nat
    BY <2>2
  <2>3. QED BY <1>16, <2>1, <2>2
<1>19. QED BY <1>8, <1>9, <1>10, <1>11, <1>12, <1>13, <1>14, <1>17, <1>18

\* Every step keeps the order of what is delivered.
LEMMA NextDInv == CInv /\ DInv /\ [Next]_vars => DInv'
<1> SUFFICES ASSUME CInv, DInv, [Next]_vars PROVE DInv'
  OBVIOUS
<1>1. ASSUME NEW s \in Server, NEW i \in Id, RunEarly(s, i) PROVE DInv'
  <2>1. UNCHANGED dataVars /\ \A t \in Server : id[t] \in GraphId => id'[t] = id[t]
    BY <1>1 DEF RunEarly, RunNode, Run, dataVars, netVars, CInv, ControlType
  <2>2. QED BY <2>1, ControlDInv
<1>2. ASSUME NEW s \in Server, NEW i \in GraphId, Connect(s, i) \/ Drop(s, i) PROVE DInv'
  BY <1>2, ControlDInv DEF Connect, Drop, dataVars, netVars
<1>3. CASE Rebuild
  BY <1>3, ControlDInv DEF Rebuild, RebuildBegin, RebuildLocal, dataVars, netVars
<1>4. ASSUME NEW s \in Server, Write(s) \/ TakeOutgoing(s) PROVE DInv'
  BY <1>4, WriteDInv, TakeOutgoingDInv
<1>5. CASE Environment
  BY <1>5, RemoteWriteDInv, ArriveDInv DEF Environment
<1>6. CASE ReadAccepted \/ ReadDropped
  BY <1>6, ReadAcceptedDInv, ReadDroppedDInv
<1>7. CASE UNCHANGED vars
  BY <1>7, ControlDInv DEF vars, netVars, dataVars
<1>8. QED BY <1>1, <1>2, <1>3, <1>4, <1>5, <1>6, <1>7 DEF Next, Commands, Main

\* The inductive invariant of the servers, Network and the main loop (main.cpp).
THEOREM SpecIInv == Spec => []IInv
<1>1. Init => IInv
  BY InitCInv, InitDInv DEF IInv
<1>2. IInv /\ [Next]_vars => IInv'
  BY NextCInv, NextDInv DEF IInv
<1>3. QED BY <1>1, <1>2, PTL DEF Spec

-----------------------------------------------------------------------------
(* The state keeps its types, and getSubscriptions (network.cpp:11) lists  *)
(* no server twice for one source, however commands fall between rebuilds. *)
THEOREM DeliveryTypeOK == Spec => []TypeOK
<1>1. IInv => TypeOK
  BY DEF IInv, CInv, DInv, ControlType, DataType, TypeOK
<1>2. QED BY <1>1, SpecIInv, PTL

(* The flag dirty is enough to keep main's copy of the routes fresh        *)
(* (network.h:35): with the flag down and no copy under way, main routes   *)
(* exactly what is connected.                                              *)
THEOREM DeliveryRoutesFresh == Spec => []RoutesFresh
<1>1. IInv => RoutesFresh
  BY DEF IInv, CInv, CopiedSoFar, RoutesFresh, Locked
<1>2. QED BY <1>1, SpecIInv, PTL

(* subscribe and unsubscribe (network.cpp:30, 52) keep the socket in the   *)
(* groups of exactly the remote nodes that somebody local listens to.      *)
THEOREM DeliveryMembershipExact == Spec => []MembershipExact
BY SpecIInv, PTL DEF IInv, CInv

(* What a local node writes reaches each local subscriber at most once,    *)
(* although it is also sent to the node's multicast group.                 *)
THEOREM DeliveryLocalThroughMemory == Spec => []LocalThroughMemory
<1>1. IInv => LocalThroughMemory
  <2> SUFFICES ASSUME IInv, NEW s \in Server, NEW i \in DOMAIN inQ[s], NEW j \in DOMAIN inQ[s],
                      i # j, inQ[s][i] = inQ[s][j], inQ[s][i].src \in LocalIds
               PROVE  FALSE
    BY DEF LocalThroughMemory
  <2>1. inQ[s][i].src \notin RemoteId
    BY DEF IInv, CInv, OwnIds, LocalIds
  <2>2. i \in Nat /\ j \in Nat /\ inQ[s][i].time \in Nat
    BY Elements DEF IInv, DInv
  <2>3. i < j \/ j < i
    BY <2>2
  <2>4. inQ[s][i].time < inQ[s][j].time \/ inQ[s][j].time < inQ[s][i].time
    BY <2>1, <2>3 DEF IInv, DInv, LocalOnce
  <2>5. QED BY <2>2, <2>4
<1>2. QED BY <1>1, SpecIInv, PTL

(* readVerify's test (network.cpp:103) and the order of outQ together give *)
(* every subscriber the buffers of each source in the order they were      *)
(* written, with any loss, repetition and reordering by UDP.               *)
THEOREM DeliveryInOrder == Spec => []InOrder
BY SpecIInv, PTL DEF IInv, DInv
=============================================================================
