------------------------------ MODULE Delivery ------------------------------
(***************************************************************************)
(* One server process: the Network object (network.cpp), the server        *)
(* threads that share it (server.cpp) and the main thread that moves       *)
(* TimeBuffers from outgoing queues and from the multicast socket into     *)
(* incoming queues (main.cpp).  Around it: clients that send RUN, CONNECT  *)
(* and DROP, clusters of other processes that send to their multicast      *)
(* groups, and UDP, which may lose, repeat and reorder what they send.     *)
(*                                                                         *)
(* A TimeBuffer is the id it was sent under and its time; all writers draw *)
(* times from one clock.  subscribe and unsubscribe run under spinLock and *)
(* are one step each; getSubscriptions holds spinLock over several steps,  *)
(* because the RUN command changes a cluster's id without taking it.       *)
(* FreeQueue and BlockingQueue are the queues of their own modules; inQ is *)
(* here the history of everything pushed into it.                          *)
(***************************************************************************)
EXTENDS Naturals, Sequences, FiniteSets

CONSTANTS Server,      \* the server threads of the process
          Id,          \* the ClusterIDs, positive numbers
          GraphId,     \* the ids of the graph's nodes, which its edges connect
          RemoteId,    \* those of them that run in other processes
          OutCapacity, \* what a FreeQueue holds (MAX_MSG_Q_SIZE - 1)
          MaxTime,     \* bound of the model: buffers ever written
          MaxRepeats   \* bound of the model: repeated datagrams

ASSUME IdAssumption == Id \subseteq Nat \ {0} /\ RemoteId \subseteq GraphId /\ GraphId \subseteq Id
ASSUME BoundAssumption == {OutCapacity, MaxTime, MaxRepeats} \subseteq Nat

VARIABLES
    id,             \* cluster->getId() of every server; 0: none yet
    subscriptions,  \* Network: local id -> the remote ids it is connected to
    dirty,          \* Network: subscriptions changed since the last rebuild
    joined,         \* the groups the multicast socket has joined
    sequences,      \* Network: time of the latest buffer accepted per source
    subscribers,    \* main: source id -> how often each server is listed
    todo,           \* main: local ids getSubscriptions still has to visit
    outQ, inQ,      \* the queues of every server
    wire, sock,     \* datagrams under way; the multicast socket's buffer
    time, repeats,  \* buffers written, datagrams repeated so far
    alive           \* the process has not crashed

netVars == <<wire, sock, repeats>>
vars == <<id, subscriptions, dirty, joined, sequences, subscribers, todo,
          outQ, inQ, wire, sock, time, repeats, alive>>

Buffer == [src : Id, time : 1 .. MaxTime]
LocalIds == {id[s] : s \in Server} \ {0}
Connected(s, r) == id[s] # 0 /\ r \in subscriptions[id[s]]
Locked == todo # {}        \* spinLock is held by getSubscriptions
Nobody == [r \in Id |-> [s \in Server |-> 0]]

Init ==
    /\ id = [s \in Server |-> 0]
    /\ subscriptions = [l \in Id |-> {}]
    /\ dirty = FALSE /\ joined = {}
    /\ sequences = [i \in Id |-> 0]
    /\ subscribers = Nobody /\ todo = {}
    /\ outQ = [s \in Server |-> << >>] /\ inQ = [s \in Server |-> << >>]
    /\ wire = {} /\ sock = << >>
    /\ time = 0 /\ repeats = 0
    /\ alive = TRUE

-----------------------------------------------------------------------------
(* Server::parseCommand, on the server's own thread.  A server with id 0   *)
(* is not reachable for CONNECT and DROP: nobody knows it under an id.     *)

Run(s, new) ==
    /\ alive
    /\ id' = [id EXCEPT ![s] = new]
    /\ UNCHANGED <<subscriptions, dirty, joined, sequences, subscribers, todo,
                   outQ, inQ, netVars, time, alive>>

\* Mutation (RoutesFresh): a new connection does not ask for a rebuild.
ConnectQuietly(s, remote) ==
    /\ alive /\ id[s] # 0 /\ ~Locked
    /\ dirty' = dirty
    /\ subscriptions' = [subscriptions EXCEPT ![id[s]] = @ \cup {remote}]
    /\ joined' = IF remote \in subscriptions[id[s]] \cup LocalIds
                   THEN joined ELSE joined \cup {remote}
    /\ UNCHANGED <<id, sequences, subscribers, todo, outQ, inQ, netVars, time, alive>>

\* Mutation (LocalThroughMemory): the group is joined for a local remote too.
ConnectAlwaysJoin(s, remote) ==
    /\ alive /\ id[s] # 0 /\ ~Locked
    /\ dirty' = TRUE
    /\ subscriptions' = [subscriptions EXCEPT ![id[s]] = @ \cup {remote}]
    /\ joined' = joined \cup {remote}
    /\ UNCHANGED <<id, sequences, subscribers, todo, outQ, inQ, netVars, time, alive>>

\* CONNECT remote: Network::subscribe
Connect(s, remote) ==
    /\ alive /\ id[s] # 0 /\ ~Locked
    /\ dirty' = TRUE
    /\ subscriptions' = [subscriptions EXCEPT ![id[s]] = @ \cup {remote}]
    /\ joined' = IF remote \in subscriptions[id[s]] \cup LocalIds
                   THEN joined ELSE joined \cup {remote}
    /\ UNCHANGED <<id, sequences, subscribers, todo, outQ, inQ, netVars, time, alive>>

\* What unsubscribe does once remote is off the local cluster's list: the group
\* is left unless another local cluster needs it or remote is local.
Leave(remote) ==
    joined' = IF remote \in LocalIds \/ \E l \in Id : remote \in subscriptions'[l]
                THEN joined ELSE joined \ {remote}

\* Mutation (MembershipExact): the group is left although others listen to it.
DropAlwaysLeave(s, remote) ==
    /\ alive /\ id[s] # 0 /\ ~Locked
    /\ remote \in subscriptions[id[s]]
    /\ dirty' = TRUE
    /\ subscriptions' = [subscriptions EXCEPT ![id[s]] = @ \ {remote}]
    /\ joined' = joined \ {remote}
    /\ UNCHANGED <<id, sequences, subscribers, todo, outQ, inQ, netVars, time, alive>>

\* DROP remote: Network::unsubscribe of a remote that is connected
Drop(s, remote) ==
    /\ alive /\ id[s] # 0 /\ ~Locked
    /\ remote \in subscriptions[id[s]]
    /\ dirty' = TRUE
    /\ subscriptions' = [subscriptions EXCEPT ![id[s]] = @ \ {remote}]
    /\ Leave(remote)
    /\ UNCHANGED <<id, sequences, subscribers, todo, outQ, inQ, netVars, time, alive>>

\* DROP remote of a remote that is not connected: all.erase(all.end()), which is
\* undefined.  As built, the last element of the vector goes, whichever it is, or
\* the process crashes: in memmove, or copying a vector that lost an element it
\* did not have (the copy throws, here and in main's next getSubscriptions).
DropAbsent(s, remote) ==
    /\ alive /\ id[s] # 0 /\ ~Locked
    /\ remote \notin subscriptions[id[s]]
    /\ \/ /\ alive' = FALSE
          /\ UNCHANGED <<subscriptions, dirty, joined>>
       \/ /\ \E last \in subscriptions[id[s]] :
                subscriptions' = [subscriptions EXCEPT ![id[s]] = @ \ {last}]
          /\ dirty' = TRUE
          /\ Leave(remote)
          /\ UNCHANGED alive
    /\ UNCHANGED <<id, sequences, subscribers, todo, outQ, inQ, netVars, time>>

-----------------------------------------------------------------------------
(* Server::write hands over a full buffer: to outQ, which drops it when it *)
(* is full, and to the multicast group of the cluster's id.                *)
Write(s) ==
    /\ alive /\ id[s] # 0 /\ time < MaxTime
    /\ time' = time + 1
    /\ LET b == [src |-> id[s], time |-> time'] IN
         /\ outQ' = IF Len(outQ[s]) < OutCapacity
                      THEN [outQ EXCEPT ![s] = Append(@, b)] ELSE outQ
         /\ wire' = wire \cup {b}
    /\ UNCHANGED <<id, subscriptions, dirty, joined, sequences, subscribers, todo,
                   inQ, sock, repeats, alive>>

\* A cluster of another process writes a buffer.
RemoteWrite(i) ==
    /\ time < MaxTime
    /\ time' = time + 1
    /\ wire' = wire \cup {[src |-> i, time |-> time']}
    /\ UNCHANGED <<id, subscriptions, dirty, joined, sequences, subscribers, todo,
                   outQ, inQ, sock, repeats, alive>>

\* The kernel queues a datagram for the socket if it has joined the group then
\* (one process per machine: see README); UDP may keep it to deliver it again.
\* A datagram that is lost, or finds the group not joined, is one that stays
\* under way for ever.
Arrive(b) ==
    /\ b \in wire /\ b.src \in joined
    /\ sock' = Append(sock, b)
    /\ \/ /\ wire' = wire \ {b}
          /\ UNCHANGED repeats
       \/ /\ repeats < MaxRepeats
          /\ repeats' = repeats + 1
          /\ UNCHANGED wire
    /\ UNCHANGED <<id, subscriptions, dirty, joined, sequences, subscribers, todo,
                   outQ, inQ, time, alive>>

-----------------------------------------------------------------------------
(* The main thread: one turn reads a datagram and takes a buffer from each *)
(* outQ; one turn in 1000 begins with getSubscriptions.  The order within  *)
(* a turn decides nothing, since the servers run all the while.            *)

\* Mutation (TypeOK): the routes of the last rebuild are not cleared.
RebuildBeginKeep ==
    /\ alive /\ ~Locked /\ dirty
    /\ dirty' = FALSE
    /\ todo' = {l \in Id : subscriptions[l] # {}}
    /\ UNCHANGED <<id, subscriptions, joined, sequences, subscribers, outQ, inQ,
                   netVars, time, alive>>

RebuildBegin ==
    /\ alive /\ ~Locked /\ dirty
    /\ dirty' = FALSE
    /\ subscribers' = Nobody
    /\ todo' = {l \in Id : subscriptions[l] # {}}
    /\ UNCHANGED <<id, subscriptions, joined, sequences, outQ, inQ, netVars, time, alive>>

\* Mutation (ConnectTakesEffect): only the first server with the id is listed.
RebuildLocalBreak(l) ==
    /\ alive /\ l \in todo
    /\ todo' = todo \ {l}
    /\ subscribers' =
         [r \in Id |-> [s \in Server |->
            subscribers[r][s] + IF /\ r \in subscriptions[l] /\ id[s] = l
                                   /\ \A t \in Server : subscribers[r][t] = 0
                                THEN 1 ELSE 0]]
    /\ UNCHANGED <<id, subscriptions, dirty, joined, sequences, outQ, inQ, netVars, time, alive>>

\* One turn of the outer loop; ids are read without synchronisation.
RebuildLocal(l) ==
    /\ alive /\ l \in todo
    /\ todo' = todo \ {l}
    /\ subscribers' =
         [r \in Id |-> [s \in Server |->
            subscribers[r][s] + IF r \in subscriptions[l] /\ id[s] = l THEN 1 ELSE 0]]
    /\ UNCHANGED <<id, subscriptions, dirty, joined, sequences, outQ, inQ, netVars, time, alive>>

\* Push b once for each time a server is listed for its source.
Times(b, n) == [i \in 1 .. n |-> b]
Deliver(b) == inQ' = [s \in Server |-> inQ[s] \o Times(b, subscribers[b.src][s])]

\* Mutation (InOrder): the time of the latest buffer is not checked.
ReadUnordered ==
    /\ alive /\ ~Locked /\ sock # << >>
    /\ sequences' = [sequences EXCEPT ![Head(sock).src] = Head(sock).time]
    /\ Deliver(Head(sock))
    /\ sock' = Tail(sock)
    /\ UNCHANGED <<id, subscriptions, dirty, joined, subscribers, todo, outQ,
                   wire, time, repeats, alive>>

\* readVerify accepts a buffer that is not older than the latest of its source.
ReadAccepted ==
    /\ alive /\ ~Locked /\ sock # << >>
    /\ sequences[Head(sock).src] <= Head(sock).time
    /\ sequences' = [sequences EXCEPT ![Head(sock).src] = Head(sock).time]
    /\ Deliver(Head(sock))
    /\ sock' = Tail(sock)
    /\ UNCHANGED <<id, subscriptions, dirty, joined, subscribers, todo, outQ,
                   wire, time, repeats, alive>>

\* It drops a buffer that is out of order, or older than PACKET_LIFE_TIME_MS:
\* how long a datagram took is not modelled, so that any may be too old.
ReadDropped ==
    /\ alive /\ ~Locked /\ sock # << >>
    /\ sock' = Tail(sock)
    /\ UNCHANGED <<id, subscriptions, dirty, joined, sequences, subscribers, todo,
                   outQ, inQ, wire, time, repeats, alive>>

TakeOutgoing(s) ==
    /\ alive /\ ~Locked /\ outQ[s] # << >>
    /\ Deliver(Head(outQ[s]))
    /\ outQ' = [outQ EXCEPT ![s] = Tail(@)]
    /\ UNCHANGED <<id, subscriptions, dirty, joined, sequences, subscribers, todo,
                   netVars, time, alive>>

-----------------------------------------------------------------------------
Environment ==
    \/ \E i \in RemoteId : RemoteWrite(i)
    \/ \E b \in wire : Arrive(b)

Rebuild == RebuildBegin \/ \E l \in Id : RebuildLocal(l)
Main ==
    \/ Rebuild
    \/ ReadAccepted \/ ReadDropped
    \/ \E s \in Server : TakeOutgoing(s)

\* A cluster runs under ids of the tracker's until a client gives it the id of
\* its node.  Ids are unique.
RunNode(s, new) ==
    /\ id[s] \notin GraphId
    /\ new \notin LocalIds \cup RemoteId
    /\ Run(s, new)

\* The order createNetwork keeps: all clusters have the ids of their nodes before
\* the first CONNECT.
RunEarly(s, new) == (\A l \in Id : subscriptions[l] = {}) /\ RunNode(s, new)

Commands ==
    \E s \in Server :
        \/ \E i \in Id : RunEarly(s, i)
        \/ \E i \in GraphId : Connect(s, i) \/ Drop(s, i)

Next == Commands \/ (\E s \in Server : Write(s)) \/ Environment \/ Main

Spec == Init /\ [][Next]_vars

\* main's loop never blocks: it rebuilds within 1000 turns and releases spinLock.
FairSpec == Spec /\ WF_vars(Rebuild)

\* What the protocol lets clients do besides: a RUN after other clusters have
\* connected to the node, and a DROP that is repeated (UDP, or the client's retry)
\* or names a cluster that is not connected.
LateSpec == Init /\ [][Next \/ \E s \in Server, i \in Id : RunNode(s, i)]_vars
RepeatSpec == Init /\ [][Next \/ \E s \in Server, i \in GraphId : DropAbsent(s, i)]_vars

-----------------------------------------------------------------------------
(* All variables have their types, and a server is never listed twice for  *)
(* one source.                                                             *)
TypeOK ==
    /\ id \in [Server -> Id \cup {0}]
    /\ subscriptions \in [Id -> SUBSET Id]
    /\ dirty \in BOOLEAN /\ alive \in BOOLEAN
    /\ joined \subseteq Id
    /\ sequences \in [Id -> 0 .. MaxTime]
    /\ subscribers \in [Id -> [Server -> 0 .. 1]]
    /\ todo \subseteq Id
    /\ \A s \in Server :
          /\ outQ[s] \in Seq(Buffer) /\ Len(outQ[s]) <= OutCapacity
          /\ inQ[s] \in Seq(Buffer)
    /\ wire \subseteq Buffer /\ sock \in Seq(Buffer)
    /\ time \in 0 .. MaxTime /\ repeats \in 0 .. MaxRepeats

(* The main thread's private copy of the routes is what the shared table   *)
(* says, except while a change is flagged or being copied: dirty covers    *)
(* every change of subscriptions (network.h:35).                           *)
RoutesFresh ==
    (~dirty /\ ~Locked) =>
        \A r \in Id, s \in Server :
            subscribers[r][s] = IF Connected(s, r) THEN 1 ELSE 0

(* The socket is in the multicast groups of exactly the remote clusters    *)
(* that some local cluster is connected to, whoever connected and dropped  *)
(* in whatever order.                                                      *)
MembershipExact ==
    joined = {r \in Id : \E l \in Id : r \in subscriptions[l]} \ LocalIds

(* "Threads running in a single process communicate through shared memory" *)
(* (README.md:4): what a local cluster writes reaches a local subscriber   *)
(* through outQ alone, hence once, although it is also sent to the group.  *)
LocalThroughMemory ==
    \A s \in Server : \A i, j \in DOMAIN inQ[s] :
        (i # j /\ inQ[s][i] = inQ[s][j]) => inQ[s][i].src \notin LocalIds

(* A subscriber never sees the time of one source go back, whatever UDP    *)
(* does with its datagrams.                                                *)
InOrder ==
    \A s \in Server : \A i, j \in DOMAIN inQ[s] :
        (i < j /\ inQ[s][i].src = inQ[s][j].src) => inQ[s][i].time <= inQ[s][j].time

(* A CONNECT takes effect: the main thread comes to route the remote's     *)
(* buffers to the server, unless the connection is dropped first.          *)
ConnectTakesEffect ==
    \A s \in Server, r \in GraphId :
        Connected(s, r) ~> (subscribers[r][s] = 1 \/ ~Connected(s, r))

(* DROP deletes the connection it names and no other (client.cpp:250,      *)
(* network.cpp:57), and leaves the process running.                        *)
DropOnlyNamed ==
    [][alive' /\ \A l, r \in Id :
          (r \in subscriptions[l] /\ r \notin subscriptions'[l]) =>
              \E s \in Server : id[s] = l /\ Drop(s, r)]_vars
=============================================================================
