------------------------------ MODULE Registry ------------------------------
(***************************************************************************)
(* The tracker and the processes that register with it over UDP: server    *)
(* threads (server.cpp: run, requestIdFromTracker, the RUN command), the   *)
(* time server (utils/timeserv.cpp) and a client that renames servers      *)
(* (utils/client.cpp: "run").                                              *)
(*                                                                         *)
(* A datagram sits in net from the moment it is sent.  It may be delivered *)
(* late or out of order (any element of net), more than once (Deliver may  *)
(* leave it there) or never (Lose).  A failed read makes the tracker       *)
(* process the previous datagram again (tracker.cpp:62): to the model that *)
(* is one more duplicate.  "ACK" answers change nothing and are left out.  *)
(***************************************************************************)
EXTENDS Tracker, FiniteSets

CONSTANTS Server,       \* the sockets of server threads
          TimeServer,   \* the socket of the time server
          TIME_SERVER_ID,
          startId,      \* the id each server is started with; 0: ask the tracker
          MaxInFlight,  \* bound of the model: datagrams in net
          MaxRenames,   \* bound of the model: RUN commands of the client
          MaxExpiries,  \* bound of the model: registrations that grow old
          MaxRestarts   \* bound of the model: crashes of the tracker

ASSUME AddrAssumption == Addr = Server \cup {TimeServer} /\ TimeServer \notin Server
ASSUME TimeServerIdAssumption == TIME_SERVER_ID \in Id /\ TIME_SERVER_ID > MaxIssued
\* main's third parameter names a reserved id or none (see README).
ASSUME StartIdAssumption == startId \in [Server -> Reserved \cup {0}]
ASSUME BoundAssumption == {MaxInFlight, MaxRenames, MaxExpiries, MaxRestarts} \subseteq Nat

VARIABLES id,        \* cluster->getId() of every server; the time server's is constant
          status,    \* "new", "up" or "gone", of every process
          net,       \* the datagrams under way
          renames,   \* RUN commands the client has sent
          expiries,  \* registrations that have grown old
          restarts   \* crashes of the tracker

counters == <<renames, expiries, restarts>>
vars == <<clusters, fresh, next, id, status, net, renames, expiries, restarts>>

\* To the tracker: "ID i" from a.  To a server: "RUN i" to a.
Message == [cmd : {"ID"}, addr : Addr, id : Id \cup {0}]
           \cup [cmd : {"RUN"}, addr : Addr, id : Id]
IdMsg(a, i) == [cmd |-> "ID", addr |-> a, id |-> i]
RunMsg(a, i) == [cmd |-> "RUN", addr |-> a, id |-> i]

RegistryInit ==
    /\ TrackerInit
    /\ id = [s \in Server |-> 0]
    /\ status = [a \in Addr |-> "new"]
    /\ net = {}
    /\ renames = 0 /\ expiries = 0 /\ restarts = 0

\* m joins the datagrams under way; when they are MaxInFlight, one is lost.
Send(others, m) ==
    \/ /\ Cardinality(others \cup {m}) <= MaxInFlight
       /\ net' = others \cup {m}
    \/ /\ Cardinality(others \cup {m}) > MaxInFlight
       /\ \E lost \in others : net' = (others \ {lost}) \cup {m}

CurrentId(a) == IF a = TimeServer THEN TIME_SERVER_ID ELSE id[a]

-----------------------------------------------------------------------------
(* Server::run up to its loop; TimeServ::run.                              *)

StartServer(s) ==
    /\ status[s] = "new"
    /\ status' = [status EXCEPT ![s] = "up"]
    /\ id' = [id EXCEPT ![s] = startId[s]]
    /\ UNCHANGED <<trackerVars, net, counters>>

StartTimeServer ==
    /\ status[TimeServer] = "new"
    /\ status' = [status EXCEPT ![TimeServer] = "up"]
    /\ UNCHANGED <<trackerVars, id, net, counters>>

\* the EXIT command, or a crash: the process never comes back on that port
Exit(a) ==
    /\ status[a] = "up"
    /\ status' = [status EXCEPT ![a] = "gone"]
    /\ UNCHANGED <<trackerVars, id, net, counters>>

\* Mutation (Registered): a server that has an id stops announcing it.
AnnounceOnce(a) ==
    /\ status[a] = "up" /\ CurrentId(a) = 0
    /\ Send(net, IdMsg(a, CurrentId(a)))
    /\ UNCHANGED <<trackerVars, id, status, counters>>

\* requestIdFromTracker, on every turn of the loop; the time server's update
Announce(a) ==
    /\ status[a] = "up"
    /\ Send(net, IdMsg(a, CurrentId(a)))
    /\ UNCHANGED <<trackerVars, id, status, counters>>

\* The client moves a server to a reserved id.  createNetwork takes the ids from
\* the graph file, whose nodes are numbered from 1.
ClientRun(s, i) ==
    /\ renames < MaxRenames
    /\ status[s] = "up"
    /\ Send(net, RunMsg(s, i))
    /\ renames' = renames + 1
    /\ UNCHANGED <<trackerVars, id, status, expiries, restarts>>

-----------------------------------------------------------------------------
(* Delivery.  UDP may keep the datagram, to deliver it again.              *)

Taken(m) == net' \in {net, net \ {m}}

\* RUN: parseCommand sets the cluster's id; a time server answers the time,
\* and a process that is gone answers nothing.
DeliverRun(m) ==
    /\ m \in net /\ m.cmd = "RUN"
    /\ Taken(m)
    /\ id' = IF m.addr \in Server /\ status[m.addr] = "up"
               THEN [id EXCEPT ![m.addr] = m.id] ELSE id
    /\ UNCHANGED <<trackerVars, status, counters>>

DeliverIdUpdate(m) ==
    /\ m \in net /\ m.cmd = "ID" /\ m.id # 0
    /\ Taken(m)
    /\ OnIdUpdate(m.addr, m.id)
    /\ UNCHANGED <<id, status, counters>>

DeliverIdRequest(m) ==
    /\ m \in net /\ m.cmd = "ID" /\ m.id = 0
    /\ \E others \in {net, net \ {m}} : Send(others, RunMsg(m.addr, Granted(m.addr)))
    /\ OnIdRequest(m.addr)
    /\ UNCHANGED <<id, status, counters>>

Lose(m) ==
    /\ m \in net
    /\ net' = net \ {m}
    /\ UNCHANGED <<trackerVars, id, status, counters>>

\* A GET by any process; what it answers matters to TimeSync and the client.
Get(i) == OnGet(i) /\ UNCHANGED <<id, status, net, counters>>

GrowOld(i) ==
    /\ expiries < MaxExpiries
    /\ expiries' = expiries + 1
    /\ Expire(i)
    /\ UNCHANGED <<id, status, net, renames, restarts>>

\* The tracker keeps its map and its counter in memory only.
TrackerRestart ==
    /\ restarts < MaxRestarts
    /\ restarts' = restarts + 1
    /\ clusters' = [i \in Id |-> NoAddr]
    /\ fresh' = {}
    /\ next' = RESERVED_CLUSTER_ID + 1
    /\ UNCHANGED <<id, status, net, renames, expiries>>

-----------------------------------------------------------------------------
RegistryNext ==
    \/ \E s \in Server : StartServer(s)
    \/ StartTimeServer
    \/ \E a \in Addr : Exit(a) \/ Announce(a)
    \/ \E s \in Server, i \in Reserved : ClientRun(s, i)
    \/ \E m \in net : DeliverRun(m) \/ DeliverIdUpdate(m) \/ DeliverIdRequest(m) \/ Lose(m)
    \/ \E i \in Id : Get(i) \/ GrowOld(i)

RegistrySpec == RegistryInit /\ [][RegistryNext]_vars

\* The same, with a tracker that may crash and be started again.
CrashNext == RegistryNext \/ TrackerRestart
CrashSpec == RegistryInit /\ [][CrashNext]_vars

\* A server that runs keeps announcing itself (every turn of Server::run's
\* loop), and a datagram that is sent again and again is not lost or overtaken
\* every time: neither the announcement of the id it has now nor a RUN to it.
DeliverCurrent(s) ==
    LET m == IdMsg(s, id[s]) IN DeliverIdUpdate(m) \/ DeliverIdRequest(m)

Fairness ==
    \A s \in Server : /\ WF_vars(Announce(s))
                      /\ SF_vars(DeliverCurrent(s))
                      /\ SF_vars(\E i \in Id : DeliverRun(RunMsg(s, i)))

LiveSpec == CrashSpec /\ Fairness

-----------------------------------------------------------------------------
(* The processes' state and the datagrams under way have their types.      *)
TypeOK ==
    /\ TrackerTypeOK
    /\ id \in [Server -> Id \cup {0}]
    /\ status \in [Addr -> {"new", "up", "gone"}]
    /\ net \subseteq Message
    /\ {renames, expiries, restarts} \subseteq Nat

(* "Unique ID of each cluster as seen by tracker and other clusters"       *)
(* (main.h:7): no two servers run under the same id, unless the user gave  *)
(* both the same reserved one; whatever datagrams are late, repeated or    *)
(* lost, and whatever the tracker has purged and handed out since.         *)
UniqueIds ==
    \A s, t \in Server : (s # t /\ id[s] = id[t]) => id[s] \in Reserved \cup {0}

\* What a step may do to the entry of an id that was handed out.
KeepsIssued ==
    \A i \in Id \ Reserved :
        (clusters[i] # NoAddr /\ clusters'[i] # NoAddr) => clusters'[i] = clusters[i]

(* An id the tracker handed out never changes hands: a client that asks    *)
(* for it later gets the address of the same server or none, never that of *)
(* another server.                                                         *)
IssuedNeverRebound == [][KeepsIssued]_vars

(* A running server is again and again on record under the id it runs      *)
(* with, although datagrams are lost, the entry may be purged or taken by  *)
(* a late datagram, and the tracker may crash and forget everything.       *)
Registered ==
    \A s \in Server : []<>(status[s] = "up" => id[s] # 0 /\ clusters[id[s]] = s)
=============================================================================
