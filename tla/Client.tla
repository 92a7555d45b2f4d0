------------------------------- MODULE Client -------------------------------
(***************************************************************************)
(* utils/client.cpp building a network: createNetwork waits for enough     *)
(* servers, asks the tracker where they are, gives each the id of a node   *)
(* (RUN), and sends every node its ADD and every edge its CONNECT, each    *)
(* until an "ACK" comes or the retries are used up.                        *)
(*                                                                         *)
(* Around it are the tracker (module Tracker; its LIST and GET replies are *)
(* here) and the servers' command handlers.  A server asks for an id and   *)
(* gets it in one step: the datagrams of that are module Registry's, and   *)
(* entries do not age while a network is built.  A datagram under way may  *)
(* be lost; being late for its receiver's timeout, or delivered twice, is  *)
(* counted in odd.                                                         *)
(***************************************************************************)
EXTENDS Tracker, Integers, SequencesExt

CONSTANTS Server, TimeServer, TIME_SERVER_ID,
          startId,              \* ids the servers got before; 0: none yet
          startNext,            \* the id that the tracker gives out next
          COMMAND_RETRY_COUNT,  \* further tries of a command
          GetRetries,           \* GETs that command() sends for an unknown address
          MaxOdd                \* bound of the model: late or repeated datagrams

ASSUME AddrAssumption == Addr = Server \cup {TimeServer} /\ TimeServer \notin Server
ASSUME TimeServerIdAssumption == TIME_SERVER_ID \in Id /\ TIME_SERVER_ID > MaxIssued
\* The servers have no id or one that the tracker gave out (see README).
ASSUME StartIdAssumption ==
    /\ startNext \in RESERVED_CLUSTER_ID + 1 .. MaxIssued + 1
    /\ startId \in [Server -> {0} \cup RESERVED_CLUSTER_ID + 1 .. startNext - 1]
    /\ \A s, t \in Server : (s # t /\ startId[s] = startId[t]) => startId[s] = 0
ASSUME RetryAssumption == {COMMAND_RETRY_COUNT, GetRetries, MaxOdd} \subseteq Nat

VARIABLES id,      \* cluster->getId() of every server, 0 before it has one
          conn,    \* subscriptions made: the server, its id then, and the id subscribed
          net,     \* requests and replies under way
          odd,     \* datagrams that were late or repeated
          phase,   \* which part of createNetwork the client is in
          graph,   \* nodes and edges, as parsed
          ids,     \* the ids of the tracker's LIST
          known,   \* Commander::clusters
          k,       \* the element the loop of this phase is at
          tries,   \* retry of commandWithRetry
          gets,    \* GETs left in command
          wait     \* the reply waitReply waits for: "list", "get", "reply"; or "no"

cursor == <<k, tries, gets>>
serverVars == <<id, conn>>
clientVars == <<phase, graph, ids, known, k, tries, gets, wait>>
clientNetVars == <<clusters, fresh, next, id, conn, net, odd, phase, graph, ids, known,
                   k, tries, gets, wait>>

GetLoops == {"locate", "refresh"}
CommandLoops == {"run", "add", "connect"}
Ended == {"running", "failed", "crashed"}

ToTracker(c, i) == [cmd |-> c, to |-> NoAddr, id |-> i]
ToServer(c, a, i) == [cmd |-> c, to |-> a, id |-> i]
Ack == [cmd |-> "ACK"]
Nack == [cmd |-> "NACK"]
Point(i, a) == [cmd |-> "POINT", id |-> i, addr |-> a]
Drop(i) == [cmd |-> "DROP", id |-> i]
Listed(s) == [cmd |-> "LISTED", ids |-> s]
NoReply == [cmd |-> ""]
IsReply(m) == m.cmd \in {"ACK", "NACK", "POINT", "DROP", "LISTED"}

\* m is taken from the network, which may deliver it once more; sent goes out.
Consume(m, sent) ==
    \/ net' = (net \ {m}) \cup sent /\ odd' = odd
    \/ odd < MaxOdd /\ odd' = odd + 1 /\ net' = net \cup sent

ClientInit ==
    /\ id = startId
    /\ clusters = [i \in Id |-> IF \E s \in Server : startId[s] = i
                                  THEN CHOOSE s \in Server : startId[s] = i ELSE NoAddr]
    /\ fresh = { i \in Id : clusters[i] # NoAddr }
    /\ next = startNext
    /\ conn = {} /\ net = {} /\ odd = 0
    /\ phase = "off"
    /\ graph = [nodes |-> <<>>, edges |-> <<>>]
    /\ ids = <<>>
    /\ known = [i \in Id |-> NoAddr]
    /\ k = 1 /\ tries = COMMAND_RETRY_COUNT /\ gets = GetRetries
    /\ wait = "no"

-----------------------------------------------------------------------------
(* The tracker and the servers.                                            *)

\* Once a turn of its loop a server asks for an id or says which one it has.
Announce(s) ==
    /\ \/ id[s] = 0 /\ OnIdRequest(s) /\ id' = [id EXCEPT ![s] = Granted(s)]
       \/ id[s] # 0 /\ OnIdUpdate(s, id[s]) /\ UNCHANGED id
    /\ UNCHANGED <<conn, net, odd, clientVars>>

AnnounceTimeServer ==
    /\ OnIdUpdate(TimeServer, TIME_SERVER_ID)
    /\ UNCHANGED <<serverVars, net, odd, clientVars>>

\* All entries that are not old, in the order of a hash map; an empty list is
\* not sent.
HandleList(m) ==
    /\ m \in net /\ m.cmd = "LIST"
    /\ \E s \in SetToSeqs({ i \in fresh : clusters[i] # NoAddr }) :
        Consume(m, IF s = <<>> THEN {} ELSE {Listed(s)})
    /\ UNCHANGED <<trackerVars, serverVars, clientVars>>

HandleGet(m) ==
    /\ m \in net /\ m.cmd = "GET"
    /\ Consume(m, {IF clusters[m.id] = NoAddr THEN Drop(m.id)
                   ELSE Point(m.id, clusters[m.id])})
    /\ UNCHANGED <<trackerVars, serverVars, clientVars>>

HandleRun(m) ==
    /\ m \in net /\ m.cmd = "RUN"
    /\ id' = [id EXCEPT ![m.to] = m.id]
    /\ Consume(m, {Ack})
    /\ UNCHANGED <<trackerVars, conn, clientVars>>

\* The cluster decides; the dummy cluster answers NACK.
HandleAdd(m) ==
    /\ m \in net /\ m.cmd = "ADD"
    /\ \E r \in {Ack, Nack} : Consume(m, {r})
    /\ UNCHANGED <<trackerVars, serverVars, clientVars>>

HandleConnect(m) ==
    /\ m \in net /\ m.cmd = "CONNECT"
    /\ conn' = conn \cup {[at |-> m.to, own |-> id[m.to], other |-> m.id]}
    /\ Consume(m, {Ack})
    /\ UNCHANGED <<trackerVars, id, clientVars>>

Handle(m) == \/ HandleList(m) \/ HandleGet(m) \/ HandleRun(m)
             \/ HandleAdd(m) \/ HandleConnect(m)

Lose(m) ==
    /\ m \in net
    /\ net' = net \ {m}
    /\ UNCHANGED <<trackerVars, serverVars, odd, clientVars>>
-----------------------------------------------------------------------------
(* The client sends.                                                       *)

Start(g) ==
    /\ phase = "off"
    /\ phase' = "list"
    /\ graph' = g
    /\ UNCHANGED <<trackerVars, serverVars, net, odd, ids, known, cursor, wait>>

Send(m, reply) ==
    /\ net' = net \cup {m}
    /\ wait' = reply
    /\ UNCHANGED <<trackerVars, serverVars, odd, phase, graph, ids, known, k, tries>>

\* What the loop of this phase goes through: the cluster and its command.  Of an
\* edge, the cluster it comes from is told to subscribe to the one it goes to.
Jobs ==
    CASE phase \in GetLoops ->
            [i \in DOMAIN ids |-> [for |-> ids[i], cmd |-> "GET", id |-> ids[i]]]
      [] phase = "run" ->
            [i \in DOMAIN ids \cap DOMAIN graph.nodes |->
                [for |-> ids[i], cmd |-> "RUN", id |-> graph.nodes[i].id]]
      [] phase = "add" ->
            [i \in DOMAIN graph.nodes |->
                [for |-> graph.nodes[i].id, cmd |-> "ADD", id |-> 0]]
      [] phase = "connect" ->
            [i \in DOMAIN graph.edges |->
                [for |-> graph.edges[i].from, cmd |-> "CONNECT", id |-> graph.edges[i].to]]
      [] OTHER -> <<>>

Job == Jobs[k]

\* Mutation (TypeOK): the next loop does not begin with its first element.
EndLoopNoReset ==
    /\ phase \in GetLoops \cup CommandLoops /\ wait = "no" /\ k > Len(Jobs)
    /\ phase' = CASE phase = "locate" -> "run"
                  [] phase = "run" -> IF Len(ids) > Len(Jobs) THEN "crashed" ELSE "refresh"
                  [] phase = "refresh" -> "add"
                  [] phase = "add" -> "connect"
                  [] phase = "connect" -> "running"
    /\ known' = IF phase = "run" THEN [i \in Id |-> NoAddr] ELSE known
    /\ UNCHANGED <<trackerVars, serverVars, net, odd, graph, ids, cursor, wait>>

\* After the last: the next loop begins.  With more clusters than nodes, nodes[i]
\* is read past its end.
EndLoop ==
    /\ phase \in GetLoops \cup CommandLoops /\ wait = "no" /\ k > Len(Jobs)
    /\ phase' = CASE phase = "locate" -> "run"
                  [] phase = "run" -> IF Len(ids) > Len(Jobs) THEN "crashed" ELSE "refresh"
                  [] phase = "refresh" -> "add"
                  [] phase = "add" -> "connect"
                  [] phase = "connect" -> "running"
    /\ known' = IF phase = "run" THEN [i \in Id |-> NoAddr] ELSE known
    /\ k' = 1
    /\ UNCHANGED <<trackerVars, serverVars, net, odd, graph, ids, tries, gets, wait>>

AskList == phase = "list" /\ wait = "no" /\ Send(ToTracker("LIST", 0), "list") /\ UNCHANGED gets

\* getCluster, for every id of the list
Locate ==
    /\ phase \in GetLoops /\ wait = "no" /\ k <= Len(Jobs)
    /\ Send(ToTracker("GET", Job.for), "get")
    /\ UNCHANGED gets

\* A node or an edge without a positive label gets no command.
Labelled ==
    /\ phase = "add" => graph.nodes[k].label > 0
    /\ phase = "connect" => graph.edges[k].label > 0

InLoop == phase \in CommandLoops /\ wait = "no" /\ k <= Len(Jobs)

InCommand == InLoop /\ Labelled

Skip ==
    /\ InLoop /\ ~Labelled
    /\ k' = k + 1
    /\ UNCHANGED <<trackerVars, serverVars, net, odd, phase, graph, ids, known, tries,
                   gets, wait>>

\* command: an address that is not known is asked for, up to GetRetries times.
AskAddress ==
    /\ InCommand /\ known[Job.for] = NoAddr /\ gets > 0
    /\ Send(ToTracker("GET", Job.for), "get")
    /\ gets' = gets - 1

SendCommand ==
    /\ InCommand /\ known[Job.for] # NoAddr
    /\ Send(ToServer(Job.cmd, known[Job.for], Job.id), "reply")
    /\ UNCHANGED gets

\* Nothing is sent, and commandWithRetry waits for the reply all the same.
SendNothing ==
    /\ InCommand /\ known[Job.for] = NoAddr /\ gets = 0
    /\ wait' = "reply"
    /\ UNCHANGED <<trackerVars, serverVars, net, odd, phase, graph, ids, known, cursor>>

-----------------------------------------------------------------------------
(* The client receives.  NoReply is a timeout.                             *)

\* listClusters and the loop around it.  The time server must be in the list:
\* erase(find(...)) is undefined when it is not.
GotList(r) ==
    /\ wait = "list"
    /\ LET found == IF r.cmd = "LISTED" THEN r.ids ELSE <<>> IN
        IF TIME_SERVER_ID \in ToSet(found)
          THEN /\ \E i \in DOMAIN found :
                    found[i] = TIME_SERVER_ID /\ ids' = RemoveAt(found, i)
               /\ phase' = IF Len(ids') < Len(graph.nodes) THEN "list" ELSE "locate"
          ELSE phase' = "crashed" /\ UNCHANGED ids
    /\ UNCHANGED <<known, cursor>>

\* Mutation (NoForeignEdges): the id in the reply is not compared.
GotPointOfAny(r) ==
    /\ wait = "get"
    /\ known' = IF r.cmd = "POINT" THEN [known EXCEPT ![Job.for] = r.addr] ELSE known
    /\ k' = IF phase \in GetLoops THEN k + 1 ELSE k
    /\ UNCHANGED <<phase, ids, tries, gets>>

\* getCluster
GotPoint(r) ==
    /\ wait = "get"
    /\ known' = IF r.cmd = "POINT" /\ r.id = Job.for
                  THEN [known EXCEPT ![Job.for] = r.addr] ELSE known
    /\ k' = IF phase \in GetLoops THEN k + 1 ELSE k
    /\ UNCHANGED <<phase, ids, tries, gets>>

\* Mutation (BuiltAsDrawn): a command that failed is taken for done.
GotAckOrGoOn(r) ==
    /\ wait = "reply"
    /\ gets' = GetRetries
    /\ IF r.cmd = "ACK" \/ tries = 0
         THEN k' = k + 1 /\ tries' = COMMAND_RETRY_COUNT
         ELSE tries' = tries - 1 /\ UNCHANGED k
    /\ UNCHANGED <<phase, ids, known>>

\* Mutation (Finishes): the retries do not run out.
GotAckForEver(r) ==
    /\ wait = "reply"
    /\ gets' = GetRetries
    /\ IF r.cmd = "ACK"
         THEN k' = k + 1 ELSE UNCHANGED k
    /\ UNCHANGED <<phase, ids, known, tries>>

\* commandWithRetry: whatever "ACK" arrives confirms the command.  Without one,
\* createNetwork ends, or goes on if it was an ADD.
GotAck(r) ==
    /\ wait = "reply"
    /\ gets' = GetRetries
    /\ CASE r.cmd # "ACK" /\ tries > 0 ->
                tries' = tries - 1 /\ UNCHANGED <<k, phase>>
         [] r.cmd # "ACK" /\ tries = 0 /\ phase # "add" ->
                phase' = "failed" /\ k' = 1 /\ tries' = COMMAND_RETRY_COUNT
         [] OTHER ->
                k' = k + 1 /\ tries' = COMMAND_RETRY_COUNT /\ UNCHANGED phase
    /\ UNCHANGED <<ids, known>>

Got(r) ==
    /\ GotList(r) \/ GotPoint(r) \/ GotAck(r)
    /\ wait' = "no"
    /\ UNCHANGED <<trackerVars, serverVars, graph>>

Receive(m) == m \in net /\ IsReply(m) /\ Consume(m, {}) /\ Got(m)

\* waitReply gives up: nothing is under way, or something is and comes too late.
Timeout ==
    /\ \/ net = {} /\ UNCHANGED odd
       \/ net # {} /\ odd < MaxOdd /\ odd' = odd + 1
    /\ UNCHANGED net
    /\ Got(NoReply)

CreateNetwork == \/ EndLoop \/ AskList \/ Locate \/ AskAddress \/ SendCommand
                 \/ SendNothing \/ Skip \/ Timeout \/ \E m \in net : Receive(m)

ClientNext ==
    \/ AnnounceTimeServer
    \/ \E s \in Server : Announce(s)
    \/ \E m \in net : Handle(m) \/ Lose(m)
    \/ CreateNetwork

\* The client and the servers go on, and the network delivers or loses what it has.
ClientFairness ==
    /\ WF_clientNetVars(CreateNetwork)
    /\ WF_clientNetVars(\E m \in net : Handle(m) \/ Lose(m))
    /\ WF_clientNetVars(AnnounceTimeServer)
    /\ \A s \in Server : WF_clientNetVars(Announce(s))

-----------------------------------------------------------------------------
(* The client's, the servers' and the network's state have their types.    *)
ClientTypeOK ==
    /\ TrackerTypeOK
    /\ id \in [Server -> Id \cup {0}]
    /\ \A c \in conn : c.at \in Server /\ c.own \in Id /\ c.other \in Id
    /\ \A m \in net : IsReply(m) \/ m.to \in Server \cup {NoAddr}
    /\ odd \in 0 .. MaxOdd
    /\ phase \in {"off", "list"} \cup GetLoops \cup CommandLoops \cup Ended
    /\ ToSet(ids) \subseteq Id \ {TIME_SERVER_ID}
    /\ known \in [Id -> Addr \cup {NoAddr}]
    /\ k \in 1 .. Len(Jobs) + 1
    /\ tries \in 0 .. COMMAND_RETRY_COUNT /\ gets \in 0 .. GetRetries
    /\ wait \in {"no", "list", "get", "reply"}

\* Every node of g is run by one server, which has subscribed to what the edges
\* of the node ask for.
Wired(g) ==
    /\ \A i \in DOMAIN g.nodes :
        \E s \in Server : { t \in Server : id[t] = g.nodes[i].id } = {s}
    /\ \A e \in ToSet(g.edges) : e.label > 0 =>
        \E c \in conn : c.own = e.from /\ c.other = e.to /\ id[c.at] = e.from

(* Even with late and repeated replies, which nothing tells from current   *)
(* ones, no server is told to run a node that another one runs, and none   *)
(* subscribes to a cluster the graph does not connect its node to: a       *)
(* command never reaches a server it was not meant for.                    *)
NoForeignEdges ==
    /\ \A s, t \in Server : (s # t /\ id[s] = id[t]) => id[s] = 0
    /\ \A c \in conn : /\ c.own = id[c.at]
                       /\ \E e \in ToSet(graph.edges) : e.from = c.own /\ e.to = c.other

(* createNetwork comes to an end once there are enough servers: what it    *)
(* waits for is answered, or given up after the retries.                   *)
Finishes ==
    (phase = "list" /\ Len(graph.nodes) <= Cardinality(Server)) ~> phase \in Ended
=============================================================================
