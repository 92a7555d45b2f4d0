-------------------------------- MODULE Build --------------------------------
(***************************************************************************)
(* From a graph file to a running network: a generated file is given to    *)
(* the client (netc create), or to the optimizer first (neto), whose       *)
(* output the client then reads.                                           *)
(***************************************************************************)
EXTENDS Client, PartGraph

\* The ids of the nodes are reserved ones; nothing in the code sees to it.
ASSUME NodesAssumption == \A g \in Files : Len(g.nodes) <= RESERVED_CLUSTER_ID

vars == <<clientNetVars, partVars>>

BuildInit == ClientInit /\ PartInit

Optimize == PartNext /\ UNCHANGED clientNetVars

\* The file as it is; it does not change while the optimizer works.
CreateFromSource == stage = "file" /\ Start(Parse(source)) /\ UNCHANGED partVars

CreateFromSaved ==
    /\ stage = "saved"
    /\ Start(Parse(saved))
    /\ saved' = EmptyFile   \* not read again
    /\ UNCHANGED <<source, groups, stage>>

BuildNext == \/ phase = "off" /\ Optimize
             \/ CreateFromSource \/ CreateFromSaved
             \/ ClientNext /\ UNCHANGED partVars

BuildSpec == BuildInit /\ [][BuildNext]_vars /\ ClientFairness

-----------------------------------------------------------------------------
(* The state of the tools, the client, the servers and the network has its *)
(* type.                                                                   *)
TypeOK ==
    /\ ClientTypeOK
    /\ source \in Files
    /\ stage \in {"file", "optimizing", "empty", "saved"}
    /\ \A i \in DOMAIN graph.nodes : graph.nodes[i].id \in Reserved

(* "Network is running!" (client.cpp:122) is true of the graph that was    *)
(* drawn, with or without the optimizer between: when every datagram came  *)
(* once and in time, or not at all, every node runs on one server and      *)
(* every edge with a weight is connected, although commands and replies    *)
(* were lost and sent again and addresses unknown for a while.             *)
BuiltAsDrawn == (phase = "running" /\ odd = 0) => Wired(source)
=============================================================================
