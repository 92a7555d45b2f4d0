------------------------------ MODULE PartGraph ------------------------------
(***************************************************************************)
(* The graph of a network and the tools that work on it: the DOT file      *)
(* (utils/graphio.cpp), what the generator writes (utils/graph.cpp) and    *)
(* the optimizer that spreads the vertices over machines                   *)
(* (utils/partgraph.cpp).                                                  *)
(*                                                                         *)
(* A file is the sequence of its nodes and that of its edges, with the     *)
(* labels as written.  A group is a sequence of vertices, as in the code.  *)
(* rand() may choose anything; a key pressed at any time ends the search.  *)
(***************************************************************************)
EXTENDS Integers, SequencesExt

CONSTANTS Files,        \* graph files to work on
          groupCounts   \* numbers of partitions asked for on the command line

VARIABLES source,   \* the file the optimizer reads
          groups,   \* nodes of main: the vertices of every partition
          stage,    \* "file", "optimizing", "empty" (exit code 3) or "saved"
          saved     \* the file the optimizer writes

partVars == <<source, groups, stage, saved>>

EmptyFile == [nodes |-> <<>>, edges |-> <<>>]

-----------------------------------------------------------------------------
(* The generator and the DOT file.                                         *)

\* What BuildNetwork writes for n clusters: nodes 1..n with one label, then the
\* edges cluster by cluster, all of a cluster with one weight, which may be 0.
\* A destination may be the cluster itself and may come twice.
IsGenerated(g) ==
    LET n == Len(g.nodes) IN
    /\ g \in [nodes : Seq([id : Nat, label : Int]),
               edges : Seq([from : Nat, to : Nat, label : Nat])]
    /\ \A i \in 1 .. n : g.nodes[i].id = i /\ g.nodes[i].label = g.nodes[1].label
    /\ \A j \in DOMAIN g.edges :
        /\ g.edges[j].from \in 1 .. n /\ g.edges[j].to \in 1 .. n
        /\ \A h \in 1 .. j : /\ g.edges[h].from <= g.edges[j].from
                             /\ (g.edges[h].from = g.edges[j].from)
                                   => g.edges[h].label = g.edges[j].label

ASSUME FilesAssumption == \A g \in Files : IsGenerated(g)
\* main refuses fewer than two groups.
ASSUME GroupAssumption == groupCounts \subseteq Nat \ {0, 1}

\* ParseLabel takes the first token that atoi does not make 0, so that a label 0
\* is read as "not found".
ParseLabel(label) == IF label = 0 THEN -1 ELSE label

\* GraphIO::Parse of what WriteNode and WriteEdge wrote: ids and order are kept.
\* A line that begins with the number 0 is not taken for a node.
Parse(g) ==
    LET Read(line) == [line EXCEPT !.label = ParseLabel(@)] IN
    [nodes |-> [i \in DOMAIN g.nodes |-> Read(g.nodes[i])],
     edges |-> [i \in DOMAIN g.edges |-> Read(g.edges[i])]]

-----------------------------------------------------------------------------
(* The optimizer.                                                          *)

\* Where the edges from i go, each at its place in the file.
Targets(edges, i) == [j \in { j \in DOMAIN edges : edges[j].from = i } |-> edges[j].to]

\* The vertex of node i: its id, and where its edges go.
VertexOf(g, i) == [id |-> g.nodes[i].id, edges |-> Targets(g.edges, g.nodes[i].id)]

\* The edges of a group that leave it, by vertex and place (countHyperEdges).
HyperEdges(group) ==
    UNION { { <<a, j>> : j \in { j \in DOMAIN group[a].edges :
                \A b \in DOMAIN group : group[b].id # group[a].edges[j] } }
            : a \in DOMAIN group }

\* Where the vertices are: the group, and the place in it.
Places(parts) == UNION { {p} \X DOMAIN parts[p] : p \in DOMAIN parts }

countHyperEdges(group) == Cardinality(HyperEdges(group))

PartInit ==
    /\ source \in Files
    /\ groups = <<>>
    /\ stage = "file"
    /\ saved = EmptyFile

\* loadGraph deals the nodes out to n groups in turn; main stops when one of
\* them stays empty.
LoadGraph(n) ==
    /\ stage = "file"
    /\ LET g == Parse(source)
           Size(p) == (Len(g.nodes) + n - p) \div n
       IN groups' = [p \in 1 .. n |->
                        [j \in 1 .. Size(p) |-> VertexOf(g, (j - 1) * n + p)]]
    /\ stage' = IF \E p \in 1 .. n : groups'[p] = <<>> THEN "empty" ELSE "optimizing"
    /\ UNCHANGED <<source, saved>>

\* Mutation (GraphKept): the ids change places and the edges stay.
SwappedIds(p, a, q, b) ==
    [groups EXCEPT ![p][a].id = groups[q][b].id, ![q][b].id = groups[p][a].id]

\* Vertex::swap: ids and edges change places.
Swapped(p, a, q, b) ==
    [groups EXCEPT ![p][a] = groups[q][b], ![q][b] = groups[p][a]]

\* Mutation (NeverWorse): only one of the two groups is counted.
OptimizeOneSided(p, a, q, b) ==
    /\ stage = "optimizing" /\ p # q
    /\ LET tried == Swapped(p, a, q, b) IN
        groups' = IF countHyperEdges(groups[p]) < countHyperEdges(tried[p])
                    THEN groups ELSE tried
    /\ UNCHANGED <<source, stage, saved>>

\* optimizePartitions: two vertices of two groups change places, and back again
\* when that leaves the two groups with more external edges.
OptimizePartitions(p, a, q, b) ==
    /\ stage = "optimizing" /\ p # q
    /\ LET tried == Swapped(p, a, q, b) IN
        groups' = IF countHyperEdges(groups[p]) + countHyperEdges(groups[q])
                       < countHyperEdges(tried[p]) + countHyperEdges(tried[q])
                    THEN groups ELSE tried
    /\ UNCHANGED <<source, stage, saved>>

Before(x, y) == x[1] < y[1] \/ (x[1] = y[1] /\ x[2] < y[2])

\* saveGraph: the nodes group by group, with the group (counted from 0) as label;
\* the program ends.
SaveGraph ==
    /\ stage = "optimizing"
    /\ stage' = "saved"
    /\ \E order \in SetToSeqs(Places(groups)) :
        /\ \A i, j \in DOMAIN order : i < j => Before(order[i], order[j])
        /\ saved' = [nodes |-> [i \in DOMAIN order |->
                                    [id |-> groups[order[i][1]][order[i][2]].id,
                                     label |-> order[i][1] - 1]],
                     edges |-> Parse(source).edges]
    /\ groups' = <<>>
    /\ UNCHANGED source

PartNext ==
    \/ \E n \in groupCounts : LoadGraph(n)
    \/ \E p, q \in DOMAIN groups : \E a \in DOMAIN groups[p], b \in DOMAIN groups[q] :
        OptimizePartitions(p, a, q, b)
    \/ SaveGraph

PartSpec == PartInit /\ [][PartNext]_partVars

-----------------------------------------------------------------------------
\* The external edges of all groups, as printPartitions adds them up.
TotalEdges(parts) ==
    Cardinality(UNION { {p} \X HyperEdges(parts[p]) : p \in DOMAIN parts })

(* No step of the search leaves the network with more edges between the    *)
(* machines than it had ("optimizes ... to reduce the number of hyperedges *)
(* between the clusters", README.md:30), although a step counts only two   *)
(* of the groups.                                                          *)
NeverWorse == [][stage = "optimizing" => TotalEdges(groups') <= TotalEdges(groups)]_partVars

(* Whatever is swapped, every node of the file is in one place of one      *)
(* group and carries its own edges: the counts that steer the search are   *)
(* those of the graph.                                                     *)
GraphKept ==
    LET g == Parse(source)
    IN groups # <<>> =>
        /\ Cardinality(Places(groups)) = Len(g.nodes)
        /\ \A i \in DOMAIN g.nodes : \E x \in Places(groups) :
               groups[x[1]][x[2]] = VertexOf(g, i)
=============================================================================
