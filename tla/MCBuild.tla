------------------------------- MODULE MCBuild -------------------------------
(* Constants of the Build run that a .cfg cannot write down.               *)
EXTENDS Build

CONSTANTS s1, s2, ts

\* The second server joins while the client waits.
MCStartId == (s1 :> 5) @@ (s2 :> 0)

\* The file of n nodes with these edges.
File(n, edges) == [nodes |-> [i \in 1 .. n |-> [id |-> i, label |-> 1]], edges |-> edges]
E(i, j, w) == [from |-> i, to |-> j, label |-> w]

\* A node alone; a pair connected one way, both ways, and with a weight of 0; four
\* nodes, which no network of two servers can run, for the optimizer.
MCFiles == { File(1, <<E(1, 1, 1)>>),
             File(2, <<E(1, 2, 1), E(2, 1, 1)>>),
             File(2, <<E(1, 2, 1), E(1, 2, 1), E(2, 2, 0)>>),
             File(4, <<E(1, 2, 1), E(1, 3, 1), E(2, 4, 1), E(3, 4, 1), E(4, 1, 1)>>) }
=============================================================================
