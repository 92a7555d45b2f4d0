----------------------------- MODULE MCRegistry -----------------------------
(* Constants of the Registry runs that a .cfg cannot write down.           *)
EXTENDS Registry, TLC

CONSTANTS s1, s2, ts

MCAddr == {s1, s2, ts}
MCServer == {s1, s2}

\* Both servers ask the tracker for an id.
AskBoth == [s \in MCServer |-> 0]
\* Two servers that start alike can be exchanged.
Symmetry == Permutations(MCServer)

\* One server is given the reserved id 1 on its command line.
OneReserved == [s \in MCServer |-> IF s = s1 THEN 1 ELSE 0]
=============================================================================
