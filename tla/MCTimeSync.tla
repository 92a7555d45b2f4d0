----------------------------- MODULE MCTimeSync -----------------------------
(* Constants of the TimeSync runs that a .cfg cannot write down.           *)
EXTENDS TimeSync

\* A host whose clock is behind the time server's, or ahead of it.
Apart == {-4, 5}
\* A host on the time server's own machine and one that is behind.
OnServerAndApart == {0, 6}
=============================================================================
