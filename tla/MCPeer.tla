------------------------------- MODULE MCPeer -------------------------------
(* Instances of Peer for TLC: the objects of each incarnation of a site.    *)
EXTENDS Peer

\* Every incarnation has as many objects as the one before.
SameCount == [i \in Incarnations |-> 1]
\* A restart adds objects.
GrowingCount == [i \in Incarnations |-> i]
\* A site that has no objects before its first restart.
FromEmpty == [i \in Incarnations |-> i - 1]
=============================================================================
