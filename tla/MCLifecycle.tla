---------------------------- MODULE MCLifecycle ----------------------------
(* Instances of Lifecycle for TLC: the configurations that can be loaded.    *)
EXTENDS Lifecycle

Conf(k, n, l) == [connections |-> [j \in Ids |-> IF j = k THEN n ELSE Absent], listen |-> l]

\* The settings of a change from one site to several, a is replaced by b, the
\* second address comes, goes and comes again.
AllChanges == {Conf("a", 1, {1}), Conf("a", 2, {1}), Conf("b", 1, {1, 2})}
=============================================================================
