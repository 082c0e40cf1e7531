---------------------------- MODULE MCDeltaSync ----------------------------
(* Instances of DeltaSync for TLC.                                           *)
EXTENDS DeltaSync, TLC

\* Nothing orders the rows of a table.
RowSymmetry == Permutations(Rows)
=============================================================================
