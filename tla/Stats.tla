------------------------------- MODULE Stats -------------------------------
(***************************************************************************)
(* The accumulators of stats queries (filter.go, response.go, peer.go).    *)
(* An accumulator is the part of a Filter that counts: its type, the value *)
(* and the number of rows.                                                 *)
(***************************************************************************)
EXTENDS Integers, Sequences, SequencesExt, FiniteSets, FiniteSetsExt

\* createLocalStatsCopy
createLocalStatsCopy(stats) ==
  [j \in DOMAIN stats |->
     [stats |-> stats[j].stats, val |-> IF stats[j].stats = "min" THEN -1 ELSE 0, cnt |-> 0]]

\* Filter.ApplyValue
ApplyValue(a, v, n) ==
  LET new == CASE a.stats = "counter"       -> a.val + n
               [] a.stats \in {"avg", "sum"} -> a.val + v
               [] a.stats = "min" -> IF a.val > v \/ a.val = -1 THEN v ELSE a.val
               [] a.stats = "max" -> IF a.val < v THEN v ELSE a.val
  IN [a EXCEPT !.val = new, !.cnt = @ + n]

\* finalStatsApply; an average is the pair of its sum and its count.
finalStatsApply(a) ==
  CASE a.cnt = 0       -> <<0, 1>>
    [] a.stats = "avg" -> <<a.val, a.cnt>>
    [] OTHER           -> <<a.val, 1>>
=============================================================================
