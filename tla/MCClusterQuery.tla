--------------------------- MODULE MCClusterQuery ---------------------------
(* Instances of ClusterQuery for TLC.                                        *)
EXTENDS ClusterQuery

SmallRows == [a |-> <<1, 3>>, b |-> <<2>>]
SmallOther == <<3, 2, 1>>

Ask(backends, stats, columns, sort, limit) ==
  [backends |-> backends, stats |-> stats, columns |-> columns, sort |-> sort,
   nocase |-> FALSE, limit |-> limit, offset |-> 0]

RowQueries ==
  {Ask({}, "none", TRUE, "first", 2), Ask({}, "none", TRUE, "other", -1),
   Ask({"a"}, "none", TRUE, "none", 0),
   Ask({}, "none", TRUE, "none", 1), Ask({}, "none", TRUE, "none", -1),
   Ask({}, "none", FALSE, "none", -1)}
  \cup {[Ask({}, "none", TRUE, "none", 1) EXCEPT !.offset = 1, !.nocase = TRUE]}

StatQueries == {Ask({}, "avg", FALSE, "none", -1), Ask({}, "sum", TRUE, "none", -1)}

AllQueries == RowQueries \cup StatQueries
=============================================================================
