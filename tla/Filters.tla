------------------------------ MODULE Filters ------------------------------
(***************************************************************************)
(* The filters and stats of a request (filter.go), what they match         *)
(* (datarow.go), the rewriting of stats into nested groups (request.go) and *)
(* the choice of rows through the index of a table (datastore.go).         *)
(*                                                                         *)
(* Every value is a number: a name too, so that it has an order, and       *)
(* Lower[n] is name n in lower case.  Names are one letter long, so that   *)
(* one contains another when they are equal.  A row is a record            *)
(*   [key, sub, state, groups, contacts]:                                  *)
(* key is the name of a host or the host_name of a service, sub the        *)
(* description of a service (0 in the other tables), state any numeric     *)
(* column, groups any list column.                                         *)
(***************************************************************************)
EXTENDS Stats

CONSTANT Lower      \* the lower case form of every name

ASSUME LowerAssumption == \A n \in DOMAIN Lower : Lower[Lower[n]] = Lower[n]

-----------------------------------------------------------------------------
(* A Filter object: a leaf compares a column with a value, a group combines *)
(* the filters in sub.  lc: the column is the lower case copy of key.  stats *)
(* is its StatsType, pos its StatsPos.                                      *)

Leaf(col, op, val) ==
  [grp |-> "none", col |-> col, lc |-> FALSE, op |-> op, val |-> val, neg |-> FALSE,
   sub |-> << >>, stats |-> "none", pos |-> 0]

IsLeaf(f) == f.grp = "none"

Operators == {"=", "!=", "=~", "~", "!~", "~~", "!~~", "<", "<=", ">", ">=", "!>="}

NoCase(op) == op \in {"~~", "!~~"}

WithCase(op) == CASE op = "~~" -> "~" [] op = "!~~" -> "!~"

\* ParseFilter: a case-insensitive match on the name of a host or service is made one on
\* the lower case copy of that column.
ParseFilter(table, col, op, val) ==
  IF NoCase(op) /\ col = "key" /\ table \in {"hosts", "services"}
  THEN [Leaf(col, WithCase(op), Lower[val]) EXCEPT !.lc = TRUE]
  ELSE Leaf(col, op, val)

\* ParseFilterOp: replaces the last num filters by a group of them.
ParseFilterOp(grp, num, stack) ==
  LET rest == Len(stack) - num
  IN IF num = 0 THEN stack
     ELSE Append(SubSeq(stack, 1, rest),
                 [Leaf("none", "=", 0) EXCEPT !.grp = grp,
                                              !.sub = SubSeq(stack, rest + 1, Len(stack))])

\* ParseStats: a counter is a filter, the others aggregate a column.
ParseStats(table, stats, col, op, val) ==
  IF stats = "counter" THEN [ParseFilter(table, col, op, val) EXCEPT !.stats = "counter"]
  ELSE [Leaf(col, "=", 0) EXCEPT !.stats = stats]

\* parseStatsOp: StatsAnd: 0 is a counter of all rows.
parseStatsOp(table, grp, num, stack) ==
  IF num = 0 THEN Append(stack, ParseStats(table, "counter", "state", "!=", 9999))
  ELSE LET new == ParseFilterOp(grp, num, stack)
       IN [new EXCEPT ![Len(new)].stats = "counter"]

\* ParseFilterNegate
ParseFilterNegate(stack) == [stack EXCEPT ![Len(stack)].neg = TRUE]

-----------------------------------------------------------------------------
(* Matching one row.                                                        *)

Compare(f, v) ==
  CASE f.op = "="  -> v = f.val
    [] f.op = "!=" -> v # f.val
    [] f.op = "<"  -> v < f.val
    [] f.op = "<=" -> v <= f.val
    [] f.op = ">"  -> v > f.val
    [] f.op = ">=" -> v >= f.val
    [] OTHER       -> FALSE

\* MatchInt, MatchInt64, MatchFloat: other operators compare the number as a text.
MatchInt(f, v) ==
  CASE f.op \in {"=~", "~", "~~"} -> v = f.val
    [] f.op \in {"!~", "!~~"}     -> v # f.val
    [] OTHER                      -> Compare(f, v)

MatchString(f, v) ==
  CASE f.op = "~"            -> v = f.val
    [] f.op = "!~"           -> v # f.val
    [] f.op \in {"=~", "~~"} -> Lower[v] = Lower[f.val]
    [] f.op = "!~~"          -> Lower[v] # Lower[f.val]
    [] OTHER                 -> Compare(f, v)

\* MatchStringList; 0 is the empty string.
MatchStringList(f, list) ==
  CASE f.op = "="             -> f.val = 0 /\ list = {}
    [] f.op = "!="            -> f.val = 0 /\ list # {}
    [] f.op = ">="            -> f.val \in list
    [] f.op \in {"<=", "!>="} -> f.val \notin list
    [] f.op \in {"~", "~~"}   -> \E v \in list : MatchString(f, v)
    [] f.op \in {"!~", "!~~"} -> \A v \in list : MatchString(f, v)
    [] OTHER                  -> FALSE

\* Filter.Match
Match(f, row) ==
  CASE f.col = "state"  -> MatchInt(f, row.state)
    [] f.col = "groups" -> MatchStringList(f, row.groups)
    [] f.col = "sub"    -> MatchString(f, row.sub)
    [] f.col = "key"    -> MatchString(f, IF f.lc THEN Lower[row.key] ELSE row.key)

RECURSIVE MatchFilter(_, _)

\* DataRow.MatchFilter: a group returns before Negate is looked at.
MatchFilter(row, f) ==
  CASE f.grp = "and" -> \A j \in DOMAIN f.sub : MatchFilter(row, f.sub[j])
    [] f.grp = "or"  -> \E j \in DOMAIN f.sub : MatchFilter(row, f.sub[j])
    [] OTHER         -> IF f.neg THEN ~ Match(f, row) ELSE Match(f, row)

MatchAll(row, filters) == \A j \in DOMAIN filters : MatchFilter(row, filters[j])

RECURSIVE optimizeFilterIndentation(_)

optimizeFilterIndentation(filters) ==
  IF Len(filters) = 1 /\ filters[1].grp = "and"
  THEN optimizeFilterIndentation(filters[1].sub)
  ELSE filters

-----------------------------------------------------------------------------
(* Counting one row.                                                       *)

RECURSIVE CountStats(_, _, _)

\* DataRow.CountStats: a StatsGroup recurses into its counters when the row matches it.
\* StatsPos, when it is set, is the place of the counter in the result.
CountStats(row, stats, result) ==
  LET count(acc, j) ==
        LET s == stats[j]
            at == (IF s.pos > 0 THEN s.pos ELSE j - 1) + 1
        IN CASE s.stats = "counter" ->
                  IF MatchFilter(row, s)
                  THEN [acc EXCEPT ![at].val = @ + 1, ![at].cnt = @ + 1] ELSE acc
             [] s.stats = "group" ->
                  IF MatchFilter(row, s) THEN CountStats(row, s.sub, acc) ELSE acc
             [] OTHER -> [acc EXCEPT ![at] = ApplyValue(@, row.state, 1)]
  IN FoldLeft(count, result, [j \in DOMAIN stats |-> j])

-----------------------------------------------------------------------------
(* optimizeStatsGroups: consecutive counters that begin with the same filter *)
(* become one group, so that the filter is matched once.                    *)

RECURSIVE Equals(_, _)

\* Filter.Equals
Equals(f, g) ==
  /\ <<f.grp, f.col, f.lc, f.op, f.val, f.neg, f.stats>>
       = <<g.grp, g.col, g.lc, g.op, g.val, g.neg, g.stats>>
  /\ Len(f.sub) = Len(g.sub)
  /\ \A j \in DOMAIN f.sub : Equals(f.sub[j], g.sub[j])

\* A counter whose group may be taken apart.
Groupable(s) == s.stats = "counter" /\ ~ IsLeaf(s) /\ Len(s.sub) >= 2

\* mutant: only the columns are compared
sameColumn(f, g) == f.col = g.col

\* What is compared with the filter of the group before.
SameFirst(f, g) == <<f.col, f.lc, f.op, f.val>> = <<g.col, g.lc, g.op, g.val>>

\* removeFirstStatsFilter
removeFirstStatsFilter(s) ==
  IF Len(s.sub) > 2 THEN [s EXCEPT !.sub = Tail(@)]
  ELSE [s.sub[2] EXCEPT !.pos = s.pos, !.stats = "counter"]

RECURSIVE GroupFrom(_, _, _, _)

\* The loop of optimizeStatsGroups from counter j on: grouped is groupedStats, last the
\* place of lastGroup in it, 0 when there is none.  optimizeStatsGroupsRecurse is nested.
GroupFrom(stats, j, grouped, last) ==
  LET nested == IF last = 0 \/ Len(grouped[last].sub) <= 1 THEN grouped
                ELSE [grouped EXCEPT ![last].sub = GroupFrom(@, 1, << >>, 0)]
      s == stats[j]
  IN CASE j > Len(stats) -> nested
       [] j <= Len(stats) /\ ~ Groupable(s) ->
            GroupFrom(stats, j + 1, Append(grouped, s), last)
       [] j <= Len(stats) /\ Groupable(s) /\ last # 0 /\ SameFirst(grouped[last], s.sub[1]) ->
            GroupFrom(stats, j + 1,
                      [grouped EXCEPT ![last].sub = Append(@, removeFirstStatsFilter(s))], last)
       [] OTHER ->
            IF /\ j < Len(stats)
               /\ Groupable(stats[j + 1])
               /\ Equals(stats[j + 1].sub[1], s.sub[1])
            THEN GroupFrom(stats, j + 1,
                           Append(nested, [s.sub[1] EXCEPT !.stats = "group",
                                             !.sub = <<removeFirstStatsFilter(s)>>]),
                           Len(nested) + 1)
            ELSE GroupFrom(stats, j + 1, Append(nested, s), last)

\* optimizeStatsGroups with its renumbering, as NewRequest calls it; the result is empty
\* when there is nothing to group.
optimizeStatsGroups(stats) ==
  IF Len(stats) <= 1 THEN << >>
  ELSE GroupFrom([j \in DOMAIN stats |-> [stats[j] EXCEPT !.pos = j - 1]], 1, << >>, 0)

RECURSIVE Counters(_)

\* The counters in a list of groups.
Counters(grouped) ==
  FlattenSeq([j \in DOMAIN grouped |->
    IF grouped[j].stats = "group" THEN Counters(grouped[j].sub) ELSE <<grouped[j]>>])

\* req.Stats after optimizeStatsGroups, which works on the same objects: a counter that was
\* put into a group has lost its first filter for good.
StatsLeft(stats, grouped) ==
  IF grouped = << >> THEN stats
  ELSE [j \in DOMAIN stats |->
          CHOOSE s \in ToSet(Counters(grouped)) : s.pos = j - 1]

-----------------------------------------------------------------------------
(* The index.  A data set has a sequence of rows for each table; the rows of *)
(* hostgroups have the name of the group as key and its members as groups.  *)

Keys(rows) == {rows[j].key : j \in DOMAIN rows}

Members(ds, names) ==
  UNION {ds.hostgroups[j].groups : j \in {i \in DOMAIN ds.hostgroups :
                                            ds.hostgroups[i].key \in names}}

GroupNames(ds, f) ==
  IF f.op = ">=" THEN {f.val} ELSE {g \in Keys(ds.hostgroups) : MatchString(f, g)}

\* The hosts that appendIndexHostsFromHostColumns or appendIndexHostsFromServiceColumns finds
\* for one filter; {-1} when the filter cannot be indexed.
NotIndexed == {-1}

appendIndexHosts(ds, table, f) ==
  CASE f.col = "key" /\ f.op = "=" -> {f.val}
    [] f.col = "key" /\ table = "services" /\ f.op \in {"~", "~~", "=~"} ->
         {h \in Keys(ds.hosts) : MatchString(f, h)}
    [] f.col = "groups" /\ f.op \in {">=", "~", "~~"} -> Members(ds, GroupNames(ds, f))
    [] OTHER -> NotIndexed

RECURSIVE TryFilterIndex(_, _, _, _)

\* mutant: an alternative that is not indexable is skipped
skipsAlternatives(ds, table, filters, strict) ==
  LET one(f) ==
        IF f.neg THEN [ok |-> FALSE, hosts |-> NotIndexed]
        ELSE IF IsLeaf(f)
        THEN LET hosts == appendIndexHosts(ds, table, f)
             IN [ok |-> TRUE, hosts |-> hosts]
        ELSE TryFilterIndex(ds, table, f.sub, f.grp = "or")
      all == {one(filters[j]) : j \in DOMAIN filters}
      found == {x \in all : x.hosts # NotIndexed}
  IN [ok |-> found # {} /\ \A x \in all : x.ok, hosts |-> UNION {x.hosts : x \in found}]

\* TryFilterIndex: the hosts that may match; strict is breakOnNoneIndexableFilter, the filters
\* of an Or have to be indexable all.
TryFilterIndex(ds, table, filters, strict) ==
  LET one(f) ==
        IF f.neg THEN [ok |-> FALSE, hosts |-> NotIndexed]
        ELSE IF IsLeaf(f)
        THEN LET hosts == appendIndexHosts(ds, table, f)
             IN [ok |-> hosts # NotIndexed \/ ~ strict, hosts |-> hosts]
        ELSE TryFilterIndex(ds, table, f.sub, f.grp = "or")
      all == {one(filters[j]) : j \in DOMAIN filters}
      found == {x \in all : x.hosts # NotIndexed}
  IN [ok |-> found # {} /\ \A x \in all : x.ok, hosts |-> UNION {x.hosts : x \in found}]

SortedBy(rows, before(_, _)) == \A i, j \in DOMAIN rows : before(rows[i], rows[j]) => i < j

\* GetPreFilteredData: the sequences of rows that a query may scan.  The services of one host
\* come from a map, in any order.
GetPreFilteredData(ds, table, filters) ==
  LET index == TryFilterIndex(ds, table, filters, FALSE)
      hit == {r \in ToSet(ds[table]) : r.key \in index.hosts}
      earlier(r, q) == r.key < q.key
  IN IF table \in {"hosts", "services"} /\ index.ok /\ index.hosts # {}
     THEN {q \in SetToSeqs(hit) : SortedBy(q, earlier)}
     ELSE {ds[table]}
=============================================================================
