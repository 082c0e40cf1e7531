------------------------------ MODULE MCQuery ------------------------------
(* Instances of Query for TLC.                                               *)
EXTENDS Query

\* Names 1 and 2 are "A" and "a", 3 is "b".
SmallLower == <<2, 2, 3>>

Row(p, key, sub, state, groups, contacts) ==
  [peer |-> p, key |-> key, sub |-> sub, state |-> state, groups |-> groups, contacts |-> contacts]

\* Peer q has hosts with the name of a host of p, as sites of one company have; u = 3 is a
\* contact of some of them.
SmallData ==
  [p |-> [hosts      |-> <<Row("p", 1, 0, 0, {1}, {3}), Row("p", 2, 0, 1, {}, {})>>,
          services   |-> <<Row("p", 1, 1, 0, {1}, {}), Row("p", 1, 2, 2, {1}, {3}),
                           Row("p", 2, 1, 1, {}, {3})>>,
          hostgroups |-> <<Row("p", 1, 0, 0, {1}, {})>>,
          log        |-> <<Row("p", 1, 0, 0, {}, {}), Row("p", 2, 0, 1, {}, {})>>,
          sites      |-> <<Row("p", 1, 0, 0, {}, {})>>],
   q |-> [hosts      |-> <<Row("q", 2, 0, 2, {1, 2}, {3}), Row("q", 3, 0, 1, {2}, {3})>>,
          services   |-> <<Row("q", 2, 1, 2, {1, 2}, {})>>,
          hostgroups |-> <<Row("q", 1, 0, 0, {2}, {}), Row("q", 2, 0, 0, {2, 3}, {})>>,
          log        |-> <<Row("q", 2, 0, 1, {}, {})>>,
          sites      |-> <<Row("q", 2, 0, 0, {}, {})>>],
   m |-> [t \in {"hosts", "services", "hostgroups", "log", "sites"} |-> << >>]]

SmallOrder == <<"p", "m", "q">>

H(h, val) == [h |-> h, col |-> "none", op |-> "=", val |-> val]
F(h, col, op, val) == [h |-> h, col |-> col, op |-> op, val |-> val]

Plain ==
  [table |-> "hosts", lines |-> << >>, limit |-> -1, offset |-> 0, sort |-> << >>,
   columns |-> FALSE, backends |-> {}, auth |-> 0, wrapped |-> FALSE, wait |-> FALSE]

Upto(S, n) == UNION {[1 .. k -> S] : k \in 0 .. n}

\* The filters: all sequences of up to three headers.
FilterLines ==
  {F("filter", "key", "=", 2), F("filter", "key", "~~", 1), F("filter", "state", ">", 0),
   F("filter", "groups", ">=", 1), H("and", 2), H("or", 2), H("negate", 0)}

\* What is negated twice, a group that is negated, and a case-insensitive host name on services: see the README.
NegatesGroup(lines) ==
  \E j \in 2 .. Len(lines) : lines[j].h = "negate" /\ lines[j - 1].h \in {"and", "or", "negate"}

IgnoresCase(lines) == \E j \in DOMAIN lines : lines[j].op = "~~"

FilterRequests ==
  {[Plain EXCEPT !.lines = q] : q \in {x \in Upto(FilterLines, 3) : ~ NegatesGroup(x)}}
  \cup {[Plain EXCEPT !.table = "services", !.lines = q, !.auth = u] :
          q \in {x \in Upto(FilterLines, 3) : ~ IgnoresCase(x) /\ ~ NegatesGroup(x)}, u \in {0, 3}}

\* Sort, Offset and Limit.
PageRequests ==
  {[Plain EXCEPT !.table = t, !.lines = q, !.limit = n, !.offset = k, !.sort = s, !.wrapped = w] :
     t \in {"hosts", "services", "sites"},
     q \in {<< >>, <<F("filter", "state", ">", 0)>>},
     n \in {-1, 0, 1, 2}, k \in {0, 1, 3},
     s \in {<< >>, <<Asc("key")>>, <<Asc("key"), Asc("sub")>>,
            <<[col |-> "state", asc |-> FALSE]>>},
     w \in BOOLEAN}

\* Counters that share their first filter, and other stats.
StatsHeads ==
  {<<F("counter", "state", ">", 0), F("counter", "key", "=", v), H("statsand", 2)>> : v \in {2, 3}}
  \cup {<<F("counter", "state", "=", 1), F("counter", "key", "=", 2), H("statsand", 2)>>,
        <<F("counter", "state", ">", 0), F("counter", "groups", ">=", 1),
          F("counter", "key", "=", 2), H("statsand", 3)>>,
        <<F("counter", "key", "~~", 1)>>, <<F("min", "state", "=", 0)>>, <<H("statsand", 0)>>}

StatsRequests ==
  {[Plain EXCEPT !.lines = a \o b \o c, !.columns = g, !.table = t] :
     a \in StatsHeads, b \in StatsHeads, c \in StatsHeads \cup {<<F("avg", "state", "=", 0)>>},
     g \in {FALSE}, t \in {"hosts"}}
  \cup {[Plain EXCEPT !.lines = a \o b, !.columns = TRUE, !.table = "services"] :
          a \in StatsHeads, b \in {<<F("max", "state", "=", 0)>>, <<F("sum", "state", "=", 0)>>}}

\* Passed through to the sites, and with a wait for one peer.
OtherRequests ==
  {[Plain EXCEPT !.table = "log", !.limit = n, !.lines = q, !.backends = b, !.wrapped = w] :
     n \in {-1, 1},
     q \in {<< >>, <<F("filter", "state", "=", 1)>>, <<F("counter", "state", "=", 1)>>},
     b \in {{}, {"p"}, {"p", "x"}, {"x"}}, w \in BOOLEAN}
  \cup {[Plain EXCEPT !.table = t, !.backends = b, !.wait = TRUE] :
          t \in {"hosts", "sites"}, b \in {{"p"}, {"q", "x"}}}
  \cup {[Plain EXCEPT !.table = "hostgroups", !.auth = 3, !.lines = q] :
          q \in {<< >>, <<F("filter", "groups", "!=", 0)>>}}

SoundRequests == FilterRequests \cup PageRequests \cup StatsRequests \cup OtherRequests

\* Two StatsOr groups that begin with the same filter: StatsOverAllRows does not hold for these,
\* see the README.
OrRequests ==
  {[Plain EXCEPT !.lines =
      <<F("counter", "state", ">", 1), F("counter", "key", "=", v), H("statsor", 2),
        F("counter", "state", ">", 1), F("counter", "groups", ">=", w), H("statsor", 2)>>] :
     v \in 1 .. 3, w \in 1 .. 2}
=============================================================================
