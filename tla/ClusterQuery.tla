---------------------------- MODULE ClusterQuery ----------------------------
(***************************************************************************)
(* One query on a node of a cluster (GetResponse and getDistributedResponse *)
(* of request.go): the goroutine of the client goes through nodeBackends,   *)
(* answers its own part, asks one node after the other over http for       *)
(* theirs, waits for the callbacks and merges the parts.  Meanwhile pings   *)
(* enter and delete nodes in nodeBackends or redistribute replaces it,      *)
(* nodes restart, answer late, not at all or with something else, and       *)
(* backends move.                                                           *)
(*                                                                         *)
(* What one node answers about a cached table is abstracted from module     *)
(* Query: the rows of the backends that it is asked for and has, sorted     *)
(* and cut, or one stats accumulator over them (with Columns: of a group).  *)
(* A row is the number in the first of the columns asked for; Sort is not   *)
(* the default order of hosts and services, in which Limit is applied       *)
(* before the rows are compared.                                            *)
(***************************************************************************)
EXTENDS Stats

CONSTANTS
  Nodes, Me,  \* the ids of nodes; a node that is restarted has another id
  Rows,       \* the rows of every backend, in order
  Other,      \* the value of another column of every row
  Lower,      \* the rows in which the text of a ~~ filter is in lower case
  Queries,    \* the queries a client may send
  MaxChanges  \* bound: how often the cluster changes during the query

Backends == DOMAIN Rows

ASSUME MeAssumption == Me \in Nodes /\ IsFiniteSet(Nodes)
ASSUME RowsAssumption ==
  /\ IsFiniteSet(Backends) /\ \A b \in Backends : Rows[b] \in Seq(Int)
  /\ \A b, c \in Backends : /\ b # c => ToSet(Rows[b]) \cap ToSet(Rows[c]) = {}
                            /\ \A i, j \in DOMAIN Rows[b] : i < j => Rows[b][i] < Rows[b][j]
  /\ \A b \in Backends : \A i \in DOMAIN Rows[b] : Other[Rows[b][i]] \in Int
ASSUME QueriesAssumption ==
  \A q \in Queries : /\ q.backends \subseteq Backends
                     /\ q.stats \in {"none", "counter", "sum", "avg", "min", "max"}
                     /\ q.sort \in {"none", "first", "other"}
                     /\ q.columns \in BOOLEAN /\ q.nocase \in BOOLEAN
                     /\ q.limit \in Int /\ q.offset \in Nat
ASSUME ChangesAssumption == MaxChanges \in Nat

VARIABLES
  query,     \* the request: [backends, stats, columns, sort, nocase, limit, offset]
  down,      \* the backends that are down
  has,       \* assignedBackends of every node: the ones it answers for
  routes,    \* nodeAccessor.nodeBackends of this node
  gone,      \* the ids that no node has any more
  moved,     \* history: the backends that moved since the query came
  old,       \* the map that the loop ranges over, once nodeBackends is another one
  added,     \* the nodes that were entered in that map since the loop began
  changes,   \* how often the cluster has changed since the query came
  keys,      \* the nodes in nodeBackends when the channels were made: their capacity
  pc,        \* where the goroutine of the client is
  asked,     \* what became of every node in the loop
  sent,      \* the backends a node was asked for
  got,       \* what the callback of a node has to collect
  parts,     \* collectedDatasets
  hashes,    \* collectedFailedHashes
  own,       \* the place of this node's part among them, or 0
  answer

request  == <<query, down>>
cluster  == <<has, routes, gone, moved, old, added, changes>>
replies  == <<sent, got>>
channels == <<parts, hashes, own>>
vars == <<request, cluster, keys, pc, asked, replies, channels, answer>>

NoAnswer == [ok |-> FALSE, rows |-> << >>, bare |-> {}, failed |-> {}, stat |-> <<0, 1>>]
NoPart == [part |-> << >>, failed |-> {}]

\* nodeBackends as redistribute or pings have left it before: who has a backend is known.
Init ==
  /\ query \in Queries
  /\ down \in SUBSET Backends
  /\ \E online \in SUBSET Nodes : \E owner \in [Backends -> online] :
       /\ Me \in online
       /\ has = [n \in Nodes |-> {b \in Backends : owner[b] = n}]
       /\ routes = [n \in online |-> has[n]]
  /\ gone = {} /\ moved = {} /\ old = << >> /\ added = {} /\ changes = 0
  /\ keys = {}
  /\ pc = "start"
  /\ asked = [n \in Nodes |-> "no"]
  /\ sent = [n \in Nodes |-> {}]
  /\ got = [n \in Nodes |-> NoPart]
  /\ parts = << >> /\ hashes = << >> /\ own = 0
  /\ answer = NoAnswer

-----------------------------------------------------------------------------
(* One node's answer.                                                       *)

IsStats == query.stats # "none"

AllRequested == query.backends = {}
Requested == IF AllRequested THEN Backends ELSE query.backends

Cut(rows, offset, limit) ==
  LET rest == SubSeq(rows, offset + 1, Len(rows))
  IN IF limit < 0 THEN rest ELSE SubSeq(rest, 1, Min({limit, Len(rest)}))

\* What rows are compared by when the key is c.
Key(c, r) == IF c = "other" THEN Other[r] ELSE r
\* The place that sort.Sort gives to element i; rows that are equal do not differ here.
Place(c, s, i) == Cardinality({j \in DOMAIN s : \/ Key(c, s[j]) < Key(c, s[i])
                                                \/ Key(c, s[j]) = Key(c, s[i]) /\ j <= i})
Sorted(c, s) == [k \in DOMAIN s |-> s[CHOOSE i \in DOMAIN s : Place(c, s, i) = k]]
InOrder(c, rows) == Sorted(c, SetToSeq(rows))

\* What NewResponse on node n makes of backends: only the ones it has are selected.
Served(n, backends) == {b \in backends : b \in has[n] /\ b \notin down}

RowSet(backends) == UNION {ToSet(Rows[b]) : b \in backends}

\* The rows that match.  Filter.String sends the lower case text of a ~~ filter with ~, so that
\* another node compares it with the name as it is; here every name has it in some case.
Found(n, backends) ==
  LET rows == RowSet(Served(n, backends))
  IN IF query.nocase /\ n # Me THEN rows \cap Lower ELSE rows

\* The accumulator a after the values vs, each of which stands for cnt rows.
Accumulated(a, vs) ==
  LET acc[i \in 0 .. Len(vs)] ==
        IF i = 0 THEN a ELSE ApplyValue(acc[i - 1], vs[i].val, vs[i].cnt)
  IN acc[Len(vs)]

Blank == createLocalStatsCopy(<<query>>)[1]
Single(rows) == [i \in DOMAIN rows |-> [val |-> rows[i], cnt |-> 1]]
StatOf(rows) == Accumulated(Blank, Single(InOrder("first", rows)))

\* Nothing is selected, or no group has a row: an empty result.
LocalAnswer(n, backends, offset, limit) ==
  LET rows == Found(n, backends)
  IN IF ~ IsStats THEN Cut(InOrder(query.sort, rows), offset, limit)
     ELSE IF backends \cap has[n] = {} \/ (query.columns /\ rows = {}) THEN << >>
     ELSE <<StatOf(rows)>>

FailedOf(n, backends) == backends \cap down \cap has[n]

\* The limit of buildDistributedRequestData; a part has no offset.
PartLimit == IF query.limit > 0 THEN query.limit + query.offset ELSE -1

\* Requests over http never get SetSortColumns: another node panics when it compares two rows,
\* its http server ends the connection.
SortPanics(n) == ~ IsStats /\ query.sort # "none" /\ Cardinality(Found(n, sent[n])) >= 2

-----------------------------------------------------------------------------
(* GetResponse.                                                             *)

\* Only backends of this node were asked for: it answers alone.
AnswerAlone ==
  /\ pc = "start"
  /\ ~ AllRequested
  /\ query.backends \subseteq has[Me]
  /\ pc' = "done"
  /\ answer' =
       IF IsStats
       THEN [answer EXCEPT !.ok = TRUE, !.failed = FailedOf(Me, query.backends),
                           !.stat = finalStatsApply(StatOf(Found(Me, query.backends)))]
       ELSE [answer EXCEPT !.ok = TRUE, !.failed = FailedOf(Me, query.backends),
                           !.rows = LocalAnswer(Me, query.backends, query.offset, query.limit)]
  /\ UNCHANGED <<request, cluster, keys, asked, replies, channels>>

\* The channels are made.
Distribute ==
  /\ pc = "start"
  /\ ~ (~ AllRequested /\ query.backends \subseteq has[Me])
  /\ pc' = "made"
  /\ keys' = DOMAIN routes
  /\ UNCHANGED <<request, cluster, asked, replies, channels, answer>>

\* From here on the loop ranges over the map that nodeBackends is now.
StartLoop ==
  /\ pc = "made"
  /\ pc' = "loop"
  /\ UNCHANGED <<request, cluster, keys, asked, replies, channels, answer>>

LoopMap == IF old = << >> THEN routes ELSE old

\* getSubBackends
getSubBackends(n) == {b \in LoopMap[n] : AllRequested \/ b \in query.backends}

\* The loop is in SendQuery until that returns.
InSendQuery == \E n \in Nodes : asked[n] = "wait"
Visiting(n) == pc = "loop" /\ ~ InSendQuery /\ n \in DOMAIN LoopMap /\ asked[n] = "no"

\* A push to both channels.
Collect(n, part, failed) ==
  /\ Len(parts) < Cardinality(keys)
  /\ asked' = [asked EXCEPT ![n] = "pushed"]
  /\ parts' = Append(parts, part)
  /\ hashes' = Append(hashes, failed)

\* A node without requested backends counts as an empty part.
VisitSkip(n) ==
  /\ Visiting(n)
  /\ getSubBackends(n) = {}
  /\ Collect(n, << >>, {})
  /\ UNCHANGED <<request, cluster, keys, pc, replies, own, answer>>

\* mutant: what has failed on this node itself is not collected
ownFailuresLost ==
  /\ Visiting(Me)
  /\ getSubBackends(Me) # {}
  /\ Collect(Me, LocalAnswer(Me, Requested, query.offset, query.limit), {})
  /\ own' = Len(parts) + 1
  /\ UNCHANGED <<request, cluster, keys, pc, replies, answer>>

\* This node answers its part with the request as it is.
VisitMe ==
  /\ Visiting(Me)
  /\ getSubBackends(Me) # {}
  /\ Collect(Me, LocalAnswer(Me, Requested, query.offset, query.limit), FailedOf(Me, Requested))
  /\ own' = Len(parts) + 1
  /\ UNCHANGED <<request, cluster, keys, pc, replies, answer>>

\* A push of the loop itself to a full channel, which nobody reads yet: for ever.
Blocks(n) ==
  /\ Visiting(n)
  /\ n = Me \/ getSubBackends(n) = {}
  /\ Len(parts) >= Cardinality(keys)
  /\ pc' = "blocked"
  /\ asked' = [asked EXCEPT ![n] = "stuck"]
  /\ UNCHANGED <<request, cluster, keys, replies, channels, answer>>

\* SendQuery begins.
VisitRemote(n) ==
  /\ Visiting(n)
  /\ n # Me
  /\ getSubBackends(n) # {}
  /\ query.columns \/ IsStats
  /\ n \notin gone
  /\ asked' = [asked EXCEPT ![n] = "wait"]
  /\ sent' = [sent EXCEPT ![n] = getSubBackends(n)]
  /\ UNCHANGED <<request, cluster, keys, pc, got, channels, answer>>

\* buildDistributedRequestData panics without Columns, and SendQuery ends the process for an id
\* that no address has.
VisitPanics(n) ==
  /\ Visiting(n)
  /\ n # Me
  /\ getSubBackends(n) # {}
  /\ ~ (query.columns \/ IsStats) \/ n \in gone
  /\ pc' = "panic"
  /\ UNCHANGED <<request, cluster, keys, asked, replies, channels, answer>>

\* The Go runtime ends the process when the loop steps on while a ping writes to the same map.
MapWriteSeen ==
  /\ pc = "loop"
  /\ ~ InSendQuery
  /\ old = << >>
  /\ pc' = "panic"
  /\ UNCHANGED <<request, cluster, keys, asked, replies, channels, answer>>

\* SendQuery returns with what the node answers for the backends that it has by then, and
\* starts the goroutine of the callback.
Answer(n) ==
  /\ asked[n] = "wait"
  /\ ~ SortPanics(n)
  /\ asked' = [asked EXCEPT ![n] = "held"]
  /\ got' = [got EXCEPT ![n] = [part |-> LocalAnswer(n, sent[n], 0, PartLimit),
                                failed |-> FailedOf(n, sent[n])]]
  /\ UNCHANGED <<request, cluster, keys, pc, sent, channels, answer>>

\* The answer does not have the form that is expected.
AnswerBad(n) ==
  /\ asked[n] = "wait"
  /\ asked' = [asked EXCEPT ![n] = "bad"]
  /\ UNCHANGED <<request, cluster, keys, pc, replies, channels, answer>>

\* mutant: the http client has no timeout, so that only an ended connection is an error
noClientTimeout(n) ==
  /\ asked[n] = "wait"
  /\ n \in gone \/ SortPanics(n)
  /\ asked' = [asked EXCEPT ![n] = "failed"]
  /\ pc' = "done"
  /\ UNCHANGED <<request, cluster, keys, replies, channels, answer>>

\* SendQuery fails, at the latest with the timeout of the http client: the whole query does.
SendFails(n) ==
  /\ asked[n] = "wait"
  /\ asked' = [asked EXCEPT ![n] = "failed"]
  /\ pc' = "done"
  /\ UNCHANGED <<request, cluster, keys, replies, channels, answer>>

\* mutant: the failed backends of a node are collected only when there are some
hashesOfFailures(n) ==
  /\ pc # "panic"
  /\ asked[n] = "held"
  /\ Len(parts) < Cardinality(keys)
  /\ asked' = [asked EXCEPT ![n] = "pushed"]
  /\ parts' = Append(parts, got[n].part)
  /\ hashes' = IF got[n].failed = {} THEN hashes ELSE Append(hashes, got[n].failed)
  /\ UNCHANGED <<request, cluster, keys, pc, replies, own, answer>>

\* The callback of a node collects its part, also after the query has ended.
Callback(n) ==
  /\ pc # "panic"
  /\ asked[n] = "held"
  /\ Collect(n, got[n].part, got[n].failed)
  /\ UNCHANGED <<request, cluster, keys, pc, replies, own, answer>>

\* Every node of the map was visited; one that was entered meanwhile may be left out.
LoopOver ==
  /\ pc = "loop"
  /\ ~ InSendQuery
  /\ \A n \in DOMAIN LoopMap \ added : asked[n] # "no"

\* Ten seconds later a callback is not through: waitTimeout.
Timeout ==
  /\ LoopOver
  /\ \E n \in Nodes : asked[n] = "held"
  /\ pc' = "done"
  /\ UNCHANGED <<request, cluster, keys, asked, replies, channels, answer>>

AllCalledBack == LoopOver /\ \A n \in Nodes : asked[n] # "held"

\* The number of parts is not that of the nodes in nodeBackends now: an error.
WrongNumber ==
  /\ AllCalledBack
  /\ Len(parts) # Cardinality(DOMAIN routes)
  /\ pc' = "done"
  /\ UNCHANGED <<request, cluster, keys, asked, replies, channels, answer>>

\* mergeDistributedResponse and PostProcessing for rows: Response.Less compares the columns at
\* SortField.Index, which is 0 here whatever the key is.
MergedRows ==
  LET all == FlattenSeq(parts)
  IN Cut(IF query.sort = "none" THEN all ELSE Sorted("first", all), query.offset, query.limit)

\* Requests over http never get SetRequestColumns: the rows of other nodes have no columns.
Bare(rows) == {r \in ToSet(rows) : own = 0 \/ r \notin ToSet(parts[own])}

\* mergeDistributedResponse and CalculateFinalStats; an empty part has no value.
MergedStat == finalStatsApply(Accumulated(Blank, FlattenSeq(parts)))

\* The group of a row from another node is no *string; and a row without columns is compared.
Unmergeable ==
  \E i \in DOMAIN parts :
    /\ i # own
    /\ parts[i] # << >>
    /\ IF IsStats THEN query.columns
       ELSE query.sort # "none" /\ Len(FlattenSeq(parts)) >= 2

MergePanics ==
  /\ AllCalledBack
  /\ Len(parts) = Cardinality(DOMAIN routes)
  /\ Unmergeable
  /\ pc' = "panic"
  /\ UNCHANGED <<request, cluster, keys, asked, replies, channels, answer>>

\* mutant: the number of parts is not checked
mergesAnyNumber ==
  /\ AllCalledBack
  /\ ~ Unmergeable
  /\ pc' = "done"
  /\ answer' = IF IsStats THEN [answer EXCEPT !.ok = TRUE, !.stat = MergedStat]
               ELSE [answer EXCEPT !.ok = TRUE, !.rows = MergedRows, !.bare = Bare(MergedRows),
                                   !.failed = UNION ToSet(hashes)]
  /\ UNCHANGED <<request, cluster, keys, asked, replies, channels>>

Merge ==
  /\ AllCalledBack
  /\ Len(parts) = Cardinality(DOMAIN routes)
  /\ ~ Unmergeable
  /\ pc' = "done"
  /\ answer' = IF IsStats THEN [answer EXCEPT !.ok = TRUE, !.stat = MergedStat]
               ELSE [answer EXCEPT !.ok = TRUE, !.rows = MergedRows, !.bare = Bare(MergedRows),
                                   !.failed = UNION ToSet(hashes)]
  /\ UNCHANGED <<request, cluster, keys, asked, replies, channels>>

-----------------------------------------------------------------------------
(* The cluster changes meanwhile.                                           *)

Ended == pc \in {"done", "panic", "blocked"}

Changes == ~ Ended /\ changes < MaxChanges /\ changes' = changes + 1

\* Another node redistributes, or loses all of its backends with a restart.
Reassign(n, backends) ==
  /\ Changes
  /\ n # Me
  /\ backends # has[n]
  /\ has' = [has EXCEPT ![n] = backends]
  /\ moved' = moved \cup (backends \ has[n]) \cup (has[n] \ backends)
  /\ UNCHANGED <<request, routes, gone, old, added, keys, pc, asked, replies, channels, answer>>

\* A ping tells this node which backends a partner has.
LearnRoute(n) ==
  /\ Changes
  /\ n # Me
  /\ n \notin gone
  /\ IF n \in DOMAIN routes THEN routes[n] # has[n] ELSE TRUE
  /\ routes' = [m \in DOMAIN routes \cup {n} |-> IF m = n THEN has[n] ELSE routes[m]]
  /\ added' = IF pc = "loop" /\ old = << >> /\ n \notin DOMAIN routes THEN added \cup {n} ELSE added
  /\ UNCHANGED <<request, has, gone, moved, old, keys, pc, asked, replies, channels, answer>>

\* A ping is answered by a node that has restarted, with another id.
Restarted(n) ==
  /\ Changes
  /\ n \in DOMAIN routes \ {Me}
  /\ routes' = [m \in DOMAIN routes \ {n} |-> routes[m]]
  /\ gone' = gone \cup {n}
  /\ has' = [has EXCEPT ![n] = {}]
  /\ moved' = moved \cup has[n]
  /\ UNCHANGED <<request, old, added, keys, pc, asked, replies, channels, answer>>

\* This node redistributes: nodeBackends is another map, its own backends are the ones there.
redistribute(online, owner) ==
  /\ Changes
  /\ Me \in online
  /\ online \cap gone = {}
  /\ LET new == [n \in online |-> {b \in Backends : owner[b] = n}]
     IN /\ routes' = new
        /\ has' = [has EXCEPT ![Me] = new[Me]]
        /\ moved' = moved \cup {b \in Backends : \E n \in Nodes : b \in has[n] /\ owner[b] # n}
  /\ old' = IF pc = "loop" /\ old = << >> THEN routes ELSE old
  /\ UNCHANGED <<request, gone, added, keys, pc, asked, replies, channels, answer>>

\* The client has its answer or waits for ever, or the process has ended.
Finished == Ended /\ UNCHANGED vars

Respond ==
  \/ AnswerAlone \/ Distribute \/ StartLoop \/ VisitMe \/ WrongNumber \/ Merge \/ MergePanics
  \/ \E n \in Nodes : VisitSkip(n) \/ Blocks(n) \/ VisitRemote(n) \/ VisitPanics(n)

ClusterChanges ==
  \/ \E n \in Nodes : \/ LearnRoute(n) \/ Restarted(n)
                      \/ \E backends \in SUBSET Backends : Reassign(n, backends)
  \/ \E online \in SUBSET Nodes : \E owner \in [Backends -> online] : redistribute(online, owner)

Next ==
  \/ Respond \/ Timeout \/ MapWriteSeen \/ Finished \/ ClusterChanges
  \/ \E n \in Nodes : Answer(n) \/ AnswerBad(n) \/ SendFails(n) \/ Callback(n)

Spec == Init /\ [][Next]_vars

\* The goroutines of the client and of the callbacks run, the timeout of the http client and the
\* ten seconds of waitTimeout pass; the other nodes may do nothing.
FairSpec ==
  /\ Spec
  /\ WF_vars(Respond) /\ WF_vars(\E n \in Nodes : Callback(n))
  /\ WF_vars(\E n \in Nodes : SendFails(n)) /\ WF_vars(Timeout)

-----------------------------------------------------------------------------
(* Properties.                                                              *)

\* Every variable has a value that the code can give it; every part comes with its failed
\* backends, and the map that the loop goes through always has this node
\* (collectedDatasets and collectedFailedHashes of getDistributedResponse).
TypeOK ==
  /\ down \subseteq Backends /\ moved \subseteq Backends
  /\ has \in [Nodes -> SUBSET Backends]
  /\ DOMAIN routes \subseteq Nodes /\ routes \in [DOMAIN routes -> SUBSET Backends]
  /\ DOMAIN old \subseteq Nodes
  /\ Me \in DOMAIN LoopMap
  /\ gone \subseteq Nodes \ {Me} /\ added \subseteq Nodes /\ keys \subseteq Nodes
  /\ pc \in {"start", "made", "loop", "done", "panic", "blocked"}
  /\ asked \in [Nodes -> {"no", "wait", "held", "pushed", "bad", "failed", "stuck"}]
  /\ sent \in [Nodes -> SUBSET Backends]
  /\ Len(parts) = Len(hashes)
  /\ answer.failed \subseteq Backends

Visited == {n \in Nodes : asked[n] # "no"}

\* The number of parts tells that one is missing: no answer was bad, or no node that was asked
\* has left nodeBackends since.
Countable == (\A n \in Nodes : asked[n] # "bad") \/ Visited \subseteq DOMAIN routes

\* A query for rows that is answered, and not with an error, reports exactly the requested
\* backends that are down as failed, of those that stayed with their node: the failures that a
\* node reports are neither lost nor counted for another one when the parts are merged
\* (collectedFailedHashes of getDistributedResponse).  A bad answer is only noticed as long as
\* no node leaves nodeBackends between (the comparison of the number of datasets).
FailuresReported ==
  answer.ok /\ ~ IsStats /\ Countable =>
    answer.failed \cap (Requested \ moved) = down \cap (Requested \ moved)

\* The queries that are merged as one node would answer them: no offset, which this node
\* applies to its own part, no minimum, for which a node without rows sends -1, and no ~~, of
\* which other nodes find less.
Mergeable == query.offset = 0 /\ query.stats # "min" /\ ~ query.nocase

\* A query for rows that is answered, and not with an error, has every row of the requested
\* backends that stayed with their node and are not reported as failed, once; with a limit as
\* many of them as one node with all of them would send, and those when the order is that of
\* the first column.  A node that answers late, badly or not at all, or that comes or leaves
\* meanwhile, never makes rows disappear without a word.  That the rows of other nodes have no
\* columns is another matter.
RowsOrError ==
  answer.ok /\ ~ IsStats /\ Countable /\ Mergeable =>
    LET rows == answer.rows
        want == RowSet((Requested \ moved) \ answer.failed)
        cut == Cut(InOrder("first", want), query.offset, query.limit)
    IN /\ query.sort = "first" => \A i, j \in DOMAIN rows : i < j => rows[i] <= rows[j]
       /\ query.limit < 0 =>
            \A r \in want : \E i \in DOMAIN rows : \A j \in DOMAIN rows : rows[j] = r <=> i = j
       /\ query.limit >= 0 /\ moved = {} /\ query.sort = "first" => rows = cut
       /\ query.limit >= 0 /\ moved = {} /\ query.sort = "none" =>
            /\ Len(rows) = Len(cut) /\ ToSet(rows) \subseteq want
            /\ \A i, j \in DOMAIN rows : rows[i] = rows[j] => i = j

\* A query for stats that is answered has the value over all rows of the requested backends that
\* are up.
StatOrError ==
  answer.ok /\ IsStats /\ Countable /\ Mergeable /\ moved = {} =>
    answer.stat = finalStatsApply(StatOf(RowSet(Requested \ down)))

\* Whatever the other nodes do, an answer is the right one or an error (getDistributedResponse,
\* mergeDistributedResponse).
AnswerOrError == RowsOrError /\ StatOrError

\* As long as the loop meets only nodes that were in nodeBackends when the channels were made,
\* neither the loop nor a callback blocks in a push (the capacity of collectedDatasets).
RoomForParts ==
  Visited \subseteq keys =>
    pc # "blocked" /\ (Len(parts) < Cardinality(keys) \/ \A n \in Nodes : asked[n] # "held")

\* Every query ends with an answer, an error or the process, also when no other node ever
\* answers: the loop is left in a push for ever only after it has met a node that was not in
\* nodeBackends when the channels were made (getDistributedResponse, SendQuery).
ClusterQueryEnds ==
  <>(Ended /\ (pc = "blocked" => ~ Visited \subseteq keys))

\* The rows of an answer are in the order that is asked for (getDistributedResponse: "This also
\* applies sort/offset/limit settings").
OrderAskedFor ==
  answer.ok /\ ~ IsStats /\ query.sort # "none" =>
    \A i, j \in DOMAIN answer.rows :
      i < j => Key(query.sort, answer.rows[i]) <= Key(query.sort, answer.rows[j])

\* The rows of an answer have their columns, whichever node they come from (README: requests
\* are forwarded and merged).
ColumnsKept == answer.bare = {}
=============================================================================
