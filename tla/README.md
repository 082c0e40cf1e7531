# LMD in TLA+

LMD (`src/lmd/`) is a caching proxy for livestatus sites.  It keeps a copy of
the tables of every configured backend in memory, follows the backends with
periodic updates, and answers livestatus queries of its clients from the copies.
This directory holds TLA+ models of its core (updates, commands, comments,
waits, client connections, queries, the cluster, reload and shutdown), TLC
configurations that check them on small instances, and TLAPS proofs of the most
important invariants for every value of the constants.

`PROJECT.json` lists components, runs, mutants (plausible bugs that each
property must catch), the source lines behind every definition, findings,
hazards and theorems.

## 1. Inventory

| component | source | state | operations |
|---|---|---|---|
| peer: update loop, status | `peer.go`, `datastoreset.go` | `Peer.Status` (state, LastUpdate, LastFullUpdate, LastOnline, LastQuery, ProgramStart, Idling, ForceFull, current source), `Peer.data`, `Peer.ErrorCount`, flags | `periodicUpdate`, `InitAllTables`, `UpdateFull`, `UpdateDelta`, `handleBrokenPeer`, `setNextAddrFromErr`, `resetErrors`, `setBroken` |
| spin-up of idling peers | `response.go`, `peer.go` | the same | `SpinUpPeers`, `ResumeFromIdle` |
| commands | `peer.go` | retries of a call, the peer's status | `SendCommandsWithRetry`, `SendCommands`, `ScheduleImmediateUpdate` |
| comments and downtimes | `datastoreset.go`, `datastore.go` | `DataStore.Data`, `DataStore.Index`, the list columns of hosts and services | `maxIDOrSizeChanged`, `UpdateDeltaCommentsOrDowntimes`, `AppendData`, `AddItem`, `RemoveItem`, `buildDowntimeCommentsList` |
| delta windows, full scan | `datastoreset.go` | `last_check`, `last_update` of cached rows, `LastUpdate`, `lastTimeperiodUpdateMinute` | `UpdateDeltaHosts/Services`, `UpdateDeltaFullScan`, `getMissingTimestamps`, `composeTimestampFilter` |
| life cycle | `main.go`, `peer.go`, `listener.go`, `nodes.go` | `PeerMap`, `PeerMapLock`, `Status[Paused]`, `stopChannel`, `shutdownChannel`, wait groups, `Listeners` | `mainLoop`, `initializePeers`, `initializeListeners`, `mainSignalHandler`, `Start`, `Stop`, `updateLoop`, `periodicUpdateLMD`, `periodicUpdateMultiBackends`, `updateBackends` |
| connections | `peer.go` | the pool `cache.connection` | `GetConnection`, `query`, `HTTPQueryWithRetries` |
| wait conditions | `peer.go` | a channel for each waiting request | `WaitCondition`, `waitcondition` |
| cluster | `nodes.go` | `onlineNodes`, `nodeBackends`, `assignedBackends`, `thisNode` | `checkNodeAvailability`, `sendPing`, `redistribute`, `updateBackends` |
| client connections | `client_con.go` | the requests of a batch, pending commands, keepAlive | `ParseRequests`, `answer`, `processRequests`, `sendRemainingCommands`, `SendCommands`, `Handle` |
| requests, responses | `request.go`, `response.go`, `rawresultset.go` | selected peers, result rows, accumulators, failed backends | `NewResponse`, `BuildLocalResponse`, `BuildPassThroughResult`, `PostProcessing`, `CalculateFinalStats` |
| distributed queries | `request.go`, `nodes.go`, `http.go` | `nodeBackends` while it changes, collected parts, a wait group | `GetResponse`, `getDistributedResponse`, `mergeDistributedResponse` |
| filters and statistics | `filter.go`, `datarow.go`, `datastore.go`, `request.go` | the index of hosts and services | `ParseFilter`, `ParseFilterOp`, `Match`, `MatchFilter`, `ApplyValue`, `optimizeStatsGroups`, `TryFilterIndex`, `checkAuth` |
| tables, configuration, logging, metrics, import, export, HTTP | the remaining files | declarations, input and output | |

How they interact.  One goroutine for each peer runs `updateLoop`.  Every
client connection has a goroutine; it calls into peers directly: it reads
`Peer.data`, refreshes `LastQuery`, spins up idling peers (a goroutine for each
peer that runs the same update routines as the loop), sends commands (a
goroutine for each peer), passes queries through, and waits on conditions.  All
of them share `Peer.Status` under `Peer.Lock` and the tables under
`DataStoreSet.Lock`.  Neither lock is held across a remote query.  In a
cluster, `Nodes` starts and stops the loops of the peers.  The main goroutine
replaces `PeerMap` on a reload; parents of several sites add and remove sub
peers in it; the goroutines of clients read it.

What is hard.

* Every routine that updates a peer reads status and tables, queries the site
  for an arbitrary time, and then writes.  Two of them may run at once (loop
  and spin-up); queries of clients fail at any time in between, and each
  failure may change state, source and data.
* Restarts of the site must be noticed, or the cache shows objects that are
  gone; the check is skipped while the start time is not known.
* The state machine of a peer (pending, up, warning, down, broken) is spread
  over a dozen functions, and its timeouts are measured from the last success.
* The comments table is updated by difference, in several critical sections.
* Process-wide effects: any panic in a goroutine ends the whole process.
* A reload keeps some peers and their goroutines, and replaces the channels and
  wait groups they are controlled by; `Stop` waits for a loop that may itself
  wait for a lock the caller holds.
* Commands are not answered when they succeed, are sent in the background, and
  may be overtaken by what follows on the same connection.
* Queries are rewritten (lower case columns, an index, nested stats groups, a
  limit for each peer) and answered by a goroutine for each peer, and in a
  cluster by several nodes; the result has to be that of the plain query.
* A distributed query reads the map of nodes three times without a lock, and
  blocks in http calls between; pings and redistributions change it meanwhile.

What makes the parts correct, in short.  A peer given up has no data; a peer
whose site is healthy comes back with data; restarts are noticed; commands are
delivered at most once and answered; table and index agree; a comment has one
row, and the table and the lists converge to those of the site; every backend of
a cluster is on one node; a wait ends; a response has the rows of exactly the
peers that did not fail, and its slice, total and statistics are those of all
these rows together; replies come in the order of the requests; a reload leaves
every configured backend updated, and a shutdown ends.

## 2. Modules

| module | contents |
|---|---|
| `Peer` | one backend connection: update loop, spin-up update, commands, other client queries, remote site, clock |
| `MCPeer` | constants of the `peer_*` runs |
| `PeerProofs` | type correctness and the safety invariants of `Peer` |
| `Comments` | the comments (downtimes) table and several goroutines that update it |
| `CommentsProofs` | types, index invariants and lists for any set of updaters, one row for each id with one updater, which stays while the site has the comment |
| `Nodes` | the processes of a cluster: ping rounds, late answers, restarts, redistribution |
| `NodesProofs` | types, the division of backends is a partition, and processes with the same view share it |
| `WaitCondition` | a request with a `WaitTrigger`, its goroutine, and the update loop of the peer |
| `WaitConditionProofs` | types, and that a wait that ends early has seen its condition |
| `DeltaSync`, `MCDeltaSync` | which rows delta updates, full scans and full updates fetch, with time |
| `DeltaSyncProofs` | the bounds on how long the cache is behind, for all intervals, and that checks do not go back |
| `Lifecycle`, `MCLifecycle` | main loop, reload, shutdown, listeners, Start and Stop of peers and sub peers, the loop of `nodes.go` that moves peers |
| `LifecycleProofs` | wait groups count their loops, and what a start or a reload leaves running |
| `OrderedReplies` | abstract: what a client may rely on, in terms of replies and applied commands |
| `ClientConnection`, `MCClient` | one connection, shown to implement `OrderedReplies` |
| `ClientConnectionProofs` | the refinement, and the order of commands, for any requests and backends |
| `Stats` | accumulators: copy, apply, final value |
| `Filters` | extends `Stats`: filters and stats groups as trees, what they match, their rewriting, the index |
| `Query`, `MCQuery` | extends `Filters`: one query on one node, from its headers to the answer, with a reference definition of what it means |
| `ClusterQuery`, `MCClusterQuery` | extends `Stats`: one query over the nodes of a cluster |
| `ClusterQueryProofs` | the parts of an answer, the failures it reports, its rows and values, and the room in its channels, for any number of nodes and changes of the cluster |

How they fit together.  `Peer` is one backend; `Lifecycle` is the set of all
backends, with the update reduced to "busy"; `Comments` and `WaitCondition` look
into one update, `DeltaSync` into the sequence of updates of one table.  `ClientConnection` sends the commands whose delivery `Peer`
models, and answers the queries that `Query` models.  `ClusterQuery` asks nodes
that answer as `Query` says, over the routes that `Nodes` maintains.  Each module
keeps of the others what its properties depend on, as nondeterminism: a sender
in `ClientConnection` may deliver, fail, or deliver and report an error; a peer
in `Query` may lose its data at any time; a node in `ClusterQuery` may answer
badly or never, enter, leave and restart, and routes and owners may disagree.

### Peer

A step is one critical section under `Peer.Lock`, or one remote query with the
critical sections of its result.  The two updating goroutines are `th["loop"]`
and `th["resume"]`, each with a program counter (`pc`), the copy of the data
pointer it works on (`ds`), the tables it is creating (`new`), the time it
started at (`to`) and, for the loop, what `periodicUpdate` has decided on its
copy of the status (`plan`).

| code | model |
|---|---|
| `Status[...]`, `Peer.data` | `state`, `data`, `programStart`, `lastUpdate`, `lastFullUpdate`, `lastOnline`, `quiet`, `idling`, `forceFull`, `curAddr` |
| `Peer.query`, `GetConnection`, `setNextAddrFromErr` | `Answered(n)`, `QueryFails`, `setNextAddrFromErr(n)`: n failed dials before an answer |
| `InitAllTables` | `InitStatus`, `InitTables`, `InitCommit` |
| `UpdateFull`, `UpdateDelta` | `UpdateStatus`, `FullTables`, `FullCommit`, `DeltaTables`, `DeltaCommit` |
| `periodicUpdate` | `LoopTick` (copy of the status), `TimeperiodsUpdate`, `LoopDecide`, `handleBrokenPeer` |
| `SpinUpPeers`, `ResumeFromIdle` | `ResumeBegin`, `ResumeDecide`, and the update steps with `t = "resume"` |
| `SendCommandsWithRetry`, `SendCommands` | `CommandBegin`, `CommandCheck`, `CommandSend`, `ScheduleImmediateUpdate`, `CommandForce` |
| passthrough queries and wait conditions | `ClientQuery` (they change the peer only by failing) |

Abstractions, and why they are sound for the properties.

* The remote site is an incarnation number; `program_start` and `nagios_pid`
  change together.  Cached tables are the incarnation they were created from;
  the number of objects of an incarnation is `ObjectCount`.
* A timestamp is its age, saturated just above the largest value it is compared
  with.  `LastOnline = 0` is the saturated age.
* `ErrorCount` is left out: its only reader is the second half of the condition
  in `setNextAddrFromErr`, `ErrorCount > numSources && lastOnline <= 0`, and
  `lastOnline <= 0` already makes the first half true.
* The object tables of an update are one step that succeeds or fails as a
  whole.  Every query of them has the same outcomes, and none of them changes
  the status except by failing.
* When the full scan of a delta update is due is left open (`DeltaTables` may
  always find more objects or not).
* One spin-up goroutine at a time; `NewResponse` starts one for an idling peer
  only, and idling ends when it runs.
* Peers have socket connections.  HTTP peers, and LMD or Thruk sites with sub
  peers, are not in this module.

### Comments

The rows of `store.Data` are a set of records of a batch number and an id; the
order in `Data` is that of batch and id.  `index` is the set of rows that
`store.Index` points to.  Each updater goes through the critical sections of
`UpdateDeltaCommentsOrDowntimes`: `QueryStats`, `CompareStats`
(`maxIDOrSizeChanged`), `QueryIds`, `Merge` (removal under the lock),
`QueryRows`, `AppendData`, `Rebuild`.  `QueryFails` is the failure of any of
the queries.  The site adds comments with ascending ids, removes them, and may
reload; comments on hosts that the cache does not know are `alien`.

### Nodes

| code | model |
|---|---|
| `Nodes.ID`, `thisNode`, `nodeAddresses[m].id` | `id`, `thisNode`, `nodeId` |
| `onlineNodes`, `nodeBackends`, `assignedBackends` | the same, for every process |
| `checkNodeAvailability` | `Tick` begins a round, `EndRound` ends it when all have answered or at the heartbeat timeout |
| `SendQuery`, `queryPing`, callback of `sendPing` | `SendQuery`, `queryPing`, `sendPing`: request, answer, effect of the answer |
| `redistribute`, `updateBackends` | `PerNode`, `Before`, `Share`, `redistribute` |
| nodes asked by `getDistributedResponse` | `QueryTargets` |

Abstractions.  Nodes and backends are their places in the configuration, which
all processes share.  The identifier of a process is a number used once.
`nodeBackends` is keyed by node instead of identifier: an entry is removed when
the identifier of its node changes.  A callback and `redistribute` are atomic,
although the code has no lock; what the race on `newOnlineNodes` may do (drop
nodes that have answered) is part of `EndRound` and counted as a delay.  A ping
to a node where nothing runs leaves a goroutine that has no further effect, so
the model drops it.  A process that ends loses its state and its goroutines.

### WaitCondition

The steps of the two goroutines are those between which the other can run: the
test of the channel and its close are two, `ScheduleImmediateUpdate` and the
read of `LastUpdate` are two.  The condition is a Boolean for the site
(`remote`) and for the cached rows (`cached`); a negated condition is the other
Boolean.  The request waits for an object, for any row of a table, or for any
service, which the code refuses once it has not found the condition.  The loop
is reduced to what it does to `LastUpdate`, the tables and their objects.
`verdict` records what the goroutine has found and is read by no step.  After a
panic the process is gone, and further steps of the model mean nothing.

### DeltaSync

Time is explicit: the properties are about how long the cache may be behind.
A row is its `last_check` and a flag that stands for the other columns of the
full scan (acknowledged, downtime depth and so on).

| code | model |
|---|---|
| `periodicUpdate`, `ResumeFromIdle` | `LoopBegin`, `ResumeBegin`: the window `from`, `to` |
| filter of `UpdateDelta`, `composeTimestampFilter` | `InWindow`, `Blocks`, `Selected`, `FilterLength` |
| `UpdateDeltaFullScan`, `getMissingTimestamps` | `Scan`, `Missing`, `ScanEnds` |
| `updateDeltaHostsServices`, `insertDeltaDataResult` | `Fetch`, `Insert` (rows change in between) |
| end of `UpdateDelta` and `UpdateFull`, errors | `Commit`, `Fails` |

`changedAt`, `prompt` and `disturbedAt` are history variables of the properties.
Text columns, which are copied only when `last_check` differs, are left out.

`SyncIsExecuting` is a constant, and on by default (`config.go:122`).  The filter
for `is_executing` begins with a newline (`datastoreset.go:185`), which with the
one before it is a blank line, and that ends a livestatus request: what follows,
`is_executing` and the timestamps of a scan, is not read (`CutShort`).  The window
comes before it and is.  What a site makes of the text after the blank line is
not modelled.  A scan whose filter was cut off counts as done.

### Lifecycle

A call of `mainLoop` is a generation, and names its shutdown channel, wait
groups and `Nodes` object; a `Peer` object is an instance.

| code | model |
|---|---|
| `mainLoop`, `initializeListeners`, `initializePeers` | `MainLoad` .. `MainReady`, in the order of the calls |
| `PeerMapLock` | `Writing`, `Reading`: held by whoever is at a place where the code holds it |
| `Peer.Start`, `Peer.Stop` | `Start`, `Stopped` (the channel has no buffer: sender and loop meet) |
| `updateLoop` | `LoopTick`, `LoopWait`, `LoopShutdown`, `LoopEnd` |
| `periodicUpdateLMD`, `periodicUpdateMultiBackends` | `FetchSites`, `LockMap`, `AddSub`, `RemoveSub`, `SubStopped`, `UnlockMap` |
| `mainSignalHandler` | `SIGHUP`, `SIGTERM`, `SIGINT`, `WaitListener`, `WaitPeers`, `WaitTimeout` |
| `redistribute`, `updateBackends` | `Redistribute`, `NodesStop`, `NodesStopped`, `NodesStart`, `NodesWait`, `NodesEnd` |

Abstractions.  Settings of a connection are a number; some numbers stand for
several sites.  The content of an update is left out.  A channel that a reload
replaces is never closed, so it needs no state.

### ClientConnection and OrderedReplies

The stream of a client is a sequence of messages, and a message is its place in
it; what a message contains is its kind (query, command, with keepalive or not,
blank line, bad request).  `OrderedReplies` has only the script, the replies and
what each backend has received.  It says: replies come in the order of the
requests and at most one for each; no query is passed over; a reply 200 to a
query is given only when every earlier command has reached all backends or an
error (or 202) was reported since; backends get commands once and, within one
call, in order.  The mapping is the identity on these variables:
`Ordered == INSTANCE OrderedReplies WITH script <- script, ...` and
`ImplementsOrderedReplies == Ordered!Spec`.

### Filters, Stats, Query

Names are numbers with a lower case form, a row is a record of five columns that
stand for their kinds (name, second name, number, list, contacts).  `Filters`
translates the parser's stack of filters, `MatchFilter`, the rewriting of
case-insensitive matches, `optimizeStatsGroups` and the index.  `Query` has the
goroutine of the client (`pc`), one goroutine for each peer (`worker`), and the
rows and accumulators they share; headers that only set a field are fields of
`request`.  The reference definition (`Meant`, `CountedRows`, `Value`) evaluates
the headers as operations on sets of rows of all peers together, and knows
neither trees nor index, limits for each peer, or partial sums.

### ClusterQuery

A row is the number in the first of the columns asked for, and has one other
column to sort by (`Other`); a backend has rows.  A node is its id, so a node
that restarts is another one.  `has` is what every node answers for, `routes` is
`nodeBackends` of this node, a map whose keys change.

| code | model |
|---|---|
| the capacity of the channels (`request.go:432`) | `Distribute` (`keys`) |
| the loop over the live map | `StartLoop`, `LoopMap`, `VisitSkip`, `VisitMe`, `VisitRemote`, `LoopOver`; a node entered meanwhile (`added`) may be met or not; after `redistribute` the loop goes on over the old map (`old`) |
| `SendQuery` | the loop stands still (`InSendQuery`) until `Answer`, `AnswerBad` or `SendFails`; the last one also stands for the 30 seconds of the http client |
| the callback of an answer | `Callback`, in a goroutine of its own |
| a push to a channel | `Collect` needs room; without it the callback waits and the loop is left (`Blocks`) |
| `waitTimeout`, the number of datasets, the merge | `Timeout`, `WrongNumber`, `Merge`; all after the last `SendQuery` has returned |
| `sendPing`, `redistribute` | `LearnRoute`, `Restarted`, `redistribute`; `Reassign` is what other nodes do |
| panics, `log.Fatalf`, the check of the runtime for maps | `VisitPanics`, `MergePanics`, `MapWriteSeen` |

The request is not the same at the other node.  `Found` has the `~~` filter that
`Filter.String` turns into a case-sensitive one, `PartLimit` the limit without
offset.  `parseRequestDataToRequest` calls neither `SetRequestColumns` nor
`SetSortColumns`: rows of other nodes have no columns (`Bare`), and a node that
has to sort two rows panics, which its http server turns into an ended
connection (`SortPanics`).  The merge compares the first column (`MergedRows`),
fails on a row without columns and on the group of a row from another node
(`Unmergeable`).  Sorting puts every row at its `Place`; `Accumulated` is the loop
that applies values to an accumulator, over the rows of a backend and again over
the accumulators that nodes have sent.

Left out: tables that are passed through or virtual; the default order of hosts
and services, in which a limit is applied before rows are compared; a first
column that is a list, which is not compared; negated groups of filters, which
`Filter.String` writes without their negation; `AuthUser` and the wait headers,
which are not sent to other nodes; the time before the first `redistribute`, when
`nodeBackends` is empty and a query is answered with nothing and no error; nodes
of another version and late answers to pings, which `Nodes` has.

## 3. Runs

| run | bounds | shows |
|---|---|---|
| `peer_updates` | 1 source, a site without objects at first and a restart that adds some, all kinds of answers | type, `OfflineHasNoData`, `RestartCheckArmed` with loop, spin-up and clients |
| `peer_commands` | 2 sources, a command with retries, fair | `CommandAtMostOnce`, `CommandAnswered`, `Recovers`, `RestartNoticed` |
| `peer_hidden_restart` | small | disagreement, section 5 |
| `comments_single` | one updater, 4 comments, 2 failures, fair | type, `OneRowPerID`, `RowsConverge` |
| `comments_two` | two updaters, 3 comments, reload | `IndexSound` (`IndexInData` and `IndexByID`), `ListsFollow` |
| `nodes_cluster` | 2 nodes, 3 backends, 2 versions, 3 processes started, 1 delay, fair | type, `EveryBackendOnce`, `OwnersConverge`, `RoutesConverge` |
| `wait_ends` | interval 2, timeout 2, fair | type, `MetWasSeen`, `WaitEnds`, `WorkerEnds` |
| `delta_sync` | without `SyncIsExecuting`, 2 rows, 2 changes, 2 failures or other updates, offset, interval and duration 1, scan interval 2 | type, `WindowsFollow`, `ScanFollows` |
| `lifecycle` | both modes, 3 calls of `mainLoop` (2 in cluster mode), 4 peer objects, 3 configurations, 1 redistribution, fair | type (a wait group never negative), `ConfiguredPeersRun`, `GracefulExit`, `StopReturns`, `ShutdownEnds` |
| `client` | all streams of up to 3 requests of 6 kinds, 2 backends, fair | type, refinement of `OrderedReplies`, `CommandsInOrder`, `ReadCommandsAreSent`, `QueriesAnswered` |
| `queries` | 3 peers, 5 tables, all sequences of up to 3 filter headers, pages, stats groups; 1 change of a peer | `RowsAreTheSlice`, `TotalBeforeLimit`, `StatsOverAllRows` |
| `cluster_queries` | 3 nodes of which any are online, 2 backends in any division, 9 queries, 1 change of the cluster, fair | type, `FailuresReported`, `AnswerOrError` (`RowsOrError` and `StatOrError`), `ClusterQueryEnds` |

Bounds.  Intervals and timeouts are 0 or 1: the code compares an age
with its bound and does nothing else with it, so what matters is the order in
which timeouts strike, and saturated ages give every order.  Two incarnations
are needed for a restart, three for a restart during the handling of one.  Two
sources are the least with a failover and a wrap-around.  `MaxFaults` bounds how
often the environment changes; two changes allow a failure in the middle of an
update and a repair.  Three comments are the least where one is removed, one
added and one stays.

Three backends on two nodes are the least with shares of different size; three
processes give a restart next to a partner, two versions a node that is
deactivated.  The clock of a wait runs until every timer has fired.

In `delta_sync` rows change and updates fail in the first three seconds only;
they begin in a settled state, and the rest of the time is for the cache to
follow.  That is enough for a scan in the middle of them, for a window that is
lost and for rows that a slower goroutine puts back.  `WindowTime` is the least
for which the property holds with these constants; both bounds were also tried
with offset, interval and duration 2, and with updates of 4 seconds.  The last
duration of `ScanTime` is needed when an update may take longer than offset and
interval together: a scan under way counts as done when its rows are inserted,
and only then does the interval to the next one begin.  The run is without
`SyncIsExecuting`, because `ScanFollows` fails with it; `TypeOK` and `WindowsFollow`
were checked with it too (`SyncIsExecuting = TRUE` and without `ScanFollows`), and
are proved for both.

Two calls of `mainLoop` are a start and a reload; the third one is needed for a
listener that ends after its address was opened again, the case that
`ShutdownEnds`, which is about single mode, excludes (`LostListener`); of three peer objects one may
be kept, one replaced and one be a sub peer.  Three requests are the least in
which two commands precede a query, or commands of two batches meet.  A query
has at most three filter headers: two filters and what combines or negates them,
each on a different kind of column; three stats groups are the least where two
may be nested and a third begins another group.  Host names of the two peers
differ in case and overlap, so that index and lower case columns matter.

One change of the cluster is enough for each way in which `nodeBackends`,
`has` and the answers may disagree, and for a node that is entered after the
channels were made.  That more changes add nothing for the safety properties is
what the proofs show, which have no bound.  Three nodes are the least with two
others of which one answers and one does not.

The inputs of `queries` leave out requests that the code answers wrongly for
reasons listed in section 5, each named by a predicate or a comment in `MCQuery`
or here: negated groups and double negations, case-insensitive host names on
services, `StatsOr` groups with a common first filter, waits on several peers,
an indexable filter with a limit on services, and queries of the log with an
offset or a sort.  `TotalBeforeLimit` is not about passed through tables, for
which it fails (`TotalOfEveryTable`).  `cluster_queries` asks with an
offset, with `~~`, with grouped stats and without columns as well; `Mergeable`
states which of these `AnswerOrError` is about, and no query asks for a minimum.
Exclusions that belong to a property are part of its definition: `Mergeable`,
`Countable` and backends that moved in `ClusterQuery`, `LostListener` and backends
of several sites in `Lifecycle`, late answers in `Nodes`.

Fairness.  The loop, the spin-up goroutine and the command goroutine are
goroutines with timers, and every query of theirs has a timeout, so each of
their steps eventually happens (weak fairness of `LoopStep`, `ResumeStep`,
`CommandStep`); time passes (`Clock`).  Nothing is assumed of clients or of the
site; the liveness properties are stated for a site that is healthy from some
time on.  In `Comments` the loop starts an update again and again (`QueryStats`)
and an update goes on (`UpdateStep`); no success of a query is assumed, because
the number of failures is bounded and the property is about what follows them.
In `Nodes` the ticker of a running process ticks, a request to a running process
is answered, callbacks run and rounds end (the heartbeat timeout sees to it);
starts and crashes are not fair, and their number and that of delays is bounded,
so the properties say what holds once the cluster is left alone.  In
`WaitCondition` the two goroutines run and time passes; nothing is assumed of
the peer.  Both goroutines loop with a sleep, so weak fairness is what the
scheduler gives.  In `Lifecycle` the goroutines run and updates end because every
connection has a timeout; a `select` of Go takes each of the channels that are
ready with the same probability, and so does the meeting of `Stop` with a loop
that comes back to its `select` again and again: strong fairness of
`LoopShutdown` and `MainStopped`.  Signals and redistributions are not fair.  In
`ClientConnection` only the goroutine of the connection is fair: the client may
stop, and senders may never end, because `SendCommands` has its own timeout.  In
`ClusterQuery` the goroutines of the client and of callbacks are fair, as are the
timeout of the http client (`SendFails`) and that of `waitTimeout`; the other
nodes and the changes of the cluster are not.  `DeltaSync` needs no fairness: its properties are bounds on time,
and `Clock` does not pass over an overdue loop or an update's timeout.

## 4. Proofs

`PeerProofs` proves `Spec => []TypeOK`, `[]OfflineHasNoData`,
`[]RestartCheckArmed` and `[]CommandAtMostOnce` from the named assumptions of
`Peer`: any number of sources, incarnations, environment changes, any
intervals, any object counts.  The inductive invariant `IInv` is a conjunction of
`CoreInv` (types of state and data, and `OfflineHasNoData`), `StartInv` (the start
time is known when tables exist, and in each routine that holds or creates
tables; `RestartCheckArmed` alone is not inductive, because a routine keeps its
tables when the peer's are cleared), `AgesInv`, `FlagsInv`, `ThreadInv` (a
routine past its first query of an initialisation has a start time, a routine
in an update has tables), `CommandInv` (the command is still unsent wherever
it may be sent) and `EnvInv`.  One lemma for each action shows that it is kept;
`setNextAddrFromErr` has a lemma of its own, used by every query.

`CommentsProofs` proves `IndexSound` for any set of updaters:
`StoreInv` adds that the rows' batches do not exceed the last batch, so that a
new row is never one that is there.  With the loop as the only updater,
`SingleInv` adds that index and data agree and that the ids in hand between
`Merge` and `AppendData` are not in the table, from which `OneRowPerID` follows.
`ListsInv` proves `ListsFollow`: whenever the lists differ from the table, a query
has failed or some updater still has its rebuild before it.  `NoRowLost` is about
steps: with the loop alone no comment that the site still has is removed
(`ExistingRowsStay`).  `KnownInv` says why an old list of ids does no harm: ids are
not given twice, so a row whose id is not in the list is of a comment that the
site has removed.  With a second updater the property fails, a slower one removes
what the other has added; the next update adds it again.

`NodesProofs` proves first that the arithmetic of `redistribute` is a partition
(`DivisionIsPartition`): the shares times the online nodes are at least the
backends (`SharesSuffice`); the number of online nodes before a node is an
injection of n nodes into 0 .. n - 1, and therefore onto it (`BeforeOnto`); so
the quotient of a backend's place by the share is the place of the one node
that has it.  The inductive invariant `ViewInv` says that a process with a view
runs the share which that view gives it; `ViewsDivide` (`EveryBackendOnce`)
follows, for every number of nodes, backends, processes and delays.

`WaitConditionProofs` proves `TypeOK` and `MetWasSeen`.  `MetWasSeen` speaks of
the waiter only; `SeenInv` adds what is known on the way there: the goroutine
has its verdict when it is about to close the channel, it waits for a final
update only with the condition met, and a waiter that did not time out has found
the channel closed.

`Comments` and `Nodes` have their types proved as well (`TypeCorrect` in each).

`ClientConnectionProofs` proves that a connection implements `OrderedReplies`
(`Refinement`), `TypeOK` and `CommandsInOrder`, for any set of backends and any
set of finite streams in which nothing follows a blank line
(`BlankAssumption`; what is read behind one may be thrown away).  The refinement
needs to know where in the stream each part of the code is.  In `IInv`,
`ParseInv` and `ProcessInv` say that buffer, batch and queue are consecutive runs
of places, so that `Base`, the place up to which everything is settled, is
defined; `UsedInv` that a command is in the hands of one goroutine for a backend
and not applied while it is being sent; `KnownInv` that no query up to `Base` is
unanswered and every command up to it is applied or reported; `OrderInv` that,
unless a 202 was sent, at most one goroutine for a backend is still sending, and
only commands later than all that were applied.  Each action has a lemma that
gives both the invariant and the abstract step, which is a stutter for all but
replies and deliveries.

`LifecycleProofs` proves `TypeOK`, `GracefulExit` and `ConfiguredPeersRun` for
any number of reloads, peer objects, redistributions and configurations.
`GracefulExit` speaks of loops, the code waits for a counter: `CountInv` says
that the counter of a generation is the number of loops started with it
(`waitGroupPeers[g] = Cardinality(Loops(g))`), which also keeps it from becoming
negative.  `GenInv` gives the generations of peers and loops, `NameInv` that a
peer is in the map under its own id and that a loop removes only sub peers,
`SingleInv` what a reload in single mode has done at each of its steps.  Assumed
is that there is a connection to configure, that ids of connections and of sub
peers differ and that the settings `Absent` do not stand for several sites
(`IdsAssumption`).  The ids of sub peers come from the remote site (`peer.go:539`,
`peer.go:648`), so that they differ from those of connections is an assumption
about the remote, and about the configuration, which the code does not check.

`DeltaSyncProofs` proves `WindowsFollow` for every set of rows, offset, interval,
duration of an update, lateness and number of changes and failures, and
`ScanFollows` for all of these too, without `SyncIsExecuting`, as long as the
filter of every scan can be sent (`FiltersFit`, in the theorem `Scans`); with the
option it is not true (section 5).  `FewRows` shows that this is no
condition for tables with at most `MaxFilter - 3` rows; beyond that it is the
limit of `datastoreset.go:441`, and section 5 says what happens without it.  A
bound on time is not inductive: the invariant follows one row.  `WindowInv(r)`
says that the row is right, or waits for an update that must begin before a
deadline, or is in the window of the update under way; `ScanInv(r)` the same with
the scan.  The deadlines are those of `TimeInv`: `Clock` does not pass over an
overdue loop or an update's timeout.  That every missing second is in a block of
the filter (`Covered`) needs the least second of a run, from the well-foundedness
of the natural numbers.  The proof has corrected the model: with the bound
stated first, `ScanTime` without the last duration, one case could not be closed,
and TLC then found the behaviour with updates of 4 seconds.

`NoRowGoesBack` is about steps as well: no row gets an earlier check than it has
while the loop alone updates (`ChecksGoForward`).  `OrderInv` says that neither the
cache nor an update under way knows a later check than the site, and that what
the loop is about to insert is no older than what is there, unless something was
disturbed since its update began.  The condition is needed: an update that
`ResumeFromIdle` has begun before inserts older rows, which `ScanFollows` and the
next check put right.  TLC agrees with both step properties and with the failures
of what is more general; they are not in the configurations of the runs, where
`PROPERTIES ExistingRowsStay` in `comments_single.cfg` and `PROPERTIES
ChecksGoForward` in `delta_sync.cfg` add them.

`ClusterQueryProofs` proves `TypeOK`, `FailuresReported`, `AnswerOrError` and
`RoomForParts` for any finite set of nodes, any backends with rows of their own,
any limit, any requests for known backends (`RowsAssumption`,
`QueriesAssumption`) and any number of changes of the cluster.  The merge sees
only a number of parts.  `PartInv` says that there is a one-to-one correspondence
between the parts and the nodes that have added one, and that each part reports
the failures of its node and holds what the node makes of its backends that are
up, and maybe of some that have moved.  When there are as many parts as nodes in
`nodeBackends`, `Countable` gives that no node with a requested backend that
stayed is missing among them.  `RouteInv` says that the map the loop goes through
and `has` agree on backends that did not move, `AskInv` that a node was asked for
all requested backends it has; both are kept by every change of the map.
`LoopInv` says where the loop may be left.  `Room` follows from the same
correspondence: parts come from nodes the loop has met, so as long as these are
among `keys` there is a place for each.  `AnswerOrError` is about which rows an
answer has, not about their columns, nor about an order other than that of the
first column: the code keeps neither (`ColumnsKept`, `OrderAskedFor`, section 5).

What the parts are together is said by lemmas about the operators of the model:
`FlattenSeq` has the rows of all parts and none twice that they have once
(`Flattened`), `Sorted` gives a permutation in order (`SortedFacts`), a sorted
part that was cut at the limit still has all rows that the merged answer needs
(`SamePrefix`, `SameCut`), and counters, sums, averages and maxima of disjoint
groups of rows are merged into those over all of them (`StatsMerged`).  Their
inductions are over sets of numbers (`AllNumbers`, from the well-foundedness of
the natural numbers), and that the recursive functions in `FlattenSeq` and
`Accumulated` exist is proved first (`FlatsExist`, `StepsExist`).

Left to TLC, and why.  The liveness properties: fairness and `ENABLED` are out of
the prover's reach.  The failures of section 5, which are single behaviours.
`Query`, because the trees of filters in `Filters` are defined by recursive
operators, and the prover has no backend for a module that has them.

## 5. Disagreements between code and comments

`peer_hidden_restart` shows one: `updateInitialStatus` stores the new start time
before the other tables are fetched.  If one of those queries fails, the restart
counts as handled and the old tables stay.

Others are stated in the modules as properties that do not hold.  Adding the
definition in parentheses to a configuration of the module gives the behaviour.

* Comments: loop and spin-up update may add the same comment twice; one row is
  never removed (`OneRowPerID` with two updaters), and the slower one may remove a
  comment that the site has (`ExistingRowsStay` with two updaters).  A comment on a host that is
  not cached ends the process (`NeverCrashes` with `MayReload`).
* Nodes: an answer that comes after the heartbeat timeout makes a route to a
  node that is not online; when that node ends the route stays (`RoutesRecover`).
* WaitCondition: the channel of a wait may be closed twice (`ClosedOnce`).
* Query: `optimizeStatsGroups` ("combines similar StatsAnd: to nested stats",
  `request.go:1035`) does not look at the operator of a group, and nests
  `StatsOr` groups as well, which then count too few rows (`StatsOverAllRows`
  with `Requests <- OrRequests`).
* Query: the log is cut at `Limit` by each site (`response.go:692`) and counted
  afterwards (`response.go:234`), so `total_count` is not "the number of matches in
  the result set _before_ the limit and offset applied" (`README.md:141` of the
  repository; `TotalOfEveryTable` in `queries.cfg`).
* ClusterQuery: requests that come from other nodes over http never get
  `SetRequestColumns` (`http.go:154`; only `NewRequest` and the exporter call it), so
  their rows are written without columns, and the client gets empty rows for the
  backends of other nodes, where "incoming requests will be forwared and merged"
  (`README.md:116` of the repository; `ColumnsKept` in `cluster_queries.cfg`).
* ClusterQuery: `Response.Less` (`response.go:133`) compares the column at
  `SortField.Index`, which is set for passed through queries only: the merged rows
  of several nodes are ordered, and cut, by the first requested column and not by
  the one in `Sort`, although "this also applies sort/offset/limit settings"
  (`request.go:525`; `OrderAskedFor` in `cluster_queries.cfg`).
* DeltaSync: with `SyncIsExecuting`, the default, the filter of a delta update has a
  blank line before `is_executing` (`datastoreset.go:185`), which ends the request.
  The timestamps that a full scan appends are behind it and do not apply: rows
  that change without a new check, or whose check no window had, stay as they
  are, although "the last_check timestamp is used as filter for a delta update"
  (`datastoreset.go:374`; `ScanFollows` with `SyncIsExecuting = TRUE`).  Nor are rows
  fetched because they are being executed.
* DeltaSync: a scan that needs more than 100 filters (`datastoreset.go:441`) is
  not carried out and counts as done; rows that differ at many separate seconds
  stay as they are (`ScanFollows` with `MaxFilter = 4`).
* Lifecycle: a reload never stops the loop of a peer whose settings have changed
  (`OneLoopPerBackend`; `Changes:207` "only replaces changed peers now").  In
  cluster mode a `SIGHUP` starts kept peers that run, and `Start` panics
  (`NeverStartedTwice`, `peer.go:297`).  A reload that stops a backend which
  stands for several sites may wait for ever: `Stop` is called with `PeerMapLock`
  held and the loop waits for that lock (`ReloadEnds`, `main.go:413`,
  `peer.go:639`).  For the same reason `SIGTERM` may not end the process
  (`QuitsGracefully`, `main.go:677`).
* ClientConnection: `keepAlive` keeps its value after a query without
  keepalive, so a connection that was kept once stays open (`ClosedUnlessKept`,
  `client_con.go:176`).

Seen while modelling, without a definition of their own:

* Updates.  `prepareDataUpdateSet` decides under one lock whether a row's texts
  are copied, and `insertDeltaDataResult` copies under another: a goroutine with
  older rows in between leaves new numbers with old texts.  A forced update
  that coincides with a scan fetches only what the scan has found
  (`datastoreset.go:434`).  Every ping of a node that is down leaves a goroutine
  behind (`nodes.go:585`).
* Queries.  `Negate:` on a group has no effect and a second `Negate:` does not
  undo the first (`filter.go:591`).  A case-insensitive `host_name` on services
  loses hosts with upper case letters, because the index has names as they are
  (`datastore.go:369`).  Services that are found by the index come in the order
  of a map, so a limit without a sort keeps arbitrary ones (`datastore.go:277`).
  A peer that goes down during a wait ends the loop over all peers
  (`response.go:606`).  A stats group whose first filter is itself a group loses
  the filters in it when it is nested.  The optimisation changes the request
  itself, so nested stats of passed through or distributed queries lack their
  first filter.  Passed through queries are sent to
  the sites with the limit but neither offset nor sort, so that an offset or a sort
  is applied to what each site has cut already; their averages and minima are merged as if they were counters
  (`peer.go:2062`).  -1 stands for "no minimum yet" (`peer.go:2125`).
* Distributed queries.  An offset is applied by this node to its own part and
  again to the merged rows (`README.md:159` of the repository describes a subset
  of the complete result).  A node without rows contributes the minimum -1 or 0.
  `total_count` is that of the parts after their limit.  Stats have no failed
  backends.  Rows of a backend that moves during the query may be missing or
  doubled.
* Requests as other nodes get them.  `Filter.String` writes a `~~` filter with `~`
  and its text in lower case (`filter.go:170`), so other nodes find only names that
  have it in lower case; it writes negated groups without their negation
  (`filter.go:155`).  `AuthUser` and the wait headers are not sent.  A query without
  `Columns` panics (`request.go:575`).  With `Sort`, a node that has two rows to
  compare panics (`rawresultset.go:63`, no column is set): its http server ends the
  connection and the query fails; and when the rows of all nodes are sorted, one
  without columns ends the process (`response.go:144`).  Stats with `Columns`: the
  merge takes the group of a row for a `*string`, which it is not in a row from
  another node, and ends the process (`request.go:654`).
* The map of nodes.  A node that is entered after the channels were made
  (`request.go:432`, `nodes.go:577`) may leave the loop of a query in a push for ever.  A
  ping that writes to the map while the loop steps on ends the process (the check
  of the Go runtime for concurrent map iteration and write).  When a node leaves
  the map and another one has answered badly, the number of parts is right again
  (`request.go:517`) and the rows of the second one are missing without an error.
  A node that has restarted is asked under its old id, which has no address:
  `log.Fatalf` (`nodes.go:460`).  Before the first `redistribute` the map is empty and a
  query is answered with nothing and no error.
* Client connections.  Requests behind a query in the same packet are lost with
  the `bufio.Reader` of that batch (`request.go:177`).  Commands that were read are
  given up when a bad request or a read timeout follows.  A backend that a
  reload has removed is a nil pointer in `SendCommands` (`client_con.go:222`).
* Shutdown.  Listeners and peers that a reload has kept are in the wait groups
  of an earlier `mainLoop`, which nobody waits for (`main.go:430`).  A listener
  that ends late deletes the entry of one opened again on its address
  (`listener.go:66`); a `SIGTERM` then does not close that one and main waits for it
  for ever (`main.go:688`).  This takes two reloads, and is what `ShutdownEnds`
  excludes with `LostListener`: without that conjunct the run `lifecycle` finds the
  violation.  The loop of `Nodes` of an earlier configuration goes on
  (`nodes.go:204`).
* A command for a broken peer panics; the stale timeout does not apply to a new
  peer; the final update of a wait may still be running when the wait ends.

## 6. Not modelled, and the plan

1. In `DeltaSync`: sites with `last_update` columns, time periods.
2. `Connections`: the pool, its limit, HTTP retries.
3. More theorems like `NoRowLost` and `NoRowGoesBack`, which relate a state to a
   later one, for `Peer` and `Lifecycle`.

Not planned: declarations of tables and columns, configuration, logging,
metrics, import and export, which have no state that other parts depend on;
output formats and the text of the livestatus protocol.  That Go may end the
process when `nodeBackends` is written and read at once is a step of
`ClusterQuery` (`MapWriteSeen`); `Nodes` has the end of a process at any time.
