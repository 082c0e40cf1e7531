------------------------------- MODULE Query -------------------------------
(***************************************************************************)
(* One query on one node: its headers are parsed (request.go), the peers   *)
(* are chosen (NewResponse), a goroutine for every peer gathers rows or    *)
(* counts stats, or passes the query on to the site when the table is not  *)
(* cached, and the parts are merged, sorted and cut (response.go,          *)
(* rawresultset.go).  Peers go down and come back meanwhile.               *)
(*                                                                         *)
(* The rows of a peer do not change during the query: a goroutine holds the *)
(* lock of the data set, and a peer that goes down replaces the data set   *)
(* and leaves the old one to whoever has it.                               *)
(***************************************************************************)
EXTENDS Filters

CONSTANTS
  PeerMapOrder,          \* the ids of all peers, in order
  MultiPeers,            \* the parents of multi-site peers, which have no data
  Data,                  \* the data set of every peer
  Requests,              \* the requests a client may send
  ServiceAuthorization,  \* "strict" or "loose"
  GroupAuthorization,
  MaxFlaps               \* bound: how often peers go down or come back

Peers == ToSet(PeerMapOrder)

Authorizations == {"strict", "loose"}

ASSUME AuthAssumption == {ServiceAuthorization, GroupAuthorization} \subseteq Authorizations
ASSUME FlapsAssumption == MaxFlaps \in Nat

VARIABLES
  request,   \* what the client sent
  req,       \* the Request object: its filters and stats
  pc,        \* where the goroutine of the client is
  line,      \* how many headers have been read
  todo,      \* the peers BuildLocalResponse has still to visit
  selected,  \* res.SelectedPeers
  up,        \* whether a peer has a data set
  worker,    \* the goroutine of every peer
  raw,       \* res.RawResults: rows and their total number
  sums,      \* req.StatsResult: accumulators by stats key
  failed,    \* res.Failed
  answer,    \* what the client gets
  flaps

vars == <<request, req, pc, line, todo, selected, up, worker, raw, sums, failed, answer, flaps>>

NoAnswer == [code |-> 0, rows |-> << >>, total |-> 0, stats |-> << >>]

Init ==
  /\ request \in Requests
  /\ req = [filter |-> << >>, stats |-> << >>, grouped |-> << >>]
  /\ pc = "parse"
  /\ line = 0
  /\ todo = << >>
  /\ selected = << >>
  /\ up \in {u \in [Peers -> BOOLEAN] : \A p \in MultiPeers : ~ u[p]}
  /\ worker = [p \in Peers |-> "none"]
  /\ raw = [rows |-> << >>, total |-> 0]
  /\ sums = << >>
  /\ failed = {}
  /\ answer = NoAnswer
  /\ flaps = 0

-----------------------------------------------------------------------------
(* Parsing.  A header is a record [h, col, op, val]; the number of And, Or,  *)
(* StatsAnd and StatsOr is in val.  The headers that only set one field of   *)
(* the request (Sort, Limit, Offset...) are fields of request.               *)

\* The headers that ParseRequestHeaderLine refuses.
BadHeader(l) ==
  \/ l.h \in {"and", "or"} /\ Len(req.filter) < l.val
  \/ l.h \in {"statsand", "statsor"} /\ Len(req.stats) < l.val
  \/ l.h = "negate" /\ req.filter = << >>

ParsedHeader(l) ==
  CASE l.h = "filter" ->
         [req EXCEPT !.filter = Append(@, ParseFilter(request.table, l.col, l.op, l.val))]
    [] l.h \in {"and", "or"} -> [req EXCEPT !.filter = ParseFilterOp(l.h, l.val, @)]
    [] l.h = "negate"        -> [req EXCEPT !.filter = ParseFilterNegate(@)]
    [] l.h = "statsand"      -> [req EXCEPT !.stats = parseStatsOp(request.table, "and", l.val, @)]
    [] l.h = "statsor"       -> [req EXCEPT !.stats = parseStatsOp(request.table, "or", l.val, @)]
    [] OTHER ->
         [req EXCEPT !.stats = Append(@, ParseStats(request.table, l.h, l.col, l.op, l.val))]

\* ParseRequestHeaderLine
ParseHeader ==
  /\ pc = "parse"
  /\ line < Len(request.lines)
  /\ line' = line + 1
  /\ LET l == request.lines[line + 1]
     IN IF BadHeader(l)
        THEN /\ pc' = "done"
             /\ answer' = [answer EXCEPT !.code = 400]
             /\ UNCHANGED req
        ELSE /\ req' = ParsedHeader(l)
             /\ UNCHANGED <<pc, answer>>
  /\ UNCHANGED <<request, todo, selected, up, worker, raw, sums, failed, flaps>>

\* The end of NewRequest.
Optimize ==
  /\ pc = "parse"
  /\ line = Len(request.lines)
  /\ pc' = "respond"
  /\ LET grouped == optimizeStatsGroups(req.stats)
     IN req' = [filter |-> optimizeFilterIndentation(req.filter),
                stats |-> StatsLeft(req.stats, grouped),
                grouped |-> grouped]
  /\ UNCHANGED <<request, line, todo, selected, up, worker, raw, sums, failed, answer, flaps>>

-----------------------------------------------------------------------------
(* NewResponse.                                                             *)

\* ExpandRequestedBackends
BackendsMap == IF request.backends = {} THEN Peers ELSE request.backends \cap Peers
BackendErrors == request.backends \ Peers

Passthrough == request.table = "log"
Virtual == request.table = "sites"
IsStats == req.stats # << >>

NewResponse ==
  /\ pc = "respond"
  /\ failed' = BackendErrors
  /\ LET chosen == SelectSeq(PeerMapOrder,
                             LAMBDA p : p \in BackendsMap /\ p \notin MultiPeers)
         noBackend == ~ request.wrapped /\ BackendErrors # {} /\ BackendErrors = request.backends
     IN /\ selected' = chosen
        /\ todo' = chosen
        /\ pc' = CASE noBackend \/ chosen = << >> -> "done"
                   [] Passthrough -> "pass"
                   [] OTHER -> "loop"
        /\ answer' = CASE noBackend      -> [answer EXCEPT !.code = 502]
                       [] chosen = << >> -> [answer EXCEPT !.code = 200]
                       [] OTHER          -> answer
  /\ UNCHANGED <<request, req, line, up, worker, raw, sums, flaps>>

-----------------------------------------------------------------------------
(* Authorization of a user for a row (datarow.go).                          *)

HostContacts(ds, h) == UNION {r.contacts : r \in {x \in ToSet(ds.hosts) : x.key = h}}

ServiceContacts(ds, h, s) ==
  UNION {r.contacts : r \in {x \in ToSet(ds.services) : x.key = h /\ x.sub = s}}

\* isAuthorizedFor; s is 0 for a host.
isAuthorizedFor(ds, user, h, s) ==
  \/ /\ s = 0 \/ ServiceAuthorization = "loose"
     /\ user \in HostContacts(ds, h)
  \/ /\ s # 0
     /\ h \in Keys(ds.hosts) \/ ServiceAuthorization = "strict"
     /\ user \in ServiceContacts(ds, h, s)

\* isAuthorizedForHostGroup
isAuthorizedForHostGroup(ds, user, members) ==
  CASE GroupAuthorization = "loose"  -> \E h \in members : isAuthorizedFor(ds, user, h, 0)
    [] GroupAuthorization = "strict" ->
         members # {} /\ \A h \in members : isAuthorizedFor(ds, user, h, 0)

checkAuth(ds, row) ==
  \/ request.auth = 0
  \/ request.table \notin {"hosts", "services", "hostgroups"}
  \/ /\ request.table \in {"hosts", "services"}
     /\ isAuthorizedFor(ds, request.auth, row.key, row.sub)
  \/ /\ request.table = "hostgroups"
     /\ isAuthorizedForHostGroup(ds, request.auth, row.groups)

-----------------------------------------------------------------------------
(* Gathering the rows or the stats of one peer.                             *)

Asc(col) == [col |-> col, asc |-> TRUE]

IsDefaultSortOrder ==
  \/ request.sort = << >>
  \/ request.table = "hosts" /\ request.sort = <<Asc("key")>>
  \/ request.table = "services" /\ request.sort = <<Asc("key"), Asc("sub")>>

\* optimizeResultLimit: how many rows of one peer are enough, -1 when all are needed.
optimizeResultLimit ==
  IF request.limit >= 0 /\ IsDefaultSortOrder THEN request.limit + request.offset ELSE -1

Wanted(ds, row) == MatchAll(row, req.filter) /\ checkAuth(ds, row)

\* mutant: counting stops at the limit for every output format
countsToLimit(ds, scanned) ==
  LET hits == SelectSeq(scanned, LAMBDA r : Wanted(ds, r))
      limit == IF optimizeResultLimit <= 0 THEN Len(ds[request.table]) + 1
               ELSE optimizeResultLimit
  IN [rows |-> SubSeq(hits, 1, Min({limit, Len(hits)})),
      total |-> Min({limit + 1, Len(hits)})]

\* gatherResultRows: without wrapped_json it stops at the first row over the limit.
gatherResultRows(ds, scanned) ==
  LET hits == SelectSeq(scanned, LAMBDA r : Wanted(ds, r))
      limit == IF optimizeResultLimit <= 0 THEN Len(ds[request.table]) + 1
               ELSE optimizeResultLimit
  IN [rows |-> SubSeq(hits, 1, Min({limit, Len(hits)})),
      total |-> IF request.wrapped THEN Len(hits) ELSE Min({limit + 1, Len(hits)})]

\* getStatsKey
StatsKey(row) == IF request.columns THEN row.key ELSE 0

\* gatherStatsResult
gatherStatsResult(ds, scanned) ==
  LET hits == SelectSeq(scanned, LAMBDA r : Wanted(ds, r))
      stats == IF req.grouped = << >> THEN req.stats ELSE req.grouped
      start == [k \in {StatsKey(hits[j]) : j \in DOMAIN hits} |-> createLocalStatsCopy(req.stats)]
      count(acc, r) == [acc EXCEPT ![StatsKey(r)] = CountStats(r, stats, @)]
  IN FoldLeft(count, start, hits)

\* MergeStats
MergeStats(old, new) ==
  [k \in DOMAIN old \cup DOMAIN new |->
     CASE k \notin DOMAIN old -> new[k]
       [] k \notin DOMAIN new -> old[k]
       [] OTHER -> [j \in DOMAIN old[k] |-> ApplyValue(old[k][j], new[k][j].val, new[k][j].cnt)]]

\* BuildLocalResponseData, for a table that is not empty.
BuildLocalResponseData(p) ==
  \E scanned \in GetPreFilteredData(Data[p], request.table, req.filter) :
    IF IsStats
    THEN /\ sums' = MergeStats(sums, gatherStatsResult(Data[p], scanned))
         /\ UNCHANGED raw
    ELSE LET new == gatherResultRows(Data[p], scanned)
         IN /\ raw' = [rows |-> raw.rows \o new.rows, total |-> raw.total + new.total]
            /\ UNCHANGED sums

-----------------------------------------------------------------------------
(* BuildLocalResponse.                                                      *)

InLoop == pc = "loop" /\ todo # << >>

\* The peer has no data: it is reported as failed.
LoopDown ==
  /\ InLoop
  /\ ~ Virtual
  /\ ~ up[Head(todo)]
  /\ failed' = failed \cup {Head(todo)}
  /\ todo' = Tail(todo)
  /\ UNCHANGED <<request, req, pc, line, selected, up, worker, raw, sums, answer, flaps>>

\* A virtual table is read at once, to keep the order of the peers.
LoopVirtual ==
  /\ InLoop
  /\ Virtual
  /\ BuildLocalResponseData(Head(todo))
  /\ todo' = Tail(todo)
  /\ UNCHANGED <<request, req, pc, line, selected, up, worker, failed, answer, flaps>>

LoopStart ==
  /\ InLoop
  /\ ~ Virtual
  /\ up[Head(todo)]
  /\ ~ request.wait
  /\ worker' = [worker EXCEPT ![Head(todo)] = "run"]
  /\ todo' = Tail(todo)
  /\ UNCHANGED <<request, req, pc, line, selected, up, raw, sums, failed, answer, flaps>>

\* The request has a WaitTrigger: WaitCondition runs before the peer is read.
LoopWait ==
  /\ InLoop
  /\ ~ Virtual
  /\ up[Head(todo)]
  /\ request.wait
  /\ pc' = "wait"
  /\ UNCHANGED <<request, req, line, todo, selected, up, worker, raw, sums, failed, answer, flaps>>

\* WaitCondition has ended; when the peer went down meanwhile the whole loop is left.
WaitOver ==
  /\ pc = "wait"
  /\ IF up[Head(todo)]
     THEN /\ worker' = [worker EXCEPT ![Head(todo)] = "run"]
          /\ todo' = Tail(todo)
          /\ pc' = "loop"
          /\ UNCHANGED failed
     ELSE /\ failed' = failed \cup {Head(todo)}
          /\ pc' = "post"
          /\ UNCHANGED <<worker, todo>>
  /\ UNCHANGED <<request, req, line, selected, up, raw, sums, answer, flaps>>

\* The goroutine of one peer.
Gather(p) ==
  /\ worker[p] = "run"
  /\ ~ Passthrough
  /\ worker' = [worker EXCEPT ![p] = "done"]
  /\ IF Data[p][request.table] = << >> THEN UNCHANGED <<raw, sums>>
     ELSE BuildLocalResponseData(p)
  /\ UNCHANGED <<request, req, pc, line, todo, selected, up, failed, answer, flaps>>

\* waitgroup.Wait
Join ==
  /\ pc \in {"loop", "pass"}
  /\ todo = << >>
  /\ \A p \in Peers : worker[p] # "run"
  /\ pc' = "post"
  /\ UNCHANGED <<request, req, line, todo, selected, up, worker, raw, sums, failed, answer, flaps>>

-----------------------------------------------------------------------------
(* BuildPassThroughResult: the query goes to the sites with the filter, the  *)
(* stats as the optimizer has left them and the limit, without offset and    *)
(* sort.                                                                    *)

PassStart ==
  /\ pc = "pass"
  /\ todo # << >>
  /\ todo' = Tail(todo)
  /\ IF up[Head(todo)]
     THEN worker' = [worker EXCEPT ![Head(todo)] = "run"] /\ UNCHANGED failed
     ELSE failed' = failed \cup {Head(todo)} /\ UNCHANGED worker
  /\ UNCHANGED <<request, req, pc, line, selected, up, raw, sums, answer, flaps>>

\* External: what a site answers, its rows in the order it has them.
SiteRows(p) ==
  LET hits == SelectSeq(Data[p][request.table], LAMBDA r : Wanted(Data[p], r))
  IN IF request.limit < 0 THEN hits ELSE SubSeq(hits, 1, Min({request.limit, Len(hits)}))

\* External: the counters a site answers.
SiteStats(p) ==
  LET hits == SelectSeq(Data[p][request.table], LAMBDA r : Wanted(Data[p], r))
  IN [j \in DOMAIN req.stats |->
        Cardinality({i \in DOMAIN hits : MatchFilter(hits[i], req.stats[j])})]

\* PassThroughQuery, with an answer
PassAnswer(p) ==
  /\ worker[p] = "run"
  /\ Passthrough
  /\ worker' = [worker EXCEPT ![p] = "done"]
  /\ IF IsStats
     THEN LET start == IF sums = << >> THEN createLocalStatsCopy(req.stats) ELSE sums[0]
              val == SiteStats(p)
          IN sums' = [k \in {0} |-> [j \in DOMAIN start |-> ApplyValue(start[j], val[j], val[j])]]
             /\ UNCHANGED raw
     ELSE raw' = [raw EXCEPT !.rows = @ \o SiteRows(p)] /\ UNCHANGED sums
  /\ UNCHANGED <<request, req, pc, line, todo, selected, up, failed, answer, flaps>>

\* PassThroughQuery, with an error
PassFails(p) ==
  /\ worker[p] = "run"
  /\ Passthrough
  /\ worker' = [worker EXCEPT ![p] = "done"]
  /\ failed' = failed \cup {p}
  /\ UNCHANGED <<request, req, pc, line, todo, selected, up, raw, sums, answer, flaps>>

-----------------------------------------------------------------------------
(* The result.                                                              *)

\* Less: the first sort field in which the rows differ decides.
Less(r, q) ==
  \E j \in DOMAIN request.sort :
    LET f == request.sort[j]
    IN /\ \A i \in 1 .. j - 1 : r[request.sort[i].col] = q[request.sort[i].col]
       /\ IF f.asc THEN r[f.col] < q[f.col] ELSE r[f.col] > q[f.col]

\* The sorting of PostProcessing; which of two equal rows is first is left open by sort.Sort,
\* and does not matter here.
Sorted(rows) == SortSeq(rows, Less)

\* PostProcessing of RawResultSet and of Response
Cut(rows, total) ==
  IF request.offset > total THEN << >>
  ELSE LET rest == SubSeq(rows, request.offset + 1, Len(rows))
       IN IF request.limit < 0 THEN rest ELSE SubSeq(rest, 1, Min({request.limit, Len(rest)}))

\* CalculateFinalStats
CalculateFinalStats ==
  LET all == IF sums = << >> /\ ~ request.columns
             THEN [k \in {0} |-> createLocalStatsCopy(req.stats)] ELSE sums
  IN [k \in DOMAIN all |-> [j \in DOMAIN all[k] |-> finalStatsApply(all[k][j])]]

PostProcessing ==
  /\ pc = "post"
  /\ pc' = "done"
  /\ LET total == IF Passthrough THEN Len(raw.rows) ELSE raw.total
     IN answer' = IF IsStats
                  THEN [answer EXCEPT !.code = 200, !.stats = CalculateFinalStats]
                  ELSE [answer EXCEPT !.code = 200, !.rows = Cut(Sorted(raw.rows), total),
                                      !.total = total]
  /\ UNCHANGED <<request, req, line, todo, selected, up, worker, raw, sums, failed, flaps>>

\* A peer loses its data set, or gets a new one.
Flap(p) ==
  /\ flaps < MaxFlaps
  /\ pc # "done"
  /\ p \notin MultiPeers
  /\ flaps' = flaps + 1
  /\ up' = [up EXCEPT ![p] = ~ @]
  /\ UNCHANGED <<request, req, pc, line, todo, selected, worker, raw, sums, failed, answer>>

Respond ==
  \/ ParseHeader \/ Optimize \/ NewResponse
  \/ LoopDown \/ LoopVirtual \/ LoopStart \/ LoopWait \/ WaitOver
  \/ PassStart \/ Join \/ PostProcessing

Work(p) == Gather(p) \/ PassAnswer(p) \/ PassFails(p)

\* The client has its answer; the process goes on.
Finished == pc = "done" /\ UNCHANGED vars

Next == Respond \/ (\E p \in Peers : Work(p) \/ Flap(p)) \/ Finished

Spec == Init /\ [][Next]_vars

-----------------------------------------------------------------------------
(* Properties.                                                              *)

(* What a query means, without parse trees, index, groups and limits: every  *)
(* header works on a stack of sets of rows.                                  *)

Combine(stack, num, op(_)) ==
  LET rest == Len(stack) - num
  IN IF num = 0 THEN stack
     ELSE Append(SubSeq(stack, 1, rest), op({stack[j] : j \in rest + 1 .. Len(stack)}))

Intersection(S) == {x \in UNION S : \A T \in S : x \in T}

Matching(rows, l) == {r \in rows : Match(Leaf(l.col, l.op, l.val), r)}

\* The rows that the peers which have not failed have, in the order of the peers.
Available ==
  FlattenSeq([j \in DOMAIN selected |->
    IF selected[j] \in failed THEN << >>
    ELSE SelectSeq(Data[selected[j]][request.table], LAMBDA r : checkAuth(Data[selected[j]], r))])

\* The rows that all filters of the request are about.
Meant ==
  LET rows == ToSet(Available)
      step(stack, l) ==
        CASE l.h = "filter" -> Append(stack, Matching(rows, l))
          [] l.h = "and"    -> Combine(stack, l.val, Intersection)
          [] l.h = "or"     -> Combine(stack, l.val, LAMBDA S : UNION S)
          [] l.h = "negate" -> [stack EXCEPT ![Len(stack)] = rows \ @]
          [] OTHER          -> stack
  IN Intersection({rows} \cup ToSet(FoldLeft(step, << >>, request.lines)))

\* The counters of the request as sets of rows; another stat is on all rows.
CountedRows(rows) ==
  LET step(stack, l) ==
        CASE l.h = "counter" -> Append(stack, Matching(rows, l))
          [] l.h \in {"statsand", "statsor"} /\ l.val = 0 -> Append(stack, rows)
          [] l.h = "statsand" -> Combine(stack, l.val, Intersection)
          [] l.h = "statsor"  -> Combine(stack, l.val, LAMBDA S : UNION S)
          [] l.h \in {"sum", "avg", "min", "max"} -> Append(stack, rows)
          [] OTHER -> stack
  IN FoldLeft(step, << >>, request.lines)

Value(stats, rows) ==
  LET states == {r.state : r \in rows}
      sum == FoldLeft(LAMBDA x, r : x + r.state, 0, SelectSeq(Available, LAMBDA r : r \in rows))
  IN CASE rows = {}          -> <<0, 1>>
       [] stats = "counter"  -> <<Cardinality(rows), 1>>
       [] stats = "sum"      -> <<sum, 1>>
       [] stats = "avg"      -> <<sum, Cardinality(rows)>>
       [] stats = "min"      -> <<Min(states), 1>>
       [] stats = "max"      -> <<Max(states), 1>>

Answered == pc = "done" /\ answer.code = 200 /\ selected # << >>

SortKey(row) == [j \in DOMAIN request.sort |-> row[request.sort[j].col]]

\* A query for rows is answered with the slice that Sort, Offset and Limit cut from all rows of
\* the peers not reported as failed that the filters mean and the user may see: the limit each
\* peer applies on its own, the index and the rewriting of filters lose no row.
RowsAreTheSlice ==
  Answered /\ ~ IsStats =>
    LET meant == Meant
        all == Sorted(SelectSeq(Available, LAMBDA r : r \in meant))
        to == IF request.limit < 0 THEN Len(all) ELSE Min({request.offset + request.limit, Len(all)})
        slice == SubSeq(all, request.offset + 1, to)
    IN /\ ToSet(answer.rows) \subseteq ToSet(all)
       /\ Cardinality(ToSet(answer.rows)) = Len(answer.rows)
       /\ [j \in DOMAIN answer.rows |-> SortKey(answer.rows[j])]
            = [j \in DOMAIN slice |-> SortKey(slice[j])]

\* total_count of wrapped_json is the number of matches before offset and limit, for the tables
\* lmd holds itself. The rows of log are cut by each site (Limit, response.go:692) and only
\* then counted (response.go:234).
TotalBeforeLimit ==
  Answered /\ ~ IsStats /\ request.wrapped /\ ~ Passthrough => answer.total = Cardinality(Meant)

\* What the README says of total_count, of every table: the number of matches before offset and
\* limit. It does not hold for log, see TotalBeforeLimit.
TotalOfEveryTable ==
  Answered /\ ~ IsStats /\ request.wrapped => answer.total = Cardinality(Meant)

\* A stats query is answered with the stats over all those rows, for each value of its columns,
\* although every peer counts on its own and counters with a common filter are nested.
StatsOverAllRows ==
  Answered /\ IsStats =>
    LET meant == Meant
        keys == IF request.columns THEN {r.key : r \in meant} ELSE {0}
        of(k) == IF request.columns THEN {r \in meant : r.key = k} ELSE meant
    IN answer.stats =
         [k \in keys |->
            LET counted == CountedRows(of(k))
            IN [j \in DOMAIN counted |-> Value(req.stats[j].stats, counted[j])]]
=============================================================================
