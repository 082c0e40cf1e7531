------------------------------ MODULE Comments ------------------------------
(***************************************************************************)
(* How the comments (or downtimes) table of one DataStoreSet follows the   *)
(* remote site: UpdateDeltaCommentsOrDowntimes of lmd/datastoreset.go with *)
(* the DataStore operations it uses.  The update loop runs it in every     *)
(* delta update, and so does ResumeFromIdle when a client spins up an      *)
(* idling peer; both may work on the same tables at the same time.         *)
(* DataSet.Lock is held for the merge, for the append and while the lists  *)
(* are rebuilt, not across the queries in between.                         *)
(*                                                                         *)
(* A row is the batch it was added with and the id of the comment.  Rows   *)
(* lie in store.Data in the order of batches and, in a batch, of ids: the  *)
(* core hands out ids in ascending order and lists comments by id.         *)
(*                                                                         *)
(* The module follows the tables until the site reloads, after which the   *)
(* next update finds a new program start and replaces them.                *)
(***************************************************************************)
EXTENDS Integers, FiniteSets, FiniteSetsExt

CONSTANTS
  Updaters,     \* goroutines that run delta updates on the tables
  MaxId,        \* bound: number of comments that are ever added
  MaxFailures,  \* bound: number of queries that fail
  MayReload     \* whether the site may reload its configuration

ASSUME UpdatersAssumption == "loop" \in Updaters /\ IsFiniteSet(Updaters)
ASSUME BoundsAssumption == MaxId \in Nat \ {0} /\ MaxFailures \in Nat
ASSUME ReloadAssumption == MayReload \in BOOLEAN

VARIABLES
  remote,    \* ids of the comments of the remote site
  lastId,    \* the id that the site has given last
  alien,     \* ids of comments on hosts that are not in the cached tables
  reloaded,  \* the site has reloaded since the tables were created
  rows,      \* store.Data
  index,     \* store.Index: the rows it points to
  batch,     \* number of batches added to the store
  lists,     \* the comments columns of the hosts: the rows they were built from
  th,        \* the updates under way
  failures,  \* queries that have failed
  crashed    \* the process has ended in a panic

site == <<remote, lastId, alien, reloaded>>
store == <<rows, index, batch, lists>>
vars == <<remote, lastId, alien, reloaded, rows, index, batch, lists, th,
          failures, crashed>>

Ids == 1 .. MaxId
IdsOf(S) == {r.id : r \in S}

\* The rows that AddItem stores for the comments of an answer.
idFromNextColumn(b, S) == {[batch |-> b, id |-> b] : i \in S}   \* mutant: wrong column
RowsFor(b, S) == {[batch |-> b, id |-> i] : i \in S}

Pcs == {"idle", "compare", "ids", "merge", "rows", "append", "rebuild"}
\* An update that continues at pc, the answer to its last query in hand: the
\* count and the highest id, or a set of ids.
Update(pc, count, max, ids) == [pc |-> pc, count |-> count, max |-> max, ids |-> ids]
Idle == Update("idle", 0, 0, {})
At(t, pc) == th[t].pc = pc /\ ~crashed
Goto(t, pc, ids) == th' = [th EXCEPT ![t] = Update(pc, 0, 0, ids)]
Return(t) == th' = [th EXCEPT ![t] = Idle]

\* The largest id of a set, 0 for none.
MaxOf(S) == IF S = {} THEN 0 ELSE Max(S)
\* The id of the last row in store.Data.
Precedes(r, s) == r.batch < s.batch \/ (r.batch = s.batch /\ r.id <= s.id)
LastRowId(S) == IF S = {} THEN 0 ELSE (CHOOSE r \in S : \A s \in S : Precedes(s, r)).id

\* InitAllTables has created the tables and built the lists.
Init ==
  /\ lastId \in 0 .. MaxId
  /\ remote \in SUBSET (1 .. lastId)
  /\ alien = {} /\ reloaded = FALSE
  /\ rows = RowsFor(0, remote) /\ index = rows /\ batch = 0 /\ lists = rows
  /\ th = [t \in Updaters |-> Idle]
  /\ failures = 0 /\ crashed = FALSE

(***************************************************************************)
(* UpdateDeltaCommentsOrDowntimes.                                         *)
(***************************************************************************)
\* Any of its queries fails, the update returns the error.
QueryFails(t) ==
  /\ th[t].pc \in {"idle", "ids", "rows"} /\ ~crashed
  /\ failures < MaxFailures
  /\ failures' = failures + 1
  /\ Return(t)
  /\ UNCHANGED <<site, store, crashed>>

\* maxIDOrSizeChanged asks for the number of comments and the highest id, in
\* an update that has found the site not restarted ...
QueryStats(t) ==
  /\ At(t, "idle")
  /\ ~reloaded
  /\ th' = [th EXCEPT ![t] = Update("compare", Cardinality(remote), MaxOf(remote), {})]
  /\ UNCHANGED <<site, store, failures, crashed>>

\* ... and compares them with the store.
sizeChanged(r) == Cardinality(rows) # r.count          \* mutant: ids not compared
maxIDOrSizeChanged(r) ==
  ~(Cardinality(rows) = r.count /\ (rows = {} \/ LastRowId(rows) = r.max))

CompareStats(t) ==
  /\ At(t, "compare")
  /\ IF maxIDOrSizeChanged(th[t]) THEN Goto(t, "ids", {}) ELSE Return(t)
  /\ UNCHANGED <<site, store, failures, crashed>>

QueryIds(t) ==
  /\ At(t, "ids")
  /\ Goto(t, "merge", remote)
  /\ UNCHANGED <<site, store, failures, crashed>>

\* RemoveItem for every row of the set.  It panics, "element not found", for a
\* row that is not in store.Data.
removeFromDataOnly(S) == rows' = rows \ S /\ UNCHANGED index   \* mutant: index kept
RemoveItems(S) == rows' = rows \ S /\ index' = index \ S

\* The ids that are new, the rows to be removed.
allMissing(ids) == ids                                 \* mutant: known ids fetched again
Missing(ids) == ids \ IdsOf(index)
Gone(ids) == {r \in index : r.id \notin ids}

\* The lists are rebuilt also when there is nothing to add.
onlyForNew(missing) == IF missing = {} THEN "idle" ELSE "rows"   \* mutant
AfterMerge(missing) == IF missing = {} THEN "rebuild" ELSE "rows"

Merge(t) ==
  LET missing == Missing(th[t].ids)
  IN /\ At(t, "merge")
     /\ RemoveItems(Gone(th[t].ids))
     /\ Goto(t, AfterMerge(missing), missing)
     /\ UNCHANGED <<site, batch, lists, failures, crashed>>

\* Only comments that still exist are found.
QueryRows(t) ==
  /\ At(t, "rows")
  /\ Goto(t, "append", th[t].ids \cap remote)
  /\ UNCHANGED <<site, store, failures, crashed>>

\* AddItem enters a row into the index in the place of one with the same id.
Indexed(new) == {r \in index : r.id \notin IdsOf(new)} \cup new

\* AppendData: AddItem for every row of the answer.
AppendData(t) ==
  LET new == RowsFor(batch + 1, th[t].ids)
  IN /\ At(t, "append")
     /\ rows' = rows \cup new
     /\ index' = Indexed(new)
     /\ batch' = IF new = {} THEN batch ELSE batch + 1
     /\ Goto(t, "rebuild", {})
     /\ UNCHANGED <<site, lists, failures, crashed>>

\* buildDowntimeCommentsList.  A row whose host or service is not cached, which
\* AppendData accepts (SetReferences stores the missing reference before it
\* looks for it), has no object: the assignment of the lists panics.
Rebuild(t) ==
  /\ At(t, "rebuild")
  /\ IF IdsOf(rows) \cap alien = {}
       THEN lists' = rows /\ UNCHANGED crashed
       ELSE crashed' = TRUE /\ UNCHANGED lists
  /\ Return(t)
  /\ UNCHANGED <<site, rows, index, batch, failures>>

(***************************************************************************)
(* The remote site.                                                        *)
(***************************************************************************)
AddComment ==
  /\ lastId < MaxId
  /\ lastId' = lastId + 1
  /\ remote' = remote \cup {lastId'}
  /\ alien' \in IF reloaded THEN {alien, alien \cup {lastId'}} ELSE {alien}
  /\ UNCHANGED <<reloaded, store, th, failures, crashed>>

RemoveComment ==
  /\ \E i \in remote : remote' = remote \ {i}
  /\ UNCHANGED <<lastId, alien, reloaded, store, th, failures, crashed>>

Reload ==
  /\ MayReload /\ ~reloaded
  /\ reloaded' = TRUE
  /\ UNCHANGED <<remote, lastId, alien, store, th, failures, crashed>>

UpdateStep(t) ==
  \/ CompareStats(t) \/ QueryIds(t) \/ Merge(t) \/ QueryRows(t) \/ AppendData(t)
  \/ Rebuild(t)

Next ==
  \/ \E t \in Updaters : QueryStats(t) \/ UpdateStep(t) \/ QueryFails(t)
  \/ AddComment \/ RemoveComment \/ Reload

Spec == Init /\ [][Next]_vars

\* The loop runs a delta update again and again, and an update goes on.
Fairness ==
  /\ WF_vars(QueryStats("loop"))
  /\ \A t \in Updaters : WF_vars(UpdateStep(t))
FairSpec == Spec /\ Fairness

(***************************************************************************)
(* Properties.                                                             *)
(***************************************************************************)
AllRows == [batch : Nat, id : Ids]

\* Every variable stays in its type.
TypeOK ==
  /\ remote \subseteq Ids /\ lastId \in 0 .. MaxId
  /\ alien \subseteq Ids /\ reloaded \in BOOLEAN
  /\ rows \subseteq AllRows /\ index \subseteq AllRows /\ lists \subseteq AllRows
  /\ batch \in Nat
  /\ th \in [Updaters -> [pc : Pcs, count : Nat, max : 0 .. MaxId, ids : SUBSET Ids]]
  /\ failures \in 0 .. MaxFailures /\ crashed \in BOOLEAN

\* The rows that the index points to are in store.Data, whatever updates run at
\* the same time: RemoveItem never panics with "element not found".
IndexInData == index \subseteq rows

\* The index has at most one row for an id, so a lookup by id is defined and
\* the rows that Merge removes are exactly those of the ids that have gone.
IndexByID == \A r, s \in index : r.id = s.id => r = s

\* Both, for any number of goroutines that update the table (AddItem, RemoveItem).
IndexSound == IndexInData /\ IndexByID

\* With one updater every comment has one row: an id is added only when it is
\* not there.  Clients would otherwise get a comment twice.
OneRowPerID == \A r, s \in rows : r.id = s.id => r = s

\* With one updater a comment that the site still has never leaves the table: what Merge
\* removes, by a list of ids that may be old by then, the site has removed.  A slower second
\* updater would remove the rows that the other has added in the meantime.
ExistingRowsStay == [][\A r \in rows : r.id \in remote => r \in rows']_vars

\* Once comments are neither added nor removed any more, the table becomes and
\* remains the one of the site, whatever queries failed before.
RowsConverge == <>[](~reloaded => IdsOf(rows) = remote)

\* When no update is under way the comments columns of hosts and services are
\* those of the comments table ("updates the comments column of hosts/services
\* based on the comments table ids"), as long as no query has failed between the
\* removal of rows and the rebuild: after such a failure the two differ until
\* the next change of the comments.
ListsFollow ==
  failures = 0 /\ ~crashed /\ (\A t \in Updaters : th[t].pc = "idle") => lists = rows

\* A comment that refers to an unknown host is an error of the update
\* ("reference not found"), it never ends the process.
NeverCrashes == ~crashed
=============================================================================
