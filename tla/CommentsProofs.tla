--------------------------- MODULE CommentsProofs ---------------------------
(***************************************************************************)
(* Proofs about Comments for every number of comments and of failures: the *)
(* index stays consistent whatever goroutines update the table, and with a *)
(* single one of them every comment has one row, which stays as long as    *)
(* the site has the comment.                                               *)
(***************************************************************************)
EXTENDS Comments, FiniteSetTheorems, WellFoundedInduction, TLAPS

\* Rows of earlier batches only, so that a new batch is made of new rows; the
\* ids an update works on are ids.
StoreInv ==
  /\ batch \in Nat /\ remote \subseteq Ids /\ lastId \in 0 .. MaxId
  /\ rows \subseteq AllRows
  /\ \A r \in rows : r.batch <= batch
  /\ IndexInData /\ IndexByID
ThreadInv ==
  /\ DOMAIN th = Updaters
  /\ \A t \in Updaters : th[t].ids \subseteq Ids
IInv == StoreInv /\ ThreadInv

\* With one updater the index covers the data, and what is about to be fetched
\* or appended is not there yet.
SingleInv ==
  /\ index = rows
  /\ th["loop"].pc \in {"rows", "append"} => th["loop"].ids \cap IdsOf(index) = {}

\* Lists that lag behind the rows are about to be rebuilt by some update, unless
\* a query has failed.
Rebuilds(t) == th[t].pc \in {"rows", "append", "rebuild"}
ListsInv ==
  /\ failures \in Nat
  /\ \/ lists = rows \/ failures > 0 \/ crashed
     \/ \E t \in Updaters : Rebuilds(t)

USE UpdatersAssumption, BoundsAssumption

\* The next id of the site is within the bound.
LEMMA NextIdInRange ==
  ASSUME lastId \in 0 .. MaxId, lastId < MaxId
  PROVE  lastId + 1 \in Ids
  BY DEF Ids

\* The rows of one batch, and that they differ when their ids do.
LEMMA BatchRows ==
  ASSUME NEW b \in Nat, NEW S \in SUBSET Ids
  PROVE  /\ RowsFor(b, S) \subseteq AllRows
         /\ \A r \in RowsFor(b, S) : r.batch = b /\ r.id \in S
         /\ \A r, s \in RowsFor(b, S) : r.id = s.id => r = s
         /\ IdsOf(RowsFor(b, S)) = S
  <1>1. \A i \in S : [batch |-> b, id |-> i] \in RowsFor(b, S)
    BY DEF RowsFor
  <1>2. \A r \in RowsFor(b, S) : r.batch = b /\ r.id \in S
    BY DEF RowsFor
  <1>3. IdsOf(RowsFor(b, S)) = S
    <2>1. \A i \in S : [batch |-> b, id |-> i].id = i
      OBVIOUS
    <2>2. S \subseteq IdsOf(RowsFor(b, S))
      BY <1>1, <2>1, Zenon DEF IdsOf
    <2> QED
      BY <1>2, <2>2 DEF IdsOf
  <1> QED
    BY <1>2, <1>3 DEF RowsFor, AllRows

\* The initial state satisfies the invariant.
LEMMA InitIInv == Init => IInv
  <1> SUFFICES ASSUME Init PROVE IInv
    OBVIOUS
  <1>1. remote \in SUBSET Ids /\ lastId \in 0 .. MaxId
    BY DEF Init, Ids
  <1>2. rows = RowsFor(0, remote) /\ index = rows /\ batch = 0
    BY DEF Init
  <1>3. StoreInv
    BY <1>1, <1>2, BatchRows DEF StoreInv, IndexInData, IndexByID
  <1>4. ThreadInv
    BY DEF Init, ThreadInv, Idle, Update
  <1> QED
    BY <1>3, <1>4 DEF IInv

\* An update that goes on with a set of ids, or returns.
LEMMA GotoKeepsThreads ==
  ASSUME ThreadInv, NEW t \in Updaters, NEW pc, NEW S \in SUBSET Ids, Goto(t, pc, S)
  PROVE  ThreadInv'
  BY DEF ThreadInv, Goto, Update

\* An update that returns holds no ids.
LEMMA ReturnKeepsThreads ==
  ASSUME ThreadInv, NEW t \in Updaters, Return(t)
  PROVE  ThreadInv'
  BY DEF ThreadInv, Return, Idle, Update

\* Steps that leave the data and the index of the store alone.
LEMMA StoreUntouched ==
  ASSUME StoreInv, UNCHANGED <<remote, lastId, rows, index, batch>>
  PROVE  StoreInv'
  BY DEF StoreInv, IndexInData, IndexByID

\* Merge takes the same rows out of both.
LEMMA MergeKeepsIInv ==
  ASSUME IInv, NEW t \in Updaters, Merge(t)
  PROVE  IInv'
  <1>1. StoreInv'
    BY DEF IInv, StoreInv, Merge, RemoveItems, Gone, IndexInData, IndexByID, site
  <1>2. ThreadInv'
    <2>1. Missing(th[t].ids) \in SUBSET Ids
      BY DEF IInv, ThreadInv, Missing
    <2> QED
      BY <2>1, GotoKeepsThreads DEF IInv, Merge
  <1> QED
    BY <1>1, <1>2 DEF IInv

\* AppendData adds new rows and points the index to them.
LEMMA AppendKeepsIInv ==
  ASSUME IInv, NEW t \in Updaters, AppendData(t)
  PROVE  IInv'
  <1> DEFINE new == RowsFor(batch + 1, th[t].ids)
  <1>1. th[t].ids \in SUBSET Ids /\ batch \in Nat /\ batch + 1 \in Nat
    BY DEF IInv, ThreadInv, StoreInv
  <1>2. /\ new \subseteq AllRows
        /\ \A r \in new : r.batch = batch + 1 /\ r.id \in th[t].ids
        /\ \A r, s \in new : r.id = s.id => r = s
        /\ IdsOf(new) = th[t].ids
    BY <1>1, BatchRows
  <1>3. /\ rows' = rows \cup new
        /\ index' = {r \in index : r.id \notin th[t].ids} \cup new
        /\ batch' = (IF new = {} THEN batch ELSE batch + 1)
        /\ UNCHANGED <<remote, lastId>>
    BY <1>2 DEF AppendData, Indexed, site
  <1> HIDE DEF new
  <1>4. StoreInv'
    <2>1. batch' \in Nat /\ rows' \subseteq AllRows
      BY <1>1, <1>2, <1>3 DEF IInv, StoreInv
    <2>2. \A r \in rows' : r.batch <= batch'
      BY <1>1, <1>2, <1>3 DEF IInv, StoreInv, AllRows
    <2>3. IndexInData' /\ IndexByID'
      BY <1>2, <1>3 DEF IInv, StoreInv, IndexInData, IndexByID
    <2> QED
      BY <1>3, <2>1, <2>2, <2>3 DEF IInv, StoreInv
  <1>5. ThreadInv'
    BY GotoKeepsThreads DEF IInv, AppendData
  <1> QED
    BY <1>4, <1>5 DEF IInv

\* Every step keeps the invariant.
LEMMA NextIInv == IInv /\ [Next]_vars => IInv'
  <1> SUFFICES ASSUME IInv, [Next]_vars PROVE IInv'
    OBVIOUS
  <1>1. ASSUME NEW t \in Updaters, QueryStats(t) PROVE IInv'
    BY <1>1, StoreUntouched DEF IInv, ThreadInv, QueryStats, Update, site, store
  <1>2. ASSUME NEW t \in Updaters, CompareStats(t) PROVE IInv'
    BY <1>2, StoreUntouched, GotoKeepsThreads, ReturnKeepsThreads
       DEF IInv, CompareStats, site, store
  <1>3. ASSUME NEW t \in Updaters, QueryIds(t) PROVE IInv'
    <2>1. remote \in SUBSET Ids
      BY DEF IInv, StoreInv
    <2> QED
      BY <1>3, <2>1, StoreUntouched, GotoKeepsThreads DEF IInv, QueryIds, site, store
  <1>4. ASSUME NEW t \in Updaters, QueryRows(t) PROVE IInv'
    <2>1. th[t].ids \cap remote \in SUBSET Ids
      BY DEF IInv, StoreInv
    <2> QED
      BY <1>4, <2>1, StoreUntouched, GotoKeepsThreads DEF IInv, QueryRows, site, store
  <1>5. ASSUME NEW t \in Updaters, Rebuild(t) \/ QueryFails(t) PROVE IInv'
    BY <1>5, StoreUntouched, ReturnKeepsThreads DEF IInv, Rebuild, QueryFails, site, store
  <1>6. CASE AddComment
    BY <1>6, NextIdInRange
       DEF IInv, AddComment, StoreInv, ThreadInv, IndexInData, IndexByID, store
  <1>7. CASE RemoveComment \/ Reload
    BY <1>7 DEF IInv, RemoveComment, Reload, StoreInv, ThreadInv, IndexInData,
                IndexByID, store
  <1>8. CASE UNCHANGED vars
    BY <1>8, StoreUntouched DEF IInv, ThreadInv, vars
  <1> QED
    BY <1>1, <1>2, <1>3, <1>4, <1>5, <1>6, <1>7, <1>8, MergeKeepsIInv, AppendKeepsIInv
       DEF Next, UpdateStep

\* The invariant holds for every set of updaters.
THEOREM Inductive == Spec => []IInv
  BY InitIInv, NextIInv, PTL DEF Spec

\* RemoveItem always finds the row it is given, and the index has one row for an id, whatever
\* updates of the table run at the same time.
THEOREM RemoveFindsRow == Spec => []IndexSound
  <1>1. IInv => IndexSound
    BY DEF IInv, StoreInv, IndexSound
  <1> QED
    BY <1>1, Inductive, PTL

\* Every step keeps the promise that lists are rebuilt.
LEMMA NextLists == IInv /\ ListsInv /\ [Next]_vars => ListsInv'
  <1> SUFFICES ASSUME IInv, ListsInv, [Next]_vars PROVE ListsInv'
    OBVIOUS
  <1>0. DOMAIN th = Updaters
    BY DEF IInv, ThreadInv
  <1>1. ASSUME NEW t \in Updaters, QueryStats(t) \/ CompareStats(t) \/ QueryIds(t)
        PROVE  ListsInv'
    <2>1. th[t].pc \in {"idle", "compare", "ids"}
      BY <1>1 DEF QueryStats, CompareStats, QueryIds, At
    <2>2. \A u \in Updaters \ {t} : th'[u] = th[u]
      BY <1>0, <1>1 DEF QueryStats, CompareStats, QueryIds, Goto, Return
    <2>3. UNCHANGED <<lists, rows, failures, crashed>>
      BY <1>1 DEF QueryStats, CompareStats, QueryIds, store
    <2> QED
      BY <2>1, <2>2, <2>3 DEF ListsInv, Rebuilds
  <1>2. ASSUME NEW t \in Updaters, Merge(t) \/ QueryRows(t) \/ AppendData(t)
        PROVE  ListsInv'
    <2>1. th'[t].pc \in {"rows", "append", "rebuild"}
      BY <1>0, <1>2 DEF Merge, QueryRows, AppendData, AfterMerge, Goto, Update
    <2>2. UNCHANGED failures
      BY <1>2 DEF Merge, QueryRows, AppendData
    <2> QED
      BY <2>1, <2>2 DEF ListsInv, Rebuilds
  <1>3. ASSUME NEW t \in Updaters, Rebuild(t) PROVE ListsInv'
    BY <1>3 DEF Rebuild, ListsInv
  <1>4. ASSUME NEW t \in Updaters, QueryFails(t) PROVE ListsInv'
    BY <1>4 DEF QueryFails, ListsInv
  <1>5. CASE AddComment \/ RemoveComment \/ Reload \/ UNCHANGED vars
    BY <1>5 DEF AddComment, RemoveComment, Reload, vars, store, ListsInv, Rebuilds
  <1> QED
    BY <1>1, <1>2, <1>3, <1>4, <1>5 DEF Next, UpdateStep

\* Without failed queries the lists are those of the table whenever no update
\* is under way, whatever updates have run at the same time.
THEOREM ListsAfterUpdates == Spec => []ListsFollow
  <1>1. Init => ListsInv
    BY DEF Init, ListsInv
  <1>2. ListsInv => ListsFollow
    BY DEF ListsInv, ListsFollow, Rebuilds
  <1> QED
    BY <1>1, <1>2, NextLists, Inductive, PTL DEF Spec

\* The stronger invariant of a single updater.
LEMMA InitSingle == Init => SingleInv
  BY DEF Init, SingleInv, Idle, Update

\* With the update loop alone, the index always covers the data.
LEMMA NextSingle ==
  ASSUME Updaters = {"loop"}, IInv, SingleInv, [Next]_vars
  PROVE  SingleInv'
  <1> USE DEF SingleInv
  <1>0. DOMAIN th = {"loop"}
    BY DEF IInv, ThreadInv
  <1>1. CASE QueryStats("loop")
    BY <1>0, <1>1 DEF QueryStats, Update, store
  <1>2. CASE CompareStats("loop")
    BY <1>0, <1>2 DEF CompareStats, Goto, Return, Idle, Update, store
  <1>3. CASE QueryIds("loop")
    BY <1>0, <1>3 DEF QueryIds, Goto, Update, store
  <1>4. CASE Merge("loop")
    <2>1. index' = rows' /\ index' \subseteq index
      BY <1>4 DEF Merge, RemoveItems
    <2>2. th'["loop"].ids \cap IdsOf(index) = {}
      BY <1>0, <1>4 DEF Merge, Goto, Update, Missing
    <2> QED
      BY <2>1, <2>2 DEF IdsOf
  <1>5. CASE QueryRows("loop")
    BY <1>0, <1>5 DEF QueryRows, Goto, Update, store, At
  <1>6. CASE AppendData("loop")
    <2> DEFINE new == RowsFor(batch + 1, th["loop"].ids)
    <2>1. {r \in index : r.id \notin th["loop"].ids} = index
      BY <1>6 DEF AppendData, At, IdsOf
    <2>2. IdsOf(new) = th["loop"].ids
      BY BatchRows DEF IInv, ThreadInv, StoreInv
    <2>3. index' = index \cup new /\ rows' = rows \cup new
      <3> HIDE DEF new
      <3>1. Indexed(new) = index \cup new
        BY <2>1, <2>2 DEF Indexed
      <3> QED
        BY <1>6, <3>1 DEF AppendData, new
    <2>4. th'["loop"].pc = "rebuild"
      BY <1>0, <1>6 DEF AppendData, Goto, Update
    <2> QED
      BY <2>3, <2>4, <1>6 DEF AppendData, At
  <1>7. CASE Rebuild("loop") \/ QueryFails("loop")
    BY <1>0, <1>7 DEF Rebuild, QueryFails, Return, Idle, Update, store
  <1>8. CASE AddComment \/ RemoveComment \/ Reload \/ UNCHANGED vars
    BY <1>8 DEF AddComment, RemoveComment, Reload, vars, store
  <1> QED
    BY <1>1, <1>2, <1>3, <1>4, <1>5, <1>6, <1>7, <1>8 DEF Next, UpdateStep

\* With the update loop as the only updater every comment has one row.
THEOREM SingleUpdaterOneRow ==
  ASSUME Updaters = {"loop"}
  PROVE  Spec => []OneRowPerID
  <1>1. IInv /\ SingleInv => OneRowPerID
    BY DEF IInv, StoreInv, SingleInv, IndexByID, OneRowPerID
  <1>2. IInv /\ SingleInv /\ [Next]_vars => SingleInv'
    BY NextSingle
  <1> QED
    BY <1>1, <1>2, Inductive, InitSingle, PTL DEF Spec

\* Ids are not given twice: what the table has or is about to get is no later than the last id,
\* and a list of ids leaves out only rows that the site has removed, however old the list is.
KnownInv ==
  /\ remote \subseteq 1 .. lastId
  /\ IdsOf(rows) \subseteq 1 .. lastId
  /\ th["loop"].pc \in {"merge", "rows", "append"} => th["loop"].ids \subseteq 1 .. lastId
  /\ th["loop"].pc = "merge" => IdsOf(rows) \cap remote \subseteq th["loop"].ids

\* With the update loop alone, every step keeps this.
LEMMA NextKnown ==
  ASSUME Updaters = {"loop"}, IInv, KnownInv, [Next]_vars
  PROVE  KnownInv'
  <1>1. DOMAIN th = {"loop"} /\ lastId \in Nat
    BY DEF IInv, ThreadInv, StoreInv
  <1>2. CASE QueryStats("loop") \/ CompareStats("loop") \/ Rebuild("loop") \/ QueryFails("loop")
    <2>1. th'["loop"].pc \in {"idle", "compare", "ids"}
      BY <1>1, <1>2 DEF QueryStats, CompareStats, Rebuild, QueryFails, Goto, Return, Idle, Update
    <2>2. UNCHANGED <<remote, lastId, rows>>
      BY <1>2 DEF QueryStats, CompareStats, Rebuild, QueryFails, site, store
    <2> QED
      BY <2>1, <2>2 DEF KnownInv
  <1>3. CASE QueryIds("loop")
    <2>1. th'["loop"].pc = "merge" /\ th'["loop"].ids = remote
      BY <1>1, <1>3 DEF QueryIds, Goto, Update
    <2>2. UNCHANGED <<remote, lastId, rows>>
      BY <1>3 DEF QueryIds, site, store
    <2> QED
      BY <2>1, <2>2 DEF KnownInv
  <1>4. CASE Merge("loop")
    <2>1. th'["loop"].pc \in {"rows", "rebuild"} /\ th'["loop"].ids \subseteq th["loop"].ids
      BY <1>1, <1>4 DEF Merge, Goto, Update, AfterMerge, Missing
    <2>2. rows' \subseteq rows /\ UNCHANGED <<remote, lastId>> /\ th["loop"].pc = "merge"
      BY <1>4 DEF Merge, RemoveItems, site, At
    <2>3. IdsOf(rows') \subseteq IdsOf(rows)
      BY <2>2 DEF IdsOf
    <2> QED
      BY <2>1, <2>2, <2>3 DEF KnownInv
  <1>5. CASE QueryRows("loop")
    <2>1. /\ th["loop"].pc = "rows" /\ th'["loop"].pc = "append"
          /\ th'["loop"].ids \subseteq th["loop"].ids
      BY <1>1, <1>5 DEF QueryRows, Goto, Update, At
    <2>2. UNCHANGED <<remote, lastId, rows>>
      BY <1>5 DEF QueryRows, site, store
    <2> QED
      BY <2>1, <2>2 DEF KnownInv
  <1>6. CASE AppendData("loop")
    <2>1. IdsOf(RowsFor(batch + 1, th["loop"].ids)) = th["loop"].ids
      BY BatchRows DEF IInv, ThreadInv, StoreInv
    <2>2. /\ rows' = rows \cup RowsFor(batch + 1, th["loop"].ids)
          /\ UNCHANGED <<remote, lastId>> /\ th["loop"].pc = "append"
      BY <1>6 DEF AppendData, site, At
    <2>3. IdsOf(rows') = IdsOf(rows) \cup th["loop"].ids
      BY <2>1, <2>2 DEF IdsOf
    <2>4. th'["loop"].pc = "rebuild"
      BY <1>1, <1>6 DEF AppendData, Goto, Update
    <2> QED
      BY <2>2, <2>3, <2>4 DEF KnownInv
  <1>7. CASE AddComment
    <2>1. lastId' = lastId + 1 /\ remote' = remote \cup {lastId + 1} /\ UNCHANGED <<rows, th>>
      BY <1>7 DEF AddComment, store
    <2>2. /\ 1 .. lastId \subseteq 1 .. lastId' /\ lastId + 1 \in 1 .. lastId'
          /\ lastId + 1 \notin 1 .. lastId
      BY <1>1, <2>1
    <2> QED
      BY <2>1, <2>2 DEF KnownInv
  <1>8. CASE RemoveComment
    <2>1. remote' \subseteq remote /\ UNCHANGED <<lastId, rows, th>>
      BY <1>8 DEF RemoveComment, store
    <2> QED
      BY <2>1 DEF KnownInv
  <1>9. CASE Reload \/ UNCHANGED vars
    BY <1>9 DEF Reload, vars, store, KnownInv
  <1> QED
    BY <1>2, <1>3, <1>4, <1>5, <1>6, <1>7, <1>8, <1>9 DEF Next, UpdateStep

\* With the update loop as the only updater no step removes a comment that the site still has,
\* whatever the site adds and removes between the queries and whichever of them fail.
THEOREM NoRowLost ==
  ASSUME Updaters = {"loop"}
  PROVE  Spec => ExistingRowsStay
  <1>1. Init => KnownInv
    <2> SUFFICES ASSUME Init
                 PROVE  KnownInv
      OBVIOUS
    <2>1. lastId \in 0 .. MaxId /\ remote \in SUBSET (1 .. lastId) /\ rows = RowsFor(0, remote)
      BY DEF Init
    <2>2. IdsOf(rows) = remote
      BY <2>1, BatchRows DEF Ids
    <2>3. th["loop"].pc = "idle"
      BY DEF Init, Idle, Update
    <2> QED
      BY <2>1, <2>2, <2>3 DEF KnownInv
  <1>2. IInv /\ KnownInv /\ [Next]_vars => KnownInv'
    BY NextKnown
  <1>3. IInv /\ KnownInv /\ [Next]_vars =>
          [\A r \in rows : r.id \in remote => r \in rows']_vars
    <2> SUFFICES ASSUME KnownInv, Next, NEW r \in rows, r.id \in remote
                 PROVE  r \in rows'
      OBVIOUS
    <2>1. CASE Merge("loop")
      <3>1. rows' = rows \ Gone(th["loop"].ids) /\ th["loop"].pc = "merge"
        BY <2>1 DEF Merge, RemoveItems, At
      <3>2. r.id \in th["loop"].ids
        BY <3>1 DEF KnownInv, IdsOf
      <3> QED
        BY <3>1, <3>2 DEF Gone
    <2>2. CASE rows \subseteq rows'
      BY <2>2
    <2>3. Merge("loop") \/ rows \subseteq rows'
      BY DEF Next, UpdateStep, QueryStats, CompareStats, QueryIds, QueryRows, AppendData, Rebuild,
         QueryFails, AddComment, RemoveComment, Reload, store
    <2> QED
      BY <2>1, <2>2, <2>3
  <1> QED
    BY <1>1, <1>2, <1>3, Inductive, PTL DEF Spec, ExistingRowsStay

(***************************************************************************)
(* Types.  The answer to QueryStats has the highest id of the site: a set  *)
(* of ids that is not empty has a largest one, because the naturals are    *)
(* well-founded.                                                           *)
(***************************************************************************)
\* The order of the naturals as a relation.
LEMMA LessRelation == \A a, b \in Nat : a < b => <<a, b>> \in OpToRel(<, Nat)
  <1> SUFFICES ASSUME NEW a \in Nat, NEW b \in Nat, a < b
               PROVE  <<a, b>> \in OpToRel(<, Nat)
    BY Zenon
  <1>1. <<a, b>> \in Nat \X Nat
    OBVIOUS
  <1>2. <<a, b>>[1] < <<a, b>>[2]
    OBVIOUS
  <1> QED
    BY <1>1, <1>2, Zenon DEF OpToRel

\* A set of naturals that is not empty has a least element.
LEMMA LeastNatural ==
  ASSUME NEW T \in SUBSET Nat, T # {}
  PROVE  \E m \in T : \A y \in T : m <= y
  <1>1. PICK m \in T : \A y \in T : <<y, m>> \notin OpToRel(<, Nat)
    BY NatLessThanWellFounded, WFMin, Zenon
  <1>2. \A y \in T : ~(y < m)
    BY <1>1, LessRelation, Zenon
  <1>3. \A y \in T : m <= y
    BY <1>2
  <1> QED
    BY <1>3

\* The largest id of a set is one of the set.
LEMMA MaxInSet ==
  ASSUME NEW S \in SUBSET Ids, S # {}
  PROVE  Max(S) \in S /\ \A y \in S : y <= Max(S)
  <1> DEFINE T == {k \in Nat : MaxId - k \in S}
  <1>0. S \subseteq 1 .. MaxId
    BY DEF Ids
  <1>1. ASSUME NEW x \in S PROVE MaxId - x \in T /\ MaxId - x \in Nat
    <2>1. MaxId - x \in Nat /\ MaxId - (MaxId - x) = x
      BY <1>0
    <2> QED
      BY <2>1
  <1>2. T \subseteq Nat /\ T # {}
    BY <1>1
  <1>3. PICK m \in T : \A y \in T : m <= y
    BY <1>2, LeastNatural, Zenon
  <1>4. MaxId - m \in S /\ m \in Nat
    OBVIOUS
  <1> HIDE DEF T
  <1>5. ASSUME NEW y \in S PROVE MaxId - m >= y
    <2>1. m <= MaxId - y
      BY <1>1, <1>3
    <2> QED
      BY <1>0, <1>4, <2>1
  <1> QED
    BY <1>4, <1>5 DEF Max

\* What QueryStats is told of the site is a number and an id.
LEMMA SiteStatsType ==
  ASSUME NEW S \in SUBSET Ids
  PROVE  Cardinality(S) \in Nat /\ MaxOf(S) \in 0 .. MaxId
  <1>1. IsFiniteSet(S)
    <2>1. IsFiniteSet(Ids)
      BY FS_Interval DEF Ids
    <2> QED
      BY <2>1, FS_Subset
  <1>2. Cardinality(S) \in Nat
    BY <1>1, FS_CardinalityType
  <1>3. CASE S = {}
    BY <1>2, <1>3 DEF MaxOf
  <1>4. CASE S # {}
    <2>1. MaxOf(S) \in S
      BY <1>4, MaxInSet DEF MaxOf
    <2>2. MaxOf(S) \in Ids
      BY <2>1
    <2>3. \A x \in Ids : x \in 0 .. MaxId
      BY DEF Ids
    <2> QED
      BY <1>2, <2>2, <2>3
  <1> QED
    BY <1>3, <1>4

Threads == [pc : Pcs, count : Nat, max : 0 .. MaxId, ids : SUBSET Ids]

\* The updates stay updates.
LEMMA UpdateType ==
  ASSUME TypeOK, NEW t \in Updaters, NEW pc \in Pcs, NEW S \in SUBSET Ids
  PROVE  /\ Goto(t, pc, S) => th' \in [Updaters -> Threads]
         /\ Return(t) => th' \in [Updaters -> Threads]
  <1>1. Update(pc, 0, 0, S) \in Threads /\ Idle \in Threads
    BY DEF Update, Idle, Threads, Pcs
  <1>2. th \in [Updaters -> Threads]
    BY DEF TypeOK, Threads
  <1> QED
    BY <1>1, <1>2 DEF Goto, Return

\* Every step keeps the types.
LEMMA NextTypeOK == TypeOK /\ [Next]_vars => TypeOK'
  <1> SUFFICES ASSUME TypeOK, [Next]_vars PROVE TypeOK'
    OBVIOUS
  <1>0. /\ remote \in SUBSET Ids /\ lastId \in 0 .. MaxId /\ batch \in Nat
        /\ th \in [Updaters -> Threads]
        /\ \A t \in Updaters : th[t] \in Threads /\ th[t].ids \in SUBSET Ids
        /\ TypeOK' <=>
             /\ remote' \subseteq Ids /\ lastId' \in 0 .. MaxId
             /\ alien' \subseteq Ids /\ reloaded' \in BOOLEAN
             /\ rows' \subseteq AllRows /\ index' \subseteq AllRows /\ lists' \subseteq AllRows
             /\ batch' \in Nat /\ th' \in [Updaters -> Threads]
             /\ failures' \in 0 .. MaxFailures /\ crashed' \in BOOLEAN
    BY DEF TypeOK, Threads
  <1>1. ASSUME NEW t \in Updaters, QueryStats(t) PROVE TypeOK'
    <2>1. Update("compare", Cardinality(remote), MaxOf(remote), {}) \in Threads
      BY <1>0, SiteStatsType DEF Update, Threads, Pcs
    <2>2. th' \in [Updaters -> Threads]
      BY <1>0, <1>1, <2>1 DEF QueryStats
    <2> QED
      BY <1>0, <1>1, <2>2 DEF QueryStats, TypeOK, site, store
  <1>2. ASSUME NEW t \in Updaters, CompareStats(t) PROVE TypeOK'
    <2>1. th' \in [Updaters -> Threads]
      BY <1>2, UpdateType DEF CompareStats, Pcs
    <2> QED
      BY <1>0, <1>2, <2>1 DEF CompareStats, TypeOK, site, store
  <1>3. ASSUME NEW t \in Updaters, QueryIds(t) PROVE TypeOK'
    <2>1. th' \in [Updaters -> Threads]
      BY <1>0, <1>3, UpdateType DEF QueryIds, Pcs
    <2> QED
      BY <1>0, <1>3, <2>1 DEF QueryIds, TypeOK, site, store
  <1>4. ASSUME NEW t \in Updaters, Merge(t) PROVE TypeOK'
    <2>1. Missing(th[t].ids) \in SUBSET Ids
      BY <1>0 DEF Missing
    <2>2. th' \in [Updaters -> Threads]
      BY <1>4, <2>1, UpdateType DEF Merge, AfterMerge, Pcs
    <2> QED
      BY <1>0, <1>4, <2>2 DEF Merge, RemoveItems, TypeOK, site
  <1>5. ASSUME NEW t \in Updaters, QueryRows(t) PROVE TypeOK'
    <2>1. th[t].ids \cap remote \in SUBSET Ids
      BY <1>0
    <2>2. th' \in [Updaters -> Threads]
      BY <1>5, <2>1, UpdateType DEF QueryRows, Pcs
    <2> QED
      BY <1>0, <1>5, <2>2 DEF QueryRows, TypeOK, site, store
  <1>6. ASSUME NEW t \in Updaters, AppendData(t) PROVE TypeOK'
    <2>1. RowsFor(batch + 1, th[t].ids) \subseteq AllRows
      <3>1. batch + 1 \in Nat
        BY <1>0
      <3> QED
        BY <1>0, <3>1, BatchRows
    <2>2. th' \in [Updaters -> Threads]
      BY <1>6, UpdateType DEF AppendData, Pcs
    <2>3. batch' \in Nat
      BY <1>0, <1>6 DEF AppendData
    <2> QED
      BY <1>0, <1>6, <2>1, <2>2, <2>3 DEF AppendData, Indexed, TypeOK, site
  <1>7. ASSUME NEW t \in Updaters, Rebuild(t) PROVE TypeOK'
    <2>1. th' \in [Updaters -> Threads]
      BY <1>7, UpdateType DEF Rebuild, Pcs
    <2>2. crashed' \in BOOLEAN /\ lists' \subseteq AllRows
      BY <1>7 DEF Rebuild, TypeOK
    <2> QED
      BY <1>0, <1>7, <2>1, <2>2 DEF Rebuild, TypeOK, site
  <1>8. ASSUME NEW t \in Updaters, QueryFails(t) PROVE TypeOK'
    <2>1. th' \in [Updaters -> Threads]
      BY <1>8, UpdateType DEF QueryFails, Pcs
    <2>2. failures' \in 0 .. MaxFailures
      BY <1>8 DEF QueryFails, TypeOK
    <2> QED
      BY <1>0, <1>8, <2>1, <2>2 DEF QueryFails, TypeOK, site, store
  <1>9. CASE AddComment
    <2>1. lastId' \in Ids /\ lastId' \in 0 .. MaxId
      BY <1>0, <1>9, NextIdInRange DEF AddComment, Ids
    <2>2. alien' \subseteq Ids
      BY <1>9, <2>1 DEF AddComment, TypeOK
    <2> QED
      BY <1>0, <1>9, <2>1, <2>2 DEF AddComment, TypeOK, store
  <1>10. CASE RemoveComment \/ Reload
    BY <1>0, <1>10 DEF RemoveComment, Reload, TypeOK, store
  <1>11. CASE UNCHANGED vars
    BY <1>0, <1>11 DEF vars, TypeOK
  <1> QED
    BY <1>1, <1>2, <1>3, <1>4, <1>5, <1>6, <1>7, <1>8, <1>9, <1>10, <1>11
       DEF Next, UpdateStep

\* Every variable of the tables and of the updates under way keeps its type; with it the number
\* of failed queries stays within its bound and every id is one that the site has given.
THEOREM TypeCorrect == Spec => []TypeOK
  <1>1. Init => TypeOK
    <2> SUFFICES ASSUME Init PROVE TypeOK
      OBVIOUS
    <2>1. remote \in SUBSET Ids /\ lastId \in 0 .. MaxId /\ rows \subseteq AllRows
      BY BatchRows DEF Init, Ids
    <2>2. th \in [Updaters -> Threads]
      BY DEF Init, Idle, Update, Threads, Pcs
    <2>3. index \subseteq AllRows /\ lists \subseteq AllRows /\ batch \in Nat
      BY <2>1 DEF Init
    <2>4. failures \in 0 .. MaxFailures
      BY DEF Init
    <2>5. alien = {} /\ reloaded = FALSE /\ crashed = FALSE
      BY DEF Init
    <2> QED
      BY <2>1, <2>2, <2>3, <2>4, <2>5 DEF TypeOK, Threads
  <1> QED
    BY <1>1, NextTypeOK, PTL DEF Spec
=============================================================================
