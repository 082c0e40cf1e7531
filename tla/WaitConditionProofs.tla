------------------------ MODULE WaitConditionProofs ------------------------
(***************************************************************************)
(* Proofs about WaitCondition for every timeout and update interval.       *)
(***************************************************************************)
EXTENDS WaitCondition, TLAPS

\* Who may have closed the channel, and what it means that a goroutine is on
\* its way to do so: the worker has seen the condition (or that there is no
\* object), the waiter has timed out.
SeenInv ==
  /\ worker \in {"schedule", "mark", "final"} => verdict = "met"
  /\ mark > 0 => verdict = "met"
  /\ worker \in {"look", "fetch"} => mark = 0
  /\ worker = "close" => verdict # "none"
  /\ closed /\ ~expired => verdict # "none"
  /\ waiter = "close" => expired
  /\ waiter \in {"test", "done"} /\ ~expired => closed
IInv == TypeOK /\ SeenInv

USE TimesAssumption

\* The initial states satisfy the invariant.
LEMMA InitIInv == Init => IInv
  <1> SUFFICES ASSUME Init PROVE IInv
    OBVIOUS
  <1>1. StartTime \in StartTime .. MaxTime /\ 1 .. StartTime \subseteq Times /\ 0 \in Times
    BY DEF StartTime, Times
  <1>2. lastUpdate \in Times
    BY <1>1 DEF Init
  <1>3. updating \in Times
    BY <1>1, <1>2 DEF Init
  <1>4. TypeOK
    BY <1>1, <1>2, <1>3 DEF Init, TypeOK, WaiterPcs, WorkerPcs, Targets
  <1>5. SeenInv
    BY DEF Init, SeenInv
  <1> QED
    BY <1>4, <1>5 DEF IInv

\* Every step keeps the types.
LEMMA NextTypeOK == TypeOK /\ [Next]_vars => TypeOK'
  <1> SUFFICES ASSUME TypeOK, [Next]_vars PROVE TypeOK'
    OBVIOUS
  <1> USE DEF TypeOK, WaiterPcs, WorkerPcs, Targets
  <1>1. CASE WaiterSelect
    <2>1. expired' \in BOOLEAN
      BY <1>1 DEF WaiterSelect
    <2> QED
      BY <1>1, <2>1 DEF WaiterSelect, peer
  <1>2. CASE WaiterTest
    BY <1>2 DEF WaiterTest, peer
  <1>3. CASE WaiterClose
    BY <1>3 DEF WaiterClose, Close, peer
  <1>4. CASE WorkerTop
    <2>1. AfterTop \in WorkerPcs
      BY DEF AfterTop
    <2> QED
      BY <1>4, <2>1 DEF WorkerTop, WorkerGoto, peer
  <1>5. CASE WorkerFinal
    <2>1. worker' \in WorkerPcs
      BY <1>5 DEF WorkerFinal, WorkerGoto
    <2> QED
      BY <1>5, <2>1 DEF WorkerFinal, WorkerGoto, peer
  <1>6. CASE WorkerLook
    <2>1. worker' \in WorkerPcs
      BY <1>6 DEF WorkerLook, WorkerGoto
    <2> QED
      BY <1>6, <2>1 DEF WorkerLook, WorkerGoto, peer
  <1>7. CASE WorkerFetch
    BY <1>7 DEF WorkerFetch, AfterError, WorkerGoto, peer
  <1>8. CASE WorkerClose
    BY <1>8 DEF WorkerClose, Close, peer
  <1>9. CASE WorkerSchedule
    <2>1. Overdue \in Times
      BY DEF Overdue, Times, StartTime
    <2> QED
      BY <1>9, <2>1 DEF WorkerSchedule, WorkerGoto, peer
  <1>10. CASE WorkerMark
    BY <1>10 DEF WorkerMark, WorkerGoto, peer
  <1>11. CASE LoopStep
    <2>1. now \in Times /\ 0 \in Times
      BY DEF Times, StartTime
    <2>2. CASE LoopBegin
      BY <2>1, <2>2 DEF LoopBegin, wait
    <2>3. CASE LoopCommit
      BY <2>1, <2>3 DEF LoopCommit, wait
    <2>4. CASE LoopFails
      <3>1. hasData' \in BOOLEAN
        BY <2>4, Zenon DEF LoopFails
      <3> QED
        BY <2>1, <2>4, <3>1 DEF LoopFails, wait
    <2> QED
      BY <1>11, <2>2, <2>3, <2>4 DEF LoopStep
  <1>12. CASE RemoteChanges
    BY <1>12 DEF RemoteChanges, peer, wait
  <1>13. CASE Clock
    <2>1. now' \in StartTime .. MaxTime
      BY <1>13 DEF Clock, StartTime
    <2> QED
      BY <1>13, <2>1 DEF Clock, peer, wait
  <1>14. CASE UNCHANGED vars
    BY <1>14 DEF vars
  <1> QED
    BY <1>1, <1>2, <1>3, <1>4, <1>5, <1>6, <1>7, <1>8, <1>9, <1>10, <1>11, <1>12, <1>13, <1>14
       DEF Next, WaiterStep, WorkerStep

\* Every step keeps the meaning of a close.
LEMMA NextSeenInv == TypeOK /\ SeenInv /\ [Next]_vars => SeenInv'
  <1> SUFFICES ASSUME TypeOK, SeenInv, [Next]_vars PROVE SeenInv'
    OBVIOUS
  <1> USE DEF SeenInv, TypeOK
  <1>1. CASE WaiterSelect
    BY <1>1 DEF WaiterSelect, peer
  <1>2. CASE WaiterTest
    BY <1>2 DEF WaiterTest, peer
  <1>3. CASE WaiterClose
    BY <1>3 DEF WaiterClose, Close, peer
  <1>4. CASE WorkerTop
    BY <1>4 DEF WorkerTop, AfterTop, WorkerGoto, peer, Times
  <1>5. CASE WorkerFinal
    BY <1>5 DEF WorkerFinal, WorkerGoto, peer
  <1>6. CASE WorkerLook
    <2>1. UNCHANGED <<mark, closed, expired, waiter>>
      BY <1>6 DEF WorkerLook, WorkerGoto
    <2>2. mark = 0
      BY <1>6 DEF WorkerLook
    <2>3. \/ worker' \in {"top", "fetch"} /\ UNCHANGED verdict
          \/ worker' = "close" /\ verdict' = "refused"
          \/ worker' = "schedule" /\ verdict' = "met"
      BY <1>6 DEF WorkerLook, WorkerGoto
    <2>4. QED
      <3>1. verdict # "none" => verdict' # "none"
        BY <2>3
      <3>2. closed' /\ ~expired' => verdict' # "none"
        BY <2>1, <3>1, Zenon
      <3>3. waiter' = "close" => expired'
        BY <2>1, Zenon
      <3>4. waiter' \in {"test", "done"} /\ ~expired' => closed'
        BY <2>1, Zenon
      <3>5. mark' = 0
        BY <2>1, <2>2
      <3> QED
        BY <2>3, <3>2, <3>3, <3>4, <3>5
  <1>7. CASE WorkerFetch
    BY <1>7 DEF WorkerFetch, AfterError, WorkerGoto, peer
  <1>8. CASE WorkerSchedule \/ WorkerMark
    BY <1>8 DEF WorkerSchedule, WorkerMark, WorkerGoto, peer
  <1>9. CASE WorkerClose
    BY <1>9 DEF WorkerClose, Close, peer
  <1>10. CASE LoopStep \/ RemoteChanges \/ Clock \/ UNCHANGED vars
    <2>1. UNCHANGED wait
      BY <1>10 DEF LoopStep, LoopBegin, LoopCommit, LoopFails, RemoteChanges, Clock, wait, vars
    <2> QED
      BY <2>1 DEF wait
  <1> QED
    BY <1>1, <1>2, <1>3, <1>4, <1>5, <1>6, <1>7, <1>8, <1>9, <1>10
       DEF Next, WorkerStep, WaiterStep

\* The invariant holds in every behaviour.
THEOREM Inductive == Spec => []IInv
  <1>1. IInv /\ [Next]_vars => IInv'
    BY NextTypeOK, NextSeenInv DEF IInv
  <1> QED
    BY <1>1, InitIInv, PTL DEF Spec

\* Every variable keeps its type: LastUpdate stays positive however far
\* ScheduleImmediateUpdate sets it back.
THEOREM TypeCorrect == Spec => []TypeOK
  <1>1. IInv => TypeOK
    BY DEF IInv
  <1> QED
    BY <1>1, Inductive, PTL

\* A wait that has ended without its timeout has seen its condition, for every
\* behaviour of peer and site.
THEOREM MetSeen == Spec => []MetWasSeen
  <1>1. IInv => MetWasSeen
    BY DEF IInv, SeenInv, MetWasSeen
  <1> QED
    BY <1>1, Inductive, PTL
=============================================================================
