----------------------------- MODULE PeerProofs -----------------------------
(***************************************************************************)
(* Proofs about Peer for every number of sources, every timeout and every  *)
(* number of restarts: types, no data behind an offline state, the start   *)
(* time is known whenever tables exist, commands are sent at most once.    *)
(***************************************************************************)
EXTENDS Peer, TLAPS

\* What a routine knows about the tables it works on, p being the stored start
\* time: a routine that updates tables has some, and where tables have been
\* picked up or are about to be published the start time has been stored.
RecordInv(r, p) ==
  /\ r.pc \in {"tp", "full_status", "full_tables", "full_commit",
              "delta_status", "delta_tables", "delta_commit"} => r.ds # Nil
  /\ r.plan \in {"full", "forced", "delta"} => r.ds # Nil
  /\ r.nested => r.ds # Nil
  /\ r.ds # Nil => p # Nil
  /\ r.pc \in {"init_tables", "init_commit"} => p # Nil

\* The inductive invariant, in the parts that the actions change separately.
CoreInv ==
  /\ state \in States /\ data \in 0 .. MaxRestarts /\ curAddr \in Sources
  /\ OfflineHasNoData
StartInv ==
  /\ programStart \in 0 .. MaxRestarts
  /\ data # Nil => programStart # Nil
AgesInv ==
  /\ lastUpdate \in 0 .. UpdateCap /\ lastFullUpdate \in 0 .. FullCap
  /\ lastOnline \in 0 .. OnlineCap /\ quiet \in 0 .. QuietCap
FlagsInv == idling \in BOOLEAN /\ forceFull \in BOOLEAN
ThreadInv ==
  /\ th \in [Threads -> ThreadRecords]
  /\ \A t \in Threads : RecordInv(th[t], programStart)
\* A command that is still to be sent has not reached the site.
CommandInv ==
  /\ cmd \in CommandRecords
  /\ cmd.sent <= 1
  /\ cmd.pc \in {"check", "send"} => cmd.sent = 0
EnvInv ==
  /\ site \in Incarnations /\ reachable \subseteq Sources
  /\ answer \in Answers /\ faults \in 0 .. MaxFaults

IInv ==
  CoreInv /\ StartInv /\ AgesInv /\ FlagsInv /\ ThreadInv /\ CommandInv /\ EnvInv

USE NumSourcesAssumption, BoundsAssumption, AnswersAssumption,
    FlagsAssumption, IntervalsAssumption

\* The caps of the ages are natural numbers, and ages stay below them.
LEMMA CapsAreNat ==
  /\ UpdateCap \in Nat /\ Updateinterval + 1 <= UpdateCap
  /\ FullCap \in Nat /\ OnlineCap \in Nat /\ QuietCap \in Nat
  BY DEF UpdateCap, FullCap, OnlineCap, QuietCap, Larger

\* Time never takes an age over its cap.
LEMMA OlderInRange ==
  ASSUME NEW cap \in Nat, NEW age \in 0 .. cap
  PROVE  Older(age, cap) \in 0 .. cap
  BY DEF Older, Smaller

\* The addresses setNextAddrFromErr moves to are sources of the peer.
LEMMA AddrIsSource ==
  ASSUME curAddr \in Sources, NEW n \in Nat
  PROVE  AddrAfter(n) \in Sources
  BY DEF AddrAfter, Sources

\* The records a thread starts from, and the changes to them, are typed.
LEMMA IdleTyped == Idle \in ThreadRecords
  BY CapsAreNat DEF Idle, ThreadRecords, Pcs, Plans, Nil

\* A step of a thread keeps its record typed.
LEMMA PcTyped ==
  ASSUME NEW r \in ThreadRecords, NEW pc \in Pcs
  PROVE  [r EXCEPT !.pc = pc] \in ThreadRecords
  BY DEF ThreadRecords

\* The record of a routine that has got new tables, or has published them.
LEMMA NewTyped ==
  ASSUME NEW r \in ThreadRecords, NEW pc \in Pcs, NEW n \in 0 .. MaxRestarts,
         NEW b \in BOOLEAN
  PROVE  /\ [r EXCEPT !.pc = pc, !.new = n] \in ThreadRecords
         /\ [r EXCEPT !.pc = pc, !.new = n, !.nested = b] \in ThreadRecords
  BY DEF ThreadRecords

\* The record with which InitAllTables begins is typed.
LEMMA InitThreadTyped == [Idle EXCEPT !.pc = "init_status"] \in ThreadRecords
  BY IdleTyped, PcTyped DEF Pcs

\* The initial state satisfies the inductive invariant.
LEMMA InitIInv == Init => IInv
  <1> SUFFICES ASSUME Init PROVE IInv
    OBVIOUS
  <1>1. CoreInv /\ StartInv
    BY DEF Init, CoreInv, StartInv, OfflineHasNoData, States, Sources, Nil
  <1>2. AgesInv
    BY CapsAreNat DEF Init, AgesInv
  <1>3. FlagsInv
    BY DEF Init, FlagsInv
  <1>4. ThreadInv
    <2>1. th \in [Threads -> ThreadRecords]
      BY IdleTyped, InitThreadTyped DEF Init
    <2>2. \A t \in Threads : RecordInv(th[t], programStart)
      BY DEF Init, RecordInv, Idle, Nil
    <2> QED
      BY <2>1, <2>2 DEF ThreadInv
  <1>5. CommandInv
    BY DEF Init, CommandInv, NoCommand, CommandAt, CommandRecords, CmdPcs
  <1>6. EnvInv
    BY DEF Init, EnvInv, Incarnations
  <1> QED
    BY <1>1, <1>2, <1>3, <1>4, <1>5, <1>6 DEF IInv

\* Errors keep the peer's state and data consistent and never bring data back.
LEMMA ErrorsKeepCore ==
  ASSUME CoreInv, NEW n \in Nat, setNextAddrFromErr(n)
  PROVE  CoreInv' /\ (data' # Nil => data # Nil)
  <1>1. curAddr' \in Sources
    BY AddrIsSource DEF CoreInv, setNextAddrFromErr
  <1> QED
    BY <1>1 DEF CoreInv, setNextAddrFromErr, StateAfter, DataAfter,
                OfflineHasNoData, States, Nil

\* A failed query, whatever failed, is a number of errors in a row.
LEMMA QueryFailsKeepsCore ==
  ASSUME CoreInv, QueryFails
  PROVE  CoreInv' /\ (data' # Nil => data # Nil)
  BY ErrorsKeepCore DEF QueryFails, ConnectionFails, ResponseFails

\* So is a query that is answered after some refused connects.
LEMMA AnsweredKeepsCore ==
  ASSUME CoreInv, \E n \in Sources : Answered(n) /\ setNextAddrFromErr(n)
  PROVE  CoreInv' /\ (data' # Nil => data # Nil)
  BY ErrorsKeepCore DEF Sources

\* A step that replaces the record of one thread keeps the thread invariant
\* when the new record satisfies it and the start time is not forgotten.
LEMMA ThreadStep ==
  ASSUME ThreadInv, NEW t \in Threads, NEW r \in ThreadRecords,
         RecordInv(r, programStart'),
         th' = [th EXCEPT ![t] = r],
         programStart' = programStart \/ programStart' # Nil
  PROVE  ThreadInv'
  BY DEF ThreadInv, RecordInv

\* A routine that returns leaves the thread idle.
LEMMA FinishKeepsThreads ==
  ASSUME ThreadInv, NEW t \in Threads, Finish(t), programStart' = programStart
  PROVE  ThreadInv'
  BY ThreadStep, IdleTyped DEF Finish, RecordInv, Idle, Nil

\* A thread that begins InitAllTables has forgotten its tables.
LEMMA BeginInitKeepsThreads ==
  ASSUME ThreadInv, NEW t \in Threads, BeginInit(t), programStart' = programStart
  PROVE  ThreadInv'
  BY ThreadStep, InitThreadTyped DEF BeginInit, RecordInv, Idle, Nil

\* A step to a place from which tables are updated, by a routine that has some.
LEMMA GotoKeepsThreads ==
  ASSUME ThreadInv, NEW t \in Threads, NEW pc \in Pcs, Goto(t, pc),
         programStart' = programStart, th[t].ds # Nil,
         pc \notin {"init_tables", "init_commit"}
  PROVE  ThreadInv'
  <1> DEFINE r == [th[t] EXCEPT !.pc = pc]
  <1>1. th[t] \in ThreadRecords /\ RecordInv(th[t], programStart)
    BY DEF ThreadInv
  <1>2. r \in ThreadRecords
    BY <1>1, PcTyped
  <1>3. th' = [th EXCEPT ![t] = r]
    BY DEF Goto
  <1>4. RecordInv(r, programStart')
    BY <1>1 DEF RecordInv, ThreadRecords
  <1> QED
    BY <1>2, <1>3, <1>4, ThreadStep

\* A query of a routine fails and the routine ends.
LEMMA AbortKeepsIInv ==
  ASSUME IInv, NEW t \in Threads, Abort(t)
  PROVE  IInv'
  <1>1. CoreInv' /\ StartInv'
    BY QueryFailsKeepsCore DEF IInv, Abort, StartInv
  <1>2. ThreadInv'
    BY FinishKeepsThreads DEF IInv, Abort
  <1>3. AgesInv' /\ FlagsInv' /\ CommandInv' /\ EnvInv'
    BY DEF IInv, Abort, AgesInv, FlagsInv, CommandInv, EnvInv, env
  <1> QED
    BY <1>1, <1>2, <1>3 DEF IInv

\* A routine ends because the answer cannot be stored.
LEMMA AbortOddKeepsIInv ==
  ASSUME IInv, NEW t \in Threads, AbortOdd(t)
  PROVE  IInv'
  <1>1. CoreInv' /\ StartInv'
    BY AnsweredKeepsCore DEF IInv, AbortOdd, StartInv
  <1>2. ThreadInv'
    BY FinishKeepsThreads DEF IInv, AbortOdd
  <1>3. AgesInv' /\ FlagsInv' /\ CommandInv' /\ EnvInv'
    BY DEF IInv, AbortOdd, AgesInv, FlagsInv, CommandInv, EnvInv, env
  <1> QED
    BY <1>1, <1>2, <1>3 DEF IInv

\* A routine ends with a RestartRequiredError.
LEMMA RestartKeepsIInv ==
  ASSUME IInv, NEW t \in Threads, RestartRequired(t)
  PROVE  IInv'
  <1>1. CoreInv' /\ StartInv'
    BY AnsweredKeepsCore DEF IInv, RestartRequired, StartInv
  <1>2. ThreadInv'
    BY FinishKeepsThreads, BeginInitKeepsThreads DEF IInv, RestartRequired
  <1>3. AgesInv'
    BY CapsAreNat DEF IInv, RestartRequired, AgesInv
  <1>4. FlagsInv' /\ CommandInv' /\ EnvInv'
    BY DEF IInv, RestartRequired, FlagsInv, CommandInv, EnvInv, env
  <1> QED
    BY <1>1, <1>2, <1>3, <1>4 DEF IInv

\* A routine that holds tables goes on to its next step.
LEMMA ContinueKeepsIInv ==
  ASSUME IInv, NEW t \in Threads, NEW pc \in Pcs \ {"init_tables", "init_commit"},
         th[t].ds # Nil, Continue(t, pc)
  PROVE  IInv'
  <1>1. CoreInv' /\ StartInv'
    BY AnsweredKeepsCore DEF IInv, Continue, StartInv
  <1>2. ThreadInv'
    BY GotoKeepsThreads DEF IInv, Continue
  <1>3. AgesInv' /\ FlagsInv' /\ CommandInv' /\ EnvInv'
    BY DEF IInv, Continue, AgesInv, FlagsInv, CommandInv, EnvInv, env
  <1> QED
    BY <1>1, <1>2, <1>3 DEF IInv

\* A routine that is about to update tables holds some.
LEMMA UpdatesHoldTables ==
  ASSUME IInv, NEW t \in Threads
  PROVE  /\ th[t] \in ThreadRecords
         /\ RecordInv(th[t], programStart)
         /\ th[t].pc \in {"tp", "full_status", "full_tables", "full_commit",
                          "delta_status", "delta_tables", "delta_commit"}
              => th[t].ds # Nil
  BY DEF IInv, ThreadInv, RecordInv

\* InitAllTables fetches the status table and stores the start time.
LEMMA InitStatusKeepsIInv ==
  ASSUME IInv, NEW t \in Threads, InitStatus(t)
  PROVE  IInv'
  <1>1. CASE Abort(t)
    BY <1>1, AbortKeepsIInv
  <1>2. CASE AbortOdd(t)
    BY <1>2, AbortOddKeepsIInv
  <1>3. ASSUME NEW n \in Sources,
               /\ state' = "down" /\ data' = Nil /\ curAddr' = AddrAfter(n)
               /\ Finish(t) /\ lastUpdate' = 0 /\ lastFullUpdate' = 0
               /\ UNCHANGED <<programStart, lastOnline, quiet, idling, forceFull, cmd, env>>
        PROVE  IInv'
    <2>1. curAddr' \in Sources
      BY <1>3, AddrIsSource DEF IInv, CoreInv, Sources
    <2>2. CoreInv' /\ StartInv'
      BY <1>3, <2>1 DEF IInv, CoreInv, StartInv, OfflineHasNoData, States, Nil
    <2>3. ThreadInv'
      BY <1>3, FinishKeepsThreads DEF IInv
    <2>4. AgesInv'
      BY <1>3, CapsAreNat DEF IInv, AgesInv
    <2>5. FlagsInv' /\ CommandInv' /\ EnvInv'
      BY <1>3 DEF IInv, FlagsInv, CommandInv, EnvInv, env
    <2> QED
      BY <2>2, <2>3, <2>4, <2>5 DEF IInv
  <1>4. ASSUME NEW n \in Sources,
               /\ updateInitialStatus(n) /\ Goto(t, "init_tables")
               /\ lastUpdate' = 0 /\ lastFullUpdate' = 0
               /\ UNCHANGED <<lastOnline, quiet, idling, forceFull, cmd, env>>
        PROVE  IInv'
    <2>1. programStart' # Nil /\ programStart' \in 0 .. MaxRestarts
      BY <1>4 DEF IInv, EnvInv, Incarnations, updateInitialStatus, Nil
    <2>2. CoreInv' /\ StartInv'
      BY <1>4, <2>1, ErrorsKeepCore DEF IInv, StartInv, updateInitialStatus, Sources
    <2>3. ThreadInv'
      <3> DEFINE r == [th[t] EXCEPT !.pc = "init_tables"]
      <3>1. th[t] \in ThreadRecords /\ RecordInv(th[t], programStart)
        BY UpdatesHoldTables
      <3>2. r \in ThreadRecords
        BY <3>1, PcTyped DEF Pcs
      <3>3. RecordInv(r, programStart')
        BY <3>1, <2>1 DEF RecordInv, ThreadRecords
      <3> QED
        BY <1>4, <2>1, <3>2, <3>3, ThreadStep DEF IInv, Goto
    <2>4. AgesInv'
      BY <1>4, CapsAreNat DEF IInv, AgesInv
    <2>5. FlagsInv' /\ CommandInv' /\ EnvInv'
      BY <1>4 DEF IInv, FlagsInv, CommandInv, EnvInv, env
    <2> QED
      BY <2>2, <2>3, <2>4, <2>5 DEF IInv
  <1> QED
    BY <1>1, <1>2, <1>3, <1>4 DEF InitStatus

\* InitAllTables fetches the remaining tables; the start time stays known.
LEMMA InitTablesKeepsIInv ==
  ASSUME IInv, NEW t \in Threads, InitTables(t)
  PROVE  IInv'
  <1>1. CASE Abort(t)
    BY <1>1, AbortKeepsIInv
  <1>2. CASE AbortOdd(t)
    BY <1>2, AbortOddKeepsIInv
  <1>3. ASSUME NEW n \in Sources,
               /\ Answered(n) /\ setNextAddrFromErr(n)
               /\ th' = [th EXCEPT ![t].pc = "init_commit", ![t].new = site]
               /\ lastUpdate' = 0 /\ lastFullUpdate' = 0
               /\ UNCHANGED <<programStart, lastOnline, quiet, idling, forceFull, cmd, env>>
        PROVE  IInv'
    <2>1. CoreInv' /\ StartInv'
      BY <1>3, ErrorsKeepCore DEF IInv, StartInv, Sources
    <2>2. ThreadInv'
      <3> DEFINE r == [th[t] EXCEPT !.pc = "init_commit", !.new = site]
      <3>1. th[t] \in ThreadRecords /\ RecordInv(th[t], programStart)
        BY UpdatesHoldTables
      <3>2. r \in ThreadRecords
        <4>1. site \in 0 .. MaxRestarts
          BY DEF IInv, EnvInv, Incarnations
        <4> QED
          BY <3>1, <4>1, NewTyped DEF Pcs
      <3>3. RecordInv(r, programStart')
        BY <1>3, <3>1 DEF RecordInv, ThreadRecords, InitTables
      <3>4. th' = [th EXCEPT ![t] = r]
        BY <1>3
      <3> QED
        BY <1>3, <3>2, <3>3, <3>4, ThreadStep DEF IInv
    <2>3. AgesInv'
      BY <1>3, CapsAreNat DEF IInv, AgesInv
    <2>4. FlagsInv' /\ CommandInv' /\ EnvInv'
      BY <1>3 DEF IInv, FlagsInv, CommandInv, EnvInv, env
    <2> QED
      BY <2>1, <2>2, <2>3, <2>4 DEF IInv
  <1> QED
    BY <1>1, <1>2, <1>3 DEF InitTables

\* InitAllTables publishes tables and lifts the state in one step.
LEMMA InitCommitKeepsIInv ==
  ASSUME IInv, NEW t \in Threads, InitCommit(t)
  PROVE  IInv'
  <1>1. th[t] \in ThreadRecords /\ RecordInv(th[t], programStart)
    BY UpdatesHoldTables
  <1>2. programStart # Nil
    BY <1>1 DEF RecordInv, InitCommit
  <1>3. CoreInv' /\ StartInv'
    BY <1>1, <1>2 DEF IInv, CoreInv, StartInv, InitCommit, publish, resetErrors,
                      OfflineHasNoData, States, ThreadRecords
  <1>4. ThreadInv'
    <2>1. CASE ~th[t].nested
      BY <2>1, FinishKeepsThreads DEF IInv, InitCommit
    <2>2. CASE th[t].nested
      <3> DEFINE r == [th[t] EXCEPT !.pc = "delta_tables", !.new = Nil, !.nested = FALSE]
      <3>1. r \in ThreadRecords
        <4>1. Nil \in 0 .. MaxRestarts
          BY DEF Nil
        <4> QED
          BY <1>1, <4>1, NewTyped DEF Pcs
      <3>2. RecordInv(r, programStart)
        BY <1>1, <2>2 DEF RecordInv, ThreadRecords
      <3>3. th' = [th EXCEPT ![t] = r] /\ programStart' = programStart
        BY <2>2 DEF InitCommit
      <3> QED
        BY <3>1, <3>2, <3>3, ThreadStep DEF IInv
    <2> QED
      BY <2>1, <2>2
  <1>5. AgesInv'
    BY CapsAreNat DEF IInv, InitCommit, AgesInv, publish, resetErrors
  <1>6. FlagsInv' /\ CommandInv' /\ EnvInv'
    BY DEF IInv, InitCommit, FlagsInv, CommandInv, EnvInv, env
  <1> QED
    BY <1>3, <1>4, <1>5, <1>6 DEF IInv

\* The status query of UpdateFull and UpdateDelta.
LEMMA UpdateStatusKeepsIInv ==
  ASSUME IInv, NEW t \in Threads,
         \/ UpdateStatus(t, "full_status", "full_tables")
         \/ UpdateStatus(t, "delta_status", "delta_tables")
  PROVE  IInv'
  <1>1. th[t].ds # Nil
    BY UpdatesHoldTables DEF UpdateStatus
  <1> QED
    BY <1>1, AbortKeepsIInv, AbortOddKeepsIInv, RestartKeepsIInv, ContinueKeepsIInv
       DEF UpdateStatus, Pcs

\* UpdateFull fetches the remaining tables.
LEMMA FullTablesKeepsIInv ==
  ASSUME IInv, NEW t \in Threads, FullTables(t)
  PROVE  IInv'
  <1>1. th[t].ds # Nil
    BY UpdatesHoldTables DEF FullTables
  <1> QED
    BY <1>1, AbortKeepsIInv, AbortOddKeepsIInv, RestartKeepsIInv, ContinueKeepsIInv
       DEF FullTables, Pcs

\* An update ends by resetting the errors of the peer.
LEMMA CommitKeepsIInv ==
  ASSUME IInv, NEW t \in Threads, FullCommit(t) \/ DeltaCommit(t)
  PROVE  IInv'
  <1>1. CoreInv' /\ StartInv'
    BY DEF IInv, CoreInv, StartInv, FullCommit, DeltaCommit, resetErrors,
           OfflineHasNoData, States
  <1>2. ThreadInv'
    BY FinishKeepsThreads DEF IInv, FullCommit, DeltaCommit
  <1>3. AgesInv'
    BY CapsAreNat, UpdatesHoldTables
       DEF IInv, FullCommit, DeltaCommit, AgesInv, resetErrors, ThreadRecords
  <1>4. FlagsInv' /\ CommandInv' /\ EnvInv'
    BY DEF IInv, FullCommit, DeltaCommit, FlagsInv, CommandInv, EnvInv, env
  <1> QED
    BY <1>1, <1>2, <1>3, <1>4 DEF IInv

\* The rest of UpdateDelta: it may set the peer broken or nest InitAllTables.
LEMMA DeltaTablesKeepsIInv ==
  ASSUME IInv, NEW t \in Threads, DeltaTables(t)
  PROVE  IInv'
  <1>1. th[t].ds # Nil /\ th[t] \in ThreadRecords /\ RecordInv(th[t], programStart)
    BY UpdatesHoldTables DEF DeltaTables
  <1>2. CASE Abort(t) \/ AbortOdd(t)
    BY <1>2, AbortKeepsIInv, AbortOddKeepsIInv
  <1>3. CASE UnknownObject(t)
    <2>1. CoreInv' /\ StartInv'
      BY <1>3, AnsweredKeepsCore DEF IInv, UnknownObject, StartInv
    <2>2. ThreadInv'
      BY <1>3, FinishKeepsThreads DEF IInv, UnknownObject
    <2>3. AgesInv' /\ FlagsInv' /\ CommandInv' /\ EnvInv'
      BY <1>3 DEF IInv, UnknownObject, AgesInv, FlagsInv, CommandInv, EnvInv, env
    <2> QED
      BY <2>1, <2>2, <2>3 DEF IInv
  <1>4. CASE ScanFindsMore(t)
    <2>1. PICK n \in Sources :
            IF Icinga2 \/ ObjectCount[th[t].ds] = 0
              THEN /\ setNextAddrFromErr(n)
                   /\ th' = [th EXCEPT ![t].pc = "init_status", ![t].nested = TRUE]
                   /\ lastUpdate' = 0 /\ lastFullUpdate' = 0
              ELSE /\ setBroken(n)
                   /\ Finish(t)
                   /\ UNCHANGED <<lastUpdate, lastFullUpdate>>
      BY <1>4 DEF ScanFindsMore
    <2>2. programStart' = programStart
      BY <1>4 DEF ScanFindsMore
    <2>3. CoreInv' /\ StartInv'
      <3>1. CASE setNextAddrFromErr(n)
        BY <3>1, <2>2, ErrorsKeepCore DEF IInv, StartInv, Sources
      <3>2. CASE setBroken(n)
        <4>1. curAddr' \in Sources
          BY <3>2, AddrIsSource DEF IInv, CoreInv, setBroken, Sources
        <4> QED
          BY <3>2, <4>1, <2>2 DEF IInv, CoreInv, StartInv, setBroken,
                                  OfflineHasNoData, States, Nil
      <3> QED
        BY <3>1, <3>2, <2>1
    <2>4. ThreadInv'
      <3> DEFINE r == [th[t] EXCEPT !.pc = "init_status", !.nested = TRUE]
      <3>1. r \in ThreadRecords
        BY <1>1 DEF ThreadRecords, Pcs
      <3>2. RecordInv(r, programStart')
        BY <1>1, <2>2 DEF RecordInv, ThreadRecords
      <3>3. CASE th' = [th EXCEPT ![t] = r]
        BY <3>1, <3>2, <3>3, <2>2, ThreadStep DEF IInv
      <3>4. CASE Finish(t)
        BY <3>4, <2>2, FinishKeepsThreads DEF IInv
      <3> QED
        BY <3>3, <3>4, <2>1
    <2>5. AgesInv'
      BY <1>4, <2>1, CapsAreNat DEF IInv, ScanFindsMore, AgesInv
    <2>6. FlagsInv' /\ CommandInv' /\ EnvInv'
      BY <1>4 DEF IInv, ScanFindsMore, FlagsInv, CommandInv, EnvInv, env
    <2> QED
      BY <2>3, <2>4, <2>5, <2>6 DEF IInv
  <1>5. CASE Continue(t, "delta_commit")
    BY <1>1, <1>5, ContinueKeepsIInv DEF Pcs
  <1> QED
    BY <1>2, <1>3, <1>4, <1>5 DEF DeltaTables

\* A routine about to update the time periods, of the loop or of ResumeFromIdle.
LEMMA TimeperiodsKeepsIInv ==
  ASSUME IInv, NEW t \in Threads, TimeperiodsUpdate(t)
  PROVE  IInv'
  <1>1. th[t].ds # Nil
    BY UpdatesHoldTables DEF TimeperiodsUpdate
  <1>2. CASE Continue(t, IF t = "loop" THEN "decide" ELSE "delta_status")
    BY <1>1, <1>2, ContinueKeepsIInv DEF Pcs
  <1> QED
    BY <1>2, AbortKeepsIInv, AbortOddKeepsIInv, RestartKeepsIInv DEF TimeperiodsUpdate

\* periodicUpdate plans to update tables only where there are tables.
LEMMA PlanHasTables ==
  ASSUME NEW full \in BOOLEAN
  PROVE  /\ UpdatePlan(full) \in Plans
         /\ UpdatePlan(full) \in {"full", "forced", "delta"} => data # Nil
  <1>1. CASE full
    BY <1>1 DEF UpdatePlan, Plans
  <1>2. CASE ~full
    BY <1>2 DEF UpdatePlan, Plans
  <1> QED
    BY <1>1, <1>2

\* The record that periodicUpdate starts from, its snapshot of the peer.
LEMMA SnapshotTyped ==
  ASSUME NEW plan \in Plans, NEW pc \in Pcs, data \in 0 .. MaxRestarts
  PROVE  /\ Snapshot(pc, plan) \in ThreadRecords
         /\ Snapshot(pc, plan).pc = pc /\ Snapshot(pc, plan).plan = plan
         /\ Snapshot(pc, plan).ds = data /\ Snapshot(pc, plan).nested = FALSE
  <1>1. Idle.nested = FALSE
    BY DEF Idle
  <1> QED
    BY <1>1, IdleTyped DEF Snapshot, ThreadRecords

\* The snapshot of periodicUpdate: a plan that updates tables is made only
\* where there are tables.
LEMMA LoopTickKeepsIInv ==
  ASSUME IInv, LoopTick
  PROVE  IInv'
  <1> DEFINE idle == idling \/ quiet > IdleTimeout
             due  == lastUpdate >= (IF idle THEN IdleInterval ELSE Updateinterval)
             full == ~idle /\ FullUpdateInterval > 0
                       /\ lastFullUpdate > FullUpdateInterval
             plan == IF due THEN UpdatePlan(full) ELSE "wait"
             snap(pc) == Snapshot(pc, plan)
  <1>1. plan \in Plans /\ (plan \in {"full", "forced", "delta"} => data # Nil)
    <2>1. full \in BOOLEAN
      OBVIOUS
    <2> HIDE DEF full, due
    <2>2. CASE due
      BY <2>1, <2>2, PlanHasTables
    <2>3. CASE ~due
      BY <2>3 DEF Plans
    <2> QED
      BY <2>2, <2>3
  <1> HIDE DEF plan
  <1>2. ASSUME NEW pc \in {"tp", "decide"}, pc = "tp" => data # Nil
        PROVE  snap(pc) \in ThreadRecords /\ RecordInv(snap(pc), programStart)
    <2>1. pc \in Pcs /\ data \in 0 .. MaxRestarts
      BY <1>2 DEF Pcs, IInv, CoreInv
    <2>2. /\ snap(pc) \in ThreadRecords
          /\ snap(pc).pc = pc /\ snap(pc).plan = plan /\ snap(pc).ds = data
          /\ snap(pc).nested = FALSE
      BY <1>1, <2>1, SnapshotTyped
    <2> HIDE DEF snap
    <2>3. RecordInv(snap(pc), programStart)
      BY <1>1, <1>2, <2>2 DEF IInv, StartInv, RecordInv
    <2> QED
      BY <2>2, <2>3
  <1>3. \/ data # Nil /\ th' = [th EXCEPT !["loop"] = snap("tp")]
        \/ th' = [th EXCEPT !["loop"] = snap("decide")]
        \/ UNCHANGED th
    BY DEF LoopTick, plan
  <1>4. UNCHANGED <<state, data, programStart, lastUpdate, lastFullUpdate,
                    lastOnline, quiet, forceFull, curAddr, cmd, env>>
    BY DEF LoopTick
  <1>5. ThreadInv'
    <2>1. CASE data # Nil /\ th' = [th EXCEPT !["loop"] = snap("tp")]
      <3>1. snap("tp") \in ThreadRecords /\ RecordInv(snap("tp"), programStart)
        BY <2>1, <1>2
      <3> HIDE DEF snap
      <3> QED
        BY <3>1, <2>1, <1>4, ThreadStep DEF IInv, Threads
    <2>2. CASE th' = [th EXCEPT !["loop"] = snap("decide")]
      <3>1. snap("decide") \in ThreadRecords /\ RecordInv(snap("decide"), programStart)
        BY <1>2
      <3> HIDE DEF snap
      <3> QED
        BY <3>1, <2>2, <1>4, ThreadStep DEF IInv, Threads
    <2>3. CASE UNCHANGED th
      BY <2>3, <1>4 DEF IInv, ThreadInv
    <2> QED
      BY <1>3, <2>1, <2>2, <2>3
  <1>6. CoreInv' /\ StartInv' /\ AgesInv' /\ CommandInv' /\ EnvInv'
    BY <1>4 DEF IInv, CoreInv, OfflineHasNoData, StartInv, AgesInv, CommandInv,
                EnvInv, env
  <1>7. FlagsInv'
    BY <1>4 DEF IInv, FlagsInv, AgesInv, LoopTick
  <1> QED
    BY <1>5, <1>6, <1>7 DEF IInv

\* The loop turns its plan into the beginning of a routine.
LEMMA LoopDecideKeepsIInv ==
  ASSUME IInv, LoopDecide
  PROVE  IInv'
  <1> DEFINE plan == th["loop"].plan
             next == CASE plan = "broken" -> "broken"
                       [] plan = "full" -> "full_status"
                       [] OTHER -> "delta_status"
             r == [th["loop"] EXCEPT !.plan = "wait", !.pc = next]
  <1>1. th["loop"] \in ThreadRecords /\ RecordInv(th["loop"], programStart)
    BY UpdatesHoldTables DEF Threads
  <1>2. UNCHANGED <<state, data, programStart, lastOnline, quiet, idling,
                    curAddr, cmd, env>>
    BY DEF LoopDecide
  <1>3. ThreadInv'
    <2>1. CASE Finish("loop")
      BY <2>1, <1>2, FinishKeepsThreads DEF IInv, Threads
    <2>2. CASE BeginInit("loop")
      BY <2>2, <1>2, BeginInitKeepsThreads DEF IInv, Threads
    <2>3. CASE /\ plan \in {"broken", "full", "forced", "delta"}
               /\ th' = [th EXCEPT !["loop"] = r]
      <3>1. next \in Pcs
        BY DEF Pcs
      <3>2. next # "broken" => plan \in {"full", "forced", "delta"}
        BY <2>3
      <3>3. next \notin {"init_tables", "init_commit"}
        OBVIOUS
      <3> HIDE DEF next
      <3>4. r \in ThreadRecords
        BY <1>1, <3>1 DEF ThreadRecords, Plans
      <3>5. RecordInv(r, programStart)
        BY <1>1, <3>2, <3>3 DEF RecordInv, ThreadRecords
      <3> HIDE DEF r
      <3> QED
        BY <2>3, <1>2, <3>4, <3>5, ThreadStep DEF IInv, Threads
    <2> QED
      BY <2>1, <2>2, <2>3 DEF LoopDecide
  <1>4. AgesInv'
    BY <1>1, <1>2, CapsAreNat DEF IInv, AgesInv, LoopDecide, ThreadRecords
  <1>5. CoreInv' /\ StartInv' /\ CommandInv' /\ EnvInv'
    BY <1>2 DEF IInv, CoreInv, OfflineHasNoData, StartInv, CommandInv, EnvInv, env
  <1>6. FlagsInv'
    BY <1>2 DEF IInv, FlagsInv, LoopDecide
  <1> QED
    BY <1>3, <1>4, <1>5, <1>6 DEF IInv

\* The wait of a broken peer.
LEMMA BrokenKeepsIInv ==
  ASSUME IInv, handleBrokenPeer
  PROVE  IInv'
  <1> DEFINE again == BeginInit("loop") /\ lastUpdate' = 0 /\ lastFullUpdate' = 0
             done == Finish("loop") /\ UNCHANGED <<lastUpdate, lastFullUpdate>>
  <1>1. CASE Abort("loop")
    BY <1>1, AbortKeepsIInv DEF Threads
  <1>2. CASE /\ \E n \in Sources : Answered(n) /\ setNextAddrFromErr(n)
             /\ again \/ done
             /\ UNCHANGED <<programStart, lastOnline, quiet, idling, forceFull, cmd, env>>
    <2>1. CoreInv' /\ StartInv'
      BY <1>2, AnsweredKeepsCore DEF IInv, StartInv
    <2>2. ThreadInv'
      BY <1>2, FinishKeepsThreads, BeginInitKeepsThreads DEF IInv, Threads
    <2>3. AgesInv'
      BY <1>2, CapsAreNat DEF IInv, AgesInv
    <2>4. FlagsInv' /\ CommandInv' /\ EnvInv'
      BY <1>2 DEF IInv, FlagsInv, CommandInv, EnvInv, env
    <2> QED
      BY <2>1, <2>2, <2>3, <2>4 DEF IInv
  <1> QED
    BY <1>1, <1>2 DEF handleBrokenPeer

\* SpinUpPeers and ResumeFromIdle pick up the tables of an idling peer.
LEMMA ResumeKeepsIInv ==
  ASSUME IInv, ResumeBegin \/ ResumeDecide
  PROVE  IInv'
  <1>1. CASE ResumeBegin
    <2> DEFINE r == [Idle EXCEPT !.pc = "decide", !.ds = data]
    <2>1. r \in ThreadRecords
      <3>1. data \in 0 .. MaxRestarts
        BY DEF IInv, CoreInv
      <3> QED
        BY <3>1, IdleTyped DEF ThreadRecords, Pcs
    <2>2. RecordInv(r, programStart)
      <3>1. r.pc = "decide" /\ r.plan = "wait" /\ r.nested = FALSE /\ r.ds = data
        BY DEF Idle
      <3> HIDE DEF r
      <3> QED
        BY <3>1 DEF IInv, StartInv, RecordInv
    <2> HIDE DEF r
    <2>3. th' = [th EXCEPT !["resume"] = r] /\ programStart' = programStart
      BY <1>1 DEF ResumeBegin, r
    <2>4. ThreadInv'
      BY <2>1, <2>2, <2>3, ThreadStep DEF IInv, Threads
    <2>5. CoreInv' /\ StartInv' /\ FlagsInv' /\ CommandInv' /\ EnvInv'
      BY <1>1 DEF IInv, ResumeBegin, CoreInv, OfflineHasNoData, StartInv, FlagsInv,
                  CommandInv, EnvInv, env
    <2>6. AgesInv'
      BY <1>1, CapsAreNat DEF IInv, ResumeBegin, AgesInv
    <2> QED
      BY <2>4, <2>5, <2>6 DEF IInv
  <1>2. CASE ResumeDecide
    <2>1. ThreadInv'
      <3>1. CASE Finish("resume")
        BY <3>1, <1>2, FinishKeepsThreads DEF IInv, ResumeDecide, Threads
      <3>2. CASE th["resume"].ds # Nil /\ Goto("resume", "tp")
        BY <3>2, <1>2, GotoKeepsThreads DEF IInv, ResumeDecide, Threads, Pcs
      <3> QED
        BY <1>2, <3>1, <3>2 DEF ResumeDecide
    <2>2. CoreInv' /\ StartInv' /\ FlagsInv' /\ CommandInv' /\ EnvInv'
      BY <1>2 DEF IInv, ResumeDecide, CoreInv, OfflineHasNoData, StartInv, FlagsInv,
                  CommandInv, EnvInv, env
    <2>3. AgesInv'
      BY <1>2, CapsAreNat DEF IInv, ResumeDecide, AgesInv
    <2> QED
      BY <2>1, <2>2, <2>3 DEF IInv
  <1> QED
    BY <1>1, <1>2

\* Requests for cached data and queries that are passed through.
LEMMA ClientKeepsIInv ==
  ASSUME IInv, ClientGet \/ ClientQuery
  PROVE  IInv'
  <1>1. CASE ClientGet
    <2>1. AgesInv'
      BY <1>1, CapsAreNat DEF IInv, ClientGet, AgesInv
    <2> QED
      BY <1>1, <2>1 DEF IInv, ClientGet, CoreInv, OfflineHasNoData, StartInv,
                        FlagsInv, ThreadInv, CommandInv, EnvInv, env
  <1>2. CASE ClientQuery
    <2>1. CoreInv' /\ (data' # Nil => data # Nil)
      BY <1>2, QueryFailsKeepsCore, ErrorsKeepCore DEF IInv, ClientQuery, Sources
    <2> QED
      BY <1>2, <2>1 DEF IInv, ClientQuery, StartInv, AgesInv, FlagsInv,
                        ThreadInv, CommandInv, EnvInv, env
  <1> QED
    BY <1>1, <1>2

\* The steps of SendCommandsWithRetry; only a failed connect leads to another
\* attempt, and it has sent nothing.
LEMMA CommandSendKeepsIInv ==
  ASSUME IInv, CommandSend
  PROVE  IInv'
  <1>1. CoreInv' /\ (data' # Nil => data # Nil)
    <2>1. CASE ConnectionFails \/ ResponseFails
      BY <2>1, QueryFailsKeepsCore DEF IInv, QueryFails
    <2>2. CASE \E n \in Sources : Answered(n) /\ setNextAddrFromErr(n)
      BY <2>2, AnsweredKeepsCore DEF IInv
    <2> QED
      BY <2>1, <2>2 DEF CommandSend
  <1>2. CommandInv'
    <2>1. cmd.sent = 0 /\ cmd \in CommandRecords
      BY DEF IInv, CommandInv, CommandSend
    <2> QED
      BY <2>1 DEF CommandInv, CommandSend, commandFailed, CommandAt, CommandRecords,
                  CmdPcs
  <1> QED
    BY <1>1, <1>2 DEF IInv, CommandSend, StartInv, AgesInv, FlagsInv,
                      ThreadInv, EnvInv, env

\* Every step of SendCommandsWithRetry keeps the invariant.
LEMMA CommandKeepsIInv ==
  ASSUME IInv, CommandBegin \/ CommandStep
  PROVE  IInv'
  <1>1. CASE CommandBegin
    <2>1. CommandInv'
      BY <1>1 DEF CommandInv, CommandBegin, NoCommand, CommandAt, CommandRecords, CmdPcs
    <2>2. AgesInv'
      BY <1>1, CapsAreNat DEF IInv, CommandBegin, AgesInv, statusButQuery
    <2> QED
      BY <1>1, <2>1, <2>2 DEF IInv, CommandBegin, statusButQuery, CoreInv, StartInv,
             OfflineHasNoData, FlagsInv, ThreadInv, EnvInv, env
  <1>2. CASE CommandCheck
    <2>1. CommandInv'
      BY <1>2 DEF IInv, CommandInv, CommandCheck, CommandAt, CommandRecords, CmdPcs
    <2> QED
      BY <1>2, <2>1 DEF IInv, CommandCheck, status, CoreInv, StartInv, AgesInv,
             OfflineHasNoData, FlagsInv, ThreadInv, EnvInv, env
  <1>3. CASE CommandSend
    BY <1>3, CommandSendKeepsIInv
  <1>4. CASE ScheduleImmediateUpdate
    <2>1. CommandInv'
      BY <1>4 DEF IInv, CommandInv, CommandRecords, CommandAt,
                  ScheduleImmediateUpdate, CmdPcs
    <2>2. AgesInv'
      BY <1>4, CapsAreNat DEF IInv, ScheduleImmediateUpdate, AgesInv
    <2> QED
      BY <1>4, <2>1, <2>2 DEF IInv, ScheduleImmediateUpdate, CoreInv, StartInv,
             OfflineHasNoData, FlagsInv, ThreadInv, EnvInv, env
  <1>5. CASE CommandForce
    <2>1. CommandInv'
      BY <1>5 DEF IInv, CommandInv, CommandRecords, CommandAt,
                  CommandForce, CmdPcs
    <2>2. FlagsInv'
      BY <1>5 DEF IInv, CommandForce, FlagsInv
    <2> QED
      BY <1>5, <2>1, <2>2 DEF IInv, CommandForce, CoreInv, StartInv, AgesInv,
             OfflineHasNoData, ThreadInv, EnvInv, env
  <1> QED
    BY <1>1, <1>2, <1>3, <1>4, <1>5 DEF CommandStep

\* The remote site restarts, or changes how it can be reached.
LEMMA SiteKeepsIInv ==
  ASSUME IInv, SiteRestarts \/ SiteChanges
  PROVE  IInv'
  <1>1. EnvInv'
    BY DEF IInv, EnvInv, SiteRestarts, SiteChanges, Incarnations
  <1> QED
    BY <1>1 DEF IInv, SiteRestarts, SiteChanges, status, CoreInv, StartInv, AgesInv,
           OfflineHasNoData, FlagsInv, ThreadInv, CommandInv

\* Time passes.
LEMMA ClockKeepsIInv ==
  ASSUME IInv, Clock
  PROVE  IInv'
  <1>1. AgesInv'
    BY CapsAreNat, OlderInRange DEF IInv, AgesInv, Clock
  <1>2. ThreadInv'
    <2>1. ASSUME NEW t \in Threads
          PROVE  th'[t] \in ThreadRecords /\ RecordInv(th'[t], programStart')
      <3>1. th[t] \in ThreadRecords /\ RecordInv(th[t], programStart)
        BY UpdatesHoldTables
      <3>2. Older(th[t].to, UpdateCap) \in 0 .. UpdateCap
        BY <3>1, CapsAreNat, OlderInRange DEF ThreadRecords
      <3>3. programStart' = programStart
        BY DEF Clock
      <3>4. CASE th'[t] = th[t]
        BY <3>1, <3>3, <3>4
      <3>5. CASE th'[t] = [th[t] EXCEPT !.to = Older(th[t].to, UpdateCap)]
        BY <3>1, <3>2, <3>3, <3>5 DEF RecordInv, ThreadRecords
      <3> QED
        BY <3>4, <3>5 DEF Clock
    <2>2. th' = [t \in Threads |-> th'[t]]
      BY DEF Clock
    <2> QED
      BY <2>1, <2>2 DEF ThreadInv
  <1> QED
    BY <1>1, <1>2 DEF IInv, Clock, CoreInv, StartInv, OfflineHasNoData, FlagsInv,
           CommandInv, EnvInv, env

\* The steps that an update of either goroutine consists of.
LEMMA UpdateStepKeepsIInv ==
  ASSUME IInv, NEW t \in Threads, UpdateStep(t)
  PROVE  IInv'
  BY InitStatusKeepsIInv, InitTablesKeepsIInv, InitCommitKeepsIInv,
     UpdateStatusKeepsIInv, FullTablesKeepsIInv, CommitKeepsIInv,
     DeltaTablesKeepsIInv, TimeperiodsKeepsIInv DEF UpdateStep

\* Every step keeps the inductive invariant.
LEMMA NextIInv == IInv /\ [Next]_vars => IInv'
  <1> SUFFICES ASSUME IInv, [Next]_vars PROVE IInv'
    OBVIOUS
  <1>1. CASE LoopStep
    BY <1>1, LoopTickKeepsIInv, LoopDecideKeepsIInv, BrokenKeepsIInv,
       UpdateStepKeepsIInv DEF LoopStep, Threads
  <1>2. CASE ResumeBegin \/ ResumeStep
    BY <1>2, ResumeKeepsIInv, UpdateStepKeepsIInv DEF ResumeStep, Threads
  <1>3. CASE ClientGet \/ ClientQuery
    BY <1>3, ClientKeepsIInv
  <1>4. CASE CommandBegin \/ CommandStep
    BY <1>4, CommandKeepsIInv
  <1>5. CASE SiteRestarts \/ SiteChanges
    BY <1>5, SiteKeepsIInv
  <1>6. CASE Clock
    BY <1>6, ClockKeepsIInv
  <1>7. CASE UNCHANGED vars
    BY <1>7 DEF vars, IInv, CoreInv, StartInv, OfflineHasNoData, AgesInv, FlagsInv,
           ThreadInv, CommandInv, EnvInv
  <1> QED
    BY <1>1, <1>2, <1>3, <1>4, <1>5, <1>6, <1>7 DEF Next

\* IInv is an invariant of every instance.
THEOREM Inductive == Spec => []IInv
  BY InitIInv, NextIInv, PTL DEF Spec

\* Every variable of a peer keeps its type: in particular CurPeerAddrNum always
\* is the index of a source, however many failing queries move it at a time.
THEOREM TypeCorrect == Spec => []TypeOK
  <1>1. IInv => TypeOK
    BY DEF IInv, CoreInv, StartInv, AgesInv, FlagsInv, ThreadInv, CommandInv,
           EnvInv, TypeOK
  <1> QED
    BY <1>1, Inductive, PTL

\* A peer whose state says that it is offline holds no tables, whatever updates
\* of other goroutines are under way.
THEOREM OfflineSafe == Spec => []OfflineHasNoData
  <1>1. IInv => OfflineHasNoData
    BY DEF IInv, CoreInv
  <1> QED
    BY <1>1, Inductive, PTL

\* CheckBackendRestarted never runs on tables without a start time to compare.
THEOREM RestartArmed == Spec => []RestartCheckArmed
  <1>1. IInv => RestartCheckArmed
    BY DEF IInv, StartInv, ThreadInv, RecordInv, RestartCheckArmed
  <1> QED
    BY <1>1, Inductive, PTL

\* SendCommandsWithRetry delivers a list of commands at most once.
THEOREM CommandOnce == Spec => []CommandAtMostOnce
  <1>1. IInv => CommandAtMostOnce
    BY DEF IInv, CommandInv, CommandAtMostOnce
  <1> QED
    BY <1>1, Inductive, PTL
=============================================================================
