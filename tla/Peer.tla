-------------------------------- MODULE Peer --------------------------------
(***************************************************************************)
(* The life of one backend connection of LMD (lmd/peer.go, and the update  *)
(* routines of lmd/datastoreset.go it calls): the update loop, a spin-up   *)
(* update started by a client on an idling peer, a client sending a        *)
(* command, and other client queries, all of them working on the same peer *)
(* status under Peer.Lock, which is held for single assignments only and   *)
(* never across a query.  A step of this module is one critical section or *)
(* one remote query together with the critical sections of its result.     *)
(*                                                                         *)
(* Data.  The remote site is its incarnation: a number that changes when   *)
(* the core restarts (program_start and nagios_pid together).  The cached  *)
(* object tables are the incarnation they were created from, Nil when      *)
(* Peer.data is nil.  ObjectCount gives the number of objects of an        *)
(* incarnation, which is all an update compares.                           *)
(*                                                                         *)
(* Time.  A timestamp ts is kept as its age, now - ts, saturated just      *)
(* above the largest value the code compares it with.  A timestamp that is *)
(* still 0 has the saturated age.  With LastOnline = 0 the test            *)
(* LastOnline < now - StaleBackendTimeout holds at every real time, so the *)
(* second half of that condition in setNextAddrFromErr, the only reader of *)
(* ErrorCount, never decides and ErrorCount is left out.                   *)
(***************************************************************************)
EXTENDS Integers

CONSTANTS
  NumSources,           \* number of addresses of this backend, len(Source)
  MaxRestarts,          \* bound: number of incarnations of the remote site
  MaxFaults,            \* bound: number of changes of the environment
  Answers,              \* the ways in which the site answers, see AnswerKinds
  ObjectCount,          \* number of objects of each incarnation
  Icinga2,              \* the remote site has the Icinga2 flag
  HasLastUpdateColumn,  \* the remote site has the last_update column
  Updateinterval, IdleInterval, FullUpdateInterval,
  IdleTimeout, StaleBackendTimeout,
  Clients               \* the kinds of clients at work, see ClientKinds

Nil == 0
Incarnations == 1 .. MaxRestarts
Sources == 0 .. NumSources - 1
ClientKinds == {"get", "command", "query"}

\* ok: complete and well-formed.  empty: a status table without rows.
\* garbage: every query fails after the connect.  odd: tables that cannot be
\* stored, an error which Query does not see.  more: more objects than LMD
\* got when it created its tables.
AnswerKinds == {"ok", "empty", "garbage", "odd", "more"}

ASSUME NumSourcesAssumption == NumSources \in Nat \ {0}
ASSUME BoundsAssumption == MaxRestarts \in Nat \ {0} /\ MaxFaults \in Nat
ASSUME AnswersAssumption == Answers \subseteq AnswerKinds /\ "ok" \in Answers
ASSUME ObjectCountAssumption == ObjectCount \in [Incarnations -> Nat]
ASSUME FlagsAssumption == Icinga2 \in BOOLEAN /\ HasLastUpdateColumn \in BOOLEAN
ASSUME IntervalsAssumption ==
  /\ Updateinterval \in Nat \ {0}
  /\ IdleInterval \in Nat \ {0}
  /\ FullUpdateInterval \in Nat
  /\ IdleTimeout \in Nat
  /\ StaleBackendTimeout \in Nat
ASSUME ClientsAssumption == Clients \subseteq ClientKinds

VARIABLES
  state,          \* Status[PeerState]
  data,           \* Peer.data
  programStart,   \* Status[ProgramStart] and Status[LastPid], Nil when 0
  lastUpdate,     \* age of Status[LastUpdate]
  lastFullUpdate, \* age of Status[LastFullUpdate]
  lastOnline,     \* age of Status[LastOnline]
  quiet,          \* age of Status[LastQuery], of lastMainRestart when 0
  idling,         \* Status[Idling]
  forceFull,      \* Status[ForceFull]
  curAddr,        \* Status[CurPeerAddrNum]
  th,             \* the goroutines that update this peer
  cmd,            \* a goroutine in SendCommandsWithRetry
  site,           \* the incarnation of the remote site
  reachable,      \* the sources that accept connections
  answer,         \* how the site answers
  faults          \* changes of the environment so far

status == <<state, data, programStart, lastUpdate, lastFullUpdate, lastOnline,
            quiet, idling, forceFull, curAddr>>
env == <<site, reachable, answer, faults>>
vars == <<state, data, programStart, lastUpdate, lastFullUpdate, lastOnline,
          quiet, idling, forceFull, curAddr, th, cmd,
          site, reachable, answer, faults>>

States == {"up", "warning", "down", "broken", "pending"}

\* loop is updateLoop, resume the goroutine SpinUpPeers starts.
Threads == {"loop", "resume"}
Plans == {"wait", "broken", "init", "full", "forced", "delta"}
Pcs == {"idle", "tp", "decide", "broken",
        "init_status", "init_tables", "init_commit",
        "full_status", "full_tables", "full_commit",
        "delta_status", "delta_tables", "delta_commit"}
CmdPcs == {"idle", "check", "send", "sched", "force", "panic"}

Larger(a, b) == IF a > b THEN a ELSE b
Smaller(a, b) == IF a < b THEN a ELSE b
UpdateCap == Larger(Updateinterval, IdleInterval) + 1
FullCap == FullUpdateInterval + 1
OnlineCap == StaleBackendTimeout + 1
QuietCap == IdleTimeout + 1
Older(age, cap) == Smaller(age + 1, cap)

Idle == [pc |-> "idle", plan |-> "wait", ds |-> Nil, new |-> Nil, to |-> 0,
         nested |-> FALSE]
CommandAt(pc, retries, sent) == [pc |-> pc, retries |-> retries, sent |-> sent]
NoCommand == CommandAt("idle", 0, 0)

\* NewPeer, and Start: the loop's first step is InitAllTables.
Init ==
  /\ state = "pending" /\ data = Nil /\ programStart = Nil
  /\ lastUpdate = 0 /\ lastFullUpdate = 0
  /\ lastOnline = OnlineCap /\ quiet = 0
  /\ idling = FALSE /\ forceFull = FALSE /\ curAddr = 0
  /\ th = [t \in Threads |-> IF t = "loop" THEN [Idle EXCEPT !.pc = "init_status"]
                                           ELSE Idle]
  /\ cmd = NoCommand
  /\ site = 1
  /\ reachable \in SUBSET Sources
  /\ answer \in Answers
  /\ faults = 0

(***************************************************************************)
(* Connections and queries.                                                *)
(***************************************************************************)
\* The effect on the peer of n calls of setNextAddrFromErr in a row.
NeverStale == FALSE                      \* mutant: the timeout never strikes
IsStale == lastOnline > StaleBackendTimeout
StateAfter(n) ==
  IF n = 0 THEN state
  ELSE IF IsStale THEN "down"
  ELSE IF state \in {"up", "pending"} THEN "warning"
  ELSE state
DataAfter(n) == IF n > 0 /\ IsStale THEN Nil ELSE data
AddrNoWrap(n) == curAddr + n             \* mutant: no way back to the first source
AddrAfter(n) == (curAddr + n) % NumSources
setNextAddrFromErr(n) ==
  /\ state' = StateAfter(n)
  /\ data' = DataAfter(n)
  /\ curAddr' = AddrAfter(n)

\* GetConnection tries every source once, beginning with the current one:
\* the number of sources that refuse before one accepts.
IsRefusals(n) ==
  /\ \A i \in 0 .. n - 1 : AddrAfter(i) \notin reachable
  /\ n = NumSources \/ AddrAfter(n) \in reachable

\* A query that gets its answer; n failed dials may come before it.
Answered(n) ==
  /\ n \in 0 .. NumSources - 1
  /\ IsRefusals(n)
  /\ answer # "garbage"

\* No source accepts: one error for each dial and one for the whole query.
ConnectionFails == reachable = {} /\ setNextAddrFromErr(NumSources + 1)

\* The connection is accepted but the response cannot be used.
ResponseFails ==
  /\ answer = "garbage"
  /\ \E n \in 0 .. NumSources - 1 : IsRefusals(n) /\ setNextAddrFromErr(n + 1)

QueryFails == ConnectionFails \/ ResponseFails

Goto(t, pc) == th' = [th EXCEPT ![t].pc = pc]
Finish(t) == th' = [th EXCEPT ![t] = Idle]
BeginInit(t) == th' = [th EXCEPT ![t] = [Idle EXCEPT !.pc = "init_status"]]

\* A query of thread t fails and its routine returns the error.
Abort(t) ==
  /\ QueryFails
  /\ Finish(t)
  /\ UNCHANGED <<programStart, lastUpdate, lastFullUpdate, lastOnline, quiet,
                 idling, forceFull, cmd, env>>

\* A query of thread t is answered but its result cannot be used; the error
\* does not pass through setNextAddrFromErr.
AbortOdd(t) ==
  /\ answer = "odd"
  /\ \E n \in Sources : Answered(n) /\ setNextAddrFromErr(n)
  /\ Finish(t)
  /\ UNCHANGED <<programStart, lastUpdate, lastFullUpdate, lastOnline, quiet,
                 idling, forceFull, cmd, env>>

\* An update returns a RestartRequiredError.  updateLoop answers it with
\* InitAllTables, SpinUpPeers only logs it.
RestartRequired(t) ==
  /\ \E n \in Sources : Answered(n) /\ setNextAddrFromErr(n)
  /\ IF t = "loop"
       THEN BeginInit(t) /\ lastUpdate' = 0 /\ lastFullUpdate' = 0
       ELSE Finish(t) /\ UNCHANGED <<lastUpdate, lastFullUpdate>>
  /\ UNCHANGED <<programStart, lastOnline, quiet, idling, forceFull, cmd, env>>

resetNoState == UNCHANGED state /\ lastOnline' = 0   \* mutant: leaves the state alone
resetErrors == state' = "up" /\ lastOnline' = 0

(***************************************************************************)
(* InitAllTables: status table first, then all others, then the new tables *)
(* are published.  Run by the loop, or inside a delta update (nested).     *)
(***************************************************************************)
\* updateInitialStatus when the status table has rows.
initialStatusNoStart(n) == setNextAddrFromErr(n) /\ UNCHANGED programStart   \* mutant
updateInitialStatus(n) == setNextAddrFromErr(n) /\ programStart' = site

InitStatus(t) ==
  /\ th[t].pc = "init_status"
  /\ \/ Abort(t)
     \/ AbortOdd(t)
     \/ \E n \in Sources :
          /\ Answered(n)
          /\ answer = "empty"
          /\ state' = "down"
          /\ data' = Nil
          /\ curAddr' = AddrAfter(n)
          /\ Finish(t)
          /\ lastUpdate' = 0 /\ lastFullUpdate' = 0
          /\ UNCHANGED <<programStart, lastOnline, quiet, idling, forceFull, cmd, env>>
     \/ \E n \in Sources :
          /\ Answered(n)
          /\ answer # "empty"
          /\ updateInitialStatus(n)
          /\ Goto(t, "init_tables")
          /\ lastUpdate' = 0 /\ lastFullUpdate' = 0
          /\ UNCHANGED <<lastOnline, quiet, idling, forceFull, cmd, env>>

InitTables(t) ==
  /\ th[t].pc = "init_tables"
  /\ \/ Abort(t)
     \/ AbortOdd(t)
     \/ \E n \in Sources :
          /\ Answered(n)
          /\ answer # "odd"
          /\ setNextAddrFromErr(n)
          /\ th' = [th EXCEPT ![t].pc = "init_commit", ![t].new = site]
          /\ lastUpdate' = 0 /\ lastFullUpdate' = 0
          /\ UNCHANGED <<programStart, lastOnline, quiet, idling, forceFull, cmd, env>>

\* mutant: a peer that went down meanwhile stays down
publishWhileDown(ds) ==
  /\ data' = ds
  /\ IF state \notin {"up", "down"} THEN resetErrors ELSE UNCHANGED <<state, lastOnline>>
publish(ds) ==
  /\ data' = ds
  /\ IF state # "up" THEN resetErrors ELSE UNCHANGED <<state, lastOnline>>

InitCommit(t) ==
  /\ th[t].pc = "init_commit"
  /\ publish(th[t].new)
  /\ IF th[t].nested
       THEN th' = [th EXCEPT ![t].pc = "delta_tables", ![t].new = Nil, ![t].nested = FALSE]
       ELSE Finish(t)
  /\ UNCHANGED <<programStart, lastUpdate, lastFullUpdate, quiet, idling,
                 forceFull, curAddr, cmd, env>>

(***************************************************************************)
(* UpdateFull and UpdateDelta on the tables the thread has picked up,      *)
(* which need not be the ones in data any more.                            *)
(***************************************************************************)
\* CheckBackendRestarted, and the row count of the status table.
RestartUnseen == answer = "empty"        \* mutant: start times are not compared
RestartSeen == answer = "empty" \/ (programStart # Nil /\ site # programStart)
CountDiffers(ds) == ObjectCount[ds] # ObjectCount[site] \/ answer = "more"
CountGrew(ds) == ObjectCount[ds] < ObjectCount[site] \/ answer = "more"

Continue(t, pc) ==
  /\ \E n \in Sources : Answered(n) /\ setNextAddrFromErr(n)
  /\ Goto(t, pc)
  /\ UNCHANGED <<programStart, lastUpdate, lastFullUpdate, lastOnline, quiet,
                 idling, forceFull, cmd, env>>

\* The status table, which both kinds of update begin with.
UpdateStatus(t, pc, next) ==
  /\ th[t].pc = pc
  /\ \/ Abort(t)
     \/ AbortOdd(t)
     \/ RestartSeen /\ RestartRequired(t)
     \/ ~RestartSeen /\ Continue(t, next)

FullTables(t) ==
  /\ th[t].pc = "full_tables"
  /\ \/ Abort(t)
     \/ AbortOdd(t)
     \/ CountDiffers(th[t].ds) /\ RestartRequired(t)
     \/ ~CountDiffers(th[t].ds) /\ answer # "odd" /\ Continue(t, "full_commit")

FullCommit(t) ==
  /\ th[t].pc = "full_commit"
  /\ resetErrors
  /\ lastUpdate' = 0 /\ lastFullUpdate' = 0
  /\ Finish(t)
  /\ UNCHANGED <<data, programStart, quiet, idling, forceFull, curAddr, cmd, env>>

\* An object of the answer is not in the tables: an error, and no more.
UnknownObject(t) ==
  /\ th[t].ds # site
  /\ \E n \in Sources : Answered(n) /\ setNextAddrFromErr(n)
  /\ Finish(t)
  /\ UNCHANGED <<programStart, lastUpdate, lastFullUpdate, lastOnline, quiet,
                 idling, forceFull, cmd, env>>

\* mutant: the tables are kept
setBrokenWithData(n) ==
  /\ state' = "broken"
  /\ UNCHANGED data
  /\ curAddr' = AddrAfter(n)
setBroken(n) ==
  /\ state' = "broken"
  /\ data' = Nil
  /\ curAddr' = AddrAfter(n)

\* getMissingTimestamps finds more objects than the tables hold.
ScanFindsMore(t) ==
  /\ CountGrew(th[t].ds)
  /\ \E n \in Sources :
       /\ Answered(n)
       /\ IF Icinga2 \/ ObjectCount[th[t].ds] = 0
            THEN /\ setNextAddrFromErr(n)
                 /\ th' = [th EXCEPT ![t].pc = "init_status", ![t].nested = TRUE]
                 /\ lastUpdate' = 0 /\ lastFullUpdate' = 0
            ELSE /\ setBroken(n)
                 /\ Finish(t)
                 /\ UNCHANGED <<lastUpdate, lastFullUpdate>>
  /\ UNCHANGED <<programStart, lastOnline, quiet, idling, forceFull, cmd, env>>

DeltaTables(t) ==
  /\ th[t].pc = "delta_tables"
  /\ \/ Abort(t)
     \/ AbortOdd(t)
     \/ UnknownObject(t)
     \/ ScanFindsMore(t)
     \/ answer # "odd" /\ Continue(t, "delta_commit")

DeltaCommit(t) ==
  /\ th[t].pc = "delta_commit"
  /\ resetErrors
  /\ lastUpdate' = th[t].to
  /\ Finish(t)
  /\ UNCHANGED <<data, programStart, lastFullUpdate, quiet, idling, forceFull,
                 curAddr, cmd, env>>

(***************************************************************************)
(* The update loop: periodicUpdate works on a copy of the status that it   *)
(* takes at the beginning.                                                 *)
(***************************************************************************)
UpdatePlan(full) ==
  IF state = "broken" THEN "broken"
  ELSE IF state \in {"down", "pending"} \/ data = Nil THEN "init"
  ELSE IF state = "warning" \/ full THEN "full"
  ELSE IF forceFull THEN "forced" ELSE "delta"
Snapshot(pc, plan) == [Idle EXCEPT !.pc = pc, !.plan = plan, !.ds = data]

LoopTick ==
  LET idle == idling \/ quiet > IdleTimeout
      due  == lastUpdate >= (IF idle THEN IdleInterval ELSE Updateinterval)
      full == ~idle /\ FullUpdateInterval > 0 /\ lastFullUpdate > FullUpdateInterval
      plan == IF due THEN UpdatePlan(full) ELSE "wait"
  IN /\ th["loop"].pc = "idle"
     /\ idling' = idle
     /\ \/ /\ ~idle /\ data # Nil      \* a new minute has begun
           /\ th' = [th EXCEPT !["loop"] = Snapshot("tp", plan)]
        \/ /\ due
           /\ th' = [th EXCEPT !["loop"] = Snapshot("decide", plan)]
        \/ /\ ~due
           /\ UNCHANGED th
     /\ UNCHANGED <<state, data, programStart, lastUpdate, lastFullUpdate,
                    lastOnline, quiet, forceFull, curAddr, cmd, env>>

\* periodicTimeperiodsUpdate, and the first update of ResumeFromIdle.
TimeperiodsUpdate(t) ==
  /\ th[t].pc = "tp"
  /\ \/ Abort(t)
     \/ AbortOdd(t)
     \/ CountDiffers(th[t].ds) /\ RestartRequired(t)
     \/ answer # "odd" /\ Continue(t, IF t = "loop" THEN "decide" ELSE "delta_status")

LoopDecide ==
  LET plan == th["loop"].plan
  IN /\ th["loop"].pc = "decide"
     /\ \/ /\ plan = "wait"
           /\ Finish("loop")
           /\ UNCHANGED <<lastUpdate, lastFullUpdate>>
        \/ /\ plan = "init"
           /\ BeginInit("loop")
           /\ lastUpdate' = 0 /\ lastFullUpdate' = 0
        \/ /\ plan \in {"broken", "full", "forced", "delta"}
           /\ lastUpdate' = th["loop"].to
           /\ th' = [th EXCEPT !["loop"].plan = "wait",
                               !["loop"].pc = CASE plan = "broken" -> "broken"
                                                [] plan = "full" -> "full_status"
                                                [] OTHER -> "delta_status"]
           /\ UNCHANGED lastFullUpdate
     /\ forceFull' = (forceFull /\ plan # "forced")
     /\ UNCHANGED <<state, data, programStart, lastOnline, quiet, idling,
                    curAddr, cmd, env>>

handleBrokenPeer ==
  /\ th["loop"].pc = "broken"
  /\ \/ Abort("loop")
     \/ /\ \E n \in Sources : Answered(n) /\ setNextAddrFromErr(n)
        /\ IF answer \notin {"empty", "odd"} /\ site # programStart
             THEN BeginInit("loop") /\ lastUpdate' = 0 /\ lastFullUpdate' = 0
             ELSE Finish("loop") /\ UNCHANGED <<lastUpdate, lastFullUpdate>>
        /\ UNCHANGED <<programStart, lastOnline, quiet, idling, forceFull, cmd, env>>

(***************************************************************************)
(* Clients.                                                                *)
(***************************************************************************)
\* NewResponse for an idling peer: SpinUpPeers runs ResumeFromIdle, which
\* first takes a copy of data ...
ResumeBegin ==
  /\ "get" \in Clients
  /\ idling
  /\ th["resume"].pc = "idle"
  /\ quiet' = 0
  /\ th' = [th EXCEPT !["resume"] = [Idle EXCEPT !.pc = "decide", !.ds = data]]
  /\ UNCHANGED <<state, data, programStart, lastUpdate, lastFullUpdate,
                 lastOnline, idling, forceFull, curAddr, cmd, env>>

\* ... and then looks at the state of the peer.
ResumeDecide ==
  /\ th["resume"].pc = "decide"
  /\ idling' = FALSE
  /\ IF state = "up" /\ th["resume"].ds # Nil
       THEN Goto("resume", "tp") /\ UNCHANGED lastUpdate
       ELSE Finish("resume") /\ lastUpdate' = Updateinterval
  /\ UNCHANGED <<state, data, programStart, lastFullUpdate, lastOnline, quiet,
                 forceFull, curAddr, cmd, env>>

\* BuildLocalResponse for any other data request.
ClientGet ==
  /\ "get" \in Clients
  /\ quiet' = 0
  /\ UNCHANGED <<state, data, programStart, lastUpdate, lastFullUpdate,
                 lastOnline, idling, forceFull, curAddr, th, cmd, env>>

\* The queries of passthrough requests and wait conditions change the peer
\* only by failing.
ClientQuery ==
  /\ "query" \in Clients
  /\ \/ QueryFails
     \/ \E n \in Sources : n > 0 /\ IsRefusals(n) /\ setNextAddrFromErr(n)
  /\ UNCHANGED <<programStart, lastUpdate, lastFullUpdate, lastOnline, quiet,
                 idling, forceFull, th, cmd, env>>

(***************************************************************************)
(* SendCommandsWithRetry for one list of commands.  cmd.sent counts how    *)
(* often the remote site has received it.                                  *)
(***************************************************************************)
statusButQuery == <<state, data, programStart, lastUpdate, lastFullUpdate,
                    lastOnline, forceFull, curAddr>>

CommandBegin ==
  /\ "command" \in Clients
  /\ cmd.pc = "idle"
  /\ cmd' = CommandAt("check", 0, 0)
  /\ quiet' = 0
  /\ idling' = FALSE
  /\ UNCHANGED <<statusButQuery, th, env>>

\* The peer's state decides; the sleep in state warning or pending is no step.
\* The panic ends the whole process (logPanicExitPeer); what the other
\* goroutines still do in the model after it says nothing.
CommandCheck ==
  /\ cmd.pc = "check"
  /\ \/ state = "down" /\ cmd' = CommandAt("idle", 0, cmd.sent)
     \/ state = "up" /\ cmd' = CommandAt("send", cmd.retries, cmd.sent)
     \/ state = "broken" /\ cmd' = CommandAt("panic", cmd.retries, cmd.sent)
  /\ UNCHANGED <<status, th, env>>

\* The end of SendCommandsWithRetry after an error other than a failed
\* connect, sent being how often the command has got through.
commandRetried(sent) == CommandAt("check", 1, sent)   \* mutant
commandFailed(sent) == CommandAt("idle", 0, sent)

CommandSend ==
  /\ cmd.pc = "send"
  /\ \/ /\ ConnectionFails
        /\ cmd' = IF cmd.retries > 0 THEN commandFailed(cmd.sent)
                  ELSE CommandAt("check", 1, cmd.sent)
     \/ \* an error after the connect: the command may have got through
        /\ ResponseFails
        /\ \E got \in {0, 1} :
             cmd' = commandFailed(cmd.sent + got)
     \/ \* rejected, a PeerCommandError
        /\ \E n \in Sources : Answered(n) /\ setNextAddrFromErr(n)
        /\ cmd' = CommandAt("idle", 0, cmd.sent + 1)
     \/ \* accepted
        /\ \E n \in Sources : Answered(n) /\ setNextAddrFromErr(n)
        /\ cmd' = CommandAt("sched", cmd.retries, cmd.sent + 1)
  /\ UNCHANGED <<programStart, lastUpdate, lastFullUpdate, lastOnline, quiet,
                 idling, forceFull, th, env>>

ScheduleImmediateUpdate ==
  /\ cmd.pc = "sched"
  /\ lastUpdate' = Updateinterval + 1
  /\ cmd' = CommandAt("force", cmd.retries, cmd.sent)
  /\ UNCHANGED <<state, data, programStart, lastFullUpdate, lastOnline, quiet,
                 idling, forceFull, curAddr, th, env>>

CommandForce ==
  /\ cmd.pc = "force"
  /\ forceFull' = (forceFull \/ ~HasLastUpdateColumn)
  /\ cmd' = CommandAt("idle", 0, cmd.sent)
  /\ UNCHANGED <<state, data, programStart, lastUpdate, lastFullUpdate,
                 lastOnline, quiet, idling, curAddr, th, env>>

CommandStep == CommandCheck \/ CommandSend \/ ScheduleImmediateUpdate \/ CommandForce

(***************************************************************************)
(* The remote site, its sources, and time.                                 *)
(***************************************************************************)
SiteRestarts ==
  /\ site < MaxRestarts
  /\ site' = site + 1
  /\ UNCHANGED <<status, th, cmd, reachable, answer, faults>>

SiteChanges ==
  /\ faults < MaxFaults
  /\ faults' = faults + 1
  /\ \/ reachable' \in SUBSET Sources /\ UNCHANGED answer
     \/ answer' \in Answers /\ UNCHANGED reachable
  /\ UNCHANGED <<status, th, cmd, site>>

\* A routine that still holds the time it began at.
KeepsTime(t) ==
  \/ th[t].nested
  \/ th[t].pc \in {"delta_status", "delta_tables", "delta_commit"}
  \/ t = "loop" /\ th[t].pc \in {"tp", "decide"}

Clock ==
  /\ lastUpdate' = Older(lastUpdate, UpdateCap)
  /\ lastFullUpdate' = Older(lastFullUpdate, FullCap)
  /\ lastOnline' = Older(lastOnline, OnlineCap)
  /\ quiet' = Older(quiet, QuietCap)
  /\ th' = [t \in Threads |->
              IF KeepsTime(t) THEN [th[t] EXCEPT !.to = Older(th[t].to, UpdateCap)]
              ELSE th[t]]
  /\ UNCHANGED <<state, data, programStart, idling, forceFull, curAddr, cmd, env>>

UpdateStep(t) ==
  \/ InitStatus(t) \/ InitTables(t) \/ InitCommit(t)
  \/ UpdateStatus(t, "full_status", "full_tables") \/ FullTables(t) \/ FullCommit(t)
  \/ UpdateStatus(t, "delta_status", "delta_tables") \/ DeltaTables(t) \/ DeltaCommit(t)
  \/ TimeperiodsUpdate(t)
LoopStep == LoopTick \/ LoopDecide \/ handleBrokenPeer \/ UpdateStep("loop")
ResumeStep == ResumeDecide \/ UpdateStep("resume")

Next ==
  \/ LoopStep
  \/ ResumeBegin \/ ResumeStep
  \/ ClientGet \/ ClientQuery
  \/ CommandBegin \/ CommandStep
  \/ SiteRestarts \/ SiteChanges
  \/ Clock

Spec == Init /\ [][Next]_vars

\* The goroutines run and time passes.  Nothing is assumed of clients and of
\* the remote site.
Fairness ==
  /\ WF_vars(LoopStep)
  /\ WF_vars(ResumeStep)
  /\ WF_vars(CommandStep)
  /\ WF_vars(Clock)
FairSpec == Spec /\ Fairness

(***************************************************************************)
(* Properties.                                                             *)
(***************************************************************************)
ThreadRecords ==
  [pc : Pcs, plan : Plans, ds : 0 .. MaxRestarts, new : 0 .. MaxRestarts,
   to : 0 .. UpdateCap, nested : BOOLEAN]
CommandRecords == [pc : CmdPcs, retries : 0 .. 1, sent : Nat]

\* Every variable stays in its type.
TypeOK ==
  /\ state \in States
  /\ data \in 0 .. MaxRestarts
  /\ programStart \in 0 .. MaxRestarts
  /\ lastUpdate \in 0 .. UpdateCap
  /\ lastFullUpdate \in 0 .. FullCap
  /\ lastOnline \in 0 .. OnlineCap
  /\ quiet \in 0 .. QuietCap
  /\ idling \in BOOLEAN /\ forceFull \in BOOLEAN
  /\ curAddr \in Sources
  /\ th \in [Threads -> ThreadRecords]
  /\ cmd \in CommandRecords
  /\ site \in Incarnations
  /\ reachable \subseteq Sources
  /\ answer \in Answers
  /\ faults \in 0 .. MaxFaults

\* A peer that is reported as pending, down or broken holds no cached tables,
\* whatever updates of other goroutines are still under way: clients never get
\* rows of a backend that LMD has given up (setNextAddrFromErr, setBroken and
\* updateInitialStatus clear the data, InitAllTables publishes it and lifts
\* the state in one critical section).
OfflineHasNoData == state \in {"pending", "down", "broken"} => data = Nil

\* From the moment tables are published, and during every update of tables,
\* the start time of the site is known.  CheckBackendRestarted skips its
\* comparison while it is 0 ("not yet started completely"), so this is what
\* keeps that exit from hiding a restart.
RestartCheckArmed ==
  /\ data # Nil => programStart # Nil
  /\ \A t \in Threads :
       th[t].pc \in {"tp", "full_status", "delta_status"} => programStart # Nil

\* A list of commands reaches the remote site at most once: the retry of
\* SendCommandsWithRetry follows only a failed connect, where nothing was sent,
\* and never an error that came after it.
CommandAtMostOnce == cmd.sent <= 1

Healthy == reachable # {} /\ answer = "ok"

\* Once the site stays reachable and answers properly, the peer gets up, with
\* tables to serve, or is broken, and that is final: neither a stale snapshot
\* nor the state "up without data" survives.
Recovers ==
  <>[](Healthy => \/ state = "up" /\ data # Nil
                  \/ state = "broken")

\* Every restart of a site that stays healthy is noticed, by an update of
\* either kind, by the wait of a broken peer, and while idling.
RestartNoticed == <>[](Healthy => programStart = site)

\* A command never waits for ever: the loop takes the peer out of the states
\* warning and pending, either up or down, as long as the site does not keep
\* answering with tables that cannot be stored.
CommandAnswered ==
  <>[](answer # "odd") => (cmd.pc = "check" ~> cmd.pc \in {"idle", "panic"})

\* Once the site stays healthy, an up peer serves the tables of the site as it
\* is now: a restart ends in recreated tables.
CacheReflectsSite == <>[](Healthy /\ state = "up" => data = site)

=============================================================================
