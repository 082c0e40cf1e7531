--------------------------- MODULE WaitCondition ---------------------------
(***************************************************************************)
(* A request with a WaitTrigger: WaitCondition of lmd/peer.go, the         *)
(* goroutine it starts (waitcondition), and the update loop of the peer,   *)
(* of which only the assignments to Status[LastUpdate] and to the cached   *)
(* rows are kept.  The two goroutines share a channel c; either of them    *)
(* closes it, and each tests it first.  Test and close are two steps.      *)
(***************************************************************************)
EXTENDS Integers

CONSTANTS
  Updateinterval,  \* seconds between two updates of the peer
  WaitTimeout,     \* seconds the request waits
  MaxTime          \* bound: the clock stops, after all timeouts

ASSUME TimesAssumption ==
  /\ Updateinterval \in Nat \ {0}
  /\ WaitTimeout \in Nat \ {0}
  /\ MaxTime \in Nat /\ MaxTime >= Updateinterval + 2 + WaitTimeout

VARIABLES
  now,         \* time.Now()
  remote,      \* the condition holds for the objects of the site
  cached,      \* it holds for the cached rows
  hasData,     \* the peer has tables
  target,      \* what the request waits for
  known,       \* a WaitObject is among the cached rows
  lastUpdate,  \* Status[LastUpdate]
  updating,    \* since when the update loop is updating, 0 if it is not
  closed,      \* channel c
  waiter,      \* where WaitCondition is
  expired,     \* it has timed out
  worker,      \* where waitcondition is
  mark,        \* its local variable lastUpdate, 0 at first
  verdict,     \* what it has found: condition met, or nothing to wait for
  panicked     \* a closed channel has been closed

peer == <<hasData, known, lastUpdate, updating>>
wait == <<target, closed, waiter, expired, worker, mark, verdict, panicked>>
vars == <<now, remote, cached, hasData, known, lastUpdate, updating, target, closed,
          waiter, expired, worker, mark, verdict, panicked>>

StartTime == Updateinterval + 2
\* One object, any row of a table, or any service: that one is not supported.
Targets == {"object", "table", "services"}
WaiterPcs == {"select", "test", "close", "done"}
WorkerPcs == {"top", "final", "look", "schedule", "mark", "fetch", "close", "returned"}

Init ==
  /\ now = StartTime
  /\ remote \in BOOLEAN /\ cached \in BOOLEAN
  /\ hasData \in BOOLEAN /\ known \in BOOLEAN
  /\ lastUpdate \in 1 .. StartTime
  /\ updating \in {0, lastUpdate}
  /\ target \in Targets
  /\ closed = FALSE
  /\ waiter = "select" /\ expired = FALSE
  /\ worker = "top" /\ mark = 0
  /\ verdict = "none" /\ panicked = FALSE

\* close(c)
Close == panicked' = closed /\ closed' = TRUE

(***************************************************************************)
(* WaitCondition.                                                          *)
(***************************************************************************)
\* The select on channel and timer.
noTimer == FALSE                                       \* mutant: waits for the channel only
TimerFired == now >= StartTime + WaitTimeout

WaiterSelect ==
  /\ waiter = "select"
  /\ \/ closed /\ UNCHANGED expired
     \/ TimerFired /\ expired' = TRUE
  /\ waiter' = "test"
  /\ UNCHANGED <<now, remote, cached, peer, closed, worker, mark, target, verdict,
                 panicked>>

\* "close channel safely"
WaiterTest ==
  /\ waiter = "test"
  /\ waiter' = IF closed THEN "done" ELSE "close"
  /\ UNCHANGED <<now, remote, cached, peer, closed, expired, worker, mark, target, verdict,
                 panicked>>

WaiterClose ==
  /\ waiter = "close"
  /\ Close
  /\ waiter' = "done"
  /\ UNCHANGED <<now, remote, cached, peer, expired, worker, mark, target, verdict>>

(***************************************************************************)
(* waitcondition.                                                          *)
(***************************************************************************)
WorkerGoto(pc) == worker' = pc /\ UNCHANGED <<closed, waiter, expired, panicked>>

\* Canceled, waiting for the final update, or looking at the object.
ignoreCancel == IF mark > 0 THEN "final" ELSE "look"   \* mutant
AfterTop == IF closed THEN "returned" ELSE IF mark > 0 THEN "final" ELSE "look"
WorkerTop ==
  /\ worker = "top"
  /\ WorkerGoto(AfterTop)
  /\ UNCHANGED <<now, remote, cached, peer, mark, target, verdict>>

WorkerFinal ==
  /\ worker = "final"
  /\ WorkerGoto(IF lastUpdate > mark THEN "close" ELSE "top")
  /\ UNCHANGED <<now, remote, cached, peer, mark, target, verdict>>

WorkerLook ==
  /\ worker = "look"
  /\ \/ /\ ~hasData
        /\ WorkerGoto("top")
        /\ UNCHANGED verdict
     \/ /\ hasData /\ target = "object" /\ ~known
        /\ WorkerGoto("close")
        /\ verdict' = "refused"
     \/ /\ hasData /\ (target = "object" => known)
        /\ cached
        /\ WorkerGoto("schedule")
        /\ verdict' = "met"
     \/ /\ hasData /\ (target = "object" => known)
        /\ ~cached
        /\ WorkerGoto("fetch")
        /\ UNCHANGED verdict
  /\ UNCHANGED <<now, remote, cached, peer, mark, target>>

\* ScheduleImmediateUpdate, and only then a look at what it has set.
inTheFuture == now + Updateinterval + 1                \* mutant: wrong sign
Overdue == now - Updateinterval - 1
WorkerSchedule ==
  /\ worker = "schedule"
  /\ lastUpdate' = Overdue
  /\ WorkerGoto("mark")
  /\ UNCHANGED <<now, remote, cached, hasData, known, updating, mark, target, verdict>>

WorkerMark ==
  /\ worker = "mark"
  /\ mark' = lastUpdate
  /\ WorkerGoto("top")
  /\ UNCHANGED <<now, remote, cached, peer, target, verdict>>

\* The worker fetches what it waits for, into tables that may have been replaced
\* since, or returns the error, leaving c open.
closeAfterError == "close"                             \* mutant: error taken for success
AfterError == "returned"
WorkerFetch ==
  /\ worker = "fetch"
  /\ \/ /\ target = "services"
        /\ verdict' = "refused"
        /\ WorkerGoto("close")
        /\ UNCHANGED cached
     \/ /\ target # "services"
        /\ \/ cached' \in {remote, cached} /\ WorkerGoto("top")
           \/ UNCHANGED cached /\ WorkerGoto(AfterError)
        /\ UNCHANGED verdict
  /\ UNCHANGED <<now, remote, peer, mark, target>>

WorkerClose ==
  /\ worker = "close"
  /\ Close
  /\ worker' = "returned"
  /\ UNCHANGED <<now, remote, cached, peer, waiter, expired, mark, target, verdict>>

(***************************************************************************)
(* The peer, the site and time.                                            *)
(***************************************************************************)
\* periodicUpdate stamps LastUpdate first; the update itself may fail.
LoopBegin ==
  /\ updating = 0
  /\ now >= lastUpdate + Updateinterval
  /\ lastUpdate' = now
  /\ updating' = now
  /\ UNCHANGED <<now, remote, cached, hasData, known, wait>>

\* A delta update puts LastUpdate back to where it began, the others set the time;
\* recreated tables may have other objects.
LoopCommit ==
  /\ updating # 0
  /\ lastUpdate' \in {updating, now}
  /\ cached' = remote
  /\ hasData' = TRUE
  /\ known' \in BOOLEAN
  /\ updating' = 0
  /\ UNCHANGED <<now, remote, wait>>

LoopFails ==
  /\ updating # 0
  /\ hasData' \in {hasData, FALSE}
  /\ updating' = 0
  /\ UNCHANGED <<now, remote, cached, known, lastUpdate, wait>>

RemoteChanges ==
  /\ remote' = ~remote
  /\ UNCHANGED <<now, cached, peer, wait>>

Clock ==
  /\ now < MaxTime
  /\ now' = now + 1
  /\ UNCHANGED <<remote, cached, peer, wait>>

WaiterStep == WaiterSelect \/ WaiterTest \/ WaiterClose
WorkerStep ==
  \/ WorkerTop \/ WorkerFinal \/ WorkerLook \/ WorkerSchedule \/ WorkerMark
  \/ WorkerFetch \/ WorkerClose
LoopStep == LoopBegin \/ LoopCommit \/ LoopFails

Next == WaiterStep \/ WorkerStep \/ LoopStep \/ RemoteChanges \/ Clock

Spec == Init /\ [][Next]_vars

\* The goroutines run and time passes; nothing is assumed of the peer.
Fairness == WF_vars(WaiterStep) /\ WF_vars(WorkerStep) /\ WF_vars(Clock)
FairSpec == Spec /\ Fairness

(***************************************************************************)
(* Properties.                                                             *)
(***************************************************************************)
Times == 0 .. MaxTime
\* Every variable stays in its type.
TypeOK ==
  /\ now \in StartTime .. MaxTime
  /\ remote \in BOOLEAN /\ cached \in BOOLEAN /\ hasData \in BOOLEAN /\ known \in BOOLEAN
  /\ lastUpdate \in Times
  /\ updating \in Times
  /\ closed \in BOOLEAN /\ expired \in BOOLEAN
  /\ waiter \in WaiterPcs /\ worker \in WorkerPcs
  /\ mark \in Times /\ target \in Targets
  /\ verdict \in {"none", "met", "refused"} /\ panicked \in BOOLEAN

\* A wait that ends without its timeout has seen the condition true, or has found
\* that there is nothing to wait for: an error of an update in between is never
\* taken for it, and neither is an update of the loop before the condition is met.
MetWasSeen == waiter = "done" /\ ~expired => verdict # "none"

\* A client never waits for ever, whatever the peer does.
WaitEnds == <>(waiter = "done")

\* Neither does the goroutine stay behind when the client has gone.
WorkerEnds == <>(worker = "returned")

\* The channel is closed once ("close channel safely"): a second close is a
\* panic, which ends the process.
ClosedOnce == ~panicked
=============================================================================
