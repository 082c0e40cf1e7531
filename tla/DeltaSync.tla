----------------------------- MODULE DeltaSync -----------------------------
(***************************************************************************)
(* Which rows the updates of a peer fetch (UpdateDelta, UpdateFull,         *)
(* UpdateDeltaFullScan in lmd/datastoreset.go): a delta update asks for the *)
(* rows whose last_check lies in the time since the last update, shifted by *)
(* UpdateOffset; once in MinFullScanInterval all last_check dates are       *)
(* compared, to find what the windows have missed.                          *)
(*                                                                         *)
(* One table stands for hosts and services.  A row is its last_check and a  *)
(* flag, any other of the scanned columns, which may change without a check. *)
(* Time is a number of seconds.  The loop is never overdue (its ticker runs  *)
(* twice a second) and an update takes at most Duration, because every query *)
(* has a timeout.  FullUpdateInterval is 0; the site has no column          *)
(* last_update.  What failures do to the state of a peer is in module Peer; *)
(* here it matters whether the next update is a full one.                   *)
(***************************************************************************)
EXTENDS Integers, FiniteSets, FiniteSetsExt

CONSTANTS
  Rows,
  UpdateOffset, Updateinterval, MinFullScanInterval,
  SyncIsExecuting,  \* the option, which is on by default; a Shinken is as if it were off
  MaxFilter,    \* the length of a list of filters above which it is not sent
  Duration,     \* the longest time an update takes
  Lateness,     \* bound: how old a check is when the site has its result
  Eventful,     \* bound: for how many seconds rows change and updates fail
  MaxTime,      \* bound: the clock
  MaxChanges,   \* bound: changes of rows
  MaxFaults     \* bound: failing updates, spin-up updates and immediate updates

ASSUME SyncAssumption == SyncIsExecuting \in BOOLEAN
ASSUME TimesAssumption ==
  /\ {UpdateOffset, Updateinterval, Duration} \subseteq Nat \ {0}
  /\ {MinFullScanInterval, MaxFilter, Lateness, Eventful, MaxTime, MaxChanges, MaxFaults} \subseteq Nat

Updaters == {"loop", "resume"}

VARIABLES
  now,
  remote,              \* the rows of the site
  cached,              \* the rows of the peer
  lastUpdate,          \* Status[LastUpdate]
  lastFullHostUpdate,  \* Status[LastFullHostUpdate]: the last full scan
  forceFull,           \* Status[ForceFull]
  warning,             \* the state is warning: the next update is a full one
  upd,                 \* the update each goroutine runs
  changes, faults,     \* see the bounds
  changedAt,           \* history: when a row has last changed at the site
  prompt,              \* history: as a new check, known within UpdateOffset seconds
  disturbedAt          \* history: the last thing the windows do not make up for

status == <<lastUpdate, lastFullHostUpdate, forceFull, warning>>
history == <<changedAt, prompt, disturbedAt>>
vars == <<now, remote, cached, status, upd, changes, faults, history>>

\* The clock starts late enough that no time of interest is 0.
Start == MinFullScanInterval + UpdateOffset + Updateinterval + Lateness + 2
ASSUME ClockAssumption == Start <= MaxTime

Idle == [pc |-> "idle", from |-> 0, to |-> 0, all |-> FALSE, times |-> {}, scan |-> FALSE,
         rows |-> << >>]

\* After InitAllTables.
Init ==
  /\ now = Start
  /\ remote = [r \in Rows |-> [check |-> Start - Lateness, flag |-> FALSE]]
  /\ cached = remote
  /\ lastUpdate = Start /\ lastFullHostUpdate = Start
  /\ forceFull = FALSE /\ warning = FALSE
  /\ upd = [u \in Updaters |-> Idle]
  /\ changes = 0 /\ faults = 0
  /\ changedAt = [r \in Rows |-> Start] /\ prompt = [r \in Rows |-> TRUE]
  /\ disturbedAt = Start

More(count, bound) == count < bound /\ now <= Start + Eventful

-----------------------------------------------------------------------------
(* Filters.                                                                 *)

\* composeTimestampFilter: runs of adjacent seconds are one filter.
Blocks(times) ==
  {b \in times \X times : /\ b[1] <= b[2] /\ b[1] .. b[2] \subseteq times
                          /\ b[1] - 1 \notin times /\ b[2] + 1 \notin times}

\* mutant: the offset only moves the end of the window
fromUnshifted(s, row) == s.from <= row.check /\ row.check < s.to - UpdateOffset
\* The window of UpdateDelta.
InWindow(s, row) == s.from - UpdateOffset <= row.check /\ row.check < s.to - UpdateOffset

\* With SyncIsExecuting a blank line follows the filter of the window, which ends the request.
CutShort(s) == SyncIsExecuting /\ s.from > 0

\* The filter of the query for rows; without from there is none, unless a scan has some.
\* External: the site does not read the filters after a blank line, is_executing or a scan's.
Selected(s, row) ==
  \/ s.all
  \/ s.from > 0 /\ InWindow(s, row)
  \/ s.from = 0 /\ s.times = {}
  \/ ~ CutShort(s) /\ \E b \in Blocks(s.times) : b[1] <= row.check /\ row.check <= b[2]

\* len(filter): the window, the blocks and what combines them.
FilterLength(s, times) ==
  LET n == Cardinality(Blocks(times))
  IN 1 + n + (IF n > 1 THEN 1 ELSE 0) + (IF s.from > 0 THEN 1 ELSE 0)

\* mutant: rows whose check is as old as the window reaches are left out
scansYounger ==
  {remote[r].check : r \in {x \in Rows : /\ remote[x] # cached[x]
                                         /\ remote[x].check >= now - UpdateOffset}}
\* getMissingTimestamps: rows that differ and that the next window will not reach.
Missing ==
  {remote[r].check : r \in {x \in Rows : /\ remote[x] # cached[x]
                                         /\ remote[x].check < now - UpdateOffset}}

-----------------------------------------------------------------------------
(* The updates.                                                             *)

At(u, place) == upd[u].pc = place
Step(u, new) == upd' = [upd EXCEPT ![u] = new]

\* What the windows are not meant to cope with: a second updater, failures, full updates.
Note(u) == disturbedAt' = IF u = "loop" /\ ~ upd[u].all THEN disturbedAt ELSE now

\* periodicUpdate
LoopBegin ==
  /\ At("loop", "idle") /\ now >= lastUpdate + Updateinterval
  /\ lastUpdate' = now
  /\ IF warning
     THEN /\ Step("loop", [Idle EXCEPT !.pc = "fetch", !.from = lastUpdate, !.to = now,
                                       !.all = TRUE])
          /\ UNCHANGED forceFull
     ELSE /\ Step("loop", [Idle EXCEPT !.pc = "scan", !.to = now,
                                       !.from = IF forceFull THEN 0 ELSE lastUpdate])
          /\ forceFull' = FALSE
  /\ UNCHANGED <<now, remote, cached, lastFullHostUpdate, warning, changes, faults, history>>

\* ResumeFromIdle of a peer that is up.
ResumeBegin ==
  /\ At("resume", "idle") /\ ~ warning /\ More(faults, MaxFaults)
  /\ faults' = faults + 1
  /\ Step("resume", [Idle EXCEPT !.pc = "scan", !.from = lastUpdate, !.to = now])
  /\ disturbedAt' = now
  /\ UNCHANGED <<now, remote, cached, status, changes, changedAt, prompt>>

ScanDue == lastFullHostUpdate <= now - MinFullScanInterval

\* UpdateDeltaFullScan, up to the query for the rows that it has found.
Scan(u) ==
  /\ At(u, "scan")
  /\ LET found == IF ScanDue /\ FilterLength(upd[u], Missing) <= MaxFilter THEN Missing ELSE {}
     IN /\ Step(u, [upd[u] EXCEPT !.pc = "fetch", !.times = found, !.scan = found # {}])
        /\ lastFullHostUpdate' = IF ScanDue /\ found = {} THEN now ELSE lastFullHostUpdate
  /\ UNCHANGED <<now, remote, cached, lastUpdate, forceFull, warning, changes, faults, history>>

\* The query of updateDeltaHostsServices or UpdateFullTable.
Fetch(u) ==
  /\ At(u, "fetch")
  /\ LET hits == {r \in Rows : Selected(upd[u], remote[r])}
     IN Step(u, [upd[u] EXCEPT !.pc = "insert", !.rows = [r \in hits |-> remote[r]]])
  /\ UNCHANGED <<now, remote, cached, status, changes, faults, history>>

ScanEnds(u) == lastFullHostUpdate' = IF upd[u].scan THEN now ELSE lastFullHostUpdate

\* insertDeltaDataResult
Insert(u) ==
  /\ At(u, "insert")
  /\ cached' = [r \in Rows |-> IF r \in DOMAIN upd[u].rows THEN upd[u].rows[r] ELSE cached[r]]
  /\ ScanEnds(u) /\ Note(u)
  /\ Step(u, [upd[u] EXCEPT !.pc = "commit", !.rows = << >>])
  /\ UNCHANGED <<now, remote, lastUpdate, forceFull, warning, changes, faults, changedAt, prompt>>

\* The end of UpdateDelta, or of UpdateFull.
Commit(u) ==
  /\ At(u, "commit")
  /\ lastUpdate' = IF upd[u].all THEN now ELSE upd[u].to
  /\ warning' = FALSE
  /\ Step(u, Idle) /\ Note(u)
  /\ UNCHANGED <<now, remote, cached, lastFullHostUpdate, forceFull, changes, faults, changedAt,
                 prompt>>

\* A query fails, which makes the state warning, or its answer cannot be used, which does not.
\* A scan counts as done all the same.
Fails(u) ==
  /\ ~ At(u, "idle") /\ More(faults, MaxFaults)
  /\ faults' = faults + 1
  /\ warning' \in {warning, TRUE}
  /\ IF At(u, "commit") THEN UNCHANGED lastFullHostUpdate ELSE ScanEnds(u)
  /\ Step(u, Idle) /\ disturbedAt' = now
  /\ UNCHANGED <<now, remote, cached, lastUpdate, forceFull, changes, changedAt, prompt>>

scheduledAhead ==                         \* mutant: the interval added, not subtracted
  /\ More(faults, MaxFaults) /\ faults' = faults + 1
  /\ lastUpdate' = now + Updateinterval
  /\ lastFullHostUpdate' = (now - MinFullScanInterval) - 1
  /\ forceFull' \in {forceFull, TRUE}
  /\ disturbedAt' = now
  /\ UNCHANGED <<now, remote, cached, warning, upd, changes, changedAt, prompt>>
\* A command was sent or a wait begins; some commands force a full delta update.
ScheduleImmediateUpdate ==
  /\ More(faults, MaxFaults) /\ faults' = faults + 1
  /\ lastUpdate' = (now - Updateinterval) - 1
  /\ lastFullHostUpdate' = (now - MinFullScanInterval) - 1
  /\ forceFull' \in {forceFull, TRUE}
  /\ disturbedAt' = now
  /\ UNCHANGED <<now, remote, cached, warning, upd, changes, changedAt, prompt>>

-----------------------------------------------------------------------------
(* The site and the clock.                                                  *)

\* External: the site has the result of a check.
Checked(r) ==
  /\ More(changes, MaxChanges) /\ changes' = changes + 1
  /\ \E c \in now - Lateness .. now :
       /\ c > remote[r].check
       /\ remote' = [remote EXCEPT ![r].check = c]
       /\ prompt' = [prompt EXCEPT ![r] = now <= c + UpdateOffset]
  /\ changedAt' = [changedAt EXCEPT ![r] = now]
  /\ UNCHANGED <<now, cached, status, upd, faults, disturbedAt>>

\* External: it is acknowledged, or the like.
Flagged(r) ==
  /\ More(changes, MaxChanges) /\ changes' = changes + 1
  /\ remote' = [remote EXCEPT ![r].flag = ~ @]
  /\ prompt' = [prompt EXCEPT ![r] = FALSE]
  /\ changedAt' = [changedAt EXCEPT ![r] = now]
  /\ UNCHANGED <<now, cached, status, upd, faults, disturbedAt>>

\* External: time passes, see above.
Clock ==
  /\ now < MaxTime /\ now' = now + 1
  /\ At("loop", "idle") => now < lastUpdate + Updateinterval
  /\ \A u \in Updaters : At(u, "idle") \/ now < upd[u].to + Duration
  /\ UNCHANGED <<remote, cached, status, upd, changes, faults, history>>

Update(u) == Scan(u) \/ Fetch(u) \/ Insert(u) \/ Commit(u) \/ Fails(u)

Next ==
  \/ LoopBegin \/ ResumeBegin \/ ScheduleImmediateUpdate \/ Clock
  \/ \E u \in Updaters : Update(u)
  \/ \E r \in Rows : Checked(r) \/ Flagged(r)

Spec == Init /\ [][Next]_vars

-----------------------------------------------------------------------------
(* Properties.                                                              *)

Row == [check : Int, flag : BOOLEAN]

\* Every variable has a value that the code can give it; no goroutine updates until a later
\* time than now (LastUpdate would be in the future and the next window empty).
TypeOK ==
  /\ now \in Start .. MaxTime
  /\ remote \in [Rows -> Row] /\ cached \in [Rows -> Row]
  /\ lastUpdate <= now /\ lastFullHostUpdate <= now
  /\ forceFull \in BOOLEAN /\ warning \in BOOLEAN
  /\ \A u \in Updaters : /\ upd[u].pc \in {"idle", "scan", "fetch", "insert", "commit"}
                         /\ upd[u].from <= upd[u].to /\ upd[u].to <= now
                         /\ DOMAIN upd[u].rows \subseteq Rows
  /\ disturbedAt <= now

Calm(r, time) == now >= Max({changedAt[r], disturbedAt}) + time

\* The windows have no gaps: a check that the site knew within UpdateOffset seconds, and that is
\* not older than the window which begins at the last failure, full update or interference by
\* another goroutine, is cached once the next update after it had the time to run, whether
\* there was a scan or not (UpdateDelta, periodicUpdate).
WindowTime == UpdateOffset + Updateinterval + 2 * Duration
WindowsFollow ==
  \A r \in Rows :
    prompt[r] /\ remote[r].check >= disturbedAt - UpdateOffset /\ Calm(r, WindowTime)
      => cached[r] = remote[r]

\* The scan makes up for everything: late results, acknowledgements, lost windows and rows that
\* a slower goroutine has put back are right one scan later (UpdateDeltaFullScan: "If an update
\* is required, the last_check timestamp is used as filter for a delta update").  A scan that
\* was under way counts from the time its rows are inserted, so one more update may pass.
\* It holds without SyncIsExecuting; with it the filter of the scan is not read (CutShort).
ScanTime == WindowTime + MinFullScanInterval + Duration
ScanFollows == \A r \in Rows : Calm(r, ScanTime) => cached[r] = remote[r]

\* A row never goes back to an earlier check while the loop alone updates: no update of another
\* goroutine, no failure and no immediate update since the second in which its own update began.
\* Between fetching and inserting nothing is locked (insertDeltaDataResult).
ChecksGoForward ==
  [][At("resume", "idle") /\ disturbedAt < upd["loop"].to =>
       \A r \in Rows : cached'[r].check >= cached[r].check]_vars
=============================================================================
