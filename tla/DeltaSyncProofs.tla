--------------------------- MODULE DeltaSyncProofs ---------------------------
(***************************************************************************)
(* Proofs about DeltaSync for any rows, offsets, intervals and durations:   *)
(* the types, that the windows of delta updates have no gaps, that without  *)
(* SyncIsExecuting the full scan finds what they have missed, and that rows *)
(* do not go back to earlier checks while the loop alone updates.           *)
(*                                                                         *)
(* A row is followed from its last change, or from the last disturbance, to *)
(* the update that brings it: it waits for a window or a scan to begin, is   *)
(* selected, is fetched, is inserted.  Each of these waits has a deadline.   *)
(***************************************************************************)
EXTENDS DeltaSync, FiniteSetTheorems, WellFoundedInduction, TLAPS

Fetched == {<< >>} \cup UNION {[S -> Row] : S \in SUBSET Rows}
UpdateType ==
  [pc : {"idle", "scan", "fetch", "insert", "commit"}, from : Nat, to : Nat, all : BOOLEAN,
   times : SUBSET Int, scan : BOOLEAN, rows : Fetched]

Types ==
  /\ now \in Nat /\ Start <= now /\ now <= MaxTime
  /\ remote \in [Rows -> Row] /\ cached \in [Rows -> Row]
  /\ lastUpdate \in Nat /\ lastUpdate >= 1 /\ lastUpdate <= now
  /\ lastFullHostUpdate \in Int /\ lastFullHostUpdate <= now
  /\ forceFull \in BOOLEAN /\ warning \in BOOLEAN
  /\ upd \in [Updaters -> UpdateType]
  /\ disturbedAt \in Nat /\ Start <= disturbedAt /\ disturbedAt <= now
  /\ changedAt \in [Rows -> Nat] /\ prompt \in [Rows -> BOOLEAN]

\* Rows are checked before the site knows it.
CheckInv ==
  \A r \in Rows : /\ remote[r].check >= 0 /\ remote[r].check <= changedAt[r]
                  /\ changedAt[r] <= now
                  /\ prompt[r] => changedAt[r] = Start
                                    \/ changedAt[r] <= remote[r].check + UpdateOffset

\* Between the beginnings of two updates of the loop.
Period == Updateinterval + Duration - 1
Loop == upd["loop"]

\* Updates end in time, and the loop begins the next one in time.
TimeInv ==
  /\ \A u \in Updaters : /\ upd[u].from <= upd[u].to /\ upd[u].to <= now
                         /\ upd[u].pc # "idle" => now <= upd[u].to + Duration /\ upd[u].to >= 1
  /\ Loop.pc = "idle" => now <= lastUpdate + Period \/ now <= disturbedAt
  /\ upd["resume"].pc # "idle" => upd["resume"].to <= disturbedAt

\* Full updates follow a failure and do not scan.
FullInv ==
  /\ warning /\ Loop.pc = "idle" => lastUpdate <= disturbedAt
  /\ Loop.all => Loop.to <= disturbedAt + Period /\ ~ Loop.scan /\ Loop.pc # "scan"

\* The time from which on a window ends behind the check of the row.
Due(r) == remote[r].check + UpdateOffset
\* The last change of the row, or the last disturbance.
Since(r) == IF changedAt[r] >= disturbedAt THEN changedAt[r] ELSE disturbedAt

Right(r) ==
  /\ cached[r] = remote[r]
  /\ Loop.pc = "insert" /\ r \in DOMAIN Loop.rows => Loop.rows[r] = remote[r]
Coming(r) ==
  \/ Loop.pc = "fetch" /\ Selected(Loop, remote[r])
  \/ Loop.pc = "insert" /\ r \in DOMAIN Loop.rows /\ Loop.rows[r] = remote[r]

\* A row that a window is still to reach.
Waits(r) == lastUpdate <= Due(r) /\ (Loop.pc # "idle" => Loop.to <= Due(r))
InThisWindow(r) ==
  /\ Loop.pc # "idle" /\ Due(r) < Loop.to /\ Loop.to <= Due(r) + Period
  /\ (Loop.pc = "scan" /\ Loop.from <= Due(r)) \/ Coming(r)
WindowInv(r) == Due(r) >= Since(r) => Right(r) \/ Waits(r) \/ InThisWindow(r)

\* A row that only a scan finds.
ScanDeadline(r) == Since(r) + Duration + MinFullScanInterval
Unscanned(r) ==
  /\ lastFullHostUpdate <= Since(r) + Duration
  /\ Loop.pc = "idle" => lastUpdate < ScanDeadline(r)
  /\ Loop.pc = "scan" => Loop.to < ScanDeadline(r) + Period
  /\ Loop.pc \in {"fetch", "insert", "commit"} /\ ~ Loop.all => Loop.to < ScanDeadline(r)
  /\ Loop.pc \in {"fetch", "insert"} /\ Loop.scan => Loop.to <= Since(r)
InThisScan(r) == ~ Loop.all /\ Loop.to < ScanDeadline(r) + Period /\ Coming(r)
ScanInv(r) == Due(r) < Since(r) => Right(r) \/ Unscanned(r) \/ InThisScan(r)

Base == Types /\ CheckInv /\ TimeInv /\ FullInv
IInv == Base /\ \A r \in Rows : WindowInv(r)

-----------------------------------------------------------------------------
(* Numbers, blocks of seconds, and the update of a goroutine.               *)

LEMMA Constants ==
  /\ UpdateOffset \in Nat /\ UpdateOffset >= 1
  /\ Updateinterval \in Nat /\ Updateinterval >= 1
  /\ Duration \in Nat /\ Duration >= 1
  /\ MinFullScanInterval \in Nat /\ Lateness \in Nat /\ MaxTime \in Nat
  /\ Start \in Nat /\ Start >= Updateinterval + 2 /\ Start >= Lateness
  /\ Period \in Nat /\ Period >= Updateinterval /\ Period >= Duration
  BY TimesAssumption DEF Start, Period

\* A set of natural numbers has a least one.
LEMMA Least ==
  ASSUME NEW T, T \subseteq Nat, T # {}
  PROVE  \E x \in T : \A y \in T : x <= y
  <1>1. PICK x \in T : \A y \in T : ~ (<<y, x>> \in OpToRel(<, Nat))
    BY NatLessThanWellFounded, WFMin
  <1>2. \A y \in T : ~ (y < x)
    BY <1>1 DEF OpToRel
  <1> QED
    BY <1>2

\* composeTimestampFilter: every second of the set is in a block.
LEMMA Covered ==
  ASSUME NEW times, times \subseteq Nat, NEW top \in Nat, \A t \in times : t <= top,
         NEW c \in times
  PROVE  \E b \in Blocks(times) : b[1] <= c /\ c <= b[2]
  <1> DEFINE Ups == {n \in Nat : c + n + 1 \notin times}
             Downs == {n \in Nat : c - n - 1 \notin times}
  <1>1. c \in Nat /\ Ups \subseteq Nat /\ Downs \subseteq Nat
    OBVIOUS
  <1>2. top \in Ups /\ c \in Downs
    <2>1. c + top + 1 \notin times /\ c - c - 1 \notin times
      BY <1>1
    <2> QED
      BY <1>1, <2>1
  <1>3. PICK u \in Ups : \A n \in Ups : u <= n
    BY <1>1, <1>2, Least
  <1>4. PICK d \in Downs : \A n \in Downs : d <= n
    BY <1>1, <1>2, Least
  <1>5. u \in Nat /\ d \in Nat /\ c + u + 1 \notin times /\ c - d - 1 \notin times
    BY <1>3, <1>4
  <1>6. \A n \in Nat : n < u => c + n + 1 \in times
    <2> SUFFICES ASSUME NEW n \in Nat, n < u, c + n + 1 \notin times
                 PROVE  FALSE
      OBVIOUS
    <2>1. n \in Ups
      OBVIOUS
    <2>2. u <= n
      BY <1>3, <2>1
    <2> QED
      BY <1>5, <2>2
  <1>7. \A n \in Nat : n < d => c - n - 1 \in times
    BY <1>4, <1>5
  <1>8. c - d .. c + u \subseteq times
    <2> SUFFICES ASSUME NEW x \in c - d .. c + u
                 PROVE  x \in times
      OBVIOUS
    <2>1. x \in Int /\ c - d <= x /\ x <= c + u
      BY <1>1, <1>5
    <2>2. CASE x = c
      BY <2>2
    <2>3. CASE x > c
      <3>1. x - c - 1 \in Nat /\ x - c - 1 < u /\ c + (x - c - 1) + 1 = x
        BY <1>1, <1>5, <2>1, <2>3
      <3> QED
        BY <1>6, <3>1
    <2>4. CASE x < c
      <3>1. c - x - 1 \in Nat /\ c - x - 1 < d /\ c - (c - x - 1) - 1 = x
        BY <1>1, <1>5, <2>1, <2>4
      <3> QED
        BY <1>7, <3>1
    <2> QED
      BY <1>1, <2>1, <2>2, <2>3, <2>4
  <1>9. c - d \in c - d .. c + u /\ c + u \in c - d .. c + u /\ c - d <= c /\ c <= c + u
    BY <1>1, <1>5
  <1> DEFINE b == <<c - d, c + u>>
  <1>10. b \in times \X times /\ b[1] = c - d /\ b[2] = c + u
    BY <1>8, <1>9
  <1>11. b \in Blocks(times)
    BY <1>1, <1>5, <1>8, <1>9, <1>10 DEF Blocks
  <1> QED
    BY <1>9, <1>10, <1>11

LEMMA UpdateTyped ==
  ASSUME Types, NEW u \in Updaters, NEW new \in UpdateType, Step(u, new)
  PROVE  /\ upd' \in [Updaters -> UpdateType] /\ upd'[u] = new
         /\ \A v \in Updaters : v # u => upd'[v] = upd[v]
  BY DEF Types, Step

LEMMA IdleTyped ==
  /\ Idle \in UpdateType /\ Idle.pc = "idle" /\ Idle.from = 0 /\ Idle.to = 0 /\ Idle.all = FALSE
  /\ Idle.times = {} /\ Idle.scan = FALSE /\ Idle.rows = << >> /\ << >> \in Fetched
  <1>1. << >> \in Fetched
    BY DEF Fetched
  <1> QED
    BY <1>1 DEF Idle, UpdateType

LEMMA UpdatersAre == Updaters = {"loop", "resume"} /\ "loop" \in Updaters /\ "resume" \in Updaters
  BY DEF Updaters

-----------------------------------------------------------------------------
(* Types and deadlines of updates, action by action.                        *)

\* A step of an update that keeps what the parts of Base ask of it.
LEMMA UpdateBase ==
  ASSUME Base, NEW u \in Updaters, NEW new \in UpdateType, Step(u, new),
         UNCHANGED <<now, remote, changedAt, prompt>>,
         cached' \in [Rows -> Row], forceFull' \in BOOLEAN, warning' \in BOOLEAN,
         lastUpdate' \in Nat, lastUpdate' >= 1, lastUpdate' <= now,
         lastFullHostUpdate' \in Int, lastFullHostUpdate' <= now,
         disturbedAt' \in {disturbedAt, now},
         new.from <= new.to, new.to <= now, new.pc # "idle" => now <= new.to + Duration /\ new.to >= 1,
         u = "loop" /\ new.pc = "idle" => now <= lastUpdate' + Period \/ disturbedAt' = now,
         u = "loop" /\ new.pc = "idle" /\ warning' => lastUpdate' <= disturbedAt',
         u = "loop" /\ new.all => /\ new.to <= disturbedAt' + Period /\ ~ new.scan
                                  /\ new.pc # "scan",
         u = "resume" => \/ disturbedAt' = now
                         \/ UNCHANGED lastUpdate /\ (warning' => warning),
         u = "resume" /\ new.pc # "idle" => new.to <= disturbedAt'
  PROVE  Base'
  <1>1. /\ upd' \in [Updaters -> UpdateType] /\ upd'[u] = new
        /\ \A v \in Updaters : v # u => upd'[v] = upd[v]
    BY UpdateTyped DEF Base
  <1>2. now \in Nat /\ disturbedAt \in Nat /\ disturbedAt <= now /\ Start <= disturbedAt /\ Start <= now
    BY DEF Base, Types
  <1>3. disturbedAt' \in Nat /\ Start <= disturbedAt' /\ disturbedAt' <= now /\ disturbedAt <= disturbedAt'
    BY <1>2, Constants
  <1>4. Types'
    BY <1>1, <1>3 DEF Base, Types
  <1>5. CheckInv'
    BY DEF Base, CheckInv
  <1>6. \A v \in Updaters : /\ upd[v].from \in Nat /\ upd[v].to \in Nat
                            /\ new.from \in Nat /\ new.to \in Nat
    BY DEF Base, Types, UpdateType
  <1>7. TimeInv'
    <2>1. \A v \in Updaters : /\ upd'[v].from <= upd'[v].to /\ upd'[v].to <= now'
                              /\ upd'[v].pc # "idle" => now' <= upd'[v].to + Duration /\ upd'[v].to >= 1
      BY <1>1 DEF Base, TimeInv
    <2>2. ASSUME Loop'.pc = "idle"
          PROVE  now' <= lastUpdate' + Period \/ now' <= disturbedAt'
      <3>1. CASE u = "loop"
        BY <1>1, <1>2, <2>2, <3>1, UpdatersAre DEF Loop
      <3>2. CASE u = "resume"
        <4>1. Loop.pc = "idle"
          BY <1>1, <2>2, <3>2, UpdatersAre DEF Loop
        <4>2. now <= lastUpdate + Period \/ now <= disturbedAt
          BY <4>1 DEF Base, TimeInv
        <4> QED
          BY <1>2, <1>3, <3>2, <4>2
      <3> QED
        BY <3>1, <3>2, UpdatersAre
    <2>3. upd'["resume"].pc # "idle" => upd'["resume"].to <= disturbedAt'
      <3>1. CASE u = "resume"
        BY <1>1, <3>1
      <3>2. CASE u # "resume"
        <4>1. upd'["resume"] = upd["resume"]
          BY <1>1, <3>2, UpdatersAre
        <4> QED
          BY <1>2, <1>3, <1>6, <4>1, UpdatersAre DEF Base, TimeInv
      <3> QED
        BY <3>1, <3>2
    <2> QED
      BY <2>1, <2>2, <2>3 DEF TimeInv, Loop
  <1>8. FullInv'
    <2>1. CASE u = "loop"
      BY <1>1, <2>1 DEF FullInv, Loop
    <2>2. CASE u = "resume"
      <3>1. Loop' = Loop /\ Loop.to \in Nat
        BY <1>1, <1>6, <2>2, UpdatersAre DEF Loop
      <3>2. warning' /\ Loop'.pc = "idle" => lastUpdate' <= disturbedAt'
        <4>1. CASE disturbedAt' = now
          BY <4>1
        <4>2. CASE UNCHANGED lastUpdate /\ (warning' => warning)
          <5>1. lastUpdate \in Nat /\ (warning /\ Loop.pc = "idle" => lastUpdate <= disturbedAt)
            BY DEF Base, FullInv, Types
          <5> QED
            BY <1>2, <1>3, <3>1, <4>2, <5>1
        <4> QED
          BY <2>2, <4>1, <4>2
      <3>3. Loop'.all => /\ Loop'.to <= disturbedAt' + Period
                         /\ ~ Loop'.scan /\ Loop'.pc # "scan"
        <4>1. Loop.all => Loop.to <= disturbedAt + Period /\ ~ Loop.scan /\ Loop.pc # "scan"
          BY DEF Base, FullInv
        <4> QED
          BY <1>2, <1>3, <3>1, <4>1, Constants
      <3> QED
        BY <3>2, <3>3 DEF FullInv, Loop
    <2> QED
      BY <2>1, <2>2, UpdatersAre
  <1> QED
    BY <1>4, <1>5, <1>7, <1>8 DEF Base

LEMMA LoopBeginBase ==
  ASSUME Base, LoopBegin
  PROVE  /\ Base' /\ Loop' \in UpdateType /\ Loop'.to = now /\ lastUpdate' = now
         /\ \/ /\ Loop'.pc = "fetch" /\ Loop'.all /\ ~ Loop'.scan
            \/ /\ Loop'.pc = "scan" /\ ~ Loop'.all /\ Loop'.from \in {0, lastUpdate}
  <1>0. /\ now \in Nat /\ now >= 1 /\ lastUpdate \in Nat /\ lastUpdate >= 1 /\ lastUpdate <= now
        /\ Loop.pc = "idle" /\ disturbedAt \in Nat /\ disturbedAt <= now
        /\ lastFullHostUpdate \in Int /\ lastFullHostUpdate <= now
        /\ cached \in [Rows -> Row] /\ forceFull \in BOOLEAN /\ warning \in BOOLEAN
    BY Constants DEF Base, Types, LoopBegin, At, Loop
  <1>1. /\ UNCHANGED <<now, remote, cached, lastFullHostUpdate, warning, changedAt, prompt, disturbedAt>>
        /\ lastUpdate' = now
    BY DEF LoopBegin, history
  <1>2. now <= lastUpdate + Period \/ now <= disturbedAt
    BY <1>0 DEF Base, TimeInv
  <1>3. CASE warning
    <2> DEFINE new == [Idle EXCEPT !.pc = "fetch", !.from = lastUpdate, !.to = now, !.all = TRUE]
    <2>1. Step("loop", new) /\ forceFull' = forceFull
      BY <1>3 DEF LoopBegin
    <2>2. /\ new \in UpdateType /\ new.pc = "fetch" /\ new.from = lastUpdate /\ new.to = now
          /\ new.all /\ new.scan = FALSE
      BY <1>0, IdleTyped DEF UpdateType
    <2>3. lastUpdate <= disturbedAt
      BY <1>0, <1>3 DEF Base, FullInv
    <2>4. now <= disturbedAt + Period
      BY <1>0, <1>2, <2>3, Constants
    <2> HIDE DEF new
    <2>5. now <= now + Duration /\ now <= now
      BY <1>0, Constants
    <2>6. Base'
      BY <1>0, <1>1, <2>1, <2>2, <2>4, <2>5, UpdateBase, UpdatersAre
    <2>7. Loop' = new
      BY <2>1, <2>2, UpdateTyped, UpdatersAre DEF Base, Loop
    <2> QED
      BY <1>1, <2>2, <2>6, <2>7
  <1>4. CASE ~ warning
    <2> DEFINE f == IF forceFull THEN 0 ELSE lastUpdate
               new == [Idle EXCEPT !.pc = "scan", !.to = now, !.from = f]
    <2>1. Step("loop", new) /\ forceFull' = FALSE
      BY <1>4 DEF LoopBegin
    <2>2. f \in Nat /\ f <= now /\ f \in {0, lastUpdate}
      BY <1>0
    <2> HIDE DEF f
    <2>3. /\ new \in UpdateType /\ new.pc = "scan" /\ new.from = f /\ new.to = now
          /\ new.all = FALSE
      BY <1>0, <2>2, IdleTyped DEF UpdateType
    <2> HIDE DEF new
    <2>5. now <= now + Duration /\ now <= now
      BY <1>0, Constants
    <2>6. Base'
      BY <1>0, <1>1, <2>1, <2>2, <2>3, <2>5, UpdateBase, UpdatersAre
    <2>7. Loop' = new
      BY <2>1, <2>3, UpdateTyped, UpdatersAre DEF Base, Loop
    <2> QED
      BY <1>1, <2>2, <2>3, <2>6, <2>7
  <1> QED
    BY <1>0, <1>3, <1>4

\* What an update that is under way keeps.
LEMMA UnderWay ==
  ASSUME Base, NEW u \in Updaters
  PROVE  /\ upd[u] \in UpdateType /\ upd[u].from \in Nat /\ upd[u].to \in Nat
         /\ upd[u].from <= upd[u].to /\ upd[u].to <= now
         /\ upd[u].pc # "idle" => now <= upd[u].to + Duration /\ upd[u].to >= 1
         /\ upd["resume"].pc # "idle" => upd["resume"].to <= disturbedAt
         /\ u = "loop" /\ upd[u].all => /\ upd[u].to <= disturbedAt + Period
                                        /\ ~ upd[u].scan /\ upd[u].pc # "scan"
         /\ now \in Nat /\ now >= 1 /\ disturbedAt \in Nat /\ disturbedAt <= now
         /\ cached \in [Rows -> Row] /\ remote \in [Rows -> Row]
         /\ forceFull \in BOOLEAN /\ warning \in BOOLEAN
         /\ lastUpdate \in Nat /\ lastUpdate >= 1 /\ lastUpdate <= now
         /\ lastFullHostUpdate \in Int /\ lastFullHostUpdate <= now
  <1>1. upd[u] \in UpdateType
    BY DEF Base, Types
  <1>2. upd[u].from \in Nat /\ upd[u].to \in Nat
    BY <1>1 DEF UpdateType
  <1>3. now >= 1
    BY Constants DEF Base, Types
  <1> QED
    BY <1>1, <1>2, <1>3 DEF Base, Types, TimeInv, FullInv, Loop

LEMMA ResumeBeginBase ==
  ASSUME Base, ResumeBegin
  PROVE  Base' /\ disturbedAt' = now /\ now' = now
  <1>0. /\ now \in Nat /\ now >= 1 /\ lastUpdate \in Nat /\ lastUpdate <= now /\ lastUpdate >= 1
        /\ disturbedAt \in Nat /\ disturbedAt <= now
        /\ lastFullHostUpdate \in Int /\ lastFullHostUpdate <= now
        /\ cached \in [Rows -> Row] /\ forceFull \in BOOLEAN /\ warning \in BOOLEAN
    BY Constants DEF Base, Types
  <1> DEFINE new == [Idle EXCEPT !.pc = "scan", !.from = lastUpdate, !.to = now]
  <1>1. /\ UNCHANGED <<now, remote, cached, lastUpdate, lastFullHostUpdate, forceFull, warning>>
        /\ UNCHANGED <<changedAt, prompt>> /\ disturbedAt' = now /\ Step("resume", new)
    BY DEF ResumeBegin, status
  <1>2. new \in UpdateType /\ new.from = lastUpdate /\ new.to = now /\ new.pc = "scan"
    BY <1>0, IdleTyped DEF UpdateType
  <1>3. now <= now + Duration /\ now <= now
    BY <1>0, Constants
  <1> HIDE DEF new
  <1> QED
    BY <1>0, <1>1, <1>2, <1>3, UpdateBase, UpdatersAre

\* What a scan has found, if it was due and its filter is not too long.
FoundBy(u) == IF ScanDue /\ FilterLength(upd[u], Missing) <= MaxFilter THEN Missing ELSE {}

LEMMA MissingTyped ==
  ASSUME Base
  PROVE  /\ Missing \subseteq Nat /\ \A t \in Missing : t <= now
         /\ \A r \in Rows : remote[r] # cached[r] /\ Due(r) < now => remote[r].check \in Missing
  <1>1. now \in Nat /\ \A r \in Rows : remote[r] \in Row /\ remote[r].check \in Nat
    BY DEF Base, Types, CheckInv, Row
  <1>2. \A r \in Rows : remote[r].check < now - UpdateOffset <=> Due(r) < now
    BY <1>1, Constants DEF Due
  <1>3. \A r \in Rows : remote[r].check < now - UpdateOffset => remote[r].check <= now
    BY <1>1, Constants
  <1> QED
    BY <1>1, <1>2, <1>3 DEF Missing

LEMMA ScanBase ==
  ASSUME Base, NEW u \in Updaters, Scan(u)
  PROVE  /\ Base' /\ UNCHANGED <<now, remote, cached, lastUpdate, changedAt, disturbedAt>>
         /\ upd[u].pc = "scan" /\ upd'[u].pc = "fetch" /\ upd'[u].from = upd[u].from
         /\ upd'[u].to = upd[u].to /\ upd'[u].all = upd[u].all
         /\ upd'[u].times = FoundBy(u) /\ (upd'[u].scan <=> FoundBy(u) # {})
         /\ lastFullHostUpdate' =
              IF ScanDue /\ FoundBy(u) = {} THEN now ELSE lastFullHostUpdate
         /\ \A v \in Updaters : v # u => upd'[v] = upd[v]
  <1> DEFINE found == FoundBy(u)
             new == [upd[u] EXCEPT !.pc = "fetch", !.times = found, !.scan = found # {}]
  <1>1. /\ UNCHANGED <<now, remote, cached, lastUpdate, forceFull, warning>>
        /\ UNCHANGED <<changedAt, prompt, disturbedAt>>
        /\ Step(u, new) /\ upd[u].pc = "scan"
        /\ lastFullHostUpdate' = IF ScanDue /\ found = {} THEN now ELSE lastFullHostUpdate
    BY DEF Scan, FoundBy, history, At
  <1>2. found \subseteq Int
    BY MissingTyped DEF FoundBy
  <1>3. /\ new \in UpdateType /\ new.pc = "fetch" /\ new.from = upd[u].from
        /\ new.to = upd[u].to /\ new.all = upd[u].all /\ new.times = found
        /\ (new.scan <=> found # {})
    <2> HIDE DEF found
    <2> QED
      BY <1>2, UnderWay DEF UpdateType
  <1>4. lastFullHostUpdate' \in Int /\ lastFullHostUpdate' <= now
    BY <1>1, UnderWay
  <1> HIDE DEF new, found
  <1>5. Base'
    <2>1. /\ cached' \in [Rows -> Row] /\ forceFull' \in BOOLEAN /\ warning' \in BOOLEAN
          /\ lastUpdate' \in Nat /\ lastUpdate' >= 1 /\ lastUpdate' <= now
      BY <1>1, UnderWay
    <2>2. /\ new.from <= new.to /\ new.to <= now /\ (new.pc # "idle" => now <= new.to + Duration /\ new.to >= 1)
          /\ u = "resume" /\ new.pc # "idle" => new.to <= disturbedAt'
          /\ ~ (u = "loop" /\ new.all)
      BY <1>1, <1>3, UnderWay
    <2> QED
      BY <1>1, <1>3, <1>4, <2>1, <2>2, UpdateBase
  <1>6. upd'[u] = new /\ \A v \in Updaters : v # u => upd'[v] = upd[v]
    BY <1>1, <1>3, UpdateTyped DEF Base
  <1> QED
    BY <1>1, <1>3, <1>5, <1>6 DEF found

LEMMA FetchBase ==
  ASSUME Base, NEW u \in Updaters, Fetch(u)
  PROVE  /\ Base' /\ UNCHANGED <<now, remote, cached, lastUpdate, lastFullHostUpdate>>
         /\ UNCHANGED <<changedAt, disturbedAt>>
         /\ upd[u].pc = "fetch" /\ upd'[u].pc = "insert" /\ upd'[u].from = upd[u].from
         /\ upd'[u].to = upd[u].to /\ upd'[u].all = upd[u].all /\ upd'[u].scan = upd[u].scan
         /\ DOMAIN upd'[u].rows = {r \in Rows : Selected(upd[u], remote[r])}
         /\ \A r \in DOMAIN upd'[u].rows : upd'[u].rows[r] = remote[r]
         /\ \A v \in Updaters : v # u => upd'[v] = upd[v]
  <1> DEFINE hits == {r \in Rows : Selected(upd[u], remote[r])}
             rows == [r \in hits |-> remote[r]]
             new == [upd[u] EXCEPT !.pc = "insert", !.rows = rows]
  <1>1. /\ UNCHANGED <<now, remote, cached, lastUpdate, lastFullHostUpdate, forceFull, warning>>
        /\ UNCHANGED <<changedAt, prompt, disturbedAt>>
        /\ Step(u, new) /\ upd[u].pc = "fetch"
    BY DEF Fetch, history, status, At
  <1>2. rows \in Fetched
    <2>1. rows \in [hits -> Row] /\ hits \in SUBSET Rows
      BY UnderWay
    <2> HIDE DEF rows, hits
    <2> QED
      BY <2>1 DEF Fetched
  <1>3. DOMAIN rows = hits /\ \A r \in hits : rows[r] = remote[r]
    OBVIOUS
  <1> HIDE DEF rows, hits
  <1>4. /\ new \in UpdateType /\ new.pc = "insert" /\ new.from = upd[u].from
        /\ new.to = upd[u].to /\ new.all = upd[u].all /\ new.scan = upd[u].scan /\ new.rows = rows
    BY <1>2, UnderWay DEF UpdateType
  <1> HIDE DEF new
  <1>5. Base'
    <2>1. /\ cached' \in [Rows -> Row] /\ forceFull' \in BOOLEAN /\ warning' \in BOOLEAN
          /\ lastUpdate' \in Nat /\ lastUpdate' >= 1 /\ lastUpdate' <= now
          /\ lastFullHostUpdate' \in Int /\ lastFullHostUpdate' <= now
      BY <1>1, UnderWay
    <2>2. /\ new.from <= new.to /\ new.to <= now /\ (new.pc # "idle" => now <= new.to + Duration /\ new.to >= 1)
          /\ u = "resume" /\ new.pc # "idle" => new.to <= disturbedAt'
          /\ u = "loop" /\ new.all => /\ new.to <= disturbedAt' + Period
                                      /\ ~ new.scan /\ new.pc # "scan"
      BY <1>1, <1>4, UnderWay
    <2> QED
      BY <1>1, <1>4, <2>1, <2>2, UpdateBase
  <1>6. upd'[u] = new /\ \A v \in Updaters : v # u => upd'[v] = upd[v]
    BY <1>1, <1>4, UpdateTyped DEF Base
  <1> QED
    BY <1>1, <1>3, <1>4, <1>5, <1>6 DEF hits

LEMMA InsertBase ==
  ASSUME Base, NEW u \in Updaters, Insert(u)
  PROVE  /\ Base' /\ UNCHANGED <<now, remote, lastUpdate, changedAt>>
         /\ disturbedAt' = IF u = "loop" /\ ~ upd[u].all THEN disturbedAt ELSE now
         /\ lastFullHostUpdate' = IF upd[u].scan THEN now ELSE lastFullHostUpdate
         /\ \A r \in Rows : cached'[r] = IF r \in DOMAIN upd[u].rows THEN upd[u].rows[r]
                                         ELSE cached[r]
         /\ upd[u].pc = "insert" /\ upd'[u].pc = "commit" /\ upd'[u].from = upd[u].from
         /\ upd'[u].to = upd[u].to /\ upd'[u].all = upd[u].all
  <1> DEFINE new == [upd[u] EXCEPT !.pc = "commit", !.rows = << >>]
  <1>1. /\ UNCHANGED <<now, remote, lastUpdate, forceFull, warning, changedAt, prompt>>
        /\ Step(u, new) /\ upd[u].pc = "insert"
        /\ disturbedAt' = IF u = "loop" /\ ~ upd[u].all THEN disturbedAt ELSE now
        /\ lastFullHostUpdate' = IF upd[u].scan THEN now ELSE lastFullHostUpdate
        /\ cached' = [r \in Rows |-> IF r \in DOMAIN upd[u].rows THEN upd[u].rows[r]
                                     ELSE cached[r]]
    BY DEF Insert, Note, ScanEnds, At
  <1>2. cached' \in [Rows -> Row]
    <2>1. upd[u].rows \in Fetched /\ cached \in [Rows -> Row]
      BY UnderWay DEF UpdateType
    <2>2. \A r \in DOMAIN upd[u].rows : upd[u].rows[r] \in Row
      <3>1. CASE upd[u].rows = << >>
        BY <3>1
      <3>2. CASE upd[u].rows # << >>
        <4>1. PICK S \in SUBSET Rows : upd[u].rows \in [S -> Row]
          BY <2>1, <3>2 DEF Fetched
        <4> QED
          BY <4>1
      <3> QED
        BY <3>1, <3>2
    <2> QED
      BY <1>1, <2>1, <2>2
  <1>3. /\ new \in UpdateType /\ new.pc = "commit" /\ new.from = upd[u].from
        /\ new.to = upd[u].to /\ new.all = upd[u].all /\ new.scan = upd[u].scan
    BY UnderWay, IdleTyped DEF UpdateType
  <1> HIDE DEF new
  <1>4. Base'
    <2>1. /\ forceFull' \in BOOLEAN /\ warning' \in BOOLEAN
          /\ lastUpdate' \in Nat /\ lastUpdate' >= 1 /\ lastUpdate' <= now
          /\ lastFullHostUpdate' \in Int /\ lastFullHostUpdate' <= now
          /\ disturbedAt' \in {disturbedAt, now}
      BY <1>1, UnderWay
    <2>2. /\ new.from <= new.to /\ new.to <= now /\ (new.pc # "idle" => now <= new.to + Duration /\ new.to >= 1)
          /\ u = "resume" => disturbedAt' = now
          /\ u = "resume" /\ new.pc # "idle" => new.to <= disturbedAt'
      BY <1>1, <1>3, UnderWay
    <2>3. u = "loop" /\ new.all => /\ new.to <= disturbedAt' + Period
                                   /\ ~ new.scan /\ new.pc # "scan"
      BY <1>1, <1>3, UnderWay, Constants
    <2> QED
      BY <1>1, <1>2, <1>3, <2>1, <2>2, <2>3, UpdateBase
  <1>5. upd'[u] = new
    BY <1>1, <1>3, UpdateTyped DEF Base
  <1> QED
    BY <1>1, <1>3, <1>4, <1>5

LEMMA CommitBase ==
  ASSUME Base, NEW u \in Updaters, Commit(u)
  PROVE  /\ Base' /\ UNCHANGED <<now, remote, cached, lastFullHostUpdate, changedAt>>
         /\ disturbedAt' = IF u = "loop" /\ ~ upd[u].all THEN disturbedAt ELSE now
         /\ ~ upd[u].all => lastUpdate' = upd[u].to
         /\ upd[u].pc = "commit" /\ upd'[u].pc = "idle"
  <1>1. /\ UNCHANGED <<now, remote, cached, lastFullHostUpdate, forceFull, changedAt, prompt>>
        /\ Step(u, Idle) /\ upd[u].pc = "commit" /\ warning' = FALSE
        /\ disturbedAt' = IF u = "loop" /\ ~ upd[u].all THEN disturbedAt ELSE now
        /\ lastUpdate' = IF upd[u].all THEN now ELSE upd[u].to
    BY DEF Commit, Note, At
  <1>2. Base'
    <2>1. /\ cached' \in [Rows -> Row] /\ forceFull' \in BOOLEAN /\ warning' \in BOOLEAN
          /\ lastFullHostUpdate' \in Int /\ lastFullHostUpdate' <= now
          /\ disturbedAt' \in {disturbedAt, now}
      BY <1>1, UnderWay
    <2>2. lastUpdate' \in Nat /\ lastUpdate' <= now
      BY <1>1, UnderWay
    <2>3. now <= lastUpdate' + Period
      BY <1>1, UnderWay, Constants
    <2>4. lastUpdate' >= 1
      <3>1. now >= 1 /\ upd[u].to >= 1
        BY <1>1, UnderWay
      <3> QED
        BY <1>1, <3>1
    <2>5. Idle.from <= Idle.to /\ Idle.to <= now
      BY UnderWay, IdleTyped
    <2>6. u = "resume" => disturbedAt' = now
      BY <1>1
    <2> QED
      BY <1>1, <2>1, <2>2, <2>3, <2>4, <2>5, <2>6, IdleTyped, UpdateBase
  <1>3. upd'[u] = Idle
    BY <1>1, UpdateTyped, IdleTyped DEF Base
  <1> QED
    BY <1>1, <1>2, <1>3, IdleTyped

LEMMA FailsBase ==
  ASSUME Base, NEW u \in Updaters, Fails(u)
  PROVE  Base' /\ disturbedAt' = now /\ now' = now
  <1>1. /\ UNCHANGED <<now, remote, cached, lastUpdate, forceFull, changedAt, prompt>>
        /\ Step(u, Idle) /\ disturbedAt' = now /\ warning' \in {warning, TRUE}
        /\ lastFullHostUpdate' \in {lastFullHostUpdate, now}
    BY DEF Fails, ScanEnds
  <1>2. /\ cached' \in [Rows -> Row] /\ forceFull' \in BOOLEAN /\ warning' \in BOOLEAN
    <2>1. forceFull \in BOOLEAN /\ warning \in BOOLEAN /\ cached \in [Rows -> Row]
      BY UnderWay
    <2>2. warning' \in BOOLEAN
      BY <1>1, <2>1, Zenon
    <2> QED
      BY <1>1, <2>1, <2>2
  <1>3. /\ lastFullHostUpdate' \in Int /\ lastFullHostUpdate' <= now
        /\ lastUpdate' \in Nat /\ lastUpdate' >= 1 /\ lastUpdate' <= now
        /\ Idle.from <= Idle.to /\ Idle.to <= now
    BY <1>1, UnderWay, IdleTyped
  <1> QED
    BY <1>1, <1>2, <1>3, IdleTyped, UpdateBase

\* Steps that leave the updates under way alone.
LEMMA ScheduleBase ==
  ASSUME Base, ScheduleImmediateUpdate
  PROVE  Base' /\ disturbedAt' = now /\ now' = now
  <1>1. /\ UNCHANGED <<now, remote, cached, warning, upd, changedAt, prompt>>
        /\ disturbedAt' = now /\ lastUpdate' = (now - Updateinterval) - 1
        /\ lastFullHostUpdate' = (now - MinFullScanInterval) - 1
        /\ forceFull' \in {forceFull, TRUE}
    BY DEF ScheduleImmediateUpdate
  <1>2. now \in Nat /\ Start <= now /\ disturbedAt \in Nat /\ disturbedAt <= now
    BY DEF Base, Types
  <1>3. /\ lastUpdate' \in Nat /\ lastUpdate' >= 1 /\ lastUpdate' <= now
        /\ lastFullHostUpdate' \in Int /\ lastFullHostUpdate' <= now
    BY <1>1, <1>2, Constants
  <1>4. Types'
    <2>1. forceFull \in BOOLEAN
      BY DEF Base, Types
    <2>2. forceFull' \in BOOLEAN
      BY <1>1, <2>1, Zenon
    <2>3. disturbedAt' \in Nat /\ Start <= disturbedAt' /\ disturbedAt' <= now
      BY <1>1, <1>2
    <2> QED
      BY <1>1, <1>3, <2>2, <2>3 DEF Base, Types
  <1>5. CheckInv'
    BY <1>1 DEF Base, CheckInv
  <1>6. TimeInv'
    <2>1. \A u \in Updaters : upd[u].to \in Nat /\ upd[u].to <= now
      BY UnderWay
    <2>2. \A u \in Updaters : /\ upd[u].from <= upd[u].to /\ upd[u].to <= now
                              /\ upd[u].pc # "idle" => now <= upd[u].to + Duration /\ upd[u].to >= 1
      BY UnderWay
    <2>3. now' <= disturbedAt' /\ upd["resume"].to <= disturbedAt'
      BY <1>1, <1>2, <2>1, UpdatersAre
    <2> QED
      BY <1>1, <2>2, <2>3 DEF TimeInv, Loop
  <1>7. FullInv'
    <2>1. Loop.all => Loop.to <= now + Period /\ ~ Loop.scan /\ Loop.pc # "scan"
      <3>1. Loop.to \in Nat /\ Loop.to <= now /\ (Loop.all => ~ Loop.scan /\ Loop.pc # "scan")
        BY UnderWay, UpdatersAre DEF Loop
      <3> QED
        BY <1>2, <3>1, Constants
    <2> QED
      BY <1>1, <1>3, <2>1 DEF FullInv, Loop
  <1> QED
    BY <1>1, <1>4, <1>5, <1>6, <1>7 DEF Base

LEMMA ChangeBase ==
  ASSUME Base, NEW r \in Rows, Checked(r) \/ Flagged(r)
  PROVE  /\ Base' /\ UNCHANGED <<now, cached, lastUpdate, lastFullHostUpdate, upd, disturbedAt>>
         /\ changedAt'[r] = now
         /\ \A x \in Rows : x # r => changedAt'[x] = changedAt[x] /\ remote'[x] = remote[x]
  <1>1. /\ UNCHANGED <<now, cached, lastUpdate, lastFullHostUpdate, forceFull, warning, upd>>
        /\ UNCHANGED disturbedAt /\ changedAt' = [changedAt EXCEPT ![r] = now]
    BY DEF Checked, Flagged, status
  <1>2. /\ now \in Nat /\ remote \in [Rows -> Row] /\ prompt \in [Rows -> BOOLEAN]
        /\ changedAt \in [Rows -> Nat] /\ remote[r] \in Row /\ remote[r].check \in Int
        /\ remote[r].flag \in BOOLEAN
    BY DEF Base, Types, Row
  <1>3. remote[r].check >= 0 /\ remote[r].check <= now
    <2>1. remote[r].check >= 0 /\ remote[r].check <= changedAt[r] /\ changedAt[r] <= now
      BY DEF Base, CheckInv
    <2> QED
      BY <1>2, <2>1
  <1>4. /\ remote' \in [Rows -> Row] /\ prompt' \in [Rows -> BOOLEAN]
        /\ remote'[r].check >= 0 /\ remote'[r].check <= now
        /\ prompt'[r] => now <= remote'[r].check + UpdateOffset
        /\ \A x \in Rows : x # r => remote'[x] = remote[x] /\ prompt'[x] = prompt[x]
    <2>1. CASE Checked(r)
      <3>1. PICK c \in now - Lateness .. now :
              /\ c > remote[r].check /\ remote' = [remote EXCEPT ![r].check = c]
              /\ prompt' = [prompt EXCEPT ![r] = now <= c + UpdateOffset]
        BY <2>1 DEF Checked
      <3>2. c \in Int /\ c >= 0 /\ c <= now
        BY <1>2, <1>3, <3>1, Constants
      <3>3. [remote[r] EXCEPT !.check = c] \in Row /\ [remote[r] EXCEPT !.check = c].check = c
        BY <1>2, <3>2 DEF Row
      <3>4. remote'[r] = [remote[r] EXCEPT !.check = c] /\ remote' \in [Rows -> Row]
        BY <1>2, <3>1, <3>3
      <3>5. prompt' \in [Rows -> BOOLEAN] /\ prompt'[r] = (now <= c + UpdateOffset)
        BY <1>2, <3>1
      <3>6. \A x \in Rows : x # r => remote'[x] = remote[x] /\ prompt'[x] = prompt[x]
        BY <1>2, <3>1
      <3> QED
        BY <3>2, <3>3, <3>4, <3>5, <3>6
    <2>2. CASE Flagged(r)
      <3>1. /\ remote' = [remote EXCEPT ![r].flag = ~ @] /\ prompt' = [prompt EXCEPT ![r] = FALSE]
        BY <2>2 DEF Flagged
      <3>2. /\ [remote[r] EXCEPT !.flag = ~ remote[r].flag] \in Row
            /\ [remote[r] EXCEPT !.flag = ~ remote[r].flag].check = remote[r].check
        BY <1>2 DEF Row
      <3>3. /\ remote'[r] = [remote[r] EXCEPT !.flag = ~ remote[r].flag] /\ remote' \in [Rows -> Row]
        BY <1>2, <3>1, <3>2
      <3>4. prompt' \in [Rows -> BOOLEAN] /\ prompt'[r] = FALSE
        BY <1>2, <3>1
      <3>5. \A x \in Rows : x # r => remote'[x] = remote[x] /\ prompt'[x] = prompt[x]
        BY <1>2, <3>1
      <3> QED
        BY <1>3, <3>2, <3>3, <3>4, <3>5
    <2> QED
      BY <2>1, <2>2
  <1>5. /\ changedAt' \in [Rows -> Nat] /\ changedAt'[r] = now
        /\ \A x \in Rows : x # r => changedAt'[x] = changedAt[x]
    BY <1>1, <1>2
  <1>6. Types'
    BY <1>1, <1>4, <1>5 DEF Base, Types
  <1>7. CheckInv'
    <2>1. now <= now
      BY <1>2
    <2> QED
      BY <1>1, <1>4, <1>5, <2>1 DEF Base, CheckInv
  <1>8. TimeInv' /\ FullInv'
    BY <1>1 DEF Base, TimeInv, FullInv, Loop
  <1> QED
    BY <1>1, <1>4, <1>5, <1>6, <1>7, <1>8 DEF Base

LEMMA ClockBase ==
  ASSUME Base, Clock
  PROVE  /\ Base' /\ UNCHANGED <<remote, cached, lastUpdate, lastFullHostUpdate, upd>>
         /\ UNCHANGED <<changedAt, disturbedAt>>
  <1>1. /\ UNCHANGED <<remote, cached, lastUpdate, lastFullHostUpdate, forceFull, warning, upd>>
        /\ UNCHANGED <<changedAt, prompt, disturbedAt>>
        /\ now' = now + 1 /\ now < MaxTime
    BY DEF Clock, status, history
  <1>2. Types'
    BY <1>1, Constants DEF Base, Types
  <1>3. CheckInv'
    <2>1. now \in Nat /\ \A r \in Rows : changedAt[r] \in Nat
      BY DEF Base, Types
    <2>2. \A n \in Nat : n <= now => n <= now + 1
      BY <2>1
    <2> QED
      BY <1>1, <2>1, <2>2 DEF Base, CheckInv
  <1>4. TimeInv'
    <2>0. /\ now \in Nat /\ lastUpdate \in Nat
          /\ \A u \in Updaters : /\ upd[u].to \in Nat /\ upd[u].to <= now /\ upd[u].from <= upd[u].to
                                 /\ upd[u].pc # "idle" => upd[u].to >= 1
          /\ upd["resume"].pc # "idle" => upd["resume"].to <= disturbedAt
      BY UnderWay, UpdatersAre
    <2>1. \A u \in Updaters : upd[u].pc # "idle" => now < upd[u].to + Duration
      BY DEF Clock, At
    <2>2. Loop.pc = "idle" => now < lastUpdate + Updateinterval
      BY DEF Clock, At, Loop
    <2>3. Loop.pc = "idle" => now + 1 <= lastUpdate + Period
      BY <2>0, <2>2, Constants
    <2>4. ASSUME NEW u \in Updaters
          PROVE  /\ upd'[u].from <= upd'[u].to /\ upd'[u].to <= now'
                 /\ upd'[u].pc # "idle" => now' <= upd'[u].to + Duration /\ upd'[u].to >= 1
      <3>1. /\ upd[u].to \in Nat /\ upd[u].to <= now /\ upd[u].from <= upd[u].to
            /\ upd[u].pc # "idle" => upd[u].to >= 1 /\ now < upd[u].to + Duration
        BY <2>0, <2>1
      <3>2. /\ upd[u].to <= now + 1
            /\ upd[u].pc # "idle" => now + 1 <= upd[u].to + Duration
        BY <2>0, <3>1, Constants
      <3> QED
        BY <1>1, <3>1, <3>2
    <2>5. /\ Loop'.pc = "idle" => now' <= lastUpdate' + Period
          /\ upd'["resume"].pc # "idle" => upd'["resume"].to <= disturbedAt'
      BY <1>1, <2>0, <2>3 DEF Loop
    <2> QED
      BY <2>4, <2>5 DEF TimeInv, Loop
  <1>5. FullInv'
    BY <1>1 DEF Base, FullInv, Loop
  <1> QED
    BY <1>1, <1>2, <1>3, <1>4, <1>5 DEF Base

-----------------------------------------------------------------------------
(* A row on its way into the cache.                                         *)

LEMMA RowNumbers ==
  ASSUME Base, NEW r \in Rows
  PROVE  /\ Due(r) \in Nat /\ Since(r) \in Nat /\ remote[r].check \in Nat /\ Since(r) <= now
         /\ disturbedAt <= Since(r) /\ changedAt[r] <= Since(r)
         /\ Due(r) <= changedAt[r] + UpdateOffset /\ changedAt[r] \in Nat
  <1>1. /\ remote[r].check \in Int /\ changedAt[r] \in Nat /\ disturbedAt \in Nat /\ now \in Nat
        /\ disturbedAt <= now
    BY DEF Base, Types, Row
  <1>2. /\ remote[r].check >= 0 /\ remote[r].check <= changedAt[r] /\ changedAt[r] <= now
    BY DEF Base, CheckInv
  <1> QED
    BY <1>1, <1>2, Constants DEF Due, Since

\* After a change or a disturbance everything is still to come.
LEMMA Fresh ==
  ASSUME Base', NEW r \in Rows, changedAt'[r] = now' \/ disturbedAt' = now'
  PROVE  WindowInv(r)' /\ ScanInv(r)'
  <1>1. /\ now' \in Nat /\ changedAt'[r] \in Nat /\ disturbedAt' \in Nat /\ disturbedAt' <= now'
        /\ lastUpdate' \in Nat /\ lastUpdate' <= now'
        /\ lastFullHostUpdate' \in Int /\ lastFullHostUpdate' <= now'
        /\ Loop' \in UpdateType
    BY UpdatersAre DEF Base, Types, Loop
  <1>2. changedAt'[r] <= now' /\ Loop'.to <= now'
    BY UpdatersAre DEF Base, CheckInv, TimeInv, Loop
  <1>3. Loop'.to \in Nat
    BY <1>1 DEF UpdateType
  <1>4. Since(r)' = now'
    BY <1>1, <1>2 DEF Since
  <1>5. remote'[r].check \in Int
    BY DEF Base, Types, Row
  <1>6. Due(r)' >= Since(r)' => Waits(r)'
    <2>1. Due(r)' \in Int
      BY <1>5, Constants DEF Due
    <2> QED
      BY <1>1, <1>2, <1>3, <1>4, <2>1 DEF Waits
  <1>7. Unscanned(r)'
    <2>1. /\ lastUpdate' < now' + Duration + MinFullScanInterval
          /\ Loop'.to < now' + Duration + MinFullScanInterval
          /\ Loop'.to < now' + Duration + MinFullScanInterval + Period
          /\ lastFullHostUpdate' <= now' + Duration
      <3>1. \A n \in Nat : \A t \in Int :
              t <= n => /\ t < n + Duration + MinFullScanInterval
                        /\ t < n + Duration + MinFullScanInterval + Period
                        /\ t <= n + Duration
        BY Constants
      <3> QED
        BY <1>1, <1>2, <1>3, <3>1
    <2> QED
      BY <1>2, <1>4, <2>1 DEF Unscanned, ScanDeadline, Loop
  <1> QED
    BY <1>6, <1>7 DEF WindowInv, ScanInv

\* Steps that do not concern the row.
LEMMA RowFrame ==
  ASSUME NEW r \in Rows, Loop' = Loop, UNCHANGED <<lastUpdate, disturbedAt>>,
         remote'[r] = remote[r], cached'[r] = cached[r], changedAt'[r] = changedAt[r]
  PROVE  /\ WindowInv(r) => WindowInv(r)'
         /\ UNCHANGED lastFullHostUpdate /\ ScanInv(r) => ScanInv(r)'
         /\ Due(r)' = Due(r) /\ Since(r)' = Since(r) /\ Coming(r)' = Coming(r)
         /\ Right(r)' = Right(r) /\ ScanDeadline(r)' = ScanDeadline(r)
  <1>1. Due(r)' = Due(r) /\ Since(r)' = Since(r)
    BY DEF Due, Since
  <1>2. ScanDeadline(r)' = ScanDeadline(r)
    BY <1>1 DEF ScanDeadline
  <1>3. Selected(Loop, remote[r])' = Selected(Loop, remote[r])
    BY DEF Selected, InWindow, Blocks
  <1>4. Right(r)' = Right(r) /\ Coming(r)' = Coming(r)
    BY <1>3 DEF Right, Coming
  <1>5. Waits(r)' = Waits(r) /\ InThisWindow(r)' = InThisWindow(r)
    BY <1>1, <1>4 DEF Waits, InThisWindow
  <1>6. WindowInv(r)' = WindowInv(r)
    BY <1>1, <1>4, <1>5 DEF WindowInv
  <1>7. ASSUME UNCHANGED lastFullHostUpdate
        PROVE  ScanInv(r)' = ScanInv(r)
    <2>1. Unscanned(r)' = Unscanned(r) /\ InThisScan(r)' = InThisScan(r)
      BY <1>1, <1>2, <1>4, <1>7 DEF Unscanned, InThisScan
    <2> QED
      BY <1>1, <1>4, <2>1 DEF ScanInv
  <1> QED
    BY <1>1, <1>2, <1>4, <1>6, <1>7

\* The rows that are the same before and after a step of the loop.
LEMMA SameRow ==
  ASSUME NEW r \in Rows, UNCHANGED disturbedAt, remote'[r] = remote[r], changedAt'[r] = changedAt[r]
  PROVE  Due(r)' = Due(r) /\ Since(r)' = Since(r) /\ ScanDeadline(r)' = ScanDeadline(r)
  BY DEF Due, Since, ScanDeadline

\* periodicUpdate: the window begins where the last one has ended.
LEMMA LoopBeginRow ==
  ASSUME Base, LoopBegin, NEW r \in Rows
  PROVE  /\ WindowInv(r) => WindowInv(r)'
         /\ ScanInv(r) => ScanInv(r)'
  <1>0. /\ Loop.pc = "idle" /\ Loop'.to = now /\ lastUpdate' = now
        /\ \/ Loop'.pc = "fetch" /\ Loop'.all /\ ~ Loop'.scan
           \/ Loop'.pc = "scan" /\ ~ Loop'.all /\ Loop'.from \in {0, lastUpdate}
    BY LoopBeginBase DEF LoopBegin, At, Loop
  <1>1. UNCHANGED <<now, remote, cached, lastFullHostUpdate, changedAt, disturbedAt>>
    BY DEF LoopBegin, history
  <1>2. Due(r)' = Due(r) /\ Since(r)' = Since(r) /\ ScanDeadline(r)' = ScanDeadline(r)
    BY <1>1, SameRow
  <1>3. /\ now \in Nat /\ lastUpdate \in Nat /\ Due(r) \in Nat /\ Since(r) \in Nat
        /\ disturbedAt \in Nat /\ disturbedAt <= Since(r)
        /\ now <= lastUpdate + Period \/ now <= disturbedAt
    BY <1>0, RowNumbers DEF Base, Types, TimeInv
  <1>4. Right(r) => Right(r)'
    BY <1>0, <1>1 DEF Right
  <1>5. ~ Coming(r)
    BY <1>0 DEF Coming
  <1>6. ASSUME Due(r) >= Since(r), Waits(r)
        PROVE  Waits(r)' \/ InThisWindow(r)'
    <2>1. lastUpdate <= Due(r)
      BY <1>6 DEF Waits
    <2>2. CASE now <= Due(r)
      BY <1>0, <1>1, <1>2, <2>2 DEF Waits
    <2>3. CASE Due(r) < now
      <3>1. now <= Due(r) + Period
        BY <1>3, <1>6, <2>1, <2>3, Constants
      <3>2. Loop'.pc = "scan" => Loop'.from <= Due(r)
        BY <1>0, <1>3, <2>1
      <3>3. Loop'.pc = "fetch" => Coming(r)'
        BY <1>0 DEF Coming, Selected
      <3> QED
        BY <1>0, <1>2, <2>3, <3>1, <3>2, <3>3 DEF InThisWindow
    <2> QED
      BY <1>3, <2>2, <2>3
  <1>7. WindowInv(r) => WindowInv(r)'
    BY <1>0, <1>2, <1>4, <1>6 DEF WindowInv, InThisWindow
  <1>8. ASSUME Unscanned(r)
        PROVE  Unscanned(r)'
    <2>1. lastUpdate < ScanDeadline(r) /\ lastFullHostUpdate <= Since(r) + Duration
      BY <1>0, <1>8 DEF Unscanned
    <2>2. now < ScanDeadline(r) + Period
      <3>1. ScanDeadline(r) \in Nat /\ Since(r) < ScanDeadline(r)
        BY <1>3, Constants DEF ScanDeadline
      <3> QED
        BY <1>3, <2>1, <3>1, Constants
    <2> QED
      BY <1>0, <1>1, <1>2, <2>1, <2>2 DEF Unscanned
  <1>9. ScanInv(r) => ScanInv(r)'
    BY <1>2, <1>4, <1>5, <1>8 DEF ScanInv, InThisScan
  <1> QED
    BY <1>7, <1>9

\* The filters of UpdateDelta: the window, and the blocks of a scan.
LEMMA WindowSelects ==
  ASSUME Base, Base', Scan("loop"), NEW r \in Rows, Loop.from <= Due(r), Due(r) < Loop.to,
         Loop.from = 0 => FoundBy("loop") = {}
  PROVE  Selected(Loop', remote[r])
  <1>1. /\ Loop'.from = Loop.from /\ Loop'.to = Loop.to /\ Loop'.times = FoundBy("loop")
        /\ Loop.from \in Nat /\ Loop.to \in Nat
    BY ScanBase, UnderWay, UpdatersAre DEF Loop
  <1>2. CASE Loop.from = 0
    BY <1>1, <1>2 DEF Selected
  <1>3. CASE Loop.from > 0
    <2>1. InWindow(Loop', remote[r])
      BY <1>1, RowNumbers, Constants DEF InWindow, Due
    <2> QED
      BY <1>1, <1>3, <2>1 DEF Selected
  <1> QED
    BY <1>1, <1>2, <1>3

LEMMA ScanSelects ==
  ASSUME Base, Scan("loop"), NEW r \in Rows, Due(r) < now, remote[r] # cached[r],
         FoundBy("loop") # {}, ~ CutShort(Loop)
  PROVE  Selected(Loop', remote[r])
  <1>1. Loop'.times = Missing /\ ~ CutShort(Loop')
    BY ScanBase, UpdatersAre DEF Loop, FoundBy, CutShort
  <1>2. /\ Missing \subseteq Nat /\ (\A t \in Missing : t <= now) /\ now \in Nat
        /\ remote[r].check \in Missing
    BY MissingTyped DEF Base, Types
  <1>3. \E b \in Blocks(Missing) : b[1] <= remote[r].check /\ remote[r].check <= b[2]
    BY <1>2, Covered
  <1> QED
    BY <1>1, <1>3 DEF Selected

LEMMA LoopScanRow ==
  ASSUME Base, Scan("loop"), NEW r \in Rows
  PROVE  /\ WindowInv(r) => WindowInv(r)'
         /\ ~ SyncIsExecuting /\ FilterLength(Loop, Missing) <= MaxFilter /\ ScanInv(r) =>
              ScanInv(r)'
  <1>0. /\ Base' /\ UNCHANGED <<now, remote, cached, lastUpdate, changedAt, disturbedAt>>
        /\ Loop.pc = "scan" /\ Loop'.pc = "fetch" /\ Loop'.from = Loop.from
        /\ Loop'.to = Loop.to /\ Loop'.all = Loop.all
        /\ (Loop'.scan <=> FoundBy("loop") # {})
        /\ lastFullHostUpdate' = IF ScanDue /\ FoundBy("loop") = {} THEN now ELSE lastFullHostUpdate
    BY ScanBase, UpdatersAre DEF Loop
  <1>1. Due(r)' = Due(r) /\ Since(r)' = Since(r) /\ ScanDeadline(r)' = ScanDeadline(r)
    BY <1>0, SameRow
  <1>2. /\ Loop.to \in Nat /\ Loop.to <= now /\ now \in Nat /\ Due(r) \in Nat /\ Since(r) \in Nat
        /\ Since(r) <= now /\ ~ Loop.all
    BY <1>0, RowNumbers, UnderWay, UpdatersAre DEF Loop
  <1>3. cached[r] = remote[r] => Right(r)'
    BY <1>0 DEF Right
  <1>4. Selected(Loop', remote[r]) => Coming(r)'
    BY <1>0 DEF Coming, Selected, InWindow, Blocks
  <1>5. ASSUME InThisWindow(r)
        PROVE  Right(r)' \/ InThisWindow(r)'
    <2>1. Due(r) < Loop.to /\ Loop.to <= Due(r) + Period /\ Loop.from <= Due(r)
      BY <1>0, <1>5 DEF InThisWindow, Coming
    <2>2. CASE cached[r] = remote[r]
      BY <1>3, <2>2
    <2>3. CASE cached[r] # remote[r]
      <3>1. Due(r) < now
        BY <1>2, <2>1
      <3>2. Selected(Loop', remote[r])
        <4>1. CASE Loop.from = 0 => FoundBy("loop") = {}
          BY <1>0, <2>1, <4>1, WindowSelects
        <4>2. CASE Loop.from = 0 /\ FoundBy("loop") # {}
          BY <2>3, <3>1, <4>2, ScanSelects DEF CutShort
        <4> QED
          BY <4>1, <4>2
      <3> QED
        BY <1>0, <1>1, <1>4, <2>1, <3>2 DEF InThisWindow
    <2> QED
      BY <2>2, <2>3
  <1>6. Waits(r) => Waits(r)'
    BY <1>0, <1>1 DEF Waits
  <1>7. WindowInv(r) => WindowInv(r)'
    BY <1>1, <1>3, <1>5, <1>6 DEF WindowInv, Right
  <1>8. ASSUME ~ SyncIsExecuting, FilterLength(Loop, Missing) <= MaxFilter, Due(r) < Since(r),
               ScanInv(r)
        PROVE  Right(r)' \/ Unscanned(r)' \/ InThisScan(r)'
    <2>1. CASE cached[r] = remote[r]
      BY <1>3, <2>1
    <2>2. CASE cached[r] # remote[r]
      <3>1. Unscanned(r)
        BY <1>0, <1>8, <2>2 DEF ScanInv, Right, InThisScan, Coming
      <3>2. lastFullHostUpdate <= Since(r) + Duration /\ Loop.to < ScanDeadline(r) + Period
        BY <1>0, <3>1 DEF Unscanned
      <3>3. CASE ScanDue
        <4>1. Due(r) < now
          BY <1>2, <1>8
        <4>2. FoundBy("loop") = Missing
          BY <1>8, <3>3 DEF FoundBy, Loop
        <4>3. FoundBy("loop") # {}
          BY <2>2, <4>1, <4>2, MissingTyped
        <4>4. Coming(r)'
          BY <1>4, <1>8, <2>2, <4>1, <4>3, ScanSelects DEF CutShort
        <4> QED
          BY <1>0, <1>1, <1>2, <3>2, <4>4 DEF InThisScan
      <3>4. CASE ~ ScanDue
        <4>1. FoundBy("loop") = {}
          BY <3>4 DEF FoundBy
        <4>2. Loop.to < ScanDeadline(r)
          <5>1. lastFullHostUpdate \in Int
            BY DEF Base, Types
          <5>2. now < lastFullHostUpdate + MinFullScanInterval
            BY <1>2, <3>4, <5>1, Constants DEF ScanDue
          <5> QED
            BY <1>2, <3>2, <5>1, <5>2, Constants DEF ScanDeadline
        <4> QED
          BY <1>0, <1>1, <3>2, <3>4, <4>1, <4>2 DEF Unscanned
      <3> QED
        BY <3>3, <3>4
    <2> QED
      BY <2>1, <2>2
  <1> QED
    BY <1>1, <1>7, <1>8 DEF ScanInv

\* The spin-up of a peer: a scan of it counts, and is over soon after the disturbance.
LEMMA ResumeRow ==
  ASSUME Base, Scan("resume") \/ Fetch("resume"), NEW r \in Rows
  PROVE  /\ WindowInv(r) => WindowInv(r)'
         /\ ScanInv(r) => ScanInv(r)'
  <1>1. /\ UNCHANGED <<now, remote, cached, lastUpdate, changedAt, disturbedAt>>
        /\ Loop' = Loop /\ lastFullHostUpdate' \in {lastFullHostUpdate, now}
        /\ upd["resume"].pc # "idle"
    BY ScanBase, FetchBase, UpdatersAre DEF Loop
  <1>2. now <= Since(r) + Duration
    <2>1. /\ upd["resume"].to \in Nat /\ upd["resume"].to <= disturbedAt /\ disturbedAt \in Nat
          /\ now <= upd["resume"].to + Duration /\ now \in Nat
      BY <1>1, UnderWay, UpdatersAre
    <2> QED
      BY <2>1, RowNumbers, Constants
  <1>3. /\ WindowInv(r) => WindowInv(r)'
        /\ UNCHANGED lastFullHostUpdate /\ ScanInv(r) => ScanInv(r)'
        /\ Due(r)' = Due(r) /\ Since(r)' = Since(r) /\ Coming(r)' = Coming(r)
        /\ Right(r)' = Right(r) /\ ScanDeadline(r)' = ScanDeadline(r)
    BY <1>1, RowFrame
  <1>4. CASE lastFullHostUpdate' = now
    <2>1. Unscanned(r) => Unscanned(r)'
      BY <1>1, <1>2, <1>3, <1>4 DEF Unscanned
    <2>2. InThisScan(r) => InThisScan(r)'
      BY <1>1, <1>3 DEF InThisScan
    <2> QED
      BY <1>3, <2>1, <2>2 DEF ScanInv
  <1> QED
    BY <1>1, <1>3, <1>4

LEMMA LoopFetchRow ==
  ASSUME Base, Fetch("loop"), NEW r \in Rows
  PROVE  /\ WindowInv(r) => WindowInv(r)'
         /\ ScanInv(r) => ScanInv(r)'
  <1>0. /\ UNCHANGED <<now, remote, cached, lastUpdate, lastFullHostUpdate, changedAt, disturbedAt>>
        /\ Loop.pc = "fetch" /\ Loop'.pc = "insert" /\ Loop'.from = Loop.from
        /\ Loop'.to = Loop.to /\ Loop'.all = Loop.all /\ Loop'.scan = Loop.scan
        /\ DOMAIN Loop'.rows = {x \in Rows : Selected(Loop, remote[x])}
        /\ \A x \in DOMAIN Loop'.rows : Loop'.rows[x] = remote[x]
    BY FetchBase, UpdatersAre DEF Loop
  <1>1. Due(r)' = Due(r) /\ Since(r)' = Since(r) /\ ScanDeadline(r)' = ScanDeadline(r)
    BY <1>0, SameRow
  <1>2. Right(r) => Right(r)'
    BY <1>0 DEF Right
  <1>3. Coming(r) => Coming(r)'
    <2> SUFFICES ASSUME Coming(r)
                 PROVE  Coming(r)'
      OBVIOUS
    <2>1. Selected(Loop, remote[r])
      BY <1>0 DEF Coming
    <2>2. r \in DOMAIN Loop'.rows /\ Loop'.rows[r] = remote'[r]
      BY <1>0, <2>1
    <2> QED
      BY <1>0, <2>2 DEF Coming
  <1>4. /\ Waits(r) => Waits(r)'
        /\ InThisWindow(r) => InThisWindow(r)'
    BY <1>0, <1>1, <1>3 DEF Waits, InThisWindow
  <1>5. /\ Unscanned(r) => Unscanned(r)'
        /\ InThisScan(r) => InThisScan(r)'
    BY <1>0, <1>1, <1>3 DEF Unscanned, InThisScan
  <1> QED
    BY <1>1, <1>2, <1>4, <1>5 DEF WindowInv, ScanInv

\* insertDeltaDataResult
LEMMA LoopInsertRow ==
  ASSUME Base, Insert("loop"), NEW r \in Rows
  PROVE  /\ WindowInv(r) => WindowInv(r)'
         /\ ScanInv(r) => ScanInv(r)'
  <1>0. /\ Base' /\ UNCHANGED <<now, remote, lastUpdate, changedAt>>
        /\ disturbedAt' = IF ~ Loop.all THEN disturbedAt ELSE now
        /\ lastFullHostUpdate' = IF Loop.scan THEN now ELSE lastFullHostUpdate
        /\ cached'[r] = IF r \in DOMAIN Loop.rows THEN Loop.rows[r] ELSE cached[r]
        /\ Loop.pc = "insert" /\ Loop'.pc = "commit" /\ Loop'.to = Loop.to /\ Loop'.all = Loop.all
    BY InsertBase, UpdatersAre DEF Loop
  <1>1. CASE Loop.all
    BY <1>0, <1>1, Fresh
  <1>2. CASE ~ Loop.all
    <2>1. Due(r)' = Due(r) /\ Since(r)' = Since(r) /\ ScanDeadline(r)' = ScanDeadline(r)
      BY <1>0, <1>2, SameRow
    <2>2. Right(r) \/ Coming(r) => Right(r)'
      BY <1>0 DEF Right, Coming
    <2>3. Waits(r) => Waits(r)'
      BY <1>0, <2>1 DEF Waits
    <2>4. InThisWindow(r) => Coming(r)
      BY <1>0 DEF InThisWindow
    <2>5. ASSUME Unscanned(r)
          PROVE  Unscanned(r)'
      <3>1. Loop.scan => now <= Since(r) + Duration
        <4>1. /\ Loop.to \in Nat /\ now \in Nat /\ Since(r) \in Nat /\ now <= Loop.to + Duration
          BY <1>0, RowNumbers, UnderWay, UpdatersAre DEF Loop
        <4>2. Loop.scan => Loop.to <= Since(r)
          BY <1>0, <2>5 DEF Unscanned
        <4> QED
          BY <4>1, <4>2, Constants
      <3> QED
        BY <1>0, <1>2, <2>1, <2>5, <3>1 DEF Unscanned
    <2> QED
      BY <2>1, <2>2, <2>3, <2>4, <2>5 DEF WindowInv, ScanInv, InThisScan
  <1> QED
    BY <1>1, <1>2

\* The end of an update: the next window begins where this one has ended.
LEMMA LoopCommitRow ==
  ASSUME Base, Commit("loop"), NEW r \in Rows
  PROVE  /\ WindowInv(r) => WindowInv(r)'
         /\ ScanInv(r) => ScanInv(r)'
  <1>0. /\ Base' /\ UNCHANGED <<now, remote, cached, lastFullHostUpdate, changedAt>>
        /\ disturbedAt' = IF ~ Loop.all THEN disturbedAt ELSE now
        /\ ~ Loop.all => lastUpdate' = Loop.to
        /\ Loop.pc = "commit" /\ Loop'.pc = "idle"
    BY CommitBase, UpdatersAre DEF Loop
  <1>1. CASE Loop.all
    BY <1>0, <1>1, Fresh
  <1>2. CASE ~ Loop.all
    <2>1. Due(r)' = Due(r) /\ Since(r)' = Since(r) /\ ScanDeadline(r)' = ScanDeadline(r)
      BY <1>0, <1>2, SameRow
    <2>2. (Right(r) => Right(r)') /\ ~ Coming(r)
      BY <1>0 DEF Right, Coming
    <2>3. Waits(r) => Waits(r)'
      BY <1>0, <1>2, <2>1 DEF Waits
    <2>4. Unscanned(r) => Unscanned(r)'
      BY <1>0, <1>2, <2>1 DEF Unscanned
    <2> QED
      BY <1>0, <2>1, <2>2, <2>3, <2>4 DEF WindowInv, ScanInv, InThisWindow, InThisScan
  <1> QED
    BY <1>1, <1>2

-----------------------------------------------------------------------------
(* The invariants.                                                          *)

LEMMA BaseInit ==
  ASSUME Init
  PROVE  Base /\ \A r \in Rows : WindowInv(r) /\ ScanInv(r)
  <1>1. /\ now = Start /\ lastUpdate = Start /\ lastFullHostUpdate = Start
        /\ forceFull = FALSE /\ warning = FALSE /\ disturbedAt = Start
        /\ remote = [r \in Rows |-> [check |-> Start - Lateness, flag |-> FALSE]]
        /\ cached = remote /\ upd = [u \in Updaters |-> Idle]
        /\ changedAt = [r \in Rows |-> Start] /\ prompt = [r \in Rows |-> TRUE]
    BY DEF Init
  <1>2. [check |-> Start - Lateness, flag |-> FALSE] \in Row
    BY Constants DEF Row
  <1>3. Types
    <2>1. remote \in [Rows -> Row] /\ cached \in [Rows -> Row]
      BY <1>1, <1>2
    <2>2. upd \in [Updaters -> UpdateType]
      BY <1>1, IdleTyped
    <2>3. changedAt \in [Rows -> Nat] /\ prompt \in [Rows -> BOOLEAN]
      BY <1>1, Constants
    <2>4. Start >= 1 /\ Start <= Start /\ Start <= MaxTime /\ Start \in Nat
      BY Constants, ClockAssumption
    <2>5. forceFull \in BOOLEAN /\ warning \in BOOLEAN
      BY <1>1
    <2>6. /\ now \in Nat /\ Start <= now /\ now <= MaxTime
          /\ lastUpdate \in Nat /\ lastUpdate >= 1 /\ lastUpdate <= now
          /\ lastFullHostUpdate \in Int /\ lastFullHostUpdate <= now
          /\ disturbedAt \in Nat /\ Start <= disturbedAt /\ disturbedAt <= now
      <3> HIDE DEF Start
      <3> QED
        BY <1>1, <2>4
    <2> QED
      BY <2>1, <2>2, <2>3, <2>5, <2>6 DEF Types
  <1>4. CheckInv
    <2>1. \A r \in Rows : remote[r].check = Start - Lateness /\ changedAt[r] = Start
      BY <1>1
    <2> QED
      BY <1>1, <2>1, Constants DEF CheckInv
  <1>5. TimeInv
    <2>1. \A u \in Updaters : upd[u] = Idle
      BY <1>1
    <2> QED
      BY <1>1, <2>1, IdleTyped, Constants, UpdatersAre DEF TimeInv, Loop
  <1>6. Loop = Idle
    BY <1>1, UpdatersAre DEF Loop
  <1>7. FullInv
    BY <1>1, <1>6, IdleTyped DEF FullInv
  <1>8. \A r \in Rows : Right(r)
    BY <1>1, <1>6, IdleTyped DEF Right
  <1> QED
    BY <1>3, <1>4, <1>5, <1>7, <1>8 DEF Base, WindowInv, ScanInv

\* Steps after which every row begins anew.
Disturbs ==
  \/ ResumeBegin \/ ScheduleImmediateUpdate \/ (\E u \in Updaters : Fails(u))
  \/ Insert("resume") \/ Commit("resume")

LEMMA DisturbsRow ==
  ASSUME Base, Disturbs
  PROVE  Base' /\ \A r \in Rows : WindowInv(r)' /\ ScanInv(r)'
  <1>1. Base' /\ disturbedAt' = now /\ now' = now
    <2>1. CASE Insert("resume")
      BY <2>1, InsertBase, UpdatersAre
    <2>2. CASE Commit("resume")
      BY <2>2, CommitBase, UpdatersAre
    <2> QED
      BY <2>1, <2>2, ResumeBeginBase, ScheduleBase, FailsBase DEF Disturbs
  <1> QED
    BY <1>1, Fresh

LEMMA StepRow ==
  ASSUME Base, [Next]_vars
  PROVE  /\ Base'
         /\ \A r \in Rows : WindowInv(r) => WindowInv(r)'
         /\ ~ SyncIsExecuting /\ (Loop.pc = "scan" => FilterLength(Loop, Missing) <= MaxFilter) =>
              \A r \in Rows : ScanInv(r) => ScanInv(r)'
  <1>1. CASE UNCHANGED vars
    <2>1. Base'
      BY <1>1 DEF Base, Types, CheckInv, TimeInv, FullInv, Loop, vars, status, history
    <2>2. /\ Loop' = Loop
          /\ UNCHANGED <<lastUpdate, disturbedAt, remote, cached, changedAt, lastFullHostUpdate>>
      BY <1>1 DEF vars, Loop, status, history
    <2> QED
      BY <2>1, <2>2, RowFrame
  <1>2. CASE LoopBegin
    BY <1>2, LoopBeginBase, LoopBeginRow
  <1>3. CASE Disturbs
    BY <1>3, DisturbsRow
  <1>4. CASE Clock
    <2>1. Base' /\ UNCHANGED <<remote, cached, lastUpdate, lastFullHostUpdate, upd, changedAt, disturbedAt>>
      BY <1>4, ClockBase
    <2>2. Loop' = Loop
      BY <2>1 DEF Loop
    <2> QED
      BY <2>1, <2>2, RowFrame
  <1>5. ASSUME NEW x \in Rows, Checked(x) \/ Flagged(x)
        PROVE  Base' /\ \A r \in Rows : /\ WindowInv(r) => WindowInv(r)'
                                        /\ ScanInv(r) => ScanInv(r)'
    <2>1. /\ Base' /\ UNCHANGED <<now, cached, lastUpdate, lastFullHostUpdate, upd, disturbedAt>>
          /\ changedAt'[x] = now
          /\ \A r \in Rows : r # x => changedAt'[r] = changedAt[r] /\ remote'[r] = remote[r]
      BY <1>5, ChangeBase
    <2>2. Loop' = Loop
      BY <2>1 DEF Loop
    <2>3. WindowInv(x)' /\ ScanInv(x)'
      BY <2>1, Fresh
    <2>4. \A r \in Rows : r # x => /\ WindowInv(r) => WindowInv(r)'
                                   /\ ScanInv(r) => ScanInv(r)'
      BY <2>1, <2>2, RowFrame
    <2> QED
      BY <2>1, <2>3, <2>4
  <1>6. CASE Scan("loop")
    <2>1. Loop.pc = "scan" /\ Base'
      BY <1>6, ScanBase, UpdatersAre DEF Loop
    <2> QED
      BY <1>6, <2>1, LoopScanRow
  <1>7. CASE Fetch("loop") \/ Insert("loop") \/ Commit("loop")
    <2>1. Base'
      BY <1>7, FetchBase, InsertBase, CommitBase, UpdatersAre
    <2> QED
      BY <1>7, <2>1, LoopFetchRow, LoopInsertRow, LoopCommitRow
  <1>8. CASE Scan("resume") \/ Fetch("resume")
    <2>1. Base'
      BY <1>8, ScanBase, FetchBase, UpdatersAre
    <2> QED
      BY <1>8, <2>1, ResumeRow
  <1>9. Next => \/ LoopBegin \/ Disturbs \/ Clock
                \/ (\E x \in Rows : Checked(x) \/ Flagged(x))
                \/ Scan("loop") \/ Fetch("loop") \/ Insert("loop") \/ Commit("loop")
                \/ Scan("resume") \/ Fetch("resume")
    BY UpdatersAre DEF Next, Update, Disturbs
  <1> QED
    BY <1>1, <1>2, <1>3, <1>4, <1>5, <1>6, <1>7, <1>8, <1>9

LEMMA Invariance == Spec => []IInv
  <1>1. Init => IInv
    BY BaseInit DEF IInv
  <1>2. IInv /\ [Next]_vars => IInv'
    BY StepRow DEF IInv
  <1> QED
    BY <1>1, <1>2, PTL DEF Spec

\* Every variable keeps its type, for any rows, intervals and bounds: no update is for a time
\* after now, so that no window is empty (UpdateDelta, ScheduleImmediateUpdate).
THEOREM TypeCorrect == Spec => []TypeOK
  <1>1. IInv => TypeOK
    <2> SUFFICES ASSUME IInv
                 PROVE  TypeOK
      OBVIOUS
    <2>1. now \in Start .. MaxTime
      BY Constants DEF IInv, Base, Types
    <2>2. ASSUME NEW u \in Updaters
          PROVE  /\ upd[u].pc \in {"idle", "scan", "fetch", "insert", "commit"}
                 /\ DOMAIN upd[u].rows \subseteq Rows
      <3>1. upd[u] \in UpdateType
        BY DEF IInv, Base, Types
      <3>2. upd[u].rows \in Fetched
        BY <3>1 DEF UpdateType
      <3>3. DOMAIN upd[u].rows \subseteq Rows
        <4>1. CASE upd[u].rows = << >>
          BY <4>1
        <4>2. CASE upd[u].rows # << >>
          <5>1. PICK S \in SUBSET Rows : upd[u].rows \in [S -> Row]
            BY <3>2, <4>2 DEF Fetched
          <5> QED
            BY <5>1
        <4> QED
          BY <4>1, <4>2
      <3> QED
        BY <3>1, <3>3 DEF UpdateType
    <2>3. \A u \in Updaters : upd[u].from <= upd[u].to /\ upd[u].to <= now
      BY DEF IInv, Base, TimeInv
    <2> QED
      BY <2>1, <2>2, <2>3 DEF TypeOK, IInv, Base, Types
  <1> QED
    BY <1>1, Invariance, PTL

LEMMA CalmSince ==
  ASSUME Base, NEW r \in Rows, NEW time \in Nat, Calm(r, time)
  PROVE  now >= Since(r) + time
  <1>1. changedAt[r] \in Int /\ disturbedAt \in Int
    BY DEF Base, Types
  <1>2. Max({changedAt[r], disturbedAt}) = Since(r)
    BY <1>1 DEF Max, Since
  <1> QED
    BY <1>2 DEF Calm

\* A window has brought the row.
LEMMA WindowInTime ==
  ASSUME Base, NEW r \in Rows, WindowInv(r), Due(r) >= Since(r), now >= Since(r) + WindowTime
  PROVE  cached[r] = remote[r]
  <1>1. /\ Due(r) \in Nat /\ Since(r) \in Nat /\ now \in Nat /\ lastUpdate \in Nat /\ Loop.to \in Nat
        /\ Due(r) <= Since(r) + UpdateOffset
        /\ Loop.pc # "idle" => now <= Loop.to + Duration
        /\ Loop.pc = "idle" => now <= lastUpdate + Period \/ now <= Since(r)
    <2>1. /\ Loop.to \in Nat /\ (Loop.pc # "idle" => now <= Loop.to + Duration)
          /\ now \in Nat /\ lastUpdate \in Nat /\ disturbedAt \in Nat
      BY UnderWay, UpdatersAre DEF Loop
    <2>2. Loop.pc = "idle" => now <= lastUpdate + Period \/ now <= disturbedAt
      BY DEF Base, TimeInv
    <2> QED
      BY <2>1, <2>2, RowNumbers, Constants
  <1>2. now > Due(r) + Period + Duration /\ now > Since(r)
    BY <1>1, Constants DEF WindowTime, Period
  <1>3. ~ Waits(r)
    BY <1>1, <1>2, Constants DEF Waits
  <1>4. ~ InThisWindow(r)
    BY <1>1, <1>2, Constants DEF InThisWindow
  <1> QED
    BY <1>3, <1>4 DEF WindowInv, Right

\* The windows have no gaps: what the site knows within UpdateOffset seconds of the check is
\* cached when the next update has ended, for any lengths of intervals and updates, also when the
\* update was forced to be a full one and a scan has changed its filter (UpdateDelta).
THEOREM Windows == Spec => []WindowsFollow
  <1>1. IInv => WindowsFollow
    <2> SUFFICES ASSUME IInv, NEW r \in Rows, prompt[r],
                        remote[r].check >= disturbedAt - UpdateOffset, Calm(r, WindowTime)
                 PROVE  cached[r] = remote[r]
      BY DEF WindowsFollow
    <2>1. Base /\ WindowInv(r)
      BY DEF IInv
    <2>2. /\ changedAt[r] \in Nat /\ disturbedAt \in Nat /\ Start <= disturbedAt
          /\ remote[r].check \in Nat
      BY <2>1, RowNumbers DEF Base, Types
    <2>3. changedAt[r] = Start \/ changedAt[r] <= Due(r)
      BY <2>1 DEF Base, CheckInv, Due
    <2>4. Due(r) >= Since(r)
      BY <2>2, <2>3, Constants DEF Due, Since
    <2>5. WindowTime \in Nat
      BY Constants DEF WindowTime
    <2>6. now >= Since(r) + WindowTime
      BY <2>1, <2>5, CalmSince
    <2> QED
      BY <2>1, <2>4, <2>6, WindowInTime
  <1> QED
    BY <1>1, Invariance, PTL

\* A scan has brought the row.
LEMMA ScanInTime ==
  ASSUME Base, NEW r \in Rows, ScanInv(r), Due(r) < Since(r), now >= Since(r) + ScanTime
  PROVE  cached[r] = remote[r]
  <1>1. /\ Since(r) \in Nat /\ now \in Nat /\ lastUpdate \in Nat /\ Loop.to \in Nat
        /\ Loop.pc # "idle" => now <= Loop.to + Duration
        /\ Loop.pc = "idle" => now <= lastUpdate + Period \/ now <= Since(r)
        /\ Loop.all => Loop.to <= Since(r) + Period
        /\ Loop.pc \in {"idle", "scan", "fetch", "insert", "commit"}
    <2>1. /\ Loop.to \in Nat /\ (Loop.pc # "idle" => now <= Loop.to + Duration)
          /\ now \in Nat /\ lastUpdate \in Nat /\ disturbedAt \in Nat
          /\ Loop.all => Loop.to <= disturbedAt + Period
          /\ Loop \in UpdateType
      BY UnderWay, UpdatersAre DEF Loop
    <2>2. Loop.pc = "idle" => now <= lastUpdate + Period \/ now <= disturbedAt
      BY DEF Base, TimeInv
    <2>3. Loop.pc \in {"idle", "scan", "fetch", "insert", "commit"}
      BY <2>1 DEF UpdateType
    <2> QED
      BY <2>1, <2>2, <2>3, RowNumbers, Constants
  <1>2. /\ ScanDeadline(r) \in Nat /\ now > ScanDeadline(r) + Period + Duration
        /\ now > Since(r) + Period + Duration
    BY <1>1, Constants DEF ScanTime, WindowTime, Period, ScanDeadline
  <1>3. ~ (Loop.to < ScanDeadline(r) + Period /\ Loop.pc # "idle")
    BY <1>1, <1>2, Constants
  <1>4. ~ Unscanned(r)
    <2>1. CASE Loop.pc = "idle"
      BY <1>1, <1>2, <2>1, Constants DEF Unscanned
    <2>2. CASE Loop.pc = "scan"
      BY <1>3, <2>2 DEF Unscanned
    <2>3. CASE Loop.pc \in {"fetch", "insert", "commit"} /\ Loop.all
      BY <1>1, <1>2, <2>3, Constants
    <2>4. CASE Loop.pc \in {"fetch", "insert", "commit"} /\ ~ Loop.all
      <3>1. Loop.to >= ScanDeadline(r)
        BY <1>1, <1>2, <1>3, <2>4, Constants
      <3> QED
        BY <1>1, <1>2, <2>4, <3>1 DEF Unscanned
    <2> QED
      BY <1>1, <2>1, <2>2, <2>3, <2>4
  <1>5. ~ InThisScan(r)
    BY <1>3 DEF InThisScan, Coming
  <1> QED
    BY <1>4, <1>5 DEF ScanInv, Right

\* The filter of every scan can be sent.
FiltersFit == Loop.pc = "scan" => FilterLength(Loop, Missing) <= MaxFilter

\* Without SyncIsExecuting, the full scan makes up for everything, on sites with any number of
\* rows, as long as what it finds never needs more filters than are sent: then late results,
\* acknowledgements, lost windows and rows that another goroutine has put back are right when
\* the next scan has had the time to run (UpdateDeltaFullScan, getMissingTimestamps,
\* composeTimestampFilter).  With the option, which is the default, it does not: the filter
\* of the scan comes after a blank line (CutShort).
THEOREM Scans ==
  ASSUME ~ SyncIsExecuting
  PROVE  Spec /\ []FiltersFit => []ScanFollows
  <1> DEFINE RowsInv == IInv /\ \A r \in Rows : ScanInv(r)
  <1>1. Init => RowsInv
    BY BaseInit DEF IInv
  <1>2. RowsInv /\ FiltersFit /\ [Next]_vars => RowsInv'
    BY StepRow DEF IInv, FiltersFit
  <1>3. RowsInv => ScanFollows
    <2> SUFFICES ASSUME RowsInv, NEW r \in Rows, Calm(r, ScanTime)
                 PROVE  cached[r] = remote[r]
      BY DEF ScanFollows
    <2>1. Base /\ WindowInv(r) /\ ScanInv(r)
      BY DEF IInv
    <2>2. ScanTime \in Nat /\ WindowTime \in Nat /\ WindowTime <= ScanTime
      BY Constants DEF ScanTime, WindowTime
    <2>3. now >= Since(r) + ScanTime
      BY <2>1, <2>2, CalmSince
    <2>4. Due(r) \in Nat /\ Since(r) \in Nat /\ now \in Nat
      BY <2>1, RowNumbers DEF Base, Types
    <2>5. CASE Due(r) < Since(r)
      BY <2>1, <2>3, <2>5, ScanInTime
    <2>6. CASE Due(r) >= Since(r)
      <3>1. now >= Since(r) + WindowTime
        BY <2>2, <2>3, <2>4
      <3> QED
        BY <2>1, <2>6, <3>1, WindowInTime
    <2> QED
      BY <2>4, <2>5, <2>6
  <1> HIDE DEF RowsInv
  <1> QED
    BY <1>1, <1>2, <1>3, PTL DEF Spec

\* composeTimestampFilter: there are no more blocks than rows.
LEMMA FewBlocks ==
  ASSUME Base, IsFiniteSet(Rows)
  PROVE  Cardinality(Blocks(Missing)) <= Cardinality(Rows) /\ Cardinality(Blocks(Missing)) \in Nat
  <1> DEFINE B == Blocks(Missing)
             f == [b \in B |-> CHOOSE r \in Rows : remote[r].check = b[1]]
  <1>1. Missing \subseteq Nat
    BY MissingTyped
  <1>2. \A b \in B : /\ b \in Missing \X Missing /\ b[1] \in Nat /\ b[2] \in Nat /\ b[1] <= b[2]
                     /\ b[1] .. b[2] \subseteq Missing /\ b[2] + 1 \notin Missing
    BY <1>1 DEF Blocks
  <1>3. \A b \in B : \E r \in Rows : remote[r].check = b[1]
    BY <1>2 DEF Missing
  <1>4. f \in [B -> Rows] /\ \A b \in B : remote[f[b]].check = b[1]
    BY <1>3
  <1>5. ASSUME NEW b \in B, NEW c \in B, b[1] = c[1], b[2] < c[2]
        PROVE  FALSE
    <2>1. b[2] + 1 \in c[1] .. c[2]
      BY <1>2, <1>5
    <2> QED
      BY <1>2, <2>1
  <1>6. ASSUME NEW b \in B, NEW c \in B, f[b] = f[c]
        PROVE  b = c
    <2>1. b[1] = c[1]
      BY <1>4, <1>6
    <2>2. b[2] = c[2]
      BY <1>2, <1>5, <2>1
    <2> QED
      BY <1>2, <2>1, <2>2
  <1>7. f \in Injection(B, Rows)
    BY <1>4, <1>6 DEF Injection, IsInjective
  <1> HIDE DEF f
  <1> QED
    BY <1>7, FS_Injection, FS_CardinalityType

\* Without SyncIsExecuting, and on a site with so few rows that they always fit into a filter,
\* nothing is ever missed (composeTimestampFilter, the limit of 100 filters).
THEOREM FewRows ==
  ASSUME ~ SyncIsExecuting, IsFiniteSet(Rows), Cardinality(Rows) + 3 <= MaxFilter
  PROVE  Spec => []ScanFollows
  <1>1. IInv => FiltersFit
    <2> SUFFICES ASSUME Base
                 PROVE  FilterLength(Loop, Missing) <= MaxFilter
      BY DEF IInv, FiltersFit
    <2>1. Cardinality(Blocks(Missing)) <= Cardinality(Rows) /\ Cardinality(Blocks(Missing)) \in Nat
      BY FewBlocks
    <2>2. Cardinality(Rows) \in Nat /\ MaxFilter \in Nat
      BY FS_CardinalityType, TimesAssumption
    <2> QED
      BY <2>1, <2>2 DEF FilterLength
  <1> QED
    BY <1>1, Invariance, Scans, PTL

-----------------------------------------------------------------------------
(* Checks go forward.                                                       *)

\* Neither the peer nor an update under way knows a later check than the site; what the loop is
\* about to insert is no older than what is there, unless something came in between.
OrderInv ==
  /\ \A r \in Rows : cached[r].check <= remote[r].check
  /\ \A u \in Updaters : \A r \in DOMAIN upd[u].rows : upd[u].rows[r].check <= remote[r].check
  /\ Loop.pc = "insert" /\ disturbedAt < Loop.to =>
       \A r \in DOMAIN Loop.rows : cached[r].check <= Loop.rows[r].check

\* The rows an update has fetched.
LEMMA RowsTyped ==
  ASSUME Base, NEW u \in Updaters
  PROVE  DOMAIN upd[u].rows \subseteq Rows /\ \A r \in DOMAIN upd[u].rows : upd[u].rows[r] \in Row
  <1>1. upd[u].rows \in Fetched
    BY DEF Base, Types, UpdateType
  <1>2. CASE upd[u].rows = << >>
    BY <1>2
  <1>3. CASE upd[u].rows # << >>
    <2>1. PICK S \in SUBSET Rows : upd[u].rows \in [S -> Row]
      BY <1>1, <1>3 DEF Fetched
    <2> QED
      BY <2>1
  <1> QED
    BY <1>2, <1>3

\* Numbers that the steps compare.
LEMMA ChecksTyped ==
  ASSUME Base
  PROVE  /\ \A r \in Rows : cached[r].check \in Int /\ remote[r].check \in Int
         /\ \A u \in Updaters : \A r \in DOMAIN upd[u].rows :
              r \in Rows /\ upd[u].rows[r].check \in Int
         /\ disturbedAt \in Int /\ now \in Int /\ Loop.to \in Int /\ Loop.to <= now
  <1>1. \A r \in Rows : cached[r].check \in Int /\ remote[r].check \in Int
    BY DEF Base, Types, Row
  <1>2. \A u \in Updaters : \A r \in DOMAIN upd[u].rows : r \in Rows /\ upd[u].rows[r].check \in Int
    BY RowsTyped DEF Row
  <1>3. disturbedAt \in Int /\ now \in Int /\ Loop.to \in Int /\ Loop.to <= now
    BY UpdatersAre DEF Base, Types, TimeInv, Loop, UpdateType
  <1> QED
    BY <1>1, <1>2, <1>3

\* A step that inserts and fetches nothing.
LEMMA OrderKept ==
  ASSUME Base, Base', OrderInv, cached' = cached,
         \A r \in Rows : remote'[r].check >= remote[r].check,
         \A u \in Updaters : upd'[u].rows = upd[u].rows \/ upd'[u].rows = << >>,
         Loop'.pc = "insert" => Loop' = Loop, disturbedAt' \in {disturbedAt, now}
  PROVE  OrderInv'
  <1>1. \A r \in Rows : cached'[r].check <= remote'[r].check
    <2>1. \A r \in Rows : remote'[r].check \in Int
      BY DEF Base, Types, Row
    <2> QED
      BY <2>1, ChecksTyped DEF OrderInv
  <1>2. ASSUME NEW u \in Updaters, NEW r \in DOMAIN upd'[u].rows
        PROVE  upd'[u].rows[r].check <= remote'[r].check
    <2>1. upd'[u].rows = upd[u].rows
      BY <1>2
    <2>2. r \in Rows /\ upd[u].rows[r].check \in Int /\ upd[u].rows[r].check <= remote[r].check
      BY <1>2, <2>1, ChecksTyped DEF OrderInv
    <2>3. remote[r].check \in Int /\ remote'[r].check \in Int
      BY <2>2, ChecksTyped DEF Base, Types, Row
    <2> QED
      BY <2>1, <2>2, <2>3
  <1>3. ASSUME Loop'.pc = "insert", disturbedAt' < Loop'.to, NEW r \in DOMAIN Loop'.rows
        PROVE  cached'[r].check <= Loop'.rows[r].check
    <2>1. Loop' = Loop /\ disturbedAt < Loop.to
      BY <1>3, ChecksTyped
    <2> QED
      BY <1>3, <2>1 DEF OrderInv
  <1> QED
    BY <1>1, <1>2, <1>3 DEF OrderInv

\* The answers of the site: as new as what it has.
LEMMA OrderFetch ==
  ASSUME Base, OrderInv, NEW u \in Updaters, Fetch(u)
  PROVE  OrderInv'
  <1>1. /\ UNCHANGED <<remote, cached, disturbedAt>>
        /\ DOMAIN upd'[u].rows \subseteq Rows
        /\ \A r \in DOMAIN upd'[u].rows : upd'[u].rows[r] = remote[r]
        /\ \A v \in Updaters : v # u => upd'[v] = upd[v]
    BY FetchBase
  <1>2. \A r \in Rows : cached'[r].check <= remote'[r].check
    BY <1>1 DEF OrderInv
  <1>3. \A v \in Updaters : \A r \in DOMAIN upd'[v].rows : upd'[v].rows[r].check <= remote'[r].check
    BY <1>1, ChecksTyped DEF OrderInv
  <1>4. ASSUME Loop'.pc = "insert", disturbedAt' < Loop'.to
        PROVE  \A r \in DOMAIN Loop'.rows : cached'[r].check <= Loop'.rows[r].check
    <2>1. CASE u = "loop"
      BY <1>1, <1>2, <2>1 DEF Loop
    <2>2. CASE u # "loop"
      BY <1>1, <1>4, <2>2, UpdatersAre DEF Loop, OrderInv
    <2> QED
      BY <2>1, <2>2
  <1> QED
    BY <1>2, <1>3, <1>4 DEF OrderInv

\* An insertion: what another goroutine inserts counts as a disturbance, the loop is past it.
LEMMA OrderInsert ==
  ASSUME Base, OrderInv, NEW u \in Updaters, Insert(u)
  PROVE  OrderInv'
  <1>1. /\ remote' = remote /\ upd[u].pc = "insert" /\ upd'[u].pc = "commit"
        /\ disturbedAt' = IF u = "loop" /\ ~ upd[u].all THEN disturbedAt ELSE now
        /\ \A r \in Rows : cached'[r] = IF r \in DOMAIN upd[u].rows THEN upd[u].rows[r]
                                        ELSE cached[r]
    BY InsertBase
  <1>2. /\ upd'[u].rows = << >>
        /\ \A v \in Updaters : v # u => upd'[v] = upd[v]
    <2>1. upd \in [Updaters -> UpdateType]
      BY DEF Base, Types
    <2> QED
      BY <2>1 DEF Insert, Step, UpdateType
  <1>3. \A r \in Rows : cached'[r].check <= remote'[r].check
    BY <1>1 DEF OrderInv
  <1>4. \A v \in Updaters : \A r \in DOMAIN upd'[v].rows : upd'[v].rows[r].check <= remote'[r].check
    BY <1>1, <1>2 DEF OrderInv
  <1>5. ~ (Loop'.pc = "insert" /\ disturbedAt' < Loop'.to)
    <2>1. CASE u = "loop"
      BY <1>1, <2>1 DEF Loop
    <2>2. CASE u # "loop"
      <3>1. Loop' = Loop /\ disturbedAt' = now
        BY <1>1, <1>2, <2>2, UpdatersAre DEF Loop
      <3> QED
        BY <3>1, ChecksTyped
    <2> QED
      BY <2>1, <2>2
  <1> QED
    BY <1>3, <1>4, <1>5 DEF OrderInv

\* The steps of an update that insert and fetch nothing.
LEMMA OrderUpdate ==
  ASSUME Base, Base', OrderInv, NEW u \in Updaters, Scan(u) \/ Commit(u) \/ Fails(u)
  PROVE  OrderInv'
  <1>1. upd \in [Updaters -> UpdateType]
    BY DEF Base, Types
  <1>2. /\ UNCHANGED <<remote, cached>> /\ disturbedAt' \in {disturbedAt, now}
        /\ \A v \in Updaters : v # u => upd'[v] = upd[v]
        /\ upd'[u].pc # "insert" /\ (upd'[u].rows = upd[u].rows \/ upd'[u].rows = << >>)
    <2>1. CASE Scan(u)
      BY <1>1, <2>1 DEF Scan, Step, history, UpdateType
    <2>2. CASE Commit(u) \/ Fails(u)
      <3>1. upd' = [upd EXCEPT ![u] = Idle]
        BY <2>2 DEF Commit, Fails, Step
      <3> QED
        BY <1>1, <2>2, <3>1, IdleTyped DEF Commit, Fails, Note
    <2> QED
      BY <2>1, <2>2
  <1>3. \A r \in Rows : remote'[r].check >= remote[r].check
    BY <1>2, ChecksTyped
  <1>4. Loop'.pc = "insert" => Loop' = Loop
    BY <1>2, UpdatersAre DEF Loop
  <1> QED
    BY <1>2, <1>3, <1>4, OrderKept

\* The beginnings of updates, and what happens at the site and to the clock.
LEMMA OrderOthers ==
  ASSUME Base, Base', OrderInv,
         \/ LoopBegin \/ ResumeBegin \/ ScheduleImmediateUpdate \/ Clock \/ UNCHANGED vars
         \/ \E r \in Rows : Checked(r) \/ Flagged(r)
  PROVE  OrderInv'
  <1>1. upd \in [Updaters -> UpdateType] /\ remote \in [Rows -> Row]
    BY DEF Base, Types
  <1>2. CASE LoopBegin \/ ResumeBegin
    <2>1. UNCHANGED <<remote, cached>> /\ disturbedAt' \in {disturbedAt, now}
      BY <1>2 DEF LoopBegin, ResumeBegin, history
    <2>2. PICK u \in Updaters :
            \E new : Step(u, new) /\ new.pc # "insert" /\ new.rows = << >>
      <3>1. CASE LoopBegin /\ warning
        <4>1. PICK new : /\ new = [Idle EXCEPT !.pc = "fetch", !.from = lastUpdate, !.to = now,
                                               !.all = TRUE]
                         /\ Step("loop", new)
          BY <3>1 DEF LoopBegin
        <4>2. new.pc = "fetch" /\ new.rows = << >>
          BY <4>1, IdleTyped DEF UpdateType
        <4> QED
          BY <4>1, <4>2, UpdatersAre
      <3>2. CASE LoopBegin /\ ~ warning
        <4>1. PICK new : /\ new = [Idle EXCEPT !.pc = "scan", !.to = now,
                                               !.from = IF forceFull THEN 0 ELSE lastUpdate]
                         /\ Step("loop", new)
          BY <3>2 DEF LoopBegin
        <4>2. new.pc = "scan" /\ new.rows = << >>
          BY <4>1, IdleTyped DEF UpdateType
        <4> QED
          BY <4>1, <4>2, UpdatersAre
      <3>3. CASE ResumeBegin
        <4>1. PICK new : /\ new = [Idle EXCEPT !.pc = "scan", !.from = lastUpdate, !.to = now]
                         /\ Step("resume", new)
          BY <3>3 DEF ResumeBegin
        <4>2. new.pc = "scan" /\ new.rows = << >>
          BY <4>1, IdleTyped DEF UpdateType
        <4> QED
          BY <4>1, <4>2, UpdatersAre
      <3> QED
        BY <1>2, <3>1, <3>2, <3>3
    <2>3. \A v \in Updaters : upd'[v].rows = upd[v].rows \/ upd'[v].rows = << >>
      BY <1>1, <2>2 DEF Step
    <2>4. Loop'.pc = "insert" => Loop' = Loop
      BY <1>1, <2>2, UpdatersAre DEF Loop, Step
    <2>5. \A r \in Rows : remote'[r].check >= remote[r].check
      BY <2>1, ChecksTyped
    <2> QED
      BY <2>1, <2>3, <2>4, <2>5, OrderKept
  <1>3. CASE ScheduleImmediateUpdate \/ Clock \/ UNCHANGED vars
    <2>1. UNCHANGED <<remote, cached, upd>> /\ disturbedAt' \in {disturbedAt, now}
      BY <1>3 DEF ScheduleImmediateUpdate, Clock, vars, history
    <2>2. Loop' = Loop /\ \A r \in Rows : remote'[r].check >= remote[r].check
      BY <2>1, ChecksTyped DEF Loop
    <2> QED
      BY <2>1, <2>2, OrderKept
  <1>4. CASE \E r \in Rows : Checked(r) \/ Flagged(r)
    <2>1. PICK x \in Rows : Checked(x) \/ Flagged(x)
      BY <1>4
    <2>2. UNCHANGED <<cached, upd, disturbedAt>>
      BY <2>1 DEF Checked, Flagged
    <2>3. \A r \in Rows : remote'[r].check >= remote[r].check
      <3>1. CASE Checked(x)
        <4>1. PICK c \in now - Lateness .. now :
                c > remote[x].check /\ remote' = [remote EXCEPT ![x].check = c]
          BY <3>1 DEF Checked
        <4>2. c \in Int
          BY <4>1, ChecksTyped, Constants
        <4> QED
          BY <1>1, <4>1, <4>2, ChecksTyped DEF Row
      <3>2. CASE Flagged(x)
        BY <1>1, <3>2, ChecksTyped DEF Flagged, Row
      <3> QED
        BY <2>1, <3>1, <3>2
    <2>4. Loop' = Loop
      BY <2>2 DEF Loop
    <2> QED
      BY <2>2, <2>3, <2>4, OrderKept
  <1> QED
    BY <1>2, <1>3, <1>4

\* While the loop alone updates, no step gives a cached row an older check than it had, for any
\* rows, offsets, intervals and durations: what was fetched may be late, but nothing newer can
\* have been inserted since (UpdateDelta, insertDeltaDataResult).
THEOREM NoRowGoesBack == Spec => ChecksGoForward
  <1>1. Init => OrderInv
    <2> SUFFICES ASSUME Init
                 PROVE  OrderInv
      OBVIOUS
    <2>1. Base
      BY BaseInit
    <2>2. cached = remote /\ \A u \in Updaters : upd[u] = Idle
      BY DEF Init
    <2>3. Loop.pc = "idle"
      BY <2>2, UpdatersAre, IdleTyped DEF Loop
    <2>4. \A u \in Updaters : upd[u].rows = << >>
      BY <2>2, IdleTyped
    <2>5. \A r \in Rows : cached[r].check <= remote[r].check
      BY <2>1, <2>2, ChecksTyped
    <2>6. \A u \in Updaters : \A r \in DOMAIN upd[u].rows : upd[u].rows[r].check <= remote[r].check
      BY <2>4
    <2> QED
      BY <2>3, <2>5, <2>6 DEF OrderInv
  <1>2. IInv /\ IInv' /\ OrderInv /\ [Next]_vars => OrderInv'
    BY OrderFetch, OrderInsert, OrderUpdate, OrderOthers DEF Next, Update, IInv
  <1>3. IInv /\ OrderInv /\ [Next]_vars =>
          [At("resume", "idle") /\ disturbedAt < upd["loop"].to =>
             \A r \in Rows : cached'[r].check >= cached[r].check]_vars
    <2> SUFFICES ASSUME IInv, OrderInv, Next, At("resume", "idle"), disturbedAt < upd["loop"].to,
                        NEW r \in Rows
                 PROVE  cached'[r].check >= cached[r].check
      OBVIOUS
    <2>1. Base
      BY DEF IInv
    <2>2. CASE Insert("loop")
      <3>1. /\ upd["loop"].pc = "insert"
            /\ cached'[r] = IF r \in DOMAIN upd["loop"].rows THEN upd["loop"].rows[r] ELSE cached[r]
        BY <2>1, <2>2, InsertBase, UpdatersAre
      <3>2. r \in DOMAIN upd["loop"].rows => cached[r].check <= upd["loop"].rows[r].check
        BY <3>1 DEF OrderInv, Loop
      <3> QED
        BY <2>1, <3>1, <3>2, ChecksTyped, UpdatersAre
    <2>3. CASE cached' = cached
      BY <2>1, <2>3, ChecksTyped
    <2>4. Insert("loop") \/ cached' = cached
      BY UpdatersAre DEF Next, Update, LoopBegin, ResumeBegin, ScheduleImmediateUpdate, Clock, Scan,
         Fetch, Insert, Commit, Fails, Checked, Flagged, At
    <2> QED
      BY <2>2, <2>3, <2>4
  <1> QED
    BY <1>1, <1>2, <1>3, Invariance, PTL DEF Spec, ChecksGoForward

=============================================================================
