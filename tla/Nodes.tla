------------------------------- MODULE Nodes -------------------------------
(***************************************************************************)
(* Cluster mode (lmd/nodes.go): the LMD processes of a cluster ping each    *)
(* other, and each divides the backends among the nodes it believes to be  *)
(* online.  There is no leader and no agreement: nodes with the same view  *)
(* compute the same division from the shared configuration.                *)
(*                                                                         *)
(* A node is its place in nodeAddresses, a backend its place in            *)
(* n.backends; both lists are the same in all processes.  The identifier   *)
(* of a process (start time and UUID) is a number that is never used again.*)
(* nodeBackends is keyed by node identifiers in the code; every entry is   *)
(* entered under the identifier that its node has at that time and removed *)
(* when that changes, so the model keys it by node.  Starting and stopping *)
(* the peers of a process (updateBackends) follows assignedBackends.       *)
(***************************************************************************)
EXTENDS Integers, FiniteSets

CONSTANTS
  NumNodes,     \* len(nodeAddresses), at least 2 in cluster mode
  NumBackends,  \* len(backends)
  Versions,     \* the versions of LMD in use
  MaxStarts,    \* bound: number of processes that are ever started
  MaxDelays     \* bound: answers that are late or lost although the node is up

ASSUME SizesAssumption ==
  NumNodes \in Nat \ {0} /\ NumBackends \in Nat \ {0}
ASSUME BoundsAssumption == MaxStarts \in Nat /\ MaxDelays \in Nat
ASSUME VersionsAssumption == Versions # {} /\ IsFiniteSet(Versions)

Members == 1 .. NumNodes
Backends == 1 .. NumBackends
NoId == 0
NoList == {0}           \* a list that is nil or missing, not an empty one

VARIABLES
  id,                \* Nodes.ID of the process at each node, NoId when none runs
  version,           \* its version
  thisNode,          \* whether it has found its own address
  nodeId,            \* nodeAddresses[m].id
  onlineNodes,       \* the nodes it divides the backends among
  nodeBackends,      \* where it sends queries for backends
  assignedBackends,  \* the backends it runs itself
  round,             \* its call of checkNodeAvailability
  pings,             \* goroutines in sendPing, of all processes
  starts, delays     \* see MaxStarts, MaxDelays

local == <<version, thisNode, nodeId, onlineNodes, nodeBackends, assignedBackends>>
vars == <<id, version, thisNode, nodeId, onlineNodes, nodeBackends,
          assignedBackends, round, pings, starts, delays>>

Running(n) == id[n] # NoId

NoRound == [active |-> FALSE, waiting |-> {}, up |-> {}, force |-> FALSE]
NoReply == [id |-> NoId, version |-> NoId, peers |-> NoList]

Init ==
  /\ id = [n \in Members |-> NoId]
  /\ version \in [Members -> Versions]
  /\ thisNode = [n \in Members |-> FALSE]
  /\ nodeId = [n \in Members |-> [m \in Members |-> NoId]]
  /\ onlineNodes = [n \in Members |-> {}]
  /\ nodeBackends = [n \in Members |-> [m \in Members |-> NoList]]
  /\ assignedBackends = [n \in Members |-> NoList]
  /\ round = [n \in Members |-> NoRound]
  /\ pings = {}
  /\ starts = 0 /\ delays = 0

(***************************************************************************)
(* redistribute.                                                           *)
(***************************************************************************)
\* How many backends each node of S gets.
RoundedDown(S) ==                                      \* mutant: rest left over
  IF Cardinality(S) >= NumBackends THEN 1 ELSE NumBackends \div Cardinality(S)
PerNode(S) ==
  IF Cardinality(S) >= NumBackends THEN 1
  ELSE (NumBackends \div Cardinality(S))
       + (IF NumBackends % Cardinality(S) # 0 THEN 1 ELSE 0)

\* The backends of node n: distributedCount has grown by PerNode for every
\* online node before it.
Before(S, n) == Cardinality({m \in S : m < n})
zeroBased(S, n) ==                                     \* mutant
  {b \in 0 .. NumBackends - 1 :
     PerNode(S) * Before(S, n) <= b /\ b < PerNode(S) * (Before(S, n) + 1)}
Share(S, n) ==
  {b \in Backends : PerNode(S) * Before(S, n) < b /\ b <= PerNode(S) * (Before(S, n) + 1)}

ShareOrNone(S, m) == IF m \in S THEN Share(S, m) ELSE NoList
keepsOffline(n, S) ==                                  \* mutant: entries not removed
  /\ onlineNodes' = [onlineNodes EXCEPT ![n] = S]
  /\ nodeBackends' = [nodeBackends EXCEPT ![n] =
                        [m \in Members |-> IF m \in S THEN Share(S, m) ELSE @[m]]]
  /\ assignedBackends' = [assignedBackends EXCEPT ![n] = ShareOrNone(S, n)]
redistribute(n, S) ==
  /\ onlineNodes' = [onlineNodes EXCEPT ![n] = S]
  /\ nodeBackends' = [nodeBackends EXCEPT ![n] = [m \in Members |-> ShareOrNone(S, m)]]
  /\ assignedBackends' = [assignedBackends EXCEPT ![n] = ShareOrNone(S, n)]

(***************************************************************************)
(* checkNodeAvailability: a goroutine for each ping, and a timeout.        *)
(***************************************************************************)
\* Where no process runs SendQuery fails, and sendPing waits for a callback that
\* never comes; the others are asked.
SendQuery(n, targets) ==
  {[at |-> n, node |-> m, initializing |-> ~thisNode[n], late |-> FALSE, reply |-> NoReply] :
     m \in {k \in targets : Running(k)}}

\* The pings of a new round, to itself as well while it does not know itself.
Tick(n) ==
  LET all == IF thisNode[n] THEN Members \ {n} ELSE Members
  IN /\ Running(n) /\ ~round[n].active
     /\ round' = [round EXCEPT ![n] =
                    [active |-> TRUE, waiting |-> all, up |-> {}, force |-> FALSE]]
     /\ pings' = pings \cup SendQuery(n, all)
     /\ UNCHANGED <<id, local, starts, delays>>

\* queryPing in the process at node m.
queryPing(n, m) ==
  \E p \in pings :
    /\ p.at = n /\ p.node = m /\ p.reply = NoReply
    /\ pings' = (pings \ {p}) \cup
         {[p EXCEPT !.reply = [id |-> id[m], version |-> version[m],
                               peers |-> assignedBackends[m]]]}
    /\ UNCHANGED <<id, local, round, starts, delays>>

\* A node that answers with another identifier has been restarted.
Restarted(old, new) == old # NoId /\ old # new

\* What becomes of the entry of a node: its list is taken over, or dropped when
\* the node has restarted or has another version.
EntryAfter(entry, reply, partner, drop) ==
  IF partner /\ reply.peers # NoList THEN reply.peers
  ELSE IF drop THEN NoList ELSE entry

\* The callback of sendPing and, unless the round is over, its result.
sendPing(n, m) ==
  \E p \in pings :
    LET reply     == p.reply
        own       == reply.id = id[n]
        mismatch  == reply.version # version[n]
        force     == Restarted(nodeId[n][m], reply.id) \/ mismatch
        online    == IF own THEN p.initializing ELSE ~mismatch
    IN /\ p.at = n /\ p.node = m /\ reply # NoReply
       /\ nodeId' = [nodeId EXCEPT ![n][m] = reply.id]
       /\ thisNode' = [thisNode EXCEPT ![n] = @ \/ (own /\ p.initializing)]
       /\ nodeBackends' = [nodeBackends EXCEPT ![n][m] =
                             EntryAfter(@, reply, ~own /\ ~mismatch, force)]
       /\ round' = IF p.late THEN round
                   ELSE [round EXCEPT ![n].waiting = @ \ {m},
                                      ![n].up = IF online THEN @ \cup {m} ELSE @,
                                      ![n].force = @ \/ force]
       /\ pings' = pings \ {p}
       /\ UNCHANGED <<id, version, onlineNodes, assignedBackends, starts, delays>>

\* Pings that are still on their way when their round ends.
Outlive(n) == {IF p.at = n THEN [p EXCEPT !.late = TRUE] ELSE p : p \in pings}

\* The process at n ends, with its goroutines and the requests it has not
\* answered.
Stopped(n) ==
  /\ id' = [id EXCEPT ![n] = NoId]
  /\ thisNode' = [thisNode EXCEPT ![n] = FALSE]
  /\ nodeId' = [nodeId EXCEPT ![n] = [m \in Members |-> NoId]]
  /\ onlineNodes' = [onlineNodes EXCEPT ![n] = {}]
  /\ nodeBackends' = [nodeBackends EXCEPT ![n] = [m \in Members |-> NoList]]
  /\ assignedBackends' = [assignedBackends EXCEPT ![n] = NoList]
  /\ round' = [round EXCEPT ![n] = NoRound]
  /\ pings' = {p \in pings : p.at # n /\ (p.node = n => p.reply # NoReply)}

\* Waiting for m is not in vain: the request or the answer is on its way.
MayAnswer(n, m) == \E p \in pings : p.at = n /\ p.node = m /\ ~p.late

\* redistribute only when a node has come, gone or asked for it.
onlyNewcomers(n, S) == round[n].force \/ ~(S \subseteq onlineNodes[n])   \* mutant
NeedsRedistribution(n, S) == round[n].force \/ onlineNodes[n] # S

\* All have answered, or the heartbeat timeout strikes.  The goroutines append
\* to newOnlineNodes without a lock: when several of them do so at the same
\* time only some may be left.
EndRound(n) ==
  LET r     == round[n]
      self  == IF thisNode[n] THEN {n} \ r.up ELSE {}
      early == \E m \in r.waiting : MayAnswer(n, m)
  IN /\ r.active
     /\ \E S \in SUBSET r.up :
          LET delayed == early \/ S # r.up
          IN /\ S = {} => r.up = {}
             /\ delayed => delays < MaxDelays
             /\ delays' = IF delayed THEN delays + 1 ELSE delays
             /\ IF ~thisNode[n]
                  THEN \* panic: timeout while initializing nodes
                       Stopped(n)
                  ELSE /\ IF NeedsRedistribution(n, S \cup self)
                            THEN redistribute(n, S \cup self)
                            ELSE UNCHANGED <<onlineNodes, nodeBackends, assignedBackends>>
                       /\ round' = [round EXCEPT ![n] = NoRound]
                       /\ pings' = Outlive(n)
                       /\ UNCHANGED <<id, thisNode, nodeId>>
     /\ UNCHANGED <<version, starts>>

(***************************************************************************)
(* Processes come and go.                                                  *)
(***************************************************************************)
Start(n) ==
  /\ ~Running(n)
  /\ starts < MaxStarts
  /\ starts' = starts + 1
  /\ id' = [id EXCEPT ![n] = starts']
  /\ \E v \in Versions : version' = [version EXCEPT ![n] = v]
  /\ UNCHANGED <<thisNode, nodeId, onlineNodes, nodeBackends, assignedBackends,
                 round, pings, delays>>

Crash(n) ==
  /\ Running(n)
  /\ Stopped(n)
  /\ UNCHANGED <<version, starts, delays>>

Next ==
  \E n \in Members :
    \/ Tick(n) \/ EndRound(n) \/ Start(n) \/ Crash(n)
    \/ \E m \in Members : queryPing(n, m) \/ sendPing(n, m)

Spec == Init /\ [][Next]_vars

\* The ticker of a process ticks, a request to a running process is answered,
\* callbacks run, and a round ends.
Fairness ==
  \A n \in Members :
    /\ WF_vars(Tick(n)) /\ WF_vars(EndRound(n))
    /\ \A m \in Members : WF_vars(queryPing(n, m)) /\ WF_vars(sendPing(n, m))
FairSpec == Spec /\ Fairness

(***************************************************************************)
(* Properties.                                                             *)
(***************************************************************************)
Lists == (SUBSET Backends) \cup {NoList}
Replies == [id : 0 .. MaxStarts, version : Versions \cup {NoId}, peers : Lists]

\* Every variable stays in its type.
TypeOK ==
  /\ id \in [Members -> 0 .. MaxStarts] /\ version \in [Members -> Versions]
  /\ thisNode \in [Members -> BOOLEAN]
  /\ nodeId \in [Members -> [Members -> 0 .. MaxStarts]]
  /\ onlineNodes \in [Members -> SUBSET Members]
  /\ nodeBackends \in [Members -> [Members -> Lists]]
  /\ assignedBackends \in [Members -> Lists]
  /\ round \in [Members -> [active : BOOLEAN, waiting : SUBSET Members,
                            up : SUBSET Members, force : BOOLEAN]]
  /\ pings \subseteq [at : Members, node : Members, initializing : BOOLEAN,
                      late : BOOLEAN, reply : Replies]
  /\ starts \in 0 .. MaxStarts /\ delays \in 0 .. MaxDelays

\* Nodes that agree on who is online agree on the division without having talked
\* about it: each backend is run by exactly one of them, although the shares are
\* rounded up, whatever answers, restarts and timeouts led to that view.
SameView(S) == \A m \in S : onlineNodes[m] = S
EveryBackendOnce ==
  \A S \in (SUBSET Members) \ {{}} : SameView(S) =>
    \A b \in Backends : \E n \in S : \A m \in S : b \in assignedBackends[m] <=> m = n

\* The processes that n can form a cluster with.
Group(n) == {m \in Members : Running(m) /\ version[m] = version[n]}

\* "All backend connections will be split up and divided upon all cluster
\* nodes": once processes neither start nor end, every backend is run by
\* exactly one process of a cluster, in spite of answers that were late or lost
\* and of processes that were restarted.
OwnersConverge ==
  <>[](\A n \in Members : Running(n) =>
         \A b \in Backends : Cardinality({m \in Group(n) : b \in assignedBackends[m]}) = 1)

\* The nodes that getDistributedResponse asks for backend b.
QueryTargets(n, b) == {m \in Members : b \in nodeBackends[n][m]}
RoutesOK ==
  \A n \in Members : Running(n) =>
    \A b \in Backends :
      \E m \in Group(n) : QueryTargets(n, b) = {m} /\ b \in assignedBackends[m]

\* As long as no answer has been late, every process comes to ask exactly the
\* one that runs a backend for the data of that backend.
RoutesConverge == <>[](delays = 0 => RoutesOK)

\* The same when answers have been late ("Not all nodes have responded, but
\* that's ok").
RoutesRecover == <>[]RoutesOK
=============================================================================
