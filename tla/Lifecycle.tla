----------------------------- MODULE Lifecycle -----------------------------
(***************************************************************************)
(* The life of the process and of its goroutines: mainLoop, the reload on  *)
(* SIGHUP and the shutdown on SIGTERM and SIGINT (lmd/main.go), the         *)
(* listeners (lmd/listener.go), Start, Stop and updateLoop of the peers,    *)
(* the sub peers of backends that stand for several sites (lmd/peer.go) and *)
(* the loop that starts and stops peers in cluster mode (lmd/nodes.go).     *)
(*                                                                         *)
(* Every call of mainLoop is a generation: it has its own shutdownChannel,  *)
(* wait groups and Nodes object, all named by its number.  A Peer object is *)
(* an instance, numbered in the order of creation; a backend gets a new     *)
(* instance when its settings change.  Paused is true exactly while an      *)
(* instance has no update loop.  PeerMapLock is held by whoever is at a     *)
(* place where the code holds it, see Writing and Reading.                  *)
(***************************************************************************)
EXTENDS Integers, FiniteSets

CONSTANTS
  Modes,     \* "single", "cluster": whether several nodes are configured
  Ids,       \* ids of configured connections
  Multi,     \* settings under which the remote end stands for several sites
             \* (flags MultiBackend and LMD)
  Subs,      \* ids of these sites
  Configs,   \* configurations: [connections, listen]
  MaxGens,   \* bound: calls of mainLoop
  ClusterGens,  \* bound: calls of mainLoop in cluster mode
  MaxPeers,  \* bound: instances, sub peers are created while there is room
  MaxMoves   \* bound: redistributions of the backends in cluster mode

\* The ids of sub peers come from the remote site; that none is the id of a connection is assumed.
ASSUME IdsAssumption == Ids # {} /\ Ids \cap Subs = {} /\ 0 \notin Multi
ASSUME ModesAssumption == Modes \subseteq {"single", "cluster"}
ASSUME LifeBounds == MaxGens \in Nat \ {0} /\ {ClusterGens, MaxPeers, MaxMoves} \subseteq Nat

\* Settings of a connection; Absent when it is not configured.
Absent == 0
Addresses == UNION {c.listen : c \in Configs}
Gens == 1 .. MaxGens
Instances == 1 .. MaxPeers
Keys == Ids \cup Subs
NoPeer == 0
NoParent == "-"

VARIABLES
  mode,       \* IsClustered
  main,       \* what the main goroutine does
  gen,        \* calls of mainLoop so far
  config,     \* localConfig
  target,     \* the instance main is stopping
  PeerMapNew, \* local variable of initializePeers
  PeerMap,    \* id -> instance
  made,       \* number of instances created
  object,     \* per instance: id, settings, shutdownChannel, waitGroup
  loop,       \* per instance: its update loop
  loopGroup,  \* the wait group that loop reports to
  sites,      \* per instance: the remote sites its update under way has found
  victim,     \* per instance: the sub peer its update is stopping
  waitGroupPeers,  \* per generation
  shutdown,   \* the shutdown channels that are closed
  Listeners,  \* address -> generation that has opened it
  listener,   \* address, generation -> the goroutine in handle
  nodes,      \* per generation: the goroutine in Nodes.loop, its backends
  moves       \* see MaxMoves

objects == <<made, object>>
loops == <<loop, loopGroup, sites, victim, waitGroupPeers>>
mainLocals == <<gen, config, target, PeerMapNew>>
listeners == <<Listeners, listener>>
cluster == <<nodes, moves>>
vars == <<mode, main, gen, config, target, PeerMapNew, PeerMap, made, object, loop,
          loopGroup, sites, victim, waitGroupPeers, shutdown, Listeners, listener, nodes,
          moves>>

NoObject == [id |-> CHOOSE k \in Keys : TRUE, settings |-> Absent,
             parent |-> NoParent, chan |-> 0, group |-> 0]
NoNodes == [at |-> "none", backends |-> {}, assigned |-> {}, rmv |-> {}, add |-> {},
            to |-> NoPeer]

Init ==
  /\ mode \in Modes
  /\ main = "load" /\ gen = 0 /\ config \in Configs /\ target = NoPeer
  /\ PeerMapNew = [k \in Keys |-> NoPeer]
  /\ PeerMap = [k \in Keys |-> NoPeer]
  /\ made = 0
  /\ object = [i \in Instances |-> NoObject]
  /\ loop = [i \in Instances |-> "none"]
  /\ loopGroup = [i \in Instances |-> 0]
  /\ sites = [i \in Instances |-> {}]
  /\ victim = [i \in Instances |-> NoPeer]
  /\ waitGroupPeers = [g \in Gens |-> 0]
  /\ shutdown = {}
  /\ Listeners = [a \in Addresses |-> 0]
  /\ listener = [a \in Addresses |-> [g \in Gens |-> "none"]]
  /\ nodes = [g \in Gens |-> NoNodes]
  /\ moves = 0

Alive == main \notin {"exit", "killed", "panic"}
Paused(i) == loop[i] = "none"
Connections == {k \in Ids : config.connections[k] # Absent}

Writing == main \in {"remove", "stopping"} \/ \E i \in Instances : loop[i] = "removing"
Reading == main = "starting" \/ \E g \in Gens : nodes[g].at = "updating"
CanRead == ~Writing
CanWrite == ~Writing /\ ~Reading

(***************************************************************************)
(* Peer.Start, on an instance that is paused, and the end of Peer.Stop: the *)
(* channel has no buffer, so the caller waits until a loop receives.        *)
(***************************************************************************)
Start(i, group) ==
  /\ loop' = [loop EXCEPT ![i] = "busy"]
  /\ loopGroup' = [loopGroup EXCEPT ![i] = group]
  /\ waitGroupPeers' = [waitGroupPeers EXCEPT ![group] = @ + 1]
  /\ UNCHANGED <<sites, victim>>

Stopped(i) ==
  /\ loop[i] = "select"
  /\ loop' = [loop EXCEPT ![i] = "left"]
  /\ UNCHANGED <<loopGroup, waitGroupPeers>>

(***************************************************************************)
(* updateLoop.  "busy": in InitAllTables or in an update.  A loop waits in  *)
(* its select for the channel that p.shutdownChannel was at the last tick;  *)
(* channels that a reload replaces are never closed.                        *)
(***************************************************************************)
LoopTick(i) ==
  /\ loop[i] = "select"
  /\ loop' = [loop EXCEPT ![i] = "busy"]
  /\ UNCHANGED <<mode, main, mainLocals, PeerMap, objects, loopGroup, sites, victim,
                 waitGroupPeers, shutdown, listeners, cluster>>

LoopWait(i) ==
  /\ loop[i] = "busy"
  /\ loop' = [loop EXCEPT ![i] = "select"]
  /\ UNCHANGED <<mode, main, mainLocals, PeerMap, objects, loopGroup, sites, victim,
                 waitGroupPeers, shutdown, listeners, cluster>>

LoopShutdown(i) ==
  /\ loop[i] = "select" /\ object[i].chan \in shutdown
  /\ loop' = [loop EXCEPT ![i] = "left"]
  /\ UNCHANGED <<mode, main, mainLocals, PeerMap, objects, loopGroup, sites, victim,
                 waitGroupPeers, shutdown, listeners, cluster>>

\* The goroutine of Start: Paused again, wg.Done().
doneOnNewGroup(i) ==                      \* mutant: waitGroup of the peer, not of Start
  /\ loop[i] = "left"
  /\ loop' = [loop EXCEPT ![i] = "none"]
  /\ waitGroupPeers' = [waitGroupPeers EXCEPT ![object[i].group] = @ - 1]
  /\ UNCHANGED <<mode, main, mainLocals, PeerMap, objects, loopGroup, sites, victim,
                 shutdown, listeners, cluster>>
LoopEnd(i) ==
  /\ loop[i] = "left"
  /\ loop' = [loop EXCEPT ![i] = "none"]
  /\ waitGroupPeers' = [waitGroupPeers EXCEPT ![loopGroup[i]] = @ - 1]
  /\ UNCHANGED <<mode, main, mainLocals, PeerMap, objects, loopGroup, sites, victim,
                 shutdown, listeners, cluster>>

(***************************************************************************)
(* periodicUpdateMultiBackends and periodicUpdateLMD: the sites are fetched, *)
(* then PeerMapLock is held while new sites get a peer that is started and  *)
(* sub peers of sites that have gone are stopped.                           *)
(***************************************************************************)
\* fetchRemotePeers: what the remote end lists at that time.
RemoteSites == SUBSET Subs

locksForAll(i) ==                         \* mutant: every update takes PeerMapLock
  /\ loop[i] = "busy"
  /\ loop' = [loop EXCEPT ![i] = "locking"]
  /\ UNCHANGED <<mode, main, mainLocals, PeerMap, objects, loopGroup, sites, victim,
                 waitGroupPeers, shutdown, listeners, cluster>>
FetchSites(i) ==
  /\ loop[i] = "busy" /\ object[i].settings \in Multi
  /\ \E found \in RemoteSites : sites' = [sites EXCEPT ![i] = found]
  /\ loop' = [loop EXCEPT ![i] = "locking"]
  /\ UNCHANGED <<mode, main, mainLocals, PeerMap, objects, loopGroup, victim,
                 waitGroupPeers, shutdown, listeners, cluster>>

LockMap(i) ==
  /\ loop[i] = "locking" /\ CanWrite
  /\ loop' = [loop EXCEPT ![i] = "removing"]
  /\ UNCHANGED <<mode, main, mainLocals, PeerMap, objects, loopGroup, sites, victim,
                 waitGroupPeers, shutdown, listeners, cluster>>

\* Sub peers are left out when the bound is reached: room is kept for main.
Creating == main \in {"load", "obsolete", "remove", "stopping", "create"}
Room == made + (MaxGens - gen) + (IF Creating THEN 1 ELSE 0) < MaxPeers
NewSites(i) == {s \in sites[i] : PeerMap[s] = NoPeer /\ Room}
GoneSites(i) ==
  {s \in Subs \ sites[i] : PeerMap[s] # NoPeer /\ object[PeerMap[s]].parent = object[i].id}

AddSub(i) ==
  /\ loop[i] = "removing"
  /\ \E s \in NewSites(i) :
       /\ made' = made + 1
       /\ object' = [object EXCEPT ![made + 1] =
                       [id |-> s, settings |-> Absent, parent |-> object[i].id,
                        chan |-> object[i].chan, group |-> object[i].group]]
       /\ PeerMap' = [PeerMap EXCEPT ![s] = made + 1]
       /\ Start(made + 1, object[i].group)
  /\ UNCHANGED <<mode, main, mainLocals, shutdown, listeners, cluster>>

RemoveSub(i) ==
  /\ loop[i] = "removing" /\ victim[i] = NoPeer /\ NewSites(i) = {}
  /\ \E s \in GoneSites(i) :
       \/ /\ Paused(PeerMap[s])
          /\ PeerMap' = [PeerMap EXCEPT ![s] = NoPeer]
          /\ UNCHANGED victim
       \/ /\ ~Paused(PeerMap[s])
          /\ victim' = [victim EXCEPT ![i] = PeerMap[s]]
          /\ UNCHANGED PeerMap
  /\ UNCHANGED <<mode, main, mainLocals, objects, loop, loopGroup, sites,
                 waitGroupPeers, shutdown, listeners, cluster>>

SubStopped(i) ==
  /\ loop[i] = "removing" /\ victim[i] # NoPeer
  /\ Stopped(victim[i])
  /\ PeerMap' = [PeerMap EXCEPT ![object[victim[i]].id] = NoPeer]
  /\ victim' = [victim EXCEPT ![i] = NoPeer]
  /\ UNCHANGED <<mode, main, mainLocals, objects, sites, shutdown, listeners, cluster>>

UnlockMap(i) ==
  /\ loop[i] = "removing" /\ victim[i] = NoPeer
  /\ NewSites(i) = {} /\ GoneSites(i) = {}
  /\ loop' = [loop EXCEPT ![i] = "select"]
  /\ sites' = [sites EXCEPT ![i] = {}]
  /\ UNCHANGED <<mode, main, mainLocals, PeerMap, objects, loopGroup, victim,
                 waitGroupPeers, shutdown, listeners, cluster>>

(***************************************************************************)
(* Listeners: initializeListeners, and the goroutine in Listener.handle.    *)
(***************************************************************************)
initializeListeners(c, g) ==
  /\ Listeners' = [a \in Addresses |->
       IF a \notin c.listen THEN 0 ELSE IF Listeners[a] = 0 THEN g ELSE Listeners[a]]
  /\ listener' = [a \in Addresses |-> [h \in Gens |->
       IF a \notin c.listen /\ Listeners[a] = h THEN "closed"
       ELSE IF a \in c.listen /\ Listeners[a] = 0 /\ h = g THEN "starting"
       ELSE listener[a][h]]]

\* waitGroupDone.Add(1), the socket, waitGroupInit.Done().
ListenerOpens(a, g) ==
  /\ listener[a][g] = "starting"
  /\ listener' = [listener EXCEPT ![a][g] = "open"]
  /\ UNCHANGED <<mode, main, mainLocals, PeerMap, objects, loops, shutdown, Listeners, cluster>>

\* Accept has failed: the address is deleted from Listeners, waitGroupDone.Done().
ListenerEnds(a, g) ==
  /\ listener[a][g] = "closed"
  /\ listener' = [listener EXCEPT ![a][g] = "none"]
  /\ Listeners' = [Listeners EXCEPT ![a] = 0]
  /\ UNCHANGED <<mode, main, mainLocals, PeerMap, objects, loops, shutdown, cluster>>

closeListeners ==
  /\ Listeners' = [a \in Addresses |-> 0]
  /\ listener' = [a \in Addresses |-> [h \in Gens |->
       IF h = Listeners[a] THEN "closed" ELSE listener[a][h]]]

(***************************************************************************)
(* mainLoop and initializePeers.                                           *)
(***************************************************************************)
MainLoad ==
  /\ main = "load"
  /\ gen' = gen + 1 /\ main' = "obsolete"
  /\ config' \in Configs
  /\ initializeListeners(config', gen')
  /\ UNCHANGED <<mode, target, PeerMapNew, PeerMap, objects, loops, shutdown, cluster>>

MainLock ==
  /\ main = "obsolete" /\ CanWrite
  /\ main' = "remove"
  /\ UNCHANGED <<mode, mainLocals, PeerMap, objects, loops, shutdown, listeners, cluster>>

\* Whatever is not configured is stopped, all sub peers among them.
Obsolete == {k \in Keys \ Connections : PeerMap[k] # NoPeer}

MainStop ==
  /\ main = "remove"
  /\ \E k \in Obsolete :
       \/ /\ Paused(PeerMap[k])
          /\ PeerMap' = [PeerMap EXCEPT ![k] = NoPeer]
          /\ UNCHANGED <<main, target>>
       \/ /\ ~Paused(PeerMap[k])
          /\ target' = PeerMap[k] /\ main' = "stopping"
          /\ UNCHANGED PeerMap
  /\ UNCHANGED <<mode, gen, config, PeerMapNew, objects, loops, shutdown, listeners, cluster>>

MainStopped ==
  /\ main = "stopping" /\ Stopped(target)
  /\ PeerMap' = [PeerMap EXCEPT ![object[target].id] = NoPeer]
  /\ main' = "remove" /\ target' = NoPeer
  /\ UNCHANGED <<mode, gen, config, PeerMapNew, objects, sites, victim, shutdown,
                 listeners, cluster>>

MainUnlock ==
  /\ main = "remove" /\ Obsolete = {}
  /\ main' = "create" /\ PeerMapNew' = [k \in Keys |-> NoPeer]
  /\ UNCHANGED <<mode, gen, config, target, PeerMap, objects, loops, shutdown, listeners,
                 cluster>>

\* Connection.Equals: an instance whose settings have not changed is kept.
Keeps(k) == PeerMap[k] # NoPeer /\ object[PeerMap[k]].settings = config.connections[k]

keepsChannel(k) ==                        \* mutant: old shutdownChannel kept
  /\ main = "create" /\ CanRead
  /\ k \in Connections /\ PeerMapNew[k] = NoPeer /\ Keeps(k)
  /\ PeerMapNew' = [PeerMapNew EXCEPT ![k] = PeerMap[k]]
  /\ UNCHANGED <<mode, main, gen, config, target, PeerMap, objects, loops, shutdown,
                 listeners, cluster>>
MainKeep(k) ==
  /\ main = "create" /\ CanRead
  /\ k \in Connections /\ PeerMapNew[k] = NoPeer /\ Keeps(k)
  /\ object' = [object EXCEPT ![PeerMap[k]].chan = gen, ![PeerMap[k]].group = gen]
  /\ PeerMapNew' = [PeerMapNew EXCEPT ![k] = PeerMap[k]]
  /\ UNCHANGED <<mode, main, gen, config, target, PeerMap, made, loops, shutdown, listeners,
                 cluster>>

MainCreate(k) ==
  /\ main = "create" /\ CanRead
  /\ k \in Connections /\ PeerMapNew[k] = NoPeer /\ ~Keeps(k)
  /\ made < MaxPeers /\ made' = made + 1
  /\ object' = [object EXCEPT ![made + 1] =
                  [id |-> k, settings |-> config.connections[k], parent |-> NoParent,
                   chan |-> gen, group |-> gen]]
  /\ PeerMapNew' = [PeerMapNew EXCEPT ![k] = made + 1]
  /\ UNCHANGED <<mode, main, gen, config, target, PeerMap, loops, shutdown, listeners, cluster>>

MainPublish ==
  /\ main = "create" /\ CanWrite
  /\ \A k \in Connections : PeerMapNew[k] # NoPeer
  /\ PeerMap' = PeerMapNew /\ main' = "initialize"
  /\ UNCHANGED <<mode, mainLocals, objects, loops, shutdown, listeners, cluster>>

\* Nodes.Initialize waits for the listeners.  In cluster mode its first round of
\* pings tells which backends are ours (module Nodes).
MainInitialize ==
  /\ main = "initialize" /\ CanRead
  /\ \A a \in Addresses : listener[a][gen] # "starting"
  /\ main' = "starting"
  /\ \/ mode = "single" /\ UNCHANGED nodes
     \/ /\ mode = "cluster"
        /\ \E ours \in SUBSET Connections :
             nodes' = [nodes EXCEPT ![gen] =
                         [NoNodes EXCEPT !.backends = Connections, !.assigned = ours,
                                         !.add = ours]]
  /\ UNCHANGED <<mode, mainLocals, PeerMap, objects, loops, shutdown, listeners, moves>>

MainStart(k) ==
  /\ main = "starting" /\ mode = "single"
  /\ PeerMap[k] # NoPeer /\ Paused(PeerMap[k])
  /\ Start(PeerMap[k], object[PeerMap[k]].group)
  /\ UNCHANGED <<mode, main, mainLocals, PeerMap, objects, shutdown, listeners, cluster>>

\* Start calls Panicf when the peer is not paused; a missing peer is a nil pointer.
CanStart(k) == PeerMap[k] # NoPeer /\ Paused(PeerMap[k])

MainStartOurs(k) ==
  /\ main = "starting" /\ k \in nodes[gen].add
  /\ nodes' = [nodes EXCEPT ![gen].add = @ \ {k}]
  /\ \/ /\ CanStart(k) /\ Start(PeerMap[k], object[PeerMap[k]].group)
        /\ UNCHANGED main
     \/ /\ ~CanStart(k) /\ main' = "panic"
        /\ UNCHANGED loops
  /\ UNCHANGED <<mode, mainLocals, PeerMap, objects, shutdown, listeners, moves>>

MainReady ==
  /\ main = "starting" /\ nodes[gen].add = {}
  /\ mode = "single" => \A k \in Keys : PeerMap[k] # NoPeer => ~Paused(PeerMap[k])
  /\ main' = "select"
  /\ nodes' = IF mode = "cluster" THEN [nodes EXCEPT ![gen].at = "wait"] ELSE nodes
  /\ UNCHANGED <<mode, mainLocals, PeerMap, objects, loops, shutdown, listeners, moves>>

(***************************************************************************)
(* mainSignalHandler.                                                      *)
(***************************************************************************)
SIGHUP ==
  /\ main = "select" /\ gen < MaxGens /\ (mode = "cluster" => gen < ClusterGens)
  /\ main' = "load"
  /\ UNCHANGED <<mode, mainLocals, PeerMap, objects, loops, shutdown, listeners, cluster>>

\* The handlers of SIGTERM and SIGINT differ in how they wait.
quitNotClosing(next) ==                   \* mutant: close(shutdownChannel) missing
  /\ main = "select" /\ main' = next
  /\ closeListeners
  /\ UNCHANGED <<mode, mainLocals, PeerMap, objects, loops, shutdown, cluster>>
Quit(next) ==
  /\ main = "select" /\ main' = next
  /\ shutdown' = shutdown \cup {gen}
  /\ closeListeners
  /\ UNCHANGED <<mode, mainLocals, PeerMap, objects, loops, cluster>>
SIGTERM == Quit("waitListener")
SIGINT == Quit("waitTimeout")

\* waitGroupListener of this generation: kept listeners are in an older one.
ListenersDone == \A a \in Addresses : listener[a][gen] = "none"

WaitListener ==
  /\ main = "waitListener" /\ ListenersDone
  /\ main' = "waitPeers"
  /\ UNCHANGED <<mode, mainLocals, PeerMap, objects, loops, shutdown, listeners, cluster>>

exitAtOnce ==                             \* mutant: waitGroupPeers.Wait() missing
  /\ main = "waitPeers" /\ main' = "exit"
  /\ UNCHANGED <<mode, mainLocals, PeerMap, objects, loops, shutdown, listeners, cluster>>
WaitPeers ==
  /\ main = "waitPeers" /\ waitGroupPeers[gen] = 0
  /\ main' = "exit"
  /\ UNCHANGED <<mode, mainLocals, PeerMap, objects, loops, shutdown, listeners, cluster>>

\* One second, or less when the listeners have ended.
WaitTimeout ==
  /\ main = "waitTimeout" /\ main' = "killed"
  /\ UNCHANGED <<mode, mainLocals, PeerMap, objects, loops, shutdown, listeners, cluster>>

(***************************************************************************)
(* Nodes.loop in cluster mode: redistribute and updateBackends.  Nobody     *)
(* ends the loop of an earlier generation.                                 *)
(***************************************************************************)
Redistribute(g) ==
  /\ nodes[g].at = "wait" /\ g \notin shutdown /\ CanRead
  /\ moves < MaxMoves /\ moves' = moves + 1
  /\ \E ours \in (SUBSET nodes[g].backends) \ {nodes[g].assigned} :
       nodes' = [nodes EXCEPT ![g] =
                   [@ EXCEPT !.at = "updating", !.assigned = ours,
                             !.rmv = nodes[g].assigned \ ours,
                             !.add = ours \ nodes[g].assigned]]
  /\ UNCHANGED <<mode, main, mainLocals, PeerMap, objects, loops, shutdown, listeners>>

NodesStop(g, k) ==
  /\ nodes[g].at = "updating" /\ nodes[g].to = NoPeer /\ k \in nodes[g].rmv
  /\ \/ /\ PeerMap[k] = NoPeer
        /\ main' = "panic" /\ UNCHANGED nodes
     \/ /\ CanStart(k)                      \* paused: nothing to stop
        /\ nodes' = [nodes EXCEPT ![g].rmv = @ \ {k}] /\ UNCHANGED main
     \/ /\ PeerMap[k] # NoPeer /\ ~Paused(PeerMap[k])
        /\ nodes' = [nodes EXCEPT ![g].to = PeerMap[k]] /\ UNCHANGED main
  /\ UNCHANGED <<mode, mainLocals, PeerMap, objects, loops, shutdown, listeners, moves>>

NodesStopped(g) ==
  /\ nodes[g].to # NoPeer /\ Stopped(nodes[g].to)
  /\ nodes' = [nodes EXCEPT ![g].rmv = @ \ {object[nodes[g].to].id}, ![g].to = NoPeer]
  /\ UNCHANGED <<mode, main, mainLocals, PeerMap, objects, sites, victim, shutdown,
                 listeners, moves>>

NodesStart(g, k) ==
  /\ nodes[g].at = "updating" /\ nodes[g].rmv = {} /\ k \in nodes[g].add
  /\ nodes' = [nodes EXCEPT ![g].add = @ \ {k}]
  /\ \/ /\ CanStart(k) /\ Start(PeerMap[k], object[PeerMap[k]].group)
        /\ UNCHANGED main
     \/ /\ ~CanStart(k) /\ main' = "panic"
        /\ UNCHANGED loops
  /\ UNCHANGED <<mode, mainLocals, PeerMap, objects, shutdown, listeners, moves>>

NodesWait(g) ==
  /\ nodes[g].at = "updating" /\ nodes[g].rmv = {} /\ nodes[g].add = {}
  /\ nodes' = [nodes EXCEPT ![g].at = "wait"]
  /\ UNCHANGED <<mode, main, mainLocals, PeerMap, objects, loops, shutdown, listeners, moves>>

NodesEnd(g) ==
  /\ nodes[g].at = "wait" /\ g \in shutdown
  /\ nodes' = [nodes EXCEPT ![g].at = "none"]
  /\ UNCHANGED <<mode, main, mainLocals, PeerMap, objects, loops, shutdown, listeners, moves>>

-----------------------------------------------------------------------------
LoopStep(i) ==
  \/ LoopTick(i) \/ LoopWait(i) \/ LoopShutdown(i) \/ LoopEnd(i)
  \/ FetchSites(i) \/ LockMap(i) \/ AddSub(i) \/ RemoveSub(i) \/ SubStopped(i)
  \/ UnlockMap(i)

MainStep ==
  \/ MainLoad \/ MainLock \/ MainStop \/ MainStopped \/ MainUnlock \/ MainPublish
  \/ MainInitialize \/ MainReady \/ WaitListener \/ WaitPeers \/ WaitTimeout
  \/ \E k \in Keys : MainKeep(k) \/ MainCreate(k) \/ MainStart(k) \/ MainStartOurs(k)

Signal == SIGHUP \/ SIGTERM \/ SIGINT

ListenerStep == \E a \in Addresses, g \in Gens : ListenerOpens(a, g) \/ ListenerEnds(a, g)

NodesStep(g) ==
  \/ Redistribute(g) \/ NodesStopped(g) \/ NodesWait(g) \/ NodesEnd(g)
  \/ \E k \in Ids : NodesStop(g, k) \/ NodesStart(g, k)

Next ==
  /\ Alive
  /\ \/ \E i \in Instances : LoopStep(i)
     \/ MainStep \/ Signal \/ ListenerStep
     \/ \E g \in Gens : NodesStep(g)

Spec == Init /\ [][Next]_vars

\* Goroutines run; updates end because every connection has a timeout; of the
\* channels that are ready a select takes each with the same probability.
Fairness ==
  /\ WF_vars(Alive /\ MainStep) /\ SF_vars(Alive /\ MainStopped)
  /\ WF_vars(Alive /\ ListenerStep)
  /\ \A i \in Instances : WF_vars(Alive /\ LoopStep(i))
  /\ SF_vars(Alive /\ \E i \in Instances : LoopShutdown(i))
FairSpec == Spec /\ Fairness
-----------------------------------------------------------------------------
MainPlaces ==
  {"load", "obsolete", "remove", "stopping", "create", "initialize", "starting",
   "select", "waitListener", "waitPeers", "waitTimeout", "exit", "killed", "panic"}
LoopPlaces == {"none", "busy", "select", "locking", "removing", "left"}
Groups == 0 .. MaxGens
SettingsOf == {Absent} \cup UNION {{c.connections[k] : k \in Ids} : c \in Configs}
Objects == [id : Keys, settings : SettingsOf, parent : Ids \cup {NoParent},
            chan : Groups, group : Groups]

\* All values that the variables take; a wait group never goes below zero, which
\* would be a panic of the runtime.
TypeOK ==
  /\ mode \in Modes /\ main \in MainPlaces
  /\ gen \in Groups /\ config \in Configs
  /\ target \in 0 .. made /\ made \in 0 .. MaxPeers
  /\ PeerMapNew \in [Keys -> 0 .. made] /\ PeerMap \in [Keys -> 0 .. made]
  /\ object \in [Instances -> Objects]
  /\ loop \in [Instances -> LoopPlaces] /\ loopGroup \in [Instances -> Groups]
  /\ sites \in [Instances -> SUBSET Subs] /\ victim \in [Instances -> 0 .. made]
  /\ waitGroupPeers \in [Gens -> Nat] /\ shutdown \subseteq Gens
  /\ Listeners \in [Addresses -> Groups]
  /\ listener \in [Addresses -> [Gens -> {"none", "starting", "open", "closed"}]]
  /\ nodes \in [Gens -> [at : {"none", "wait", "updating"}, backends : SUBSET Ids,
                         assigned : SUBSET Ids, rmv : SUBSET Ids, add : SUBSET Ids,
                         to : 0 .. made]]
  /\ moves \in 0 .. MaxMoves

\* When main waits for signals again after a start or a reload, every configured
\* backend has a peer with the settings of this configuration that hears its
\* shutdown channel, and every peer in PeerMap is being updated (initializePeers,
\* Nodes.Initialize in single mode).
Running(i) == loop[i] \notin {"none", "left"}
ConfiguredPeersRun ==
  mode = "single" /\ main = "select" =>
    /\ \A k \in Connections :
         /\ PeerMap[k] # NoPeer
         /\ object[PeerMap[k]].settings = config.connections[k]
         /\ object[PeerMap[k]].chan = gen
    /\ \A k \in Keys : PeerMap[k] # NoPeer => Running(PeerMap[k])

\* A process that was never reloaded leaves on SIGTERM only after every update loop
\* has ended, those of sub peers that were started during the shutdown too
\* (waitGroupPeers.Wait in mainSignalHandler).
GracefulExit ==
  mode = "single" /\ gen = 1 /\ main = "exit" => \A i \in Instances : Paused(i)

\* A reload does not hang in the Stop of a backend that stands for one site, nor of
\* a sub peer (Peer.Stop in initializePeers).
StopReturns ==
  (mode = "single" /\ main = "stopping" /\ object[target].settings \notin Multi)
    ~> (main # "stopping")

\* A listener that closeListeners does not find: one of an earlier generation on the same
\* address has ended after it was opened and has deleted its entry (ListenerEnds).
LostListener == \E a \in Addresses : listener[a][gen] = "open" /\ Listeners[a] = 0

\* SIGTERM ends the process, however often it was reloaded before, when no backend that
\* stands for several sites is being updated and no listener is lost; main waits for a
\* lost one for ever, which takes two reloads (mainSignalHandler).
ShutdownEnds ==
  (/\ mode = "single" /\ main = "waitListener" /\ ~ LostListener
   /\ \A i \in Instances : object[i].settings \in Multi => Paused(i))
    ~> (main = "exit")

\* Contradicted: a reload replaces the peers whose settings have changed.
OneLoopPerBackend ==
  main = "select" =>
    \A i, j \in Instances : Running(i) /\ Running(j) /\ object[i].id = object[j].id => i = j
\* Contradicted: the assertion of Peer.Start.
NeverStartedTwice == main # "panic"
\* Contradicted: SIGTERM ends the process.
QuitsGracefully == (main = "waitListener") ~> (main = "exit")
\* Contradicted: a reload ends.
ReloadEnds == (main = "load") ~> (main = "select")
=============================================================================
