--------------------------- MODULE LifecycleProofs ---------------------------
(***************************************************************************)
(* Proofs about Lifecycle for every set of configurations and any number of *)
(* reloads, backends and sites: the types (no wait group goes below zero),  *)
(* that the process leaves gracefully and that configured peers run.        *)
(*                                                                         *)
(* A wait group counts the update loops that were started with it: that     *)
(* needs a peer's group to be the one of some generation, and Done to go to *)
(* the group that Start has used.                                           *)
(***************************************************************************)
EXTENDS Lifecycle, FiniteSetTheorems, TLAPS

\* The update loops that report to the wait group of a generation.
Loops(g) == {i \in Instances : loop[i] # "none" /\ loopGroup[i] = g}
CountInv == \A g \in Gens : waitGroupPeers[g] = Cardinality(Loops(g))

GenInv ==
  /\ main = "load" => gen < MaxGens
  /\ main \notin {"load", "panic"} => gen >= 1
  /\ \A i \in Instances : i <= made => object[i].group \in 1 .. gen
  /\ \A i \in Instances : loop[i] # "none" => i <= made /\ loopGroup[i] \in 1 .. gen
  /\ main = "exit" => waitGroupPeers[gen] = 0

\* The names of instances.
NameInv ==
  /\ \A i \in Instances : object[i].settings # Absent => object[i].id \in Ids
  /\ \A i \in Instances : loop[i] \in {"locking", "removing"} => object[i].settings \in Multi
  /\ \A i \in Instances : victim[i] # NoPeer => object[victim[i]].id \in Subs
  /\ \A k \in Keys : PeerMap[k] # NoPeer => object[PeerMap[k]].id = k
  /\ main = "create" =>
       \A k \in Keys : PeerMapNew[k] # NoPeer => k \in Ids /\ object[PeerMapNew[k]].id = k
  /\ main = "stopping" => target # NoPeer

\* A peer with the settings and the shutdown channel of this generation.
Current(k, i) == object[i].settings = config.connections[k] /\ object[i].chan = gen
Quitting == {"waitListener", "waitPeers", "waitTimeout", "exit", "killed", "panic"}
SingleInv ==
  mode = "single" =>
    /\ \A g \in Gens : nodes[g] = NoNodes
    /\ shutdown # {} => main \in Quitting
    /\ shutdown = {} =>
         \A k \in Keys : PeerMap[k] # NoPeer => loop[PeerMap[k]] # "left"
    /\ main = "create" =>
         \A k \in Keys : PeerMapNew[k] # NoPeer =>
           Current(k, PeerMapNew[k]) /\ loop[PeerMapNew[k]] # "left"
    /\ main \in {"initialize", "starting", "select"} =>
         \A k \in Connections : PeerMap[k] # NoPeer /\ Current(k, PeerMap[k])
    /\ main = "select" =>
         \A k \in Keys : PeerMap[k] # NoPeer => loop[PeerMap[k]] # "none"

IInv == TypeOK /\ CountInv /\ GenInv /\ NameInv /\ SingleInv

-----------------------------------------------------------------------------
(* Types and counts.                                                        *)

NodeType == [at : {"none", "wait", "updating"}, backends : SUBSET Ids,
             assigned : SUBSET Ids, rmv : SUBSET Ids, add : SUBSET Ids, to : 0 .. made]
LoopTypes ==
  /\ loop \in [Instances -> LoopPlaces] /\ loopGroup \in [Instances -> Groups]
  /\ sites \in [Instances -> SUBSET Subs] /\ victim \in [Instances -> 0 .. made]
  /\ waitGroupPeers \in [Gens -> Nat]
MainTypes ==
  /\ mode \in Modes /\ main \in MainPlaces
  /\ gen \in Groups /\ config \in Configs
  /\ target \in 0 .. made /\ made \in 0 .. MaxPeers
  /\ PeerMapNew \in [Keys -> 0 .. made] /\ PeerMap \in [Keys -> 0 .. made]
  /\ object \in [Instances -> Objects] /\ shutdown \subseteq Gens
ListenerTypes ==
  /\ Listeners \in [Addresses -> Groups]
  /\ listener \in [Addresses -> [Gens -> {"none", "starting", "open", "closed"}]]
NodesTypes == nodes \in [Gens -> NodeType] /\ moves \in 0 .. MaxMoves

LEMMA TypeParts == TypeOK <=> LoopTypes /\ MainTypes /\ ListenerTypes /\ NodesTypes
  BY DEF TypeOK, LoopTypes, MainTypes, ListenerTypes, NodesTypes, NodeType

\* What the maps name are instances that were created.
LEMMA MapInstances ==
  ASSUME TypeOK
  PROVE  /\ made \in Nat /\ made <= MaxPeers /\ gen \in Nat /\ gen <= MaxGens
         /\ \A k \in Keys : PeerMap[k] # NoPeer => PeerMap[k] \in Instances /\ PeerMap[k] <= made
         /\ \A k \in Keys :
              PeerMapNew[k] # NoPeer => PeerMapNew[k] \in Instances /\ PeerMapNew[k] <= made
         /\ \A i \in Instances : victim[i] # NoPeer => victim[i] \in Instances /\ victim[i] <= made
         /\ target # NoPeer => target \in Instances /\ target <= made
  <1>1. made \in Nat /\ made <= MaxPeers /\ gen \in Nat /\ gen <= MaxGens
    BY LifeBounds DEF TypeOK, Groups
  <1>2. \A n \in 0 .. made : n # NoPeer => n \in Instances /\ n <= made
    BY <1>1, LifeBounds DEF NoPeer, Instances
  <1>3. /\ \A k \in Keys : PeerMap[k] \in 0 .. made /\ PeerMapNew[k] \in 0 .. made
        /\ \A i \in Instances : victim[i] \in 0 .. made
        /\ target \in 0 .. made
    BY DEF TypeOK
  <1> QED
    BY <1>1, <1>2, <1>3

\* Any set of instances is finite.
LEMMA LoopsFinite ==
  ASSUME NEW g
  PROVE  IsFiniteSet(Loops(g)) /\ Cardinality(Loops(g)) \in Nat
  <1>1. IsFiniteSet(Instances)
    BY LifeBounds, FS_Interval DEF Instances
  <1>2. Loops(g) \subseteq Instances
    BY DEF Loops
  <1> QED
    BY <1>1, <1>2, FS_Subset, FS_CardinalityType

\* A loop that goes on counts as before.
LEMMA LoopGoesOn ==
  ASSUME LoopTypes, CountInv, NEW i, loop[i] # "none", NEW x \in LoopPlaces \ {"none"},
         loop' = [loop EXCEPT ![i] = x], UNCHANGED <<loopGroup, waitGroupPeers>>
  PROVE  CountInv' /\ loop' \in [Instances -> LoopPlaces]
  <1>1. loop' \in [Instances -> LoopPlaces]
    BY DEF LoopTypes
  <1>2. \A j \in Instances : loop'[j] # "none" <=> loop[j] # "none"
    BY DEF LoopTypes
  <1>3. \A g : Loops(g)' = Loops(g)
    BY <1>2 DEF Loops
  <1> QED
    BY <1>1, <1>3 DEF CountInv

\* Peer.Start: one more.
LEMMA StartCounts ==
  ASSUME LoopTypes, CountInv, NEW i \in Instances, loop[i] = "none", NEW h \in Gens, Start(i, h)
  PROVE  /\ CountInv' /\ loop' \in [Instances -> LoopPlaces]
         /\ loopGroup' \in [Instances -> Groups] /\ waitGroupPeers' \in [Gens -> Nat]
         /\ loop' = [loop EXCEPT ![i] = "busy"] /\ loopGroup' = [loopGroup EXCEPT ![i] = h]
         /\ UNCHANGED <<sites, victim>>
  <1>1. /\ loop' = [loop EXCEPT ![i] = "busy"] /\ loopGroup' = [loopGroup EXCEPT ![i] = h]
        /\ waitGroupPeers' = [waitGroupPeers EXCEPT ![h] = @ + 1]
        /\ UNCHANGED <<sites, victim>>
    BY DEF Start
  <1>2. h \in Groups
    BY LifeBounds DEF Gens, Groups
  <1>3. loop' \in [Instances -> LoopPlaces] /\ loopGroup' \in [Instances -> Groups]
    BY <1>1, <1>2 DEF LoopTypes, LoopPlaces
  <1>4. waitGroupPeers' \in [Gens -> Nat]
    BY <1>1 DEF LoopTypes
  <1>5. Loops(h)' = Loops(h) \cup {i} /\ i \notin Loops(h)
    BY <1>1 DEF Loops, LoopTypes
  <1>6. \A g \in Gens \ {h} : Loops(g)' = Loops(g)
    BY <1>1 DEF Loops, LoopTypes
  <1>7. Cardinality(Loops(h)') = Cardinality(Loops(h)) + 1
    BY <1>5, LoopsFinite, FS_AddElement
  <1>8. CountInv'
    BY <1>1, <1>6, <1>7 DEF CountInv, LoopTypes
  <1> QED
    BY <1>1, <1>3, <1>4, <1>8

\* The end of a loop: Done on the group that Start has used, which counts it.
LEMMA EndCounts ==
  ASSUME LoopTypes, CountInv, GenInv, NEW i \in Instances, LoopEnd(i)
  PROVE  CountInv' /\ loop' \in [Instances -> LoopPlaces] /\ waitGroupPeers' \in [Gens -> Nat]
  <1>1. /\ loop' = [loop EXCEPT ![i] = "none"] /\ loop[i] = "left" /\ UNCHANGED loopGroup
        /\ waitGroupPeers' = [waitGroupPeers EXCEPT ![loopGroup[i]] = @ - 1]
    BY DEF LoopEnd
  <1> DEFINE h == loopGroup[i]
  <1>2. loop' \in [Instances -> LoopPlaces]
    BY <1>1 DEF LoopTypes, LoopPlaces
  <1>3. Loops(h)' = Loops(h) \ {i} /\ i \in Loops(h)
    BY <1>1 DEF Loops, LoopTypes
  <1>4. \A g \in Gens \ {h} : Loops(g)' = Loops(g)
    BY <1>1 DEF Loops, LoopTypes
  <1>5. Cardinality(Loops(h)') = Cardinality(Loops(h)) - 1 /\ Cardinality(Loops(h)') \in Nat
    <2>1. Cardinality(Loops(h)') = Cardinality(Loops(h)) - 1
      BY <1>3, LoopsFinite, FS_RemoveElement
    <2>2. IsFiniteSet(Loops(h)')
      BY <1>3, LoopsFinite, FS_RemoveElement
    <2> QED
      BY <2>1, <2>2, FS_CardinalityType
  <1>6. \A g \in Gens : waitGroupPeers'[g] = Cardinality(Loops(g)')
    BY <1>1, <1>4, <1>5 DEF CountInv, LoopTypes
  <1>7. \A g \in Gens : waitGroupPeers'[g] \in Nat
    <2>1. h \in Gens => waitGroupPeers'[h] = Cardinality(Loops(h)) - 1
      BY <1>1 DEF CountInv, LoopTypes
    <2>2. h \in Gens => waitGroupPeers'[h] \in Nat
      BY <1>5, <2>1
    <2>3. \A g \in Gens \ {h} : waitGroupPeers'[g] = waitGroupPeers[g]
      BY <1>1 DEF LoopTypes
    <2> QED
      BY <2>2, <2>3 DEF LoopTypes
  <1>8. waitGroupPeers' \in [Gens -> Nat]
    BY <1>1, <1>7 DEF LoopTypes
  <1> QED
    BY <1>2, <1>6, <1>8 DEF CountInv

-----------------------------------------------------------------------------
(* The steps of an update loop.                                             *)

\* Only the place of a loop changes, or the sites that it has found.
LEMMA PlaceInv ==
  ASSUME IInv, NEW i \in Instances, loop[i] # "none", NEW x \in LoopPlaces \ {"none"},
         loop' = [loop EXCEPT ![i] = x], sites' \in [Instances -> SUBSET Subs],
         UNCHANGED <<mode, main, mainLocals, PeerMap, objects, loopGroup, victim,
                     waitGroupPeers, shutdown, listeners, cluster>>,
         x \in {"locking", "removing"} => object[i].settings \in Multi,
         x = "left" => shutdown # {}
  PROVE  IInv'
  <1>0. /\ UNCHANGED <<mode, main, gen, config, target, PeerMapNew, PeerMap, made, object>>
        /\ UNCHANGED <<loopGroup, victim, waitGroupPeers, shutdown, Listeners, listener, nodes>>
        /\ UNCHANGED moves
    BY DEF mainLocals, objects, listeners, cluster
  <1>1. LoopTypes /\ MainTypes /\ ListenerTypes /\ NodesTypes
    BY TypeParts DEF IInv
  <1>2. CountInv' /\ loop' \in [Instances -> LoopPlaces]
    BY <1>0, <1>1, LoopGoesOn DEF IInv
  <1>3. \A j \in Instances : /\ loop'[j] = "none" <=> loop[j] = "none"
                             /\ loop'[j] = IF j = i THEN x ELSE loop[j]
    BY <1>1 DEF LoopTypes
  <1>4. TypeOK'
    <2>1. LoopTypes' /\ MainTypes' /\ ListenerTypes' /\ NodesTypes'
      BY <1>0, <1>1, <1>2 DEF LoopTypes, MainTypes, ListenerTypes, NodesTypes, NodeType
    <2> QED
      BY <2>1 DEF TypeOK, LoopTypes, MainTypes, ListenerTypes, NodesTypes, NodeType
  <1>5. GenInv'
    BY <1>0, <1>3 DEF IInv, GenInv
  <1>6. NameInv'
    BY <1>0, <1>3 DEF IInv, NameInv
  <1>7. SingleInv'
    <2>1. \A k \in Keys : PeerMap[k] # NoPeer => PeerMap[k] \in Instances
      BY MapInstances DEF IInv
    <2>2. \A k \in Keys : PeerMapNew[k] # NoPeer => PeerMapNew[k] \in Instances
      BY MapInstances DEF IInv
    <2>3. Connections' = Connections
      BY <1>0 DEF Connections
    <2>4. x = "left" => main \notin {"create", "select"} \/ mode # "single"
      BY DEF IInv, SingleInv, Quitting
    <2> QED
      BY <1>0, <1>3, <2>1, <2>2, <2>3, <2>4 DEF IInv, SingleInv, Current
  <1> QED
    BY <1>2, <1>4, <1>5, <1>6, <1>7 DEF IInv

LEMMA LoopPlacesInv ==
  ASSUME IInv, NEW i \in Instances,
         LoopTick(i) \/ LoopWait(i) \/ LoopShutdown(i) \/ FetchSites(i) \/ LockMap(i) \/ UnlockMap(i)
  PROVE  IInv'
  <1>0. sites \in [Instances -> SUBSET Subs]
    BY DEF IInv, TypeOK
  <1>1. CASE LoopTick(i) \/ LoopWait(i)
    BY <1>0, <1>1, PlaceInv DEF LoopTick, LoopWait, LoopPlaces
  <1>2. CASE LoopShutdown(i)
    BY <1>0, <1>2, PlaceInv DEF LoopShutdown, LoopPlaces
  <1>3. CASE FetchSites(i)
    <2>1. sites' \in [Instances -> SUBSET Subs]
      BY <1>0, <1>3 DEF FetchSites, RemoteSites
    <2> QED
      BY <1>3, <2>1, PlaceInv DEF FetchSites, LoopPlaces
  <1>4. CASE LockMap(i)
    <2>1. object[i].settings \in Multi
      BY <1>4 DEF LockMap, IInv, NameInv
    <2> QED
      BY <1>0, <1>4, <2>1, PlaceInv DEF LockMap, LoopPlaces
  <1>5. CASE UnlockMap(i)
    <2>1. sites' \in [Instances -> SUBSET Subs]
      BY <1>0, <1>5 DEF UnlockMap
    <2> QED
      BY <1>5, <2>1, PlaceInv DEF UnlockMap, LoopPlaces
  <1> QED
    BY <1>1, <1>2, <1>3, <1>4, <1>5

LEMMA LoopEndInv ==
  ASSUME IInv, NEW i \in Instances, LoopEnd(i), main # "exit"
  PROVE  IInv'
  <1>0. /\ UNCHANGED <<mode, main, gen, config, target, PeerMapNew, PeerMap, made, object>>
        /\ UNCHANGED <<loopGroup, sites, victim, shutdown, Listeners, listener, nodes, moves>>
        /\ loop[i] = "left" /\ loop' = [loop EXCEPT ![i] = "none"]
    BY DEF LoopEnd, mainLocals, objects, listeners, cluster
  <1>1. LoopTypes /\ MainTypes /\ ListenerTypes /\ NodesTypes
    BY TypeParts DEF IInv
  <1>2. CountInv' /\ loop' \in [Instances -> LoopPlaces] /\ waitGroupPeers' \in [Gens -> Nat]
    BY <1>1, EndCounts DEF IInv
  <1>3. \A j \in Instances : loop'[j] = IF j = i THEN "none" ELSE loop[j]
    BY <1>0, <1>1 DEF LoopTypes
  <1>4. TypeOK'
    <2>1. LoopTypes' /\ MainTypes' /\ ListenerTypes' /\ NodesTypes'
      BY <1>0, <1>1, <1>2 DEF LoopTypes, MainTypes, ListenerTypes, NodesTypes, NodeType
    <2> QED
      BY <2>1 DEF TypeOK, LoopTypes, MainTypes, ListenerTypes, NodesTypes, NodeType
  <1>5. GenInv'
    BY <1>0, <1>3 DEF IInv, GenInv
  <1>6. NameInv'
    BY <1>0, <1>3 DEF IInv, NameInv
  <1>7. SingleInv'
    <2>1. \A k \in Keys : PeerMap[k] # NoPeer => PeerMap[k] \in Instances
      BY MapInstances DEF IInv
    <2>2. \A k \in Keys : PeerMapNew[k] # NoPeer => PeerMapNew[k] \in Instances
      BY MapInstances DEF IInv
    <2>3. Connections' = Connections
      BY <1>0 DEF Connections
    <2>4. mode = "single" /\ main = "select" => shutdown = {}
      BY DEF IInv, SingleInv, Quitting
    <2> QED
      BY <1>0, <1>3, <2>1, <2>2, <2>3, <2>4 DEF IInv, SingleInv, Current
  <1> QED
    BY <1>2, <1>4, <1>5, <1>6, <1>7 DEF IInv

\* A new site gets a peer: one more instance, of the generation of its parent.
LEMMA AddSubInv ==
  ASSUME IInv, NEW i \in Instances, AddSub(i), main # "exit"
  PROVE  IInv'
  <1>0. /\ UNCHANGED <<mode, main, gen, config, target, PeerMapNew>>
        /\ UNCHANGED <<sites, victim, shutdown, Listeners, listener, nodes, moves>>
        /\ loop[i] = "removing"
    BY DEF AddSub, Start, mainLocals, listeners, cluster
  <1>1. PICK s \in NewSites(i) :
          /\ made' = made + 1
          /\ object' = [object EXCEPT ![made + 1] =
                          [id |-> s, settings |-> Absent, parent |-> object[i].id,
                           chan |-> object[i].chan, group |-> object[i].group]]
          /\ PeerMap' = [PeerMap EXCEPT ![s] = made + 1]
          /\ Start(made + 1, object[i].group)
    BY DEF AddSub
  <1>2. LoopTypes /\ MainTypes /\ ListenerTypes /\ NodesTypes
    BY TypeParts DEF IInv
  <1>3. /\ made \in Nat /\ gen \in Nat /\ gen <= MaxGens /\ MaxGens \in Nat /\ MaxPeers \in Nat
        /\ \A k \in Keys : PeerMap[k] # NoPeer => PeerMap[k] \in Instances /\ PeerMap[k] <= made
        /\ \A k \in Keys :
             PeerMapNew[k] # NoPeer => PeerMapNew[k] \in Instances /\ PeerMapNew[k] <= made
        /\ \A j \in Instances : victim[j] # NoPeer => victim[j] \in Instances /\ victim[j] <= made
    BY MapInstances, LifeBounds DEF IInv
  <1>4. s \in Subs /\ s \in Keys /\ s \notin Ids
    BY <1>2, IdsAssumption DEF NewSites, LoopTypes, Keys
  <1>5. made + 1 \in Instances /\ made + 1 \in 0 .. MaxPeers
    <2>1. Room
      BY DEF NewSites
    <2>2. made < MaxPeers
      BY <1>3, <2>1 DEF Room
    <2> QED
      BY <1>3, <2>2 DEF Instances
  <1>6. /\ object[i].id \in Ids /\ object[i].group \in 1 .. gen /\ object[i].group \in Gens
        /\ object[i].group \in Groups /\ object[i].chan \in Groups
    <2>1. object[i].settings \in Multi /\ object[i].settings # Absent
      BY <1>0, IdsAssumption DEF IInv, NameInv, Absent
    <2>2. object[i].group \in 1 .. gen
      BY <1>0 DEF IInv, GenInv
    <2>3. object[i].group \in Gens /\ object[i].group \in Groups
      BY <1>3, <2>2 DEF Gens, Groups
    <2> QED
      BY <1>2, <2>1, <2>2, <2>3 DEF IInv, NameInv, MainTypes, Objects
  <1>7. loop[made + 1] = "none"
    BY <1>3, <1>5 DEF IInv, GenInv
  <1>8. /\ CountInv' /\ loop' \in [Instances -> LoopPlaces]
        /\ loopGroup' \in [Instances -> Groups] /\ waitGroupPeers' \in [Gens -> Nat]
        /\ loop' = [loop EXCEPT ![made + 1] = "busy"]
        /\ loopGroup' = [loopGroup EXCEPT ![made + 1] = object[i].group]
    BY <1>1, <1>2, <1>5, <1>6, <1>7, StartCounts DEF IInv
  <1>9. \A n \in 0 .. made : n \in 0 .. made' /\ (n # made + 1)
    BY <1>1, <1>3
  <1>10. /\ object' \in [Instances -> Objects]
         /\ object'[made + 1] = [id |-> s, settings |-> Absent, parent |-> object[i].id,
                                 chan |-> object[i].chan, group |-> object[i].group]
         /\ \A j \in Instances : j # made + 1 => object'[j] = object[j]
    <2>1. [id |-> s, settings |-> Absent, parent |-> object[i].id,
           chan |-> object[i].chan, group |-> object[i].group] \in Objects
      BY <1>4, <1>6 DEF Objects, SettingsOf
    <2> QED
      BY <1>1, <1>2, <1>5, <2>1 DEF MainTypes
  <1>11. /\ PeerMap' \in [Keys -> 0 .. made']
         /\ \A k \in Keys : PeerMap'[k] = IF k = s THEN made + 1 ELSE PeerMap[k]
    <2>1. made + 1 \in 0 .. made'
      BY <1>1, <1>3
    <2> QED
      BY <1>1, <1>2, <1>9, <2>1 DEF MainTypes
  <1>12. TypeOK'
    <2>1. LoopTypes'
      <3>1. \A j \in Instances : victim[j] \in 0 .. made'
        BY <1>2, <1>9 DEF LoopTypes
      <3> QED
        BY <1>0, <1>2, <1>8, <3>1 DEF LoopTypes
    <2>2. MainTypes'
      <3>1. PeerMapNew' \in [Keys -> 0 .. made'] /\ target' \in 0 .. made'
        BY <1>0, <1>2, <1>9 DEF MainTypes
      <3> QED
        BY <1>0, <1>1, <1>2, <1>5, <1>10, <1>11, <3>1 DEF MainTypes
    <2>3. ListenerTypes'
      BY <1>0, <1>2 DEF ListenerTypes
    <2>4. NodesTypes'
      <3>1. \A g \in Gens : nodes[g] \in NodeType
        BY <1>2 DEF NodesTypes
      <3>2. NodeType \subseteq NodeType'
        BY <1>9 DEF NodeType
      <3> QED
        BY <1>0, <1>2, <3>1, <3>2 DEF NodesTypes
    <2> QED
      BY <2>1, <2>2, <2>3, <2>4 DEF TypeOK, LoopTypes, MainTypes, ListenerTypes, NodesTypes, NodeType
  <1>13. \A j \in Instances : loop'[j] = IF j = made + 1 THEN "busy" ELSE loop[j]
    BY <1>2, <1>8 DEF LoopTypes
  <1>14. GenInv'
    <2>1. \A j \in Instances : loopGroup'[j] = IF j = made + 1 THEN object[i].group ELSE loopGroup[j]
      BY <1>2, <1>8 DEF LoopTypes
    <2>2. \A j \in Instances : j <= made' => j <= made \/ j = made + 1
      BY <1>1, <1>3 DEF Instances
    <2>3. \A j \in Instances : j <= made => j <= made'
      BY <1>1, <1>3 DEF Instances
    <2>4. made + 1 <= made'
      BY <1>1, <1>3
    <2>5. \A j \in Instances : j <= made' => object'[j].group \in 1 .. gen
      BY <1>6, <1>10, <2>2 DEF IInv, GenInv
    <2>6. \A j \in Instances : loop'[j] # "none" => j <= made' /\ loopGroup'[j] \in 1 .. gen
      BY <1>6, <1>13, <2>1, <2>3, <2>4 DEF IInv, GenInv
    <2> QED
      BY <1>0, <2>5, <2>6 DEF IInv, GenInv
  <1>15. /\ \A k \in Keys : PeerMap[k] # NoPeer => PeerMap[k] # made + 1
         /\ \A k \in Keys : PeerMapNew[k] # NoPeer => PeerMapNew[k] # made + 1
         /\ \A j \in Instances : victim[j] # NoPeer => victim[j] # made + 1
    BY <1>3
  <1>16. NameInv'
    BY <1>0, <1>3, <1>4, <1>5, <1>10, <1>11, <1>13, <1>15 DEF IInv, NameInv, Absent
  <1>17. SingleInv'
    <2>1. Connections' = Connections /\ Connections \subseteq Keys /\ s \notin Connections
      BY <1>0, <1>4 DEF Connections, Keys
    <2>2. \A k \in Connections : PeerMap'[k] = PeerMap[k]
      BY <1>11, <2>1
    <2> QED
      BY <1>0, <1>3, <1>5, <1>10, <1>11, <1>13, <1>15, <2>1, <2>2 DEF IInv, SingleInv, Current
  <1> QED
    BY <1>8, <1>12, <1>14, <1>16, <1>17 DEF IInv

\* An entry of PeerMap is removed, with the stop of a loop that is not in it any more.
LEMMA RemoveInv ==
  ASSUME IInv, NEW k \in Keys,
         PeerMap' = [PeerMap EXCEPT ![k] = NoPeer],
         victim' \in [Instances -> 0 .. made],
         \A i \in Instances : victim'[i] # NoPeer => victim'[i] = victim[i],
         target' \in 0 .. made, main' \in MainPlaces,
         (main' = main /\ target' = target) \/ (main = "stopping" /\ main' = "remove"),
         main \in {"initialize", "starting", "select"} => k \in Subs,
         \/ UNCHANGED loop
         \/ \E i \in Instances :
              /\ i <= made /\ object[i].id = k /\ loop[i] = "select"
              /\ loop' = [loop EXCEPT ![i] = "left"]
              /\ main = "create" => k \in Subs,
         UNCHANGED <<mode, gen, config, PeerMapNew, made, object, loopGroup, sites,
                     waitGroupPeers, shutdown, Listeners, listener, nodes, moves>>
  PROVE  IInv'
  <1>1. LoopTypes /\ MainTypes /\ ListenerTypes /\ NodesTypes
    BY TypeParts DEF IInv
  <1>2. CountInv' /\ loop' \in [Instances -> LoopPlaces]
    <2>1. CASE UNCHANGED loop
      <3>1. \A g : Loops(g)' = Loops(g)
        BY <2>1 DEF Loops
      <3> QED
        BY <1>1, <2>1, <3>1 DEF IInv, CountInv, LoopTypes
    <2>2. CASE ~ UNCHANGED loop
      <3>1. PICK i \in Instances : loop[i] = "select" /\ loop' = [loop EXCEPT ![i] = "left"]
        BY <2>2
      <3>2. "left" \in LoopPlaces \ {"none"}
        BY DEF LoopPlaces
      <3> QED
        BY <1>1, <3>1, <3>2, LoopGoesOn DEF IInv
    <2> QED
      BY <2>1, <2>2
  <1>3. PeerMap' \in [Keys -> 0 .. made] /\ \A n \in Keys : PeerMap'[n] = IF n = k THEN NoPeer ELSE PeerMap[n]
    <2>1. NoPeer \in 0 .. made
      BY MapInstances DEF IInv, NoPeer
    <2> QED
      BY <1>1, <2>1 DEF MainTypes
  <1>4. TypeOK'
    <2>1. LoopTypes' /\ MainTypes' /\ ListenerTypes' /\ NodesTypes'
      BY <1>1, <1>2, <1>3 DEF LoopTypes, MainTypes, ListenerTypes, NodesTypes, NodeType
    <2> QED
      BY <2>1 DEF TypeOK, LoopTypes, MainTypes, ListenerTypes, NodesTypes, NodeType
  <1>5. \A j \in Instances :
          /\ loop'[j] = loop[j] \/ (loop[j] = "select" /\ loop'[j] = "left" /\ object[j].id = k
                                    /\ (main = "create" => k \in Subs))
    BY <1>1 DEF LoopTypes
  <1>6. GenInv'
    BY <1>5 DEF IInv, GenInv
  <1>7. NameInv'
    BY <1>3, <1>5 DEF IInv, NameInv
  <1>8. SingleInv'
    <2>1. /\ \A n \in Keys : PeerMap[n] # NoPeer => PeerMap[n] \in Instances /\ object[PeerMap[n]].id = n
          /\ \A n \in Keys : PeerMapNew[n] # NoPeer => PeerMapNew[n] \in Instances
          /\ main = "create" => \A n \in Keys : PeerMapNew[n] # NoPeer =>
                                  n \in Ids /\ object[PeerMapNew[n]].id = n
      BY MapInstances DEF IInv, NameInv
    <2>2. Connections' = Connections /\ Connections \subseteq Ids /\ Ids \subseteq Keys
      BY DEF Connections, Keys
    <2>3. Ids \cap Subs = {}
      BY IdsAssumption
    <2>4. \A n \in Keys : PeerMap'[n] # NoPeer =>
            n # k /\ PeerMap'[n] = PeerMap[n] /\ loop'[PeerMap[n]] = loop[PeerMap[n]]
      BY <1>3, <1>5, <2>1
    <2>5. main = "create" => \A n \in Keys : PeerMapNew[n] # NoPeer =>
            loop'[PeerMapNew[n]] = loop[PeerMapNew[n]]
      BY <1>5, <2>1, <2>3
    <2>6. main' \in {"initialize", "starting", "select"} =>
            main' = main /\ \A n \in Connections : PeerMap'[n] = PeerMap[n]
      BY <1>3, <2>2, <2>3
    <2>7. main' = "create" => main = "create"
      OBVIOUS
    <2>8. main' = main \/ main \notin Quitting
      BY DEF Quitting
    <2> QED
      BY <2>2, <2>4, <2>5, <2>6, <2>7, <2>8 DEF IInv, SingleInv, Current
  <1> QED
    BY <1>2, <1>4, <1>6, <1>7, <1>8 DEF IInv

\* A sub peer of a site that has gone, paused or not.
LEMMA RemoveSubInv ==
  ASSUME IInv, NEW i \in Instances, RemoveSub(i) \/ SubStopped(i)
  PROVE  IInv'
  <1>0. LoopTypes /\ MainTypes /\ ListenerTypes /\ NodesTypes
    BY TypeParts DEF IInv
  <1>1. /\ UNCHANGED <<mode, main, gen, config, target, PeerMapNew, made, object, loopGroup>>
        /\ UNCHANGED <<sites, waitGroupPeers, shutdown, Listeners, listener, nodes, moves>>
    BY DEF RemoveSub, SubStopped, Stopped, mainLocals, objects, listeners, cluster
  <1>2. NoPeer \in 0 .. made /\ Subs \subseteq Keys
    BY MapInstances DEF IInv, NoPeer, Keys
  <1>3. ASSUME NEW s \in GoneSites(i), PeerMap' = [PeerMap EXCEPT ![s] = NoPeer],
               UNCHANGED <<victim, loop>>
        PROVE  IInv'
    <2>1. s \in Subs /\ s \in Keys
      BY <1>2 DEF GoneSites
    <2> QED
      BY <1>0, <1>1, <1>3, <2>1, RemoveInv DEF LoopTypes, MainTypes
  <1>4. ASSUME NEW s \in GoneSites(i), victim' = [victim EXCEPT ![i] = PeerMap[s]],
               UNCHANGED <<PeerMap, loop>>
        PROVE  IInv'
    <2>1. s \in Subs /\ s \in Keys /\ PeerMap[s] # NoPeer
      BY <1>2 DEF GoneSites
    <2>2. victim' \in [Instances -> 0 .. made]
      BY <1>0, <1>4, <2>1 DEF LoopTypes, MainTypes
    <2>3. \A j \in Instances : victim'[j] = IF j = i THEN PeerMap[s] ELSE victim[j]
      BY <1>0, <1>4 DEF LoopTypes
    <2>4. object[PeerMap[s]].id \in Subs
      BY <2>1 DEF IInv, NameInv
    <2>5. TypeOK'
      <3>1. LoopTypes' /\ MainTypes' /\ ListenerTypes' /\ NodesTypes'
        BY <1>0, <1>1, <1>4, <2>2 DEF LoopTypes, MainTypes, ListenerTypes, NodesTypes, NodeType
      <3> QED
        BY <3>1 DEF TypeOK, LoopTypes, MainTypes, ListenerTypes, NodesTypes, NodeType
    <2>6. CountInv' /\ GenInv'
      BY <1>1, <1>4 DEF IInv, CountInv, Loops, GenInv
    <2>7. NameInv'
      BY <1>1, <1>4, <2>3, <2>4 DEF IInv, NameInv
    <2>8. SingleInv'
      BY <1>1, <1>4 DEF IInv, SingleInv, Current, Connections
    <2> QED
      BY <2>5, <2>6, <2>7, <2>8 DEF IInv
  <1>5. CASE RemoveSub(i)
    BY <1>3, <1>4, <1>5 DEF RemoveSub
  <1>6. CASE SubStopped(i)
    <2>1. /\ victim[i] # NoPeer /\ loop[victim[i]] = "select"
          /\ loop' = [loop EXCEPT ![victim[i]] = "left"]
          /\ PeerMap' = [PeerMap EXCEPT ![object[victim[i]].id] = NoPeer]
          /\ victim' = [victim EXCEPT ![i] = NoPeer]
      BY <1>6 DEF SubStopped, Stopped
    <2>2. victim[i] \in Instances /\ victim[i] <= made
      BY <2>1, MapInstances DEF IInv
    <2>3. object[victim[i]].id \in Subs /\ object[victim[i]].id \in Keys
      BY <1>2, <2>1 DEF IInv, NameInv
    <2>4. /\ victim' \in [Instances -> 0 .. made]
          /\ \A j \in Instances : victim'[j] # NoPeer => victim'[j] = victim[j]
      BY <1>0, <1>2, <2>1 DEF LoopTypes
    <2>5. target' \in 0 .. made /\ main' \in MainPlaces
      BY <1>0, <1>1 DEF MainTypes
    <2> QED
      BY <1>1, <2>1, <2>2, <2>3, <2>4, <2>5, RemoveInv
  <1> QED
    BY <1>5, <1>6

-----------------------------------------------------------------------------
(* Listeners.                                                               *)

LEMMA ListenerInv ==
  ASSUME IInv, ListenerStep
  PROVE  IInv'
  <1>0. LoopTypes /\ MainTypes /\ ListenerTypes /\ NodesTypes
    BY TypeParts DEF IInv
  <1>1. /\ UNCHANGED <<mode, main, gen, config, target, PeerMapNew, PeerMap, made, object>>
        /\ UNCHANGED <<loop, loopGroup, sites, victim, waitGroupPeers, shutdown, nodes, moves>>
    BY DEF ListenerStep, ListenerOpens, ListenerEnds, mainLocals, objects, loops, cluster
  <1>2. ListenerTypes'
    <2>1. PICK a \in Addresses, g \in Gens : ListenerOpens(a, g) \/ ListenerEnds(a, g)
      BY DEF ListenerStep
    <2>2. 0 \in Groups
      BY LifeBounds DEF Groups
    <2>3. Listeners' \in [Addresses -> Groups]
      BY <1>0, <2>1, <2>2 DEF ListenerOpens, ListenerEnds, ListenerTypes
    <2>4. ASSUME NEW x \in {"none", "open"}, listener' = [listener EXCEPT ![a][g] = x]
          PROVE  listener' \in [Addresses -> [Gens -> {"none", "starting", "open", "closed"}]]
      BY <1>0, <2>4 DEF ListenerTypes
    <2>5. listener' \in [Addresses -> [Gens -> {"none", "starting", "open", "closed"}]]
      BY <2>1, <2>4 DEF ListenerOpens, ListenerEnds
    <2> QED
      BY <2>3, <2>5 DEF ListenerTypes
  <1>3. TypeOK'
    <2>1. LoopTypes' /\ MainTypes' /\ NodesTypes'
      BY <1>0, <1>1 DEF LoopTypes, MainTypes, NodesTypes, NodeType
    <2> QED
      BY <1>2, <2>1 DEF TypeOK, LoopTypes, MainTypes, ListenerTypes, NodesTypes, NodeType
  <1>4. CountInv' /\ GenInv' /\ NameInv'
    BY <1>1 DEF IInv, CountInv, Loops, GenInv, NameInv
  <1>5. SingleInv'
    BY <1>1 DEF IInv, SingleInv, Current, Connections
  <1> QED
    BY <1>3, <1>4, <1>5 DEF IInv

-----------------------------------------------------------------------------
(* The main goroutine.                                                      *)

\* A step to another place that creates, starts and stops nothing.
LEMMA MainMoves ==
  ASSUME IInv, main \notin {"load", "panic"}, TypeOK',
         UNCHANGED <<mode, gen, config, PeerMap, made, object, loop, loopGroup, sites, victim,
                     waitGroupPeers>>,
         main' = "load" => gen < MaxGens,
         main' = "exit" => waitGroupPeers[gen] = 0,
         main' = "create" => \A k \in Keys : PeerMapNew'[k] = NoPeer,
         main' = "stopping" => target' # NoPeer,
         shutdown \subseteq shutdown',
         mode = "single" =>
           /\ nodes' = nodes
           /\ shutdown' # {} => main' \in Quitting
           /\ main' \in {"initialize", "starting", "select"} =>
                main \in {"initialize", "starting", "select"}
           /\ main' = "select" => \A k \in Keys : PeerMap[k] # NoPeer => loop[PeerMap[k]] # "none"
  PROVE  IInv'
  <1>1. CountInv' /\ GenInv'
    BY DEF IInv, CountInv, Loops, GenInv
  <1>2. NameInv'
    BY DEF IInv, NameInv
  <1>3. SingleInv'
    <2>1. Connections' = Connections
      BY DEF Connections
    <2>2. shutdown' = {} => shutdown = {}
      OBVIOUS
    <2> QED
      BY <2>1, <2>2 DEF IInv, SingleInv, Current
  <1> QED
    BY <1>1, <1>2, <1>3 DEF IInv

\* What does not touch the listeners and the nodes.
LEMMA MainTypesStep ==
  ASSUME TypeOK, main' \in MainPlaces, target' \in 0 .. made,
         PeerMapNew' \in [Keys -> 0 .. made], PeerMap' \in [Keys -> 0 .. made],
         UNCHANGED <<mode, gen, config, made, object, loops, shutdown, listeners, cluster>>
  PROVE  TypeOK'
  <1>1. UNCHANGED <<loop, loopGroup, sites, victim, waitGroupPeers, Listeners, listener, nodes, moves>>
    BY DEF loops, listeners, cluster
  <1> QED
    BY <1>1 DEF TypeOK

\* Signals, and the places where main waits.
LEMMA MainWaitsInv ==
  ASSUME IInv, Alive,
         MainLock \/ SIGHUP \/ WaitListener \/ WaitPeers \/ WaitTimeout \/ MainUnlock
  PROVE  IInv'
  <1>0. LoopTypes /\ MainTypes /\ ListenerTypes /\ NodesTypes /\ TypeOK
    BY TypeParts DEF IInv
  <1>1. /\ UNCHANGED <<mode, gen, config, target, PeerMap, objects, loops, shutdown>>
        /\ UNCHANGED <<listeners, cluster>>
    BY DEF MainLock, SIGHUP, WaitListener, WaitPeers, WaitTimeout, MainUnlock, mainLocals
  <1>2. /\ UNCHANGED <<mode, gen, config, target, PeerMap, made, object, loop, loopGroup>>
        /\ UNCHANGED <<sites, victim, waitGroupPeers, shutdown, nodes>>
    BY <1>1 DEF objects, loops, cluster
  <1>3. main \in {"obsolete", "select", "waitListener", "waitPeers", "waitTimeout", "remove"}
    BY DEF MainLock, SIGHUP, WaitListener, WaitPeers, WaitTimeout, MainUnlock
  <1>4. /\ main' \in {"remove", "load", "waitPeers", "exit", "killed", "create"}
        /\ main' \in {"waitPeers", "exit", "killed"} => main \in Quitting
        /\ main \in Quitting => main' \in Quitting
        /\ main' = "load" => gen < MaxGens
        /\ main' = "exit" => waitGroupPeers[gen] = 0
    BY DEF MainLock, SIGHUP, WaitListener, WaitPeers, WaitTimeout, MainUnlock, Quitting
  <1>5. /\ main' = "create" => PeerMapNew' = [k \in Keys |-> NoPeer]
        /\ main' # "create" => PeerMapNew' = PeerMapNew
    BY DEF MainLock, SIGHUP, WaitListener, WaitPeers, WaitTimeout, MainUnlock, mainLocals
  <1>6. PeerMapNew' \in [Keys -> 0 .. made]
    <2>1. NoPeer \in 0 .. made
      BY <1>0, MapInstances DEF NoPeer
    <2> QED
      BY <1>0, <1>5, <2>1 DEF MainTypes
  <1>7. TypeOK'
    <2>1. main' \in MainPlaces
      BY <1>4 DEF MainPlaces
    <2> QED
      BY <1>0, <1>1, <1>2, <1>6, <2>1, MainTypesStep DEF MainTypes
  <1>8. mode = "single" /\ shutdown # {} => main' \in Quitting
    BY <1>4 DEF IInv, SingleInv
  <1> QED
    BY <1>2, <1>3, <1>4, <1>5, <1>7, <1>8, MainMoves

LEMMA QuitInv ==
  ASSUME IInv, SIGTERM \/ SIGINT
  PROVE  IInv'
  <1>0. LoopTypes /\ MainTypes /\ ListenerTypes /\ NodesTypes
    BY TypeParts DEF IInv
  <1>1. /\ UNCHANGED <<mode, gen, config, target, PeerMapNew, PeerMap, made, object, loop, loopGroup>>
        /\ UNCHANGED <<sites, victim, waitGroupPeers, nodes, moves>>
        /\ main = "select" /\ main' \in {"waitListener", "waitTimeout"}
        /\ shutdown' = shutdown \cup {gen} /\ closeListeners
    BY DEF SIGTERM, SIGINT, Quit, mainLocals, objects, loops, cluster
  <1>2. gen \in Gens /\ 0 \in Groups
    BY <1>1, MapInstances, LifeBounds DEF IInv, GenInv, Gens, Groups
  <1>3. TypeOK'
    <2>1. LoopTypes' /\ NodesTypes'
      BY <1>0, <1>1 DEF LoopTypes, NodesTypes, NodeType
    <2>2. MainTypes'
      BY <1>0, <1>1, <1>2 DEF MainTypes, MainPlaces
    <2>3. ListenerTypes'
      BY <1>0, <1>1, <1>2 DEF ListenerTypes, closeListeners
    <2> QED
      BY <2>1, <2>2, <2>3 DEF TypeOK, LoopTypes, MainTypes, ListenerTypes, NodesTypes, NodeType
  <1> QED
    BY <1>1, <1>3, MainMoves DEF Quitting

LEMMA MainLoadInv ==
  ASSUME IInv, MainLoad
  PROVE  IInv'
  <1>0. LoopTypes /\ MainTypes /\ ListenerTypes /\ NodesTypes
    BY TypeParts DEF IInv
  <1>1. /\ UNCHANGED <<mode, target, PeerMapNew, PeerMap, made, object, loop, loopGroup>>
        /\ UNCHANGED <<sites, victim, waitGroupPeers, shutdown, nodes, moves>>
        /\ main = "load" /\ main' = "obsolete" /\ gen' = gen + 1 /\ config' \in Configs
        /\ initializeListeners(config', gen')
    BY DEF MainLoad, objects, loops, cluster
  <1>2. /\ gen \in Nat /\ gen < MaxGens /\ MaxGens \in Nat /\ gen' \in Groups /\ gen' >= 1
        /\ 0 \in Groups /\ \A n \in 1 .. gen : n \in 1 .. gen'
    BY <1>1, MapInstances, LifeBounds DEF IInv, GenInv, Groups
  <1>3. TypeOK'
    <2>1. LoopTypes' /\ NodesTypes'
      BY <1>0, <1>1 DEF LoopTypes, NodesTypes, NodeType
    <2>2. MainTypes'
      BY <1>0, <1>1, <1>2 DEF MainTypes, MainPlaces
    <2>3. ListenerTypes'
      <3>1. /\ Listeners' = [a \in Addresses |->
                 IF a \notin config'.listen THEN 0 ELSE IF Listeners[a] = 0 THEN gen' ELSE Listeners[a]]
            /\ listener' = [a \in Addresses |-> [h \in Gens |->
                 IF a \notin config'.listen /\ Listeners[a] = h THEN "closed"
                 ELSE IF a \in config'.listen /\ Listeners[a] = 0 /\ h = gen' THEN "starting"
                 ELSE listener[a][h]]]
        BY <1>1 DEF initializeListeners
      <3>2. Listeners' \in [Addresses -> Groups]
        BY <1>0, <1>2, <3>1 DEF ListenerTypes
      <3>3. ASSUME NEW a \in Addresses, NEW h \in Gens
            PROVE  (IF a \notin config'.listen /\ Listeners[a] = h THEN "closed"
                    ELSE IF a \in config'.listen /\ Listeners[a] = 0 /\ h = gen' THEN "starting"
                    ELSE listener[a][h]) \in {"none", "starting", "open", "closed"}
        BY <1>0 DEF ListenerTypes
      <3> QED
        BY <3>1, <3>2, <3>3 DEF ListenerTypes
    <2> QED
      BY <2>1, <2>2, <2>3 DEF TypeOK, LoopTypes, MainTypes, ListenerTypes, NodesTypes, NodeType
  <1>4. CountInv' /\ GenInv'
    BY <1>1, <1>2 DEF IInv, CountInv, Loops, GenInv
  <1>5. NameInv'
    BY <1>1 DEF IInv, NameInv
  <1>6. SingleInv'
    BY <1>1 DEF IInv, SingleInv, Quitting
  <1> QED
    BY <1>3, <1>4, <1>5, <1>6 DEF IInv

\* Peers that are not configured are stopped.
LEMMA MainStopInv ==
  ASSUME IInv, MainStop \/ MainStopped
  PROVE  IInv'
  <1>0. LoopTypes /\ MainTypes /\ ListenerTypes /\ NodesTypes /\ TypeOK
    BY TypeParts DEF IInv
  <1>1. /\ UNCHANGED <<mode, gen, config, PeerMapNew, made, object, loopGroup, sites, victim>>
        /\ UNCHANGED <<waitGroupPeers, shutdown, Listeners, listener, nodes, moves>>
        /\ main \in {"remove", "stopping"}
    BY DEF MainStop, MainStopped, Stopped, objects, loops, listeners, cluster
  <1>2. NoPeer \in 0 .. made
    BY <1>0, MapInstances DEF NoPeer
  <1>3. CASE MainStopped
    <2>1. /\ main = "stopping" /\ main' = "remove" /\ target' = NoPeer
          /\ loop[target] = "select" /\ loop' = [loop EXCEPT ![target] = "left"]
          /\ PeerMap' = [PeerMap EXCEPT ![object[target].id] = NoPeer]
      BY <1>3 DEF MainStopped, Stopped
    <2>2. target \in Instances /\ target <= made
      BY <1>0, <2>1, MapInstances DEF IInv, NameInv
    <2>3. object[target].id \in Keys
      BY <1>0, <2>2 DEF MainTypes, Objects
    <2>4. main' \in MainPlaces /\ victim' \in [Instances -> 0 .. made] /\ target' \in 0 .. made
      BY <1>0, <1>1, <1>2, <2>1 DEF MainPlaces, LoopTypes
    <2> QED
      BY <1>1, <2>1, <2>2, <2>3, <2>4, RemoveInv
  <1>4. CASE MainStop
    <2>0. main = "remove" /\ UNCHANGED <<objects, loops, shutdown, listeners, cluster, loop>>
      BY <1>4 DEF MainStop, loops
    <2>1. ASSUME NEW k \in Obsolete, PeerMap' = [PeerMap EXCEPT ![k] = NoPeer],
                 UNCHANGED <<main, target>>
          PROVE  IInv'
      <3>1. k \in Keys
        BY DEF Obsolete
      <3>2. victim' \in [Instances -> 0 .. made] /\ target' \in 0 .. made /\ main' \in MainPlaces
        BY <1>0, <1>1, <2>1 DEF LoopTypes, MainTypes
      <3> QED
        BY <1>1, <2>0, <2>1, <3>1, <3>2, RemoveInv
    <2>2. ASSUME NEW k \in Obsolete, target' = PeerMap[k], main' = "stopping", UNCHANGED PeerMap
          PROVE  IInv'
      <3>1. k \in Keys /\ PeerMap[k] # NoPeer /\ target' \in 0 .. made
        BY <1>0, <2>2 DEF Obsolete, MainTypes
      <3>2. TypeOK'
        <4>1. PeerMapNew' \in [Keys -> 0 .. made] /\ PeerMap' \in [Keys -> 0 .. made]
              /\ main' \in MainPlaces
          BY <1>0, <1>1, <2>2 DEF MainTypes, MainPlaces
        <4> QED
          BY <1>0, <1>1, <2>0, <2>2, <3>1, <4>1, MainTypesStep
      <3>3. mode = "single" => shutdown = {}
        BY <1>1 DEF IInv, SingleInv, Quitting
      <3> QED
        BY <1>1, <2>0, <2>2, <3>1, <3>2, <3>3, MainMoves
    <2> QED
      BY <1>4, <2>1, <2>2 DEF MainStop
  <1> QED
    BY <1>3, <1>4

\* A peer is kept: its channel and its group are those of the new generation.
LEMMA MainKeepInv ==
  ASSUME IInv, NEW k \in Keys, MainKeep(k)
  PROVE  IInv'
  <1>0. LoopTypes /\ MainTypes /\ ListenerTypes /\ NodesTypes /\ TypeOK
    BY TypeParts DEF IInv
  <1> DEFINE i == PeerMap[k]
  <1>1. /\ UNCHANGED <<mode, main, gen, config, target, PeerMap, made, loop, loopGroup, sites>>
        /\ UNCHANGED <<victim, waitGroupPeers, shutdown, Listeners, listener, nodes, moves>>
        /\ main = "create" /\ k \in Connections /\ i # NoPeer
        /\ object[i].settings = config.connections[k]
        /\ object' = [object EXCEPT ![i].chan = gen, ![i].group = gen]
        /\ PeerMapNew' = [PeerMapNew EXCEPT ![k] = i]
    BY DEF MainKeep, Keeps, loops, listeners, cluster
  <1>2. i \in Instances /\ i <= made /\ i \in 0 .. made
    BY <1>0, <1>1, MapInstances DEF MainTypes
  <1>3. gen \in Groups /\ gen \in 1 .. gen
    BY <1>0, <1>1, MapInstances DEF MainTypes, IInv, GenInv
  <1>4. object[i] \in Objects
    BY <1>0, <1>2 DEF MainTypes
  <1>5. /\ object' = [object EXCEPT ![i] = [object[i] EXCEPT !.chan = gen, !.group = gen]]
        /\ [object[i] EXCEPT !.chan = gen, !.group = gen] \in Objects
    BY <1>0, <1>1, <1>2, <1>3, <1>4 DEF MainTypes, Objects
  <1>6. /\ object' \in [Instances -> Objects]
        /\ \A j \in Instances :
             /\ object'[j].id = object[j].id /\ object'[j].settings = object[j].settings
             /\ j = i => object'[j].chan = gen /\ object'[j].group = gen
             /\ j # i => object'[j] = object[j]
    <2>1. object' \in [Instances -> Objects]
      BY <1>0, <1>2, <1>5 DEF MainTypes
    <2>2. object'[i] = [object[i] EXCEPT !.chan = gen, !.group = gen]
      BY <1>0, <1>2, <1>5 DEF MainTypes
    <2>3. /\ object'[i].id = object[i].id /\ object'[i].settings = object[i].settings
          /\ object'[i].chan = gen /\ object'[i].group = gen
      BY <1>4, <2>2 DEF Objects
    <2>4. \A j \in Instances : j # i => object'[j] = object[j]
      BY <1>0, <1>5 DEF MainTypes
    <2> QED
      BY <2>1, <2>3, <2>4
  <1>7. /\ PeerMapNew' \in [Keys -> 0 .. made]
        /\ \A n \in Keys : PeerMapNew'[n] = IF n = k THEN i ELSE PeerMapNew[n]
    BY <1>0, <1>1, <1>2 DEF MainTypes
  <1>8. TypeOK'
    <2>1. LoopTypes' /\ MainTypes' /\ ListenerTypes' /\ NodesTypes'
      BY <1>0, <1>1, <1>6, <1>7 DEF LoopTypes, MainTypes, ListenerTypes, NodesTypes, NodeType
    <2> QED
      BY <2>1 DEF TypeOK, LoopTypes, MainTypes, ListenerTypes, NodesTypes, NodeType
  <1>9. CountInv' /\ GenInv'
    <2>1. \A j \in Instances : j <= made => object'[j].group \in 1 .. gen
      BY <1>3, <1>6 DEF IInv, GenInv
    <2> QED
      BY <1>1, <2>1 DEF IInv, CountInv, Loops, GenInv
  <1>10. /\ \A n \in Keys : PeerMap[n] # NoPeer => PeerMap[n] \in Instances
         /\ \A n \in Keys : PeerMapNew[n] # NoPeer => PeerMapNew[n] \in Instances
         /\ \A j \in Instances : victim[j] # NoPeer => victim[j] \in Instances
         /\ k \in Ids
    BY <1>0, <1>1, MapInstances DEF Connections
  <1>11. NameInv'
    BY <1>1, <1>2, <1>6, <1>7, <1>10 DEF IInv, NameInv
  <1>12. SingleInv'
    <2>1. ASSUME mode = "single", NEW n \in Keys, PeerMapNew'[n] # NoPeer
          PROVE  Current(n, PeerMapNew[n])' /\ loop[PeerMapNew'[n]] # "left"
      <3>1. CASE n = k
        <4>1. mode = "single" => shutdown = {}
          BY <1>1 DEF IInv, SingleInv, Quitting
        <4>2. loop[i] # "left"
          BY <1>1, <2>1, <4>1 DEF IInv, SingleInv
        <4> QED
          BY <1>1, <1>2, <1>6, <1>7, <3>1, <4>2 DEF Current
      <3>2. CASE n # k
        <4>1. PeerMapNew'[n] = PeerMapNew[n] /\ PeerMapNew[n] # NoPeer
          BY <1>7, <2>1, <3>2
        <4>2. Current(n, PeerMapNew[n]) /\ loop[PeerMapNew[n]] # "left"
          BY <1>1, <2>1, <4>1 DEF IInv, SingleInv
        <4>3. PeerMapNew[n] \in Instances
          BY <1>10, <4>1
        <4> QED
          BY <1>1, <1>6, <4>1, <4>2, <4>3 DEF Current
      <3> QED
        BY <3>1, <3>2
    <2> QED
      BY <1>1, <2>1 DEF IInv, SingleInv
  <1> QED
    BY <1>8, <1>9, <1>11, <1>12 DEF IInv

\* A peer is created: another instance.
LEMMA MainCreateInv ==
  ASSUME IInv, NEW k \in Keys, MainCreate(k)
  PROVE  IInv'
  <1>0. LoopTypes /\ MainTypes /\ ListenerTypes /\ NodesTypes /\ TypeOK
    BY TypeParts DEF IInv
  <1> DEFINE new == [id |-> k, settings |-> config.connections[k], parent |-> NoParent,
                     chan |-> gen, group |-> gen]
  <1>1. /\ UNCHANGED <<mode, main, gen, config, target, PeerMap, loop, loopGroup, sites>>
        /\ UNCHANGED <<victim, waitGroupPeers, shutdown, Listeners, listener, nodes, moves>>
        /\ main = "create" /\ k \in Connections /\ made < MaxPeers /\ made' = made + 1
        /\ object' = [object EXCEPT ![made + 1] = new]
        /\ PeerMapNew' = [PeerMapNew EXCEPT ![k] = made + 1]
    BY DEF MainCreate, loops, listeners, cluster
  <1>2. /\ made \in Nat /\ MaxPeers \in Nat /\ gen \in Groups /\ gen \in 1 .. gen
        /\ \A n \in Keys : PeerMap[n] # NoPeer => PeerMap[n] \in Instances /\ PeerMap[n] <= made
        /\ \A n \in Keys :
             PeerMapNew[n] # NoPeer => PeerMapNew[n] \in Instances /\ PeerMapNew[n] <= made
        /\ \A j \in Instances : victim[j] # NoPeer => victim[j] \in Instances /\ victim[j] <= made
    BY <1>0, <1>1, MapInstances, LifeBounds DEF MainTypes, IInv, GenInv
  <1>3. made + 1 \in Instances /\ made + 1 \in 0 .. MaxPeers
    BY <1>1, <1>2 DEF Instances
  <1>4. k \in Ids /\ config.connections[k] # Absent
    BY <1>1 DEF Connections
  <1>5. new \in Objects
    <2>1. config.connections[k] \in SettingsOf
      BY <1>0, <1>4 DEF SettingsOf, MainTypes
    <2> QED
      BY <1>2, <1>4, <2>1 DEF Objects
  <1>6. /\ object' \in [Instances -> Objects] /\ object'[made + 1] = new
        /\ \A j \in Instances : j # made + 1 => object'[j] = object[j]
    BY <1>0, <1>1, <1>3, <1>5 DEF MainTypes
  <1>7. /\ \A n \in 0 .. made : n \in 0 .. made' /\ n # made + 1
        /\ made + 1 \in 0 .. made' /\ made + 1 # NoPeer
    BY <1>1, <1>2 DEF NoPeer
  <1>8. /\ PeerMapNew' \in [Keys -> 0 .. made']
        /\ \A n \in Keys : PeerMapNew'[n] = IF n = k THEN made + 1 ELSE PeerMapNew[n]
    BY <1>0, <1>1, <1>7 DEF MainTypes
  <1>9. TypeOK'
    <2>1. LoopTypes'
      <3>1. victim' \in [Instances -> 0 .. made']
        BY <1>0, <1>1, <1>7 DEF LoopTypes
      <3> QED
        BY <1>0, <1>1, <3>1 DEF LoopTypes
    <2>2. MainTypes'
      <3>1. PeerMap' \in [Keys -> 0 .. made'] /\ target' \in 0 .. made'
        BY <1>0, <1>1, <1>7 DEF MainTypes
      <3> QED
        BY <1>0, <1>1, <1>3, <1>6, <1>8, <3>1 DEF MainTypes
    <2>3. ListenerTypes'
      BY <1>0, <1>1 DEF ListenerTypes
    <2>4. NodesTypes'
      <3>1. \A g \in Gens : nodes[g] \in NodeType
        BY <1>0 DEF NodesTypes
      <3>2. NodeType \subseteq NodeType'
        BY <1>7 DEF NodeType
      <3> QED
        BY <1>0, <1>1, <3>1, <3>2 DEF NodesTypes
    <2> QED
      BY <2>1, <2>2, <2>3, <2>4 DEF TypeOK, LoopTypes, MainTypes, ListenerTypes, NodesTypes, NodeType
  <1>10. loop[made + 1] = "none"
    BY <1>2, <1>3 DEF IInv, GenInv
  <1>11. CountInv' /\ GenInv'
    <2>1. \A j \in Instances : j <= made' => j <= made \/ j = made + 1
      BY <1>1, <1>2 DEF Instances
    <2>2. \A j \in Instances : j <= made => j <= made'
      BY <1>1, <1>2 DEF Instances
    <2>3. \A j \in Instances : j <= made' => object'[j].group \in 1 .. gen
      BY <1>2, <1>6, <2>1 DEF IInv, GenInv
    <2> QED
      BY <1>1, <2>2, <2>3 DEF IInv, CountInv, Loops, GenInv
  <1>12. /\ \A n \in Keys : PeerMap[n] # NoPeer => PeerMap[n] # made + 1
         /\ \A n \in Keys : PeerMapNew[n] # NoPeer => PeerMapNew[n] # made + 1
         /\ \A j \in Instances : victim[j] # NoPeer => victim[j] # made + 1
    BY <1>2
  <1>13. NameInv'
    <2>1. \A j \in Instances : object'[j].settings # Absent => object'[j].id \in Ids
      BY <1>4, <1>6 DEF IInv, NameInv
    <2>2. \A j \in Instances : loop[j] \in {"locking", "removing"} => object'[j].settings \in Multi
      BY <1>6, <1>10 DEF IInv, NameInv
    <2>3. \A j \in Instances : victim[j] # NoPeer => object'[victim[j]].id \in Subs
      BY <1>2, <1>6, <1>12 DEF IInv, NameInv
    <2>4. \A n \in Keys : PeerMap[n] # NoPeer => object'[PeerMap[n]].id = n
      BY <1>2, <1>6, <1>12 DEF IInv, NameInv
    <2>5. \A n \in Keys : PeerMapNew'[n] # NoPeer => n \in Ids /\ object'[PeerMapNew'[n]].id = n
      BY <1>1, <1>2, <1>4, <1>6, <1>8, <1>12 DEF IInv, NameInv
    <2> QED
      BY <1>1, <2>1, <2>2, <2>3, <2>4, <2>5 DEF NameInv
  <1>14. SingleInv'
    <2>1. ASSUME mode = "single", NEW n \in Keys, PeerMapNew'[n] # NoPeer
          PROVE  Current(n, PeerMapNew[n])' /\ loop[PeerMapNew'[n]] # "left"
      <3>1. CASE n = k
        BY <1>1, <1>6, <1>8, <1>10, <3>1 DEF Current
      <3>2. CASE n # k
        <4>1. PeerMapNew'[n] = PeerMapNew[n] /\ PeerMapNew[n] # NoPeer
          BY <1>8, <2>1, <3>2
        <4>2. Current(n, PeerMapNew[n]) /\ loop[PeerMapNew[n]] # "left"
          BY <1>1, <2>1, <4>1 DEF IInv, SingleInv
        <4>3. PeerMapNew[n] \in Instances /\ PeerMapNew[n] # made + 1
          BY <1>2, <1>12, <4>1
        <4> QED
          BY <1>1, <1>6, <4>1, <4>2, <4>3 DEF Current
      <3> QED
        BY <3>1, <3>2
    <2> QED
      BY <1>1, <2>1 DEF IInv, SingleInv
  <1> QED
    BY <1>9, <1>11, <1>13, <1>14 DEF IInv

\* The new map takes effect: every connection has its peer.
LEMMA MainPublishInv ==
  ASSUME IInv, MainPublish
  PROVE  IInv'
  <1>0. LoopTypes /\ MainTypes /\ ListenerTypes /\ NodesTypes /\ TypeOK
    BY TypeParts DEF IInv
  <1>1. /\ UNCHANGED <<mode, gen, config, target, PeerMapNew, made, object, loop, loopGroup>>
        /\ UNCHANGED <<sites, victim, waitGroupPeers, shutdown, Listeners, listener, nodes, moves>>
        /\ main = "create" /\ main' = "initialize" /\ PeerMap' = PeerMapNew
        /\ \A k \in Connections : PeerMapNew[k] # NoPeer
    BY DEF MainPublish, mainLocals, objects, loops, listeners, cluster
  <1>2. TypeOK'
    <2>1. LoopTypes' /\ MainTypes' /\ ListenerTypes' /\ NodesTypes'
      BY <1>0, <1>1 DEF LoopTypes, MainTypes, ListenerTypes, NodesTypes, NodeType, MainPlaces
    <2> QED
      BY <2>1 DEF TypeOK, LoopTypes, MainTypes, ListenerTypes, NodesTypes, NodeType
  <1>3. CountInv' /\ GenInv'
    BY <1>1 DEF IInv, CountInv, Loops, GenInv
  <1>4. NameInv'
    BY <1>1 DEF IInv, NameInv
  <1>5. SingleInv'
    <2>1. Connections' = Connections /\ Connections \subseteq Keys
      BY <1>1 DEF Connections, Keys
    <2>2. mode = "single" => shutdown = {}
      BY <1>1 DEF IInv, SingleInv, Quitting
    <2> QED
      BY <1>1, <2>1, <2>2 DEF IInv, SingleInv, Current
  <1> QED
    BY <1>2, <1>3, <1>4, <1>5 DEF IInv

\* A step of Nodes.Initialize or of the loop of the nodes, in cluster mode.
LEMMA NodesFrame ==
  ASSUME IInv, main # "exit", mode # "single", nodes' \in [Gens -> NodeType],
         moves' \in 0 .. MaxMoves, main' \in MainPlaces,
         main' \in {main, "panic"} \/ (main = "initialize" /\ main' = "starting")
           \/ (main = "starting" /\ main' = "select"),
         UNCHANGED <<mode, gen, config, target, PeerMapNew, PeerMap, made, object, loop, loopGroup,
                     sites, victim, waitGroupPeers, shutdown, Listeners, listener>>
  PROVE  IInv'
  <1>0. LoopTypes /\ MainTypes /\ ListenerTypes /\ NodesTypes
    BY TypeParts DEF IInv
  <1>1. TypeOK'
    <2>1. LoopTypes' /\ MainTypes' /\ ListenerTypes'
      BY <1>0 DEF LoopTypes, MainTypes, ListenerTypes
    <2>2. NodesTypes'
      BY DEF NodesTypes, NodeType
    <2> QED
      BY <2>1, <2>2 DEF TypeOK, LoopTypes, MainTypes, ListenerTypes, NodesTypes, NodeType
  <1>2. CountInv' /\ GenInv' /\ NameInv'
    BY DEF IInv, CountInv, Loops, GenInv, NameInv
  <1>3. SingleInv'
    BY DEF SingleInv
  <1> QED
    BY <1>1, <1>2, <1>3 DEF IInv

\* A peer of PeerMap that is paused is started.
LEMMA StartInv ==
  ASSUME IInv, main # "exit", NEW k \in Keys, CanStart(k),
         Start(PeerMap[k], object[PeerMap[k]].group),
         nodes' \in [Gens -> NodeType], mode = "single" => nodes' = nodes,
         UNCHANGED <<mode, main, gen, config, target, PeerMapNew, PeerMap, made, object,
                     shutdown, Listeners, listener, moves>>
  PROVE  IInv'
  <1>0. LoopTypes /\ MainTypes /\ ListenerTypes /\ NodesTypes /\ TypeOK
    BY TypeParts DEF IInv
  <1> DEFINE i == PeerMap[k]
             h == object[i].group
  <1>1. i # NoPeer /\ loop[i] = "none"
    BY DEF CanStart, Paused
  <1>2. i \in Instances /\ i <= made
    BY <1>0, <1>1, MapInstances
  <1>3. h \in 1 .. gen /\ h \in Gens
    <2>1. h \in 1 .. gen
      BY <1>2 DEF IInv, GenInv
    <2> QED
      BY <1>0, <2>1, MapInstances, LifeBounds DEF Gens
  <1>4. /\ CountInv' /\ loop' \in [Instances -> LoopPlaces]
        /\ loopGroup' \in [Instances -> Groups] /\ waitGroupPeers' \in [Gens -> Nat]
        /\ loop' = [loop EXCEPT ![i] = "busy"] /\ loopGroup' = [loopGroup EXCEPT ![i] = h]
        /\ UNCHANGED <<sites, victim>>
    BY <1>0, <1>1, <1>2, <1>3, StartCounts DEF IInv
  <1>5. TypeOK'
    <2>1. LoopTypes'
      BY <1>0, <1>4 DEF LoopTypes
    <2>2. MainTypes' /\ ListenerTypes'
      BY <1>0 DEF MainTypes, ListenerTypes
    <2>3. NodesTypes'
      BY <1>0 DEF NodesTypes, NodeType
    <2> QED
      BY <2>1, <2>2, <2>3 DEF TypeOK, LoopTypes, MainTypes, ListenerTypes, NodesTypes, NodeType
  <1>6. \A j \in Instances : /\ loop'[j] = IF j = i THEN "busy" ELSE loop[j]
                             /\ loopGroup'[j] = IF j = i THEN h ELSE loopGroup[j]
    BY <1>0, <1>4 DEF LoopTypes
  <1>7. GenInv'
    BY <1>2, <1>3, <1>6 DEF IInv, GenInv
  <1>8. NameInv'
    BY <1>4, <1>6 DEF IInv, NameInv
  <1>9. SingleInv'
    <2>1. /\ \A n \in Keys : PeerMap[n] # NoPeer => PeerMap[n] \in Instances
          /\ \A n \in Keys : PeerMapNew[n] # NoPeer => PeerMapNew[n] \in Instances
      BY <1>0, MapInstances
    <2>2. Connections' = Connections
      BY DEF Connections
    <2> QED
      BY <1>6, <2>1, <2>2 DEF IInv, SingleInv, Current
  <1> QED
    BY <1>4, <1>5, <1>7, <1>8, <1>9 DEF IInv

LEMMA MainStartInv ==
  ASSUME IInv, NEW k \in Keys, MainStart(k) \/ MainStartOurs(k)
  PROVE  IInv'
  <1>0. NodesTypes
    BY TypeParts DEF IInv
  <1>1. main = "starting"
        /\ UNCHANGED <<mode, gen, config, target, PeerMapNew, PeerMap, made, object>>
        /\ UNCHANGED <<shutdown, Listeners, listener, moves>>
    BY DEF MainStart, MainStartOurs, mainLocals, objects, listeners, cluster
  <1>2. CASE MainStart(k)
    <2>1. /\ CanStart(k) /\ Start(PeerMap[k], object[PeerMap[k]].group)
          /\ nodes' = nodes /\ main' = main
      BY <1>2 DEF MainStart, CanStart, cluster
    <2> QED
      BY <1>0, <1>1, <2>1, StartInv DEF NodesTypes
  <1>3. CASE MainStartOurs(k)
    <2>1. gen \in Gens
      BY <1>1, MapInstances, LifeBounds DEF IInv, GenInv, Gens
    <2>2. mode # "single"
      BY <1>3, <2>1 DEF MainStartOurs, IInv, SingleInv, NoNodes
    <2>3. nodes' \in [Gens -> NodeType]
      <3>1. nodes[gen] \in NodeType /\ nodes' = [nodes EXCEPT ![gen].add = @ \ {k}]
        BY <1>0, <1>3, <2>1 DEF NodesTypes, MainStartOurs
      <3>2. [nodes[gen] EXCEPT !.add = nodes[gen].add \ {k}] \in NodeType
        BY <3>1 DEF NodeType
      <3> QED
        BY <1>0, <3>1, <3>2 DEF NodesTypes
    <2>4. CASE CanStart(k) /\ Start(PeerMap[k], object[PeerMap[k]].group) /\ UNCHANGED main
      BY <1>1, <2>2, <2>3, <2>4, StartInv
    <2>5. CASE main' = "panic" /\ UNCHANGED loops
      <3>1. UNCHANGED <<loop, loopGroup, sites, victim, waitGroupPeers>> /\ main' \in MainPlaces
        BY <2>5 DEF loops, MainPlaces
      <3>2. moves' \in 0 .. MaxMoves
        BY <1>0, <1>1 DEF NodesTypes
      <3> QED
        BY <1>1, <2>2, <2>3, <2>5, <3>1, <3>2, NodesFrame
    <2> QED
      BY <1>3, <2>4, <2>5 DEF MainStartOurs
  <1> QED
    BY <1>2, <1>3

\* Nodes.Initialize, and the start of the peers.
LEMMA MainInitializeInv ==
  ASSUME IInv, MainInitialize \/ MainReady
  PROVE  IInv'
  <1>0. NodesTypes /\ MainTypes /\ TypeOK
    BY TypeParts DEF IInv
  <1>1. /\ UNCHANGED <<mode, gen, config, target, PeerMapNew, PeerMap, objects, loops, shutdown>>
        /\ UNCHANGED <<listeners, moves>>
        /\ (main = "initialize" /\ main' = "starting") \/ (main = "starting" /\ main' = "select")
        /\ mode = "single" => nodes' = nodes
    BY ModesAssumption DEF MainInitialize, MainReady, mainLocals
  <1>2. /\ UNCHANGED <<made, object, loop, loopGroup, sites, victim, waitGroupPeers>>
        /\ UNCHANGED <<Listeners, listener>> /\ main' \in MainPlaces
    BY <1>1 DEF objects, loops, listeners, MainPlaces
  <1>3. CASE mode = "single"
    <2>1. TypeOK'
      <3>1. UNCHANGED cluster
        BY <1>1, <1>3 DEF cluster
      <3> QED
        BY <1>0, <1>1, <1>2, <3>1, MainTypesStep DEF MainTypes
    <2>2. shutdown = {}
      BY <1>1, <1>3 DEF IInv, SingleInv, Quitting
    <2>3. main' = "select" => \A k \in Keys : PeerMap[k] # NoPeer => loop[PeerMap[k]] # "none"
      BY <1>1, <1>3 DEF MainInitialize, MainReady, Paused
    <2> QED
      BY <1>1, <1>2, <1>3, <2>1, <2>2, <2>3, MainMoves
  <1>4. CASE mode # "single"
    <2>1. gen \in Gens
      BY <1>1, MapInstances, LifeBounds DEF IInv, GenInv, Gens
    <2>2. nodes' \in [Gens -> NodeType]
      <3>1. CASE MainInitialize
        <4>1. PICK ours \in SUBSET Connections :
                nodes' = [nodes EXCEPT ![gen] =
                            [NoNodes EXCEPT !.backends = Connections, !.assigned = ours,
                                            !.add = ours]]
          BY <1>4, <3>1 DEF MainInitialize
        <4>2. Connections \subseteq Ids /\ NoPeer \in 0 .. made
          BY <1>0, MapInstances DEF Connections, NoPeer
        <4>3. NoNodes \in NodeType
          BY <4>2 DEF NoNodes, NodeType
        <4>4. [NoNodes EXCEPT !.backends = Connections, !.assigned = ours, !.add = ours] \in NodeType
          BY <4>2, <4>3 DEF NodeType
        <4> QED
          BY <1>0, <4>1, <4>4 DEF NodesTypes
      <3>2. CASE MainReady
        <4>1. nodes' = [nodes EXCEPT ![gen].at = "wait"] \/ nodes' = nodes
          BY <3>2 DEF MainReady
        <4>2. nodes[gen] \in NodeType
          BY <1>0, <2>1 DEF NodesTypes
        <4>3. [nodes[gen] EXCEPT !.at = "wait"] \in NodeType
          BY <4>2 DEF NodeType
        <4> QED
          BY <1>0, <4>1, <4>3 DEF NodesTypes
      <3> QED
        BY <3>1, <3>2
    <2>3. moves' \in 0 .. MaxMoves
      BY <1>0, <1>1 DEF NodesTypes
    <2> QED
      BY <1>1, <1>2, <1>4, <2>2, <2>3, NodesFrame
  <1> QED
    BY <1>3, <1>4

\* Nodes.loop of a generation: redistribute and updateBackends.
LEMMA NodesInv ==
  ASSUME IInv, Alive, NEW g \in Gens, NodesStep(g)
  PROVE  IInv'
  <1>0. LoopTypes /\ MainTypes /\ ListenerTypes /\ NodesTypes /\ TypeOK
    BY TypeParts DEF IInv
  <1>1. nodes[g] \in NodeType /\ main # "exit" /\ main \in MainPlaces
    BY <1>0 DEF NodesTypes, MainTypes, Alive
  <1>2. mode # "single"
    <2>1. NoNodes.at = "none" /\ NoNodes.to = NoPeer
      BY DEF NoNodes
    <2>2. nodes[g].at \in {"wait", "updating"} \/ nodes[g].to # NoPeer
      BY DEF NodesStep, Redistribute, NodesStopped, NodesWait, NodesEnd, NodesStop, NodesStart
    <2>3. nodes[g] # NoNodes
      BY <2>1, <2>2
    <2> QED
      BY <2>3 DEF IInv, SingleInv
  <1>3. Ids \subseteq Keys /\ NoPeer \in 0 .. made
    BY <1>0, MapInstances DEF Keys, NoPeer
  <1>4. \A r \in NodeType : [nodes EXCEPT ![g] = r] \in [Gens -> NodeType]
    BY <1>0 DEF NodesTypes
  \* The steps that leave the loops alone.
  <1>5. ASSUME nodes' \in [Gens -> NodeType], moves' \in 0 .. MaxMoves, main' \in {main, "panic"},
               UNCHANGED <<mode, mainLocals, PeerMap, objects, loops, shutdown, listeners>>
        PROVE  IInv'
    <2>1. UNCHANGED <<mode, gen, config, target, PeerMapNew, PeerMap, made, object, loop, loopGroup,
                      sites, victim, waitGroupPeers, shutdown, Listeners, listener>>
      BY <1>5 DEF mainLocals, objects, loops, listeners
    <2>2. main' \in MainPlaces
      BY <1>1, <1>5 DEF MainPlaces
    <2> QED
      BY <1>1, <1>2, <1>5, <2>1, <2>2, NodesFrame
  <1>6. moves \in 0 .. MaxMoves /\ moves \in Nat
    BY <1>0, LifeBounds DEF NodesTypes
  <1>7. CASE Redistribute(g)
    <2>1. PICK ours \in SUBSET nodes[g].backends :
            nodes' = [nodes EXCEPT ![g] =
                        [@ EXCEPT !.at = "updating", !.assigned = ours,
                                  !.rmv = nodes[g].assigned \ ours,
                                  !.add = ours \ nodes[g].assigned]]
      BY <1>7 DEF Redistribute
    <2>2. [nodes[g] EXCEPT !.at = "updating", !.assigned = ours,
                           !.rmv = nodes[g].assigned \ ours,
                           !.add = ours \ nodes[g].assigned] \in NodeType
      BY <1>1 DEF NodeType
    <2>3. nodes' \in [Gens -> NodeType]
      BY <1>0, <2>1, <2>2 DEF NodesTypes
    <2>4. moves' \in 0 .. MaxMoves
      BY <1>6, <1>7, LifeBounds DEF Redistribute
    <2> QED
      BY <1>5, <1>7, <2>3, <2>4 DEF Redistribute
  <1>8. CASE NodesWait(g)
    <2>1. [nodes[g] EXCEPT !.at = "wait"] \in NodeType
      BY <1>1 DEF NodeType
    <2>2. nodes' \in [Gens -> NodeType]
      BY <1>0, <1>8, <2>1 DEF NodesTypes, NodesWait
    <2> QED
      BY <1>5, <1>6, <1>8, <2>2 DEF NodesWait
  <1>9. CASE NodesEnd(g)
    <2>1. [nodes[g] EXCEPT !.at = "none"] \in NodeType
      BY <1>1 DEF NodeType
    <2>2. nodes' \in [Gens -> NodeType]
      BY <1>0, <1>9, <2>1 DEF NodesTypes, NodesEnd
    <2> QED
      BY <1>5, <1>6, <1>9, <2>2 DEF NodesEnd
  <1>10. ASSUME NEW k \in Ids, NodesStop(g, k)
         PROVE  IInv'
    <2>1. PeerMap[k] \in 0 .. made
      BY <1>0, <1>3 DEF MainTypes
    <2>2. /\ [nodes[g] EXCEPT !.rmv = nodes[g].rmv \ {k}] \in NodeType
          /\ [nodes[g] EXCEPT !.to = PeerMap[k]] \in NodeType
      BY <1>1, <2>1 DEF NodeType
    <2>3. \/ nodes' = nodes
          \/ nodes' = [nodes EXCEPT ![g].rmv = @ \ {k}]
          \/ nodes' = [nodes EXCEPT ![g].to = PeerMap[k]]
      BY <1>10 DEF NodesStop
    <2>4. nodes' \in [Gens -> NodeType]
      BY <1>0, <2>2, <2>3 DEF NodesTypes
    <2> QED
      BY <1>5, <1>6, <1>10, <2>4 DEF NodesStop
  <1>11. ASSUME NEW k \in Ids, NodesStart(g, k)
         PROVE  IInv'
    <2>1. [nodes[g] EXCEPT !.add = nodes[g].add \ {k}] \in NodeType
      BY <1>1 DEF NodeType
    <2>2. nodes' \in [Gens -> NodeType]
      BY <1>0, <1>11, <2>1 DEF NodesTypes, NodesStart
    <2>3. CASE CanStart(k) /\ Start(PeerMap[k], object[PeerMap[k]].group) /\ UNCHANGED main
      <3>1. UNCHANGED <<mode, main, gen, config, target, PeerMapNew, PeerMap, made, object,
                        shutdown, Listeners, listener, moves>>
        BY <1>11, <2>3 DEF NodesStart, mainLocals, objects, listeners
      <3> QED
        BY <1>1, <1>2, <1>3, <2>2, <2>3, <3>1, StartInv
    <2>4. CASE main' = "panic" /\ UNCHANGED loops
      BY <1>5, <1>6, <1>11, <2>2, <2>4 DEF NodesStart
    <2> QED
      BY <1>11, <2>3, <2>4 DEF NodesStart
  <1>12. CASE NodesStopped(g)
    <2>1. /\ UNCHANGED <<mode, main, gen, config, target, PeerMapNew, PeerMap, made, object>>
          /\ UNCHANGED <<loopGroup, sites, victim, waitGroupPeers, shutdown, Listeners, listener, moves>>
          /\ nodes[g].to # NoPeer /\ loop[nodes[g].to] = "select"
          /\ loop' = [loop EXCEPT ![nodes[g].to] = "left"]
      BY <1>12 DEF NodesStopped, Stopped, mainLocals, objects, listeners
    <2>2. /\ CountInv' /\ loop' \in [Instances -> LoopPlaces]
      BY <1>0, <2>1, LoopGoesOn DEF IInv, LoopPlaces
    <2>3. [nodes[g] EXCEPT !.rmv = nodes[g].rmv \ {object[nodes[g].to].id}, !.to = NoPeer] \in NodeType
      BY <1>1, <1>3 DEF NodeType
    <2>4. nodes' \in [Gens -> NodeType]
      BY <1>0, <1>12, <2>3 DEF NodesTypes, NodesStopped
    <2>5. TypeOK'
      <3>1. LoopTypes'
        BY <1>0, <2>1, <2>2 DEF LoopTypes
      <3>2. MainTypes' /\ ListenerTypes'
        BY <1>0, <2>1 DEF MainTypes, ListenerTypes
      <3>3. NodesTypes'
        BY <1>6, <2>1, <2>4 DEF NodesTypes, NodeType
      <3> QED
        BY <3>1, <3>2, <3>3 DEF TypeOK, LoopTypes, MainTypes, ListenerTypes, NodesTypes, NodeType
    <2>6. \A j \in Instances : loop'[j] = loop[j] \/ (loop[j] = "select" /\ loop'[j] = "left")
      BY <1>0, <2>1 DEF LoopTypes
    <2>7. GenInv'
      BY <2>1, <2>6 DEF IInv, GenInv
    <2>8. NameInv'
      BY <2>1, <2>6 DEF IInv, NameInv
    <2>9. SingleInv'
      BY <1>2, <2>1 DEF SingleInv
    <2> QED
      BY <2>2, <2>5, <2>7, <2>8, <2>9 DEF IInv
  <1> QED
    BY <1>7, <1>8, <1>9, <1>10, <1>11, <1>12 DEF NodesStep

-----------------------------------------------------------------------------
(* The invariant and the theorems.                                         *)

LEMMA InitInv == Init => IInv
  <1> SUFFICES ASSUME Init
               PROVE  IInv
    OBVIOUS
  <1>1. /\ 0 \in Groups /\ 0 \in Nat /\ 0 \in 0 .. MaxPeers /\ 0 \in 0 .. MaxMoves /\ 0 \in 0 .. 0
        /\ 0 < MaxGens
    BY LifeBounds DEF Groups
  <1>2. NoObject \in Objects
    <2>1. (CHOOSE k \in Keys : TRUE) \in Keys
      BY IdsAssumption DEF Keys
    <2>2. Absent \in SettingsOf /\ NoParent \in Ids \cup {NoParent}
      BY DEF SettingsOf
    <2> QED
      BY <1>1, <2>1, <2>2 DEF NoObject, Objects
  <1>3. LoopTypes
    BY <1>1 DEF Init, LoopTypes, LoopPlaces, NoPeer
  <1>4. MainTypes
    BY <1>1, <1>2 DEF Init, MainTypes, MainPlaces, NoPeer
  <1>5. ListenerTypes
    BY <1>1 DEF Init, ListenerTypes
  <1>6. NodesTypes
    <2>1. NoNodes \in NodeType
      BY <1>1 DEF Init, NoNodes, NodeType, NoPeer
    <2> QED
      BY <1>1, <2>1 DEF Init, NodesTypes
  <1>7. CountInv
    <2>1. \A g \in Gens : Loops(g) = {}
      BY DEF Init, Loops
    <2> QED
      BY <2>1, FS_EmptySet DEF Init, CountInv
  <1>8. GenInv
    <2>1. \A i \in Instances : ~(i <= made)
      BY LifeBounds DEF Init, Instances
    <2> QED
      BY <1>1, <2>1 DEF Init, GenInv
  <1>9. NameInv
    BY DEF Init, NameInv, NoObject, NoPeer
  <1>10. SingleInv
    BY DEF Init, SingleInv, NoPeer
  <1> QED
    BY <1>3, <1>4, <1>5, <1>6, <1>7, <1>8, <1>9, <1>10, TypeParts DEF IInv

LEMMA NextInv == IInv /\ [Next]_vars => IInv'
  <1> SUFFICES ASSUME IInv, [Next]_vars
               PROVE  IInv'
    OBVIOUS
  <1>1. CASE UNCHANGED vars
    <2>1. TypeOK'
      BY <1>1 DEF IInv, TypeOK, vars
    <2>2. CountInv' /\ GenInv'
      BY <1>1 DEF IInv, CountInv, Loops, GenInv, vars
    <2>3. NameInv'
      BY <1>1 DEF IInv, NameInv, vars
    <2>4. SingleInv'
      BY <1>1 DEF IInv, SingleInv, Current, Connections, vars
    <2> QED
      BY <2>1, <2>2, <2>3, <2>4 DEF IInv
  <1>2. CASE Next
    <2>1. Alive /\ main # "exit"
      BY <1>2 DEF Next, Alive
    <2>2. ASSUME NEW i \in Instances, LoopStep(i)
          PROVE  IInv'
      BY <2>1, <2>2, LoopPlacesInv, LoopEndInv, AddSubInv, RemoveSubInv DEF LoopStep
    <2>3. CASE MainStep
      <3>1. ASSUME NEW k \in Keys, MainKeep(k) \/ MainCreate(k) \/ MainStart(k) \/ MainStartOurs(k)
            PROVE  IInv'
        BY <3>1, MainKeepInv, MainCreateInv, MainStartInv
      <3> QED
        BY <2>1, <2>3, <3>1, MainLoadInv, MainWaitsInv, MainStopInv, MainPublishInv,
           MainInitializeInv DEF MainStep
    <2>4. CASE Signal
      BY <2>1, <2>4, MainWaitsInv, QuitInv DEF Signal
    <2>5. CASE ListenerStep
      BY <2>5, ListenerInv
    <2>6. ASSUME NEW g \in Gens, NodesStep(g)
          PROVE  IInv'
      BY <2>1, <2>6, NodesInv
    <2> QED
      BY <1>2, <2>2, <2>3, <2>4, <2>5, <2>6 DEF Next
  <1> QED
    BY <1>1, <1>2

LEMMA Invariance == Spec => []IInv
  BY InitInv, NextInv, PTL DEF Spec

\* Every variable keeps its type, for any configurations: PeerMap names peers that
\* exist, and no wait group of the peers goes below zero, whatever reloads have
\* replaced while an update loop was running (Peer.Start, wg.Done).
THEOREM TypeCorrect == Spec => []TypeOK
  <1>1. IInv => TypeOK
    BY DEF IInv
  <1> QED
    BY <1>1, Invariance, PTL

\* A process that was never reloaded leaves on SIGTERM only when no update loop runs
\* (mainSignalHandler): all loops report to the one wait group there is.
THEOREM Graceful == Spec => []GracefulExit
  <1>1. IInv => GracefulExit
    <2> SUFFICES ASSUME IInv, gen = 1, main = "exit", NEW i \in Instances
                 PROVE  loop[i] = "none"
      BY DEF GracefulExit, Paused
    <2>1. 1 \in Gens
      BY LifeBounds DEF Gens
    <2>2. Cardinality(Loops(1)) = 0
      BY <2>1 DEF IInv, GenInv, CountInv
    <2>3. Loops(1) = {}
      BY <2>2, LoopsFinite, FS_EmptySet
    <2>4. loop[i] # "none" => loopGroup[i] = 1
      BY DEF IInv, GenInv
    <2> QED
      BY <2>3, <2>4 DEF Loops
  <1> QED
    BY <1>1, Invariance, PTL

\* Whenever main waits for signals, after the start and after every reload, each
\* configured backend has a peer with its settings that hears the shutdown channel,
\* and all peers are being updated (initializePeers).
THEOREM PeersRun == Spec => []ConfiguredPeersRun
  <1>1. IInv => ConfiguredPeersRun
    <2> SUFFICES ASSUME IInv, mode = "single", main = "select"
                 PROVE  ConfiguredPeersRun
      BY DEF ConfiguredPeersRun
    <2>1. shutdown = {}
      BY DEF IInv, SingleInv, Quitting
    <2>2. \A k \in Connections : PeerMap[k] # NoPeer /\ Current(k, PeerMap[k])
      BY DEF IInv, SingleInv
    <2>3. \A k \in Keys : PeerMap[k] # NoPeer => loop[PeerMap[k]] \notin {"none", "left"}
      BY <2>1 DEF IInv, SingleInv
    <2> QED
      BY <2>2, <2>3 DEF ConfiguredPeersRun, Current, Running
  <1> QED
    BY <1>1, Invariance, PTL
=============================================================================
