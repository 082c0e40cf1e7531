---------------------------- MODULE NodesProofs ----------------------------
(***************************************************************************)
(* Proof that redistribute divides any number of backends among any set of *)
(* online nodes, each to exactly one of them, and that processes which     *)
(* agree on the nodes online therefore never run a backend twice or leave  *)
(* one out, for every number of nodes and backends.                        *)
(***************************************************************************)
EXTENDS Nodes, FiniteSetTheorems, TLAPS

USE SizesAssumption

\* Multiplication by a natural number keeps the order.
LEMMA TimesMonotone ==
  ASSUME NEW k \in Nat, NEW x \in Nat, NEW y \in Nat, x <= y
  PROVE  k * x <= k * y
  <1>1. PICK d \in Nat : y = x + d
    <2>1. y - x \in Nat /\ y = x + (y - x)
      OBVIOUS
    <2> QED
      BY <2>1
  <1>2. k * y = k * x + k * d /\ k * d \in Nat /\ k * x \in Nat
    BY <1>1
  <1> QED
    BY <1>2

\* Quotient and remainder.
LEMMA Division ==
  ASSUME NEW a \in Nat, NEW d \in Nat \ {0}
  PROVE  /\ a \div d \in Nat /\ a % d \in 0 .. d - 1
         /\ a = (d * (a \div d)) + (a % d)
  OBVIOUS

\* The set of nodes is finite, and so is every set of online nodes.
LEMMA OnlineFinite ==
  ASSUME NEW S \in SUBSET Members
  PROVE  /\ IsFiniteSet(S) /\ Cardinality(S) \in Nat
         /\ S # {} => Cardinality(S) > 0
  <1>1. IsFiniteSet(Members)
    BY FS_Interval DEF Members
  <1>2. IsFiniteSet(S)
    BY <1>1, FS_Subset
  <1> QED
    BY <1>2, FS_CardinalityType, FS_EmptySet

\* The shares are large enough for all backends together.
LEMMA SharesSuffice ==
  ASSUME NEW S \in SUBSET Members, S # {}
  PROVE  /\ PerNode(S) \in Nat \ {0}
         /\ NumBackends <= PerNode(S) * Cardinality(S)
  <1> DEFINE A == Cardinality(S)
  <1>1. A \in Nat /\ A > 0
    BY OnlineFinite
  <1>2. PerNode(S) = IF A >= NumBackends THEN 1
                     ELSE (NumBackends \div A) + (IF NumBackends % A # 0 THEN 1 ELSE 0)
    BY DEF PerNode
  <1> HIDE DEF A
  <1>3. CASE A >= NumBackends
    BY <1>1, <1>2, <1>3 DEF A
  <1>4. CASE A < NumBackends
    <2> DEFINE q == NumBackends \div A
               r == NumBackends % A
    <2>1. q \in Nat /\ r \in 0 .. A - 1 /\ NumBackends = A * q + r
      BY <1>1, Division
    <2>2. PerNode(S) = q + (IF r # 0 THEN 1 ELSE 0)
      BY <1>1, <1>2, <1>4
    <2> HIDE DEF q, r
    <2>3. q # 0
      BY <1>1, <1>4, <2>1
    <2>4. A * (q + 1) = A * q + A /\ (q + 1) * A = A * (q + 1) /\ q * A = A * q
      BY <1>1, <2>1
    <2>5. A * q \in Nat
      BY <1>1, <2>1
    <2>6. CASE r = 0
      <3>1. PerNode(S) = q
        BY <2>1, <2>2, <2>6
      <3>2. NumBackends = q * A
        BY <2>1, <2>4, <2>5, <2>6
      <3> QED
        BY <2>1, <2>3, <3>1, <3>2 DEF A
    <2>7. CASE r # 0
      <3>1. PerNode(S) = q + 1
        BY <2>2, <2>7
      <3>2. NumBackends <= (q + 1) * A
        BY <1>1, <2>1, <2>4, <2>5
      <3> QED
        BY <2>1, <3>1, <3>2 DEF A
    <2> QED
      BY <2>6, <2>7
  <1> QED
    BY <1>1, <1>3, <1>4

\* The nodes before one node are fewer than those before a later one.
LEMMA BeforeGrows ==
  ASSUME NEW S \in SUBSET Members, NEW n \in S, NEW m \in S, n < m
  PROVE  /\ Before(S, n) \in Nat /\ Before(S, m) \in Nat
         /\ Before(S, n) + 1 <= Before(S, m)
  <1> DEFINE P == {k \in S : k < n}
             Q == {k \in S : k < m}
  <1>1. S \subseteq Int
    BY DEF Members
  <1>2. IsFiniteSet(P) /\ IsFiniteSet(Q)
    BY OnlineFinite, FS_Subset
  <1>3. P \cup {n} \in SUBSET Q /\ n \notin P
    <2>1. \A k \in P : k \in Q
      BY <1>1
    <2>2. n \in Q /\ n \notin P
      BY <1>1
    <2> QED
      BY <2>1, <2>2, Zenon
  <1>4. Cardinality(P \cup {n}) = Cardinality(P) + 1
    BY <1>2, <1>3, FS_AddElement
  <1>5. Cardinality(P \cup {n}) <= Cardinality(Q)
    BY <1>2, <1>3, FS_Subset
  <1>6. Cardinality(P) \in Nat /\ Cardinality(Q) \in Nat
    BY <1>2, FS_CardinalityType
  <1> QED
    BY <1>4, <1>5, <1>6 DEF Before

\* Fewer nodes come before a node than there are.
LEMMA BeforeBounded ==
  ASSUME NEW S \in SUBSET Members, NEW n \in S
  PROVE  Before(S, n) \in 0 .. Cardinality(S) - 1
  <1> DEFINE P == {k \in S : k < n}
  <1>1. P \in SUBSET S /\ n \notin P
    BY DEF Members
  <1>2. IsFiniteSet(S) /\ Cardinality(S) \in Nat
    BY OnlineFinite
  <1>3. IsFiniteSet(P) /\ Cardinality(P) <= Cardinality(S)
        /\ (Cardinality(S) = Cardinality(P) => S = P)
    BY <1>1, <1>2, FS_Subset
  <1>4. Cardinality(P) \in Nat
    BY <1>3, FS_CardinalityType
  <1>5. Cardinality(P) # Cardinality(S)
    BY <1>1, <1>3
  <1> QED
    BY <1>2, <1>3, <1>4, <1>5 DEF Before

\* The online nodes are numbered without gaps.
LEMMA BeforeOnto ==
  ASSUME NEW S \in SUBSET Members, S # {}, NEW i \in 0 .. Cardinality(S) - 1
  PROVE  \E n \in S : Before(S, n) = i
  <1> DEFINE T == 0 .. Cardinality(S) - 1
             f == [n \in S |-> Before(S, n)]
  <1>1. f \in [S -> T]
    BY BeforeBounded
  <1>2. \A n, m \in S : f[n] = f[m] => n = m
    <2> SUFFICES ASSUME NEW n \in S, NEW m \in S, n # m
                 PROVE  Before(S, n) # Before(S, m)
      OBVIOUS
    <2>1. n \in Int /\ m \in Int
      BY DEF Members
    <2>2. n < m \/ m < n
      BY <2>1
    <2>3. CASE n < m
      BY <2>3, BeforeGrows
    <2>4. CASE m < n
      BY <2>4, BeforeGrows
    <2> QED
      BY <2>2, <2>3, <2>4
  <1>3. f \in Injection(S, T)
    BY <1>1, <1>2 DEF Injection, IsInjective
  <1>4. IsFiniteSet(T) /\ Cardinality(T) = Cardinality(S)
    <2>1. Cardinality(S) \in Nat /\ Cardinality(S) > 0
      BY OnlineFinite
    <2> QED
      BY <2>1, FS_Interval
  <1>5. f \in Surjection(S, T)
    BY <1>3, <1>4, FS_Injection
  <1> QED
    BY <1>5 DEF Surjection

\* Every backend is in the share of a node.
LEMMA SharesCover ==
  ASSUME NEW S \in SUBSET Members, S # {}, NEW b \in Backends
  PROVE  \E n \in S : b \in Share(S, n)
  <1> DEFINE k == PerNode(S)
             A == Cardinality(S)
             i == (b - 1) \div k
  <1>1. k \in Nat \ {0} /\ NumBackends <= k * A
    BY SharesSuffice
  <1>2. A \in Nat
    BY OnlineFinite
  <1>3. b \in Nat /\ b - 1 \in Nat /\ b <= NumBackends
    BY DEF Backends
  <1>4. i \in Nat /\ k * i <= b - 1 /\ b - 1 < k * i + k
    <2>1. i \in Nat /\ (b - 1) % k \in 0 .. k - 1 /\ b - 1 = (k * i) + ((b - 1) % k)
      BY <1>1, <1>3, Division
    <2> QED
      BY <1>1, <2>1
  <1> HIDE DEF k, A, i
  <1>5. k * i < b /\ b <= k * (i + 1)
    <2>1. k * (i + 1) = k * i + k /\ k * i \in Nat
      BY <1>1, <1>4
    <2> QED
      BY <1>1, <1>3, <1>4, <2>1
  <1>6. i < A
    <2>1. SUFFICES ASSUME A <= i PROVE FALSE
      BY <1>2, <1>4
    <2>2. k * A <= k * i
      BY <1>1, <1>2, <1>4, <2>1, TimesMonotone
    <2>3. k * A \in Nat /\ k * i \in Nat
      BY <1>1, <1>2, <1>4
    <2> QED
      BY <1>1, <1>3, <1>5, <2>2, <2>3
  <1>7. i \in 0 .. A - 1
    BY <1>2, <1>4, <1>6
  <1>8. PICK n \in S : Before(S, n) = i
    BY <1>7, BeforeOnto DEF A
  <1> QED
    BY <1>5, <1>8 DEF Share, k

\* No backend is in the shares of two nodes.
LEMMA SharesDisjoint ==
  ASSUME NEW S \in SUBSET Members, NEW n \in S, NEW m \in S, n < m,
         NEW b \in Share(S, n)
  PROVE  b \notin Share(S, m)
  <1> DEFINE k == PerNode(S)
             x == Before(S, n)
             y == Before(S, m)
  <1>1. k \in Nat
    BY SharesSuffice
  <1>2. x \in Nat /\ y \in Nat /\ x + 1 <= y
    BY BeforeGrows
  <1>3. b \in Int /\ b <= k * (x + 1)
    BY DEF Share, Backends
  <1> SUFFICES ASSUME k * y < b PROVE FALSE
    BY DEF Share
  <1> HIDE DEF k, x, y
  <1>4. k * (x + 1) <= k * y
    BY <1>1, <1>2, TimesMonotone
  <1>5. k * (x + 1) \in Int /\ k * y \in Int
    BY <1>1, <1>2
  <1> QED
    BY <1>3, <1>4, <1>5

\* The division of redistribute is a partition of the backends, for every number
\* of nodes and backends and every set of online nodes.
THEOREM DivisionIsPartition ==
  ASSUME NEW S \in SUBSET Members, S # {}, NEW b \in Backends
  PROVE  \E n \in S : \A m \in S : b \in Share(S, m) <=> m = n
  <1>1. PICK n \in S : b \in Share(S, n)
    BY SharesCover
  <1>2. ASSUME NEW m \in S, b \in Share(S, m) PROVE m = n
    <2>1. m \in Int /\ n \in Int
      BY DEF Members
    <2>2. ~(m < n) /\ ~(n < m)
      BY <1>1, <1>2, SharesDisjoint
    <2> QED
      BY <2>1, <2>2
  <1> QED
    BY <1>1, <1>2

(***************************************************************************)
(* A process runs the share that its view of the cluster gives it.         *)
(***************************************************************************)
Rounds == [active : BOOLEAN, waiting : SUBSET Members, up : SUBSET Members, force : BOOLEAN]
ViewInv ==
  /\ DOMAIN onlineNodes = Members /\ DOMAIN assignedBackends = Members
  /\ DOMAIN round = Members
  /\ \A n \in Members :
       /\ onlineNodes[n] \in SUBSET Members
       /\ round[n] \in Rounds
       /\ onlineNodes[n] # {} => assignedBackends[n] = ShareOrNone(onlineNodes[n], n)

\* Initially no process runs.
LEMMA InitViewInv == Init => ViewInv
  BY DEF Init, ViewInv, Rounds, NoRound

\* Every step keeps it: view and share change together.
LEMMA NextViewInv == ViewInv /\ [Next]_vars => ViewInv'
  <1> SUFFICES ASSUME ViewInv, [Next]_vars PROVE ViewInv'
    OBVIOUS
  <1>1. ASSUME NEW n \in Members, Tick(n) PROVE ViewInv'
    <2>1. UNCHANGED <<onlineNodes, assignedBackends>>
      BY <1>1 DEF Tick, local
    <2>2. PICK all \in SUBSET Members :
            round' = [round EXCEPT ![n] =
                        [active |-> TRUE, waiting |-> all, up |-> {}, force |-> FALSE]]
      BY <1>1 DEF Tick
    <2> QED
      BY <2>1, <2>2 DEF ViewInv, Rounds
  <1>2. ASSUME NEW n \in Members, NEW m \in Members, queryPing(n, m) PROVE ViewInv'
    BY <1>2 DEF queryPing, local, ViewInv
  <1>3. ASSUME NEW n \in Members, NEW m \in Members, sendPing(n, m) PROVE ViewInv'
    <2>1. UNCHANGED <<onlineNodes, assignedBackends>>
      BY <1>3 DEF sendPing
    <2>2. PICK online, force \in BOOLEAN :
            \/ round' = round
            \/ round' = [round EXCEPT ![n].waiting = @ \ {m},
                                      ![n].up = IF online THEN @ \cup {m} ELSE @,
                                      ![n].force = @ \/ force]
      BY <1>3 DEF sendPing, Restarted
    <2> QED
      BY <2>1, <2>2 DEF ViewInv, Rounds
  <1>4. ASSUME NEW n \in Members, Stopped(n) PROVE ViewInv'
    BY <1>4 DEF Stopped, ViewInv, Rounds, NoRound
  <1>5. ASSUME NEW n \in Members, NEW S \in SUBSET Members, redistribute(n, S),
               round' = [round EXCEPT ![n] = NoRound]
        PROVE  ViewInv'
    BY <1>5 DEF redistribute, ViewInv, Rounds, NoRound
  <1>6. ASSUME NEW n \in Members, EndRound(n) PROVE ViewInv'
    <2>1. PICK S \in SUBSET round[n].up :
            \/ Stopped(n)
            \/ /\ \/ redistribute(n, S \cup (IF thisNode[n] THEN {n} \ round[n].up ELSE {}))
                  \/ UNCHANGED <<onlineNodes, nodeBackends, assignedBackends>>
               /\ round' = [round EXCEPT ![n] = NoRound]
      BY <1>6 DEF EndRound
    <2>2. S \cup (IF thisNode[n] THEN {n} \ round[n].up ELSE {}) \in SUBSET Members
      BY <2>1 DEF ViewInv, Rounds
    <2>3. CASE UNCHANGED <<onlineNodes, nodeBackends, assignedBackends>>
               /\ round' = [round EXCEPT ![n] = NoRound]
      BY <2>3 DEF ViewInv, Rounds, NoRound
    <2> QED
      BY <1>4, <1>5, <2>1, <2>2, <2>3
  <1>7. ASSUME NEW n \in Members, Start(n) PROVE ViewInv'
    BY <1>7 DEF Start, ViewInv
  <1>8. ASSUME NEW n \in Members, Crash(n) PROVE ViewInv'
    BY <1>4, <1>8 DEF Crash
  <1>9. CASE UNCHANGED vars
    BY <1>9 DEF vars, ViewInv
  <1> QED
    BY <1>1, <1>2, <1>3, <1>6, <1>7, <1>8, <1>9 DEF Next

\* Processes that have the same view of the cluster run every backend exactly
\* once: redistribute needs no leader and no agreement.
THEOREM ViewsDivide == Spec => []EveryBackendOnce
  <1>1. ViewInv => EveryBackendOnce
    <2> SUFFICES ASSUME ViewInv, NEW S \in (SUBSET Members) \ {{}}, SameView(S),
                        NEW b \in Backends
                 PROVE  \E n \in S : \A m \in S : b \in assignedBackends[m] <=> m = n
      BY DEF EveryBackendOnce
    <2>1. S \in SUBSET Members /\ S # {}
      OBVIOUS
    <2>2. \A m \in S : assignedBackends[m] = Share(S, m)
      BY <2>1 DEF SameView, ViewInv, ShareOrNone
    <2>3. \E n \in S : \A m \in S : b \in Share(S, m) <=> m = n
      BY <2>1, DivisionIsPartition
    <2> QED
      BY <2>2, <2>3
  <1> QED
    BY <1>1, InitViewInv, NextViewInv, PTL DEF Spec

(***************************************************************************)
(* Types: also what a ping of an ended process or of an earlier round      *)
(* brings home are identifiers and lists that some process has had.        *)
(***************************************************************************)
USE BoundsAssumption

Starts == 0 .. MaxStarts
Pings == [at : Members, node : Members, initializing : BOOLEAN, late : BOOLEAN, reply : Replies]
Views == /\ onlineNodes \in [Members -> SUBSET Members]
         /\ nodeBackends \in [Members -> [Members -> Lists]]
         /\ assignedBackends \in [Members -> Lists]
Processes == /\ id \in [Members -> Starts] /\ version \in [Members -> Versions]
             /\ thisNode \in [Members -> BOOLEAN]
             /\ nodeId \in [Members -> [Members -> Starts]]
Counters == starts \in Starts /\ delays \in 0 .. MaxDelays

\* TypeOK in the parts that an action touches or leaves alone.
LEMMA TypeParts ==
  /\ TypeOK <=> /\ Processes /\ Views /\ Counters
                /\ round \in [Members -> Rounds] /\ pings \in SUBSET Pings
  /\ TypeOK' <=> /\ Processes' /\ Views' /\ Counters'
                 /\ round' \in [Members -> Rounds] /\ pings' \in SUBSET Pings
  BY DEF TypeOK, Processes, Views, Counters, Rounds, Pings, Starts

\* The share of a node is a list of backends, and so is none.
LEMMA ShareType ==
  ASSUME NEW S, NEW m
  PROVE  ShareOrNone(S, m) \in Lists /\ NoList \in Lists
  BY DEF ShareOrNone, Share, Lists

\* An answer that has not come is a reply.
LEMMA NoReplyType == NoReply \in Replies /\ NoRound \in Rounds /\ NoId \in Starts
  BY ShareType DEF NoReply, Replies, NoRound, Rounds, NoId, Starts

\* A process that ends leaves the state of one that never ran.
LEMMA StoppedType ==
  ASSUME TypeOK, NEW n \in Members, Stopped(n)
  PROVE  /\ version' = version => Processes'
         /\ Views' /\ round' \in [Members -> Rounds] /\ pings' \in SUBSET Pings
  <1>1. version' = version => Processes'
    BY TypeParts, NoReplyType DEF Stopped, Processes
  <1>2. Views'
    <2>1. [m \in Members |-> NoList] \in [Members -> Lists]
      BY ShareType
    <2> QED
      BY <2>1, TypeParts, ShareType DEF Stopped, Views
  <1>3. round' \in [Members -> Rounds] /\ pings' \in SUBSET Pings
    BY TypeParts, NoReplyType DEF Stopped
  <1> QED
    BY <1>1, <1>2, <1>3

\* redistribute gives every node a list.
LEMMA RedistributeType ==
  ASSUME Views, NEW n \in Members, NEW S \in SUBSET Members, redistribute(n, S)
  PROVE  Views'
  <1>1. [m \in Members |-> ShareOrNone(S, m)] \in [Members -> Lists]
    BY ShareType
  <1> QED
    BY <1>1, ShareType DEF redistribute, Views

\* The callback of a ping takes over what the other process has sent.
LEMMA SendPingType ==
  ASSUME TypeOK, NEW n \in Members, NEW m \in Members, sendPing(n, m)
  PROVE  TypeOK'
  <1>1. PICK p \in pings : \E online, force, drop, partner, own \in BOOLEAN :
          /\ nodeId' = [nodeId EXCEPT ![n][m] = p.reply.id]
          /\ thisNode' = [thisNode EXCEPT ![n] = @ \/ (own /\ p.initializing)]
          /\ nodeBackends' = [nodeBackends EXCEPT ![n][m] = EntryAfter(@, p.reply, partner, drop)]
          /\ \/ round' = round
             \/ round' = [round EXCEPT ![n].waiting = @ \ {m},
                                       ![n].up = IF online THEN @ \cup {m} ELSE @,
                                       ![n].force = @ \/ force]
          /\ pings' = pings \ {p}
    <2>1. PICK p \in pings : 
            LET reply     == p.reply
                own       == reply.id = id[n]
                mismatch  == reply.version # version[n]
                force     == Restarted(nodeId[n][m], reply.id) \/ mismatch
                online    == IF own THEN p.initializing ELSE ~mismatch
            IN /\ nodeId' = [nodeId EXCEPT ![n][m] = reply.id]
               /\ thisNode' = [thisNode EXCEPT ![n] = @ \/ (own /\ p.initializing)]
               /\ nodeBackends' = [nodeBackends EXCEPT ![n][m] =
                                     EntryAfter(@, reply, ~own /\ ~mismatch, force)]
               /\ round' = IF p.late THEN round
                           ELSE [round EXCEPT ![n].waiting = @ \ {m},
                                              ![n].up = IF online THEN @ \cup {m} ELSE @,
                                              ![n].force = @ \/ force]
               /\ pings' = pings \ {p}
      BY DEF sendPing
    <2> DEFINE own      == p.reply.id = id[n]
               mismatch == p.reply.version # version[n]
               force    == Restarted(nodeId[n][m], p.reply.id) \/ mismatch
               online   == IF own THEN p.initializing ELSE ~mismatch
    <2>2. p.initializing \in BOOLEAN
      BY TypeParts DEF Pings
    <2>3. own \in BOOLEAN /\ force \in BOOLEAN /\ online \in BOOLEAN
          /\ (~own /\ ~mismatch) \in BOOLEAN
      BY <2>2 DEF Restarted
    <2> QED
      BY <2>1, <2>3
  <1>2. PICK online, force, drop, partner, own \in BOOLEAN :
          /\ nodeId' = [nodeId EXCEPT ![n][m] = p.reply.id]
          /\ thisNode' = [thisNode EXCEPT ![n] = @ \/ (own /\ p.initializing)]
          /\ nodeBackends' = [nodeBackends EXCEPT ![n][m] = EntryAfter(@, p.reply, partner, drop)]
          /\ \/ round' = round
             \/ round' = [round EXCEPT ![n].waiting = @ \ {m},
                                       ![n].up = IF online THEN @ \cup {m} ELSE @,
                                       ![n].force = @ \/ force]
          /\ pings' = pings \ {p}
    BY <1>1
  <1>3. UNCHANGED <<id, version, onlineNodes, assignedBackends, starts, delays>>
    BY DEF sendPing
  <1>4. p.reply.id \in Starts /\ p.reply.peers \in Lists /\ p.initializing \in BOOLEAN
    BY TypeParts DEF Pings, Replies, Starts
  <1>5. EntryAfter(nodeBackends[n][m], p.reply, partner, drop) \in Lists
    BY <1>4, TypeParts, ShareType DEF EntryAfter, Views
  <1>6. Views'
    BY <1>2, <1>3, <1>5, TypeParts DEF Views
  <1>7. Processes'
    <2>1. nodeId' \in [Members -> [Members -> Starts]]
      BY <1>2, <1>4, TypeParts DEF Processes
    <2>2. thisNode' \in [Members -> BOOLEAN]
      BY <1>2, <1>4, TypeParts DEF Processes
    <2> QED
      BY <1>3, <2>1, <2>2, TypeParts DEF Processes
  <1>8. round' \in [Members -> Rounds]
    BY <1>2, TypeParts DEF Rounds
  <1> QED
    BY <1>2, <1>3, <1>6, <1>7, <1>8, TypeParts DEF Counters

\* A request is answered with what the process has at that time.
LEMMA QueryPingType ==
  ASSUME TypeOK, NEW n \in Members, NEW m \in Members, queryPing(n, m)
  PROVE  TypeOK'
  <1>1. PICK p \in pings :
          pings' = (pings \ {p}) \cup
            {[p EXCEPT !.reply = [id |-> id[m], version |-> version[m],
                                  peers |-> assignedBackends[m]]]}
    BY DEF queryPing
  <1>2. [id |-> id[m], version |-> version[m], peers |-> assignedBackends[m]] \in Replies
    BY TypeParts DEF Processes, Views, Replies, Starts
  <1>3. pings' \in SUBSET Pings
    BY <1>1, <1>2, TypeParts DEF Pings
  <1> QED
    BY <1>3, TypeParts DEF queryPing, local, Processes, Views, Counters

\* The goroutines of a round that begins.
LEMMA TickType ==
  ASSUME TypeOK, NEW n \in Members, Tick(n)
  PROVE  TypeOK'
  <1>1. PICK all \in SUBSET Members :
          /\ round' = [round EXCEPT ![n] =
                         [active |-> TRUE, waiting |-> all, up |-> {}, force |-> FALSE]]
          /\ pings' = pings \cup SendQuery(n, all)
    BY DEF Tick
  <1>2. SendQuery(n, all) \subseteq Pings
    <2>1. thisNode[n] \in BOOLEAN
      BY TypeParts DEF Processes
    <2>2. (~thisNode[n]) \in BOOLEAN
      BY <2>1
    <2>3. \A k \in Members : [at |-> n, node |-> k, initializing |-> ~thisNode[n],
                             late |-> FALSE, reply |-> NoReply] \in Pings
      BY <2>2, NoReplyType DEF Pings
    <2> QED
      BY <2>3 DEF SendQuery
  <1>3. round' \in [Members -> Rounds]
    BY <1>1, TypeParts DEF Rounds
  <1> QED
    BY <1>1, <1>2, <1>3, TypeParts DEF Tick, local, Processes, Views, Counters

\* The end of a round, with a new division or a panic.
LEMMA EndRoundType ==
  ASSUME TypeOK, NEW n \in Members, EndRound(n)
  PROVE  TypeOK'
  <1>1. UNCHANGED <<version, starts>>
    BY DEF EndRound
  <1>2. PICK S \in SUBSET round[n].up :
          /\ \/ delays' = delays
             \/ delays < MaxDelays /\ delays' = delays + 1
          /\ \/ Stopped(n)
             \/ /\ \/ redistribute(n, S \cup (IF thisNode[n] THEN {n} \ round[n].up ELSE {}))
                   \/ UNCHANGED <<onlineNodes, nodeBackends, assignedBackends>>
                /\ round' = [round EXCEPT ![n] = NoRound]
                /\ pings' = Outlive(n)
                /\ UNCHANGED <<id, thisNode, nodeId>>
    BY DEF EndRound
  <1>3. Counters'
    BY <1>1, <1>2, TypeParts DEF Counters
  <1>4. S \cup (IF thisNode[n] THEN {n} \ round[n].up ELSE {}) \in SUBSET Members
    BY TypeParts DEF Rounds
  <1>5. CASE Stopped(n)
    BY <1>1, <1>3, <1>5, StoppedType, TypeParts
  <1>6. CASE /\ \/ redistribute(n, S \cup (IF thisNode[n] THEN {n} \ round[n].up ELSE {}))
                \/ UNCHANGED <<onlineNodes, nodeBackends, assignedBackends>>
             /\ round' = [round EXCEPT ![n] = NoRound]
             /\ pings' = Outlive(n)
             /\ UNCHANGED <<id, thisNode, nodeId>>
    <2>1. Views'
      BY <1>4, <1>6, RedistributeType, TypeParts DEF Views
    <2>2. Outlive(n) \in SUBSET Pings
      BY TypeParts DEF Outlive, Pings
    <2>3. Processes'
      BY <1>1, <1>6, TypeParts DEF Processes
    <2>4. round' \in [Members -> Rounds]
      BY <1>6, TypeParts, NoReplyType
    <2> QED
      BY <1>3, <1>6, <2>1, <2>2, <2>3, <2>4, TypeParts
  <1> QED
    BY <1>2, <1>5, <1>6

\* Every step keeps the types.
LEMMA NextTypeOK == TypeOK /\ [Next]_vars => TypeOK'
  <1> SUFFICES ASSUME TypeOK, [Next]_vars PROVE TypeOK'
    OBVIOUS
  <1>1. ASSUME NEW n \in Members, Start(n) PROVE TypeOK'
    <2>1. starts' \in Starts
      BY <1>1, TypeParts DEF Start, Counters, Starts
    <2>2. Processes'
      BY <1>1, <2>1, TypeParts DEF Start, Processes
    <2> QED
      BY <1>1, <2>1, <2>2, TypeParts DEF Start, Views, Counters
  <1>2. ASSUME NEW n \in Members, Crash(n) PROVE TypeOK'
    BY <1>2, StoppedType, TypeParts DEF Crash, Counters
  <1>3. CASE UNCHANGED vars
    BY <1>3 DEF vars, TypeOK
  <1> QED
    BY <1>1, <1>2, <1>3, TickType, EndRoundType, QueryPingType, SendPingType DEF Next

\* Every variable keeps its type, whatever answers are late or lost and whoever restarts: what a
\* process takes over from a late answer are an identifier and a list of backends.
THEOREM TypeCorrect == Spec => []TypeOK
  <1>1. Init => TypeOK
    <2> SUFFICES ASSUME Init PROVE TypeOK
      OBVIOUS
    <2>1. Processes
      BY NoReplyType DEF Init, Processes
    <2>2. Views
      BY ShareType DEF Init, Views
    <2>3. Counters /\ round \in [Members -> Rounds] /\ pings \in SUBSET Pings
      BY NoReplyType DEF Init, Counters, Starts
    <2> QED
      BY <2>1, <2>2, <2>3, TypeParts
  <1> QED
    BY <1>1, NextTypeOK, PTL DEF Spec
=============================================================================
