----------------------- MODULE ClientConnectionProofs -----------------------
(***************************************************************************)
(* Proofs about ClientConnection for every stream of requests and every set *)
(* of backends: the types, the order of commands at a backend, and that the *)
(* connection implements OrderedReplies.                                    *)
(*                                                                         *)
(* The argument is about places in the stream.  What the reader holds is a  *)
(* run of adjacent places; Base is the last place before the requests that  *)
(* are not settled, and everything up to it has been dealt with: no query   *)
(* was passed over and the fate of the commands is known.  A connection     *)
(* that Handle has closed sends no more replies, so for it only what        *)
(* becomes of the commands matters.                                        *)
(***************************************************************************)
EXTENDS ClientConnection, SequenceTheorems, TLAPS

Replies == [to : Nat, code : Codes]
Senders == [peer : Peers, cmds : Seq(Nat), result : {"sending", "ok", "error"}]

Types ==
  /\ script \in Scripts /\ sent \in 0 .. Len(script) /\ eof \in BOOLEAN
  /\ taken \in 0 .. sent /\ buffer \in Seq(Nat)
  /\ at \in {"parse", "process", "send", "closed"}
  /\ batch \in Seq(Nat) /\ ended \in BOOLEAN
  /\ next \in Nat /\ queue \in Seq(Nat)
  /\ keepAlive \in BOOLEAN /\ cut \in BOOLEAN
  /\ senders \subseteq Senders
  /\ replies \in Seq(Replies)
  /\ applied \in [Peers -> Seq(Nat)]

\* The places b + 1, b + 2, ...
Run(s, b) == \A k \in 1 .. Len(s) : s[k] = b + k

\* The place before the batch, and before what of it is not settled.
First == IF at = "parse" THEN taken - (Len(buffer) + Len(batch)) ELSE batch[1] - 1
Base == IF at = "parse" THEN First ELSE First + (next - 1) - Len(queue)

ParseInv ==
  at = "parse" =>
    /\ First >= 0 /\ Run(batch, First) /\ Run(buffer, First + Len(batch))
    /\ queue = <<>>
    /\ \A k \in 1 .. Len(batch) : script[batch[k]] \in Commands

\* The batch ends with the last message that was read, but for a blank line.
ProcessInv ==
  at \in {"process", "send"} =>
    /\ batch # <<>> /\ buffer = <<>> /\ First >= 0
    /\ Run(batch, First)
    /\ next \in 1 .. Len(batch) + 1 /\ Len(queue) <= next - 1
    /\ Run(queue, Base)
    /\ at = "send" => queue # <<>>
    /\ \A k \in 1 .. Len(queue) : script[queue[k]] \in Commands
    /\ \A k \in 1 .. Len(batch) - 1 : script[batch[k]] \in Commands
    /\ script[batch[Len(batch)]] \in Commands \cup Queries
    /\ \/ taken = First + Len(batch)
       \/ taken = First + Len(batch) + 1 /\ script[taken] = "empty"

\* Places in the hands of the goroutines or of the backends.
Top == IF at = "send" THEN Base + Len(queue) ELSE Base
UsedInv ==
  /\ \A s \in senders :
       /\ s.cmds # <<>> /\ Increasing(s.cmds)
       /\ \A j \in Elements(s.cmds) : j \in 1 .. taken /\ script[j] \in Commands
       /\ at # "closed" => \A j \in Elements(s.cmds) : j <= Top
       /\ s.result = "sending" => Elements(s.cmds) \cap Elements(applied[s.peer]) = {}
       /\ s.result = "ok" => Elements(s.cmds) \subseteq Elements(applied[s.peer])
  /\ \A s, t \in senders : s.peer = t.peer /\ s # t => Elements(s.cmds) \cap Elements(t.cmds) = {}
  /\ \A p \in Peers : \A j \in Elements(applied[p]) :
       j \in 1 .. taken /\ (at # "closed" => j <= Top)
  /\ at = "send" => \A p \in Peers : \E s \in senders : s.peer = p /\ s.cmds = queue

\* What the client knows.
LastReply == IF replies = <<>> THEN 0 ELSE replies[Len(replies)].to
KnownInv ==
  /\ \A r \in Elements(replies) : r.to \in 1 .. taken /\ r.to <= LastReply
  /\ at # "closed" => LastReply <= Base
  /\ at # "closed" /\ ~cut =>
       /\ \A j \in LastReply + 1 .. Base : script[j] \notin Queries
       /\ \A j \in 1 .. Base : script[j] \in Commands => Ordered!Settled(j)
  /\ \A j \in 1 .. sent : script[j] \in Queries /\ j > LastReply => sent = j

\* Commands are sent in order as long as no goroutine was left behind.
Pending == {s \in senders : s.result = "sending"}
OrderInv ==
  \/ \E r \in Elements(replies) : r.code = 202
  \/ /\ \A p \in Peers : Increasing(applied[p])
     /\ \A s \in Pending : \A i \in Elements(applied[s.peer]), j \in Elements(s.cmds) : i < j
     /\ \A s, t \in Pending : s.peer = t.peer => s = t
     /\ Pending # {} => at \in {"send", "closed"} \/ (at = "parse" /\ cut /\ buffer = <<>>)
     /\ at = "send" => \A s \in Pending : s.cmds = queue

IInv == Types /\ ParseInv /\ ProcessInv /\ UsedInv /\ KnownInv /\ OrderInv

(***************************************************************************)
(* Sequences of places.                                                     *)
(***************************************************************************)
\* The elements of a sequence that grows.
LEMMA ElementsAppend ==
  ASSUME NEW S, NEW s \in Seq(S), NEW x \in S
  PROVE  /\ Append(s, x) \in Seq(S) /\ Append(s, x) # <<>>
         /\ Len(Append(s, x)) = Len(s) + 1
         /\ Append(s, x)[Len(s) + 1] = x
         /\ \A k \in 1 .. Len(s) : Append(s, x)[k] = s[k]
         /\ Elements(Append(s, x)) = Elements(s) \cup {x}
  <1>1. /\ Append(s, x) \in Seq(S) /\ Append(s, x) # <<>>
        /\ Len(Append(s, x)) = Len(s) + 1
        /\ Append(s, x)[Len(s) + 1] = x
        /\ \A k \in 1 .. Len(s) : Append(s, x)[k] = s[k]
    BY AppendProperties
  <1>2. Len(s) \in Nat
    OBVIOUS
  <1>3. Elements(Append(s, x)) = Elements(s) \cup {x}
    BY <1>1, <1>2 DEF Elements
  <1> QED
    BY <1>1, <1>3

\* The elements of two sequences that are joined.
LEMMA ElementsConcat ==
  ASSUME NEW s \in Seq(Nat), NEW t \in Seq(Nat)
  PROVE  /\ s \o t \in Seq(Nat) /\ Len(s \o t) = Len(s) + Len(t)
         /\ \A k \in 1 .. Len(s) : (s \o t)[k] = s[k]
         /\ \A k \in 1 .. Len(t) : (s \o t)[Len(s) + k] = t[k]
         /\ Elements(s \o t) = Elements(s) \cup Elements(t)
  <1>1. /\ s \o t \in Seq(Nat) /\ Len(s \o t) = Len(s) + Len(t)
        /\ \A k \in 1 .. Len(s) + Len(t) : (s \o t)[k] = IF k <= Len(s) THEN s[k] ELSE t[k - Len(s)]
    BY ConcatProperties
  <1>2. Len(s) \in Nat /\ Len(t) \in Nat
    OBVIOUS
  <1>3. \A k \in 1 .. Len(s) : (s \o t)[k] = s[k]
    BY <1>1, <1>2
  <1>4. ASSUME NEW k \in 1 .. Len(t) PROVE (s \o t)[Len(s) + k] = t[k]
    <2>1. Len(s) + k \in 1 .. Len(s) + Len(t) /\ ~(Len(s) + k <= Len(s)) /\ (Len(s) + k) - Len(s) = k
      BY <1>2
    <2> QED
      BY <1>1, <2>1
  <1>5. Elements(s \o t) \subseteq Elements(s) \cup Elements(t)
    <2> SUFFICES ASSUME NEW k \in 1 .. Len(s \o t)
                 PROVE  (s \o t)[k] \in Elements(s) \cup Elements(t)
      BY DEF Elements
    <2>1. CASE k <= Len(s)
      BY <1>1, <1>2, <2>1 DEF Elements
    <2>2. CASE ~(k <= Len(s))
      <3>1. k - Len(s) \in 1 .. Len(t)
        BY <1>1, <1>2, <2>2
      <3> QED
        BY <1>1, <1>2, <2>2, <3>1 DEF Elements
    <2> QED
      BY <2>1, <2>2
  <1>6. Elements(s) \cup Elements(t) \subseteq Elements(s \o t)
    <2>1. \A k \in 1 .. Len(s) : k \in 1 .. Len(s \o t)
      BY <1>1, <1>2
    <2>2. \A k \in 1 .. Len(t) : Len(s) + k \in 1 .. Len(s \o t)
      BY <1>1, <1>2
    <2> QED
      BY <1>3, <1>4, <2>1, <2>2 DEF Elements
  <1> QED
    BY <1>1, <1>3, <1>4, <1>5, <1>6

\* What was joined to a sequence.
LEMMA JoinedPart ==
  ASSUME NEW s \in Seq(Nat), NEW t \in Seq(Nat), t # <<>>
  PROVE  /\ Len(s \o t) > Len(s)
         /\ SubSeq(s \o t, Len(s) + 1, Len(s \o t)) = t
  <1>1. Len(s) \in Nat /\ Len(t) \in Nat /\ Len(t) > 0
    BY EmptySeq
  <1>2. Len(s \o t) = Len(s) + Len(t)
    BY ElementsConcat
  <1>3. /\ Len(s) + 1 \in Len(s) + 1 .. Len(s) + Len(t)
        /\ Len(s) + Len(t) \in Len(s) + 1 .. Len(s) + Len(t)
        /\ (Len(s) + 1) - Len(s) = 1 /\ (Len(s) + Len(t)) - Len(s) = Len(t)
    BY <1>1
  <1>4. SubSeq(s \o t, Len(s) + 1, Len(s) + Len(t)) = SubSeq(t, 1, Len(t))
    BY <1>3, SubSeqOfConcat2
  <1>5. SubSeq(t, 1, Len(t)) = t
    BY SubSeqFull
  <1> QED
    BY <1>1, <1>2, <1>4, <1>5

\* Sequences in order, of which one lies behind the other, are in order when joined.
LEMMA IncreasingConcat ==
  ASSUME NEW s \in Seq(Nat), NEW t \in Seq(Nat), Increasing(s), Increasing(t),
         \A i \in Elements(s), j \in Elements(t) : i < j
  PROVE  Increasing(s \o t)
  <1>1. Len(s) \in Nat /\ Len(t) \in Nat
    OBVIOUS
  <1>2. /\ Len(s \o t) = Len(s) + Len(t)
        /\ \A k \in 1 .. Len(s) + Len(t) : (s \o t)[k] = IF k <= Len(s) THEN s[k] ELSE t[k - Len(s)]
    BY ConcatProperties
  <1> SUFFICES ASSUME NEW j \in 1 .. Len(s \o t), NEW k \in 1 .. Len(s \o t), j < k
               PROVE  (s \o t)[j] < (s \o t)[k]
    BY DEF Increasing
  <1>3. CASE k <= Len(s)
    BY <1>1, <1>2, <1>3 DEF Increasing
  <1>4. CASE j <= Len(s) /\ ~(k <= Len(s))
    <2>1. k - Len(s) \in 1 .. Len(t) /\ j \in 1 .. Len(s)
      BY <1>1, <1>2, <1>4
    <2>2. s[j] \in Elements(s) /\ t[k - Len(s)] \in Elements(t)
      BY <2>1 DEF Elements
    <2> QED
      BY <1>1, <1>2, <1>4, <2>2
  <1>5. CASE ~(j <= Len(s))
    <2>1. j - Len(s) \in 1 .. Len(t) /\ k - Len(s) \in 1 .. Len(t) /\ j - Len(s) < k - Len(s)
          /\ ~(k <= Len(s))
      BY <1>1, <1>2, <1>5
    <2> QED
      BY <1>1, <1>2, <1>5, <2>1 DEF Increasing
  <1> QED
    BY <1>1, <1>2, <1>3, <1>4, <1>5

\* Runs of adjacent places.
LEMMA RunElements ==
  ASSUME NEW s \in Seq(Nat), NEW b \in Nat, Run(s, b)
  PROVE  Elements(s) = b + 1 .. b + Len(s) /\ Increasing(s)
  <1>1. Len(s) \in Nat
    OBVIOUS
  <1>2. \A x \in b + 1 .. b + Len(s) : x - b \in 1 .. Len(s) /\ s[x - b] = x
    BY <1>1 DEF Run
  <1>3. \A k \in 1 .. Len(s) : s[k] \in b + 1 .. b + Len(s)
    BY <1>1 DEF Run
  <1>4. Increasing(s)
    BY <1>1 DEF Run, Increasing
  <1> QED
    BY <1>2, <1>3, <1>4 DEF Elements

LEMMA RunAppend ==
  ASSUME NEW s \in Seq(Nat), NEW b \in Nat, Run(s, b)
  PROVE  Run(Append(s, b + Len(s) + 1), b)
  <1>1. Len(s) \in Nat /\ b + Len(s) + 1 \in Nat
    OBVIOUS
  <1>2. /\ Len(Append(s, b + Len(s) + 1)) = Len(s) + 1
        /\ Append(s, b + Len(s) + 1)[Len(s) + 1] = b + Len(s) + 1
        /\ \A k \in 1 .. Len(s) : Append(s, b + Len(s) + 1)[k] = s[k]
    BY <1>1, ElementsAppend
  <1> QED
    BY <1>1, <1>2 DEF Run

LEMMA RunTail ==
  ASSUME NEW s \in Seq(Nat), NEW b \in Nat, Run(s, b), s # <<>>
  PROVE  /\ Head(s) = b + 1 /\ Tail(s) \in Seq(Nat) /\ Len(Tail(s)) = Len(s) - 1
         /\ Run(Tail(s), b + 1) /\ Len(s) > 0
  <1>1. Len(s) \in Nat /\ Len(s) > 0
    BY EmptySeq
  <1>2. /\ Head(s) = s[1] /\ Tail(s) \in Seq(Nat) /\ Len(Tail(s)) = Len(s) - 1
        /\ \A k \in 1 .. Len(Tail(s)) : Tail(s)[k] = s[k + 1]
    BY HeadTailProperties
  <1> QED
    BY <1>1, <1>2 DEF Run

(***************************************************************************)
(* What is the same for many actions.                                       *)
(***************************************************************************)
LEMMA Numbers ==
  ASSUME Types
  PROVE  /\ sent \in Nat /\ taken \in Nat /\ Len(script) \in Nat
         /\ Len(buffer) \in Nat /\ Len(batch) \in Nat /\ Len(queue) \in Nat
         /\ taken <= sent /\ sent <= Len(script)
         /\ \A s \in senders : s.peer \in Peers /\ s.cmds \in Seq(Nat)
         /\ \A p \in Peers : applied[p] \in Seq(Nat)
         /\ \A j \in 1 .. Len(script) : script[j] \in Kinds
  <1>1. script \in Seq(Kinds) /\ Len(script) \in Nat
    BY ScriptsAssumption DEF Types
  <1>2. \A j \in 1 .. Len(script) : script[j] \in Kinds
    BY <1>1, ElementOfSeq
  <1>3. buffer \in Seq(Nat) /\ batch \in Seq(Nat) /\ queue \in Seq(Nat)
    BY DEF Types
  <1>4. Len(buffer) \in Nat /\ Len(batch) \in Nat /\ Len(queue) \in Nat
    BY <1>3
  <1> QED
    BY <1>1, <1>2, <1>4 DEF Types, Senders

\* The client counts places from 1.
LEMMA LastReplyType ==
  ASSUME Types
  PROVE  LastReply \in Nat
  <1>1. replies # <<>> => replies[Len(replies)] \in Replies
    BY EmptySeq, ElementOfSeq DEF Types
  <1> QED
    BY <1>1 DEF LastReply, Replies

\* Where the handled part of the stream ends.
LEMMA BaseType ==
  ASSUME IInv, at # "closed"
  PROVE  /\ First \in Nat /\ Base \in Nat /\ Top \in Nat
         /\ Base <= Top /\ Top <= taken /\ First <= Base
         /\ at \in {"process", "send"} => First + Len(batch) <= taken
  <1>0. /\ Types /\ ParseInv /\ ProcessInv /\ taken \in Nat
        /\ Len(buffer) \in Nat /\ Len(batch) \in Nat /\ Len(queue) \in Nat
    BY Numbers DEF IInv
  <1>1. CASE at = "parse"
    BY <1>0, <1>1 DEF First, Base, Top, ParseInv, Types
  <1>2. CASE at \in {"process", "send"}
    <2>0. batch \in Seq(Nat) /\ batch # <<>>
      BY <1>0, <1>2 DEF ProcessInv, Types
    <2>1. Len(batch) > 0 /\ batch[1] \in Nat
      BY <2>0
    <2>2. First = batch[1] - 1 /\ Base = First + (next - 1) - Len(queue)
      BY <1>2 DEF First, Base
    <2>3. First >= 0 /\ next \in 1 .. Len(batch) + 1 /\ Len(queue) <= next - 1
      BY <1>0, <1>2 DEF ProcessInv
    <2>4. First + Len(batch) <= taken
      BY <1>0, <1>2, <2>1, <2>2 DEF ProcessInv
    <2>5. Top = (IF at = "send" THEN Base + Len(queue) ELSE Base)
      BY DEF Top
    <2>6. First \in Nat /\ next \in Nat
      BY <1>0, <2>1, <2>2, <2>3
    <2>7. Base \in Nat /\ First <= Base /\ Base + Len(queue) <= taken
      <3>1. Len(batch) \in Nat /\ Len(queue) \in Nat /\ taken \in Nat
        BY <1>0
      <3>2. next <= Len(batch) + 1
        BY <2>3
      <3>3. Base = First + (next - 1) - Len(queue)
        BY <2>2
      <3> QED
        BY <2>3, <2>4, <2>6, <3>1, <3>2, <3>3
    <2> QED
      BY <1>0, <2>4, <2>5, <2>6, <2>7
  <1> QED
    BY <1>0, <1>1, <1>2 DEF Types

\* A step that neither sends commands nor hears of them.
LEMMA UsedFrame ==
  ASSUME IInv, UNCHANGED <<script, senders, applied>>, taken' \in Nat, taken <= taken',
         at' # "closed" => at # "closed" /\ Top' \in Int /\ Top <= Top',
         at' = "send" => at = "send" /\ queue' = queue
  PROVE  UsedInv'
  <1>0. UsedInv /\ taken \in Nat
    BY Numbers DEF IInv
  <1>1. \A j \in 1 .. taken : j \in 1 .. taken'
    BY <1>0
  <1>2. /\ \A s \in senders : \A j \in Elements(s.cmds) : j \in 1 .. taken'
        /\ \A p \in Peers : \A j \in Elements(applied[p]) : j \in 1 .. taken'
    BY <1>0, <1>1, Zenon DEF UsedInv
  <1>3. ASSUME at' # "closed"
        PROVE  /\ \A s \in senders : \A j \in Elements(s.cmds) : j <= Top'
               /\ \A p \in Peers : \A j \in Elements(applied[p]) : j <= Top'
    <2>1. at # "closed" /\ Top \in Nat /\ Top' \in Int /\ Top <= Top'
      BY <1>3, BaseType
    <2>2. \A j \in 1 .. taken : j <= Top => j <= Top'
      BY <1>0, <2>1
    <2> QED
      BY <1>0, <2>1, <2>2 DEF UsedInv
  <1>4. at' = "send" => \A p \in Peers : \E s \in senders : s.peer = p /\ s.cmds = queue'
    BY <1>0 DEF UsedInv
  <1>5. /\ \A s \in senders :
             /\ s.cmds # <<>> /\ Increasing(s.cmds)
             /\ \A j \in Elements(s.cmds) : script[j] \in Commands
             /\ s.result = "sending" => Elements(s.cmds) \cap Elements(applied[s.peer]) = {}
             /\ s.result = "ok" => Elements(s.cmds) \subseteq Elements(applied[s.peer])
        /\ \A s, t \in senders :
             s.peer = t.peer /\ s # t => Elements(s.cmds) \cap Elements(t.cmds) = {}
    BY <1>0, Zenon DEF UsedInv
  <1> QED
    BY <1>2, <1>3, <1>4, <1>5, Zenon DEF UsedInv

\* A step after which no goroutine is left behind that was not before.
Waits == at \in {"send", "closed"} \/ (at = "parse" /\ cut /\ buffer = <<>>)
LEMMA OrderFrame ==
  ASSUME OrderInv, UNCHANGED <<senders, applied>>, Elements(replies) \subseteq Elements(replies'),
         Waits => Waits',
         at' = "send" => at = "send" /\ queue' = queue
  PROVE  OrderInv'
  <1>1. CASE \E r \in Elements(replies) : r.code = 202
    BY <1>1 DEF OrderInv
  <1>2. CASE ~ \E r \in Elements(replies) : r.code = 202
    <2>1. Pending' = Pending
      BY DEF Pending
    <2> QED
      BY <1>2, <2>1 DEF OrderInv, Waits
  <1> QED
    BY <1>1, <1>2

\* A command stays settled.
LEMMA SettledStays ==
  ASSUME Elements(replies) \subseteq Elements(replies'),
         \A p \in Peers : Elements(applied[p]) \subseteq Elements(applied'[p]),
         NEW j, Ordered!Settled(j)
  PROVE  Ordered!Settled(j)'
  <1>1. \A q : Ordered!Elements(q) = Elements(q)
    BY DEF Ordered!Elements, Elements
  <1>2. CASE \A p \in Peers : j \in Ordered!Elements(applied[p])
    <2>1. \A p \in Peers : j \in Ordered!Elements(applied'[p])
      BY <1>1, <1>2
    <2> QED
      BY <2>1 DEF Ordered!Settled
  <1>3. CASE \E r \in Ordered!Elements(replies) : r.to >= j /\ r.code # Ordered!OK
    <2>1. \E r \in Ordered!Elements(replies') : r.to >= j /\ r.code # Ordered!OK
      BY <1>1, <1>3
    <2> QED
      BY <2>1 DEF Ordered!Settled, Ordered!OK
  <1> QED
    BY <1>2, <1>3 DEF Ordered!Settled

\* A step that sends no reply and leaves behind no query and only settled commands.
LEMMA KnownFrame ==
  ASSUME IInv, UNCHANGED <<script, sent, replies>>, cut => cut',
         \A p \in Peers : Elements(applied[p]) \subseteq Elements(applied'[p]),
         taken' \in Nat, taken <= taken',
         at' # "closed" =>
           /\ at # "closed" /\ Base' \in Int /\ Base <= Base'
           /\ ~cut' => \A j \in Base + 1 .. Base' :
                        script[j] \notin Queries /\ (script[j] \in Commands => Ordered!Settled(j)')
  PROVE  KnownInv'
  <1> USE Numbers
  <1>1. LastReply' = LastReply /\ LastReply \in Nat
    BY LastReplyType DEF IInv, LastReply
  <1>2. \A r \in Elements(replies') : r.to \in 1 .. taken' /\ r.to <= LastReply'
    BY <1>1 DEF IInv, KnownInv
  <1>3. ASSUME at' # "closed" PROVE LastReply' <= Base'
    BY <1>1, <1>3, BaseType DEF IInv, KnownInv
  <1>4. ASSUME at' # "closed", ~cut'
        PROVE  /\ \A j \in LastReply' + 1 .. Base' : script'[j] \notin Queries
               /\ \A j \in 1 .. Base' : script'[j] \in Commands => Ordered!Settled(j)'
    <2>1. Base \in Nat /\ Base' \in Int /\ ~cut /\ at # "closed"
      BY <1>4, BaseType
    <2>2. ASSUME NEW j \in LastReply + 1 .. Base' PROVE script[j] \notin Queries
      <3>1. CASE j <= Base
        BY <1>1, <1>4, <2>1, <3>1 DEF IInv, KnownInv
      <3>2. CASE ~(j <= Base)
        BY <1>1, <1>4, <2>1, <3>2
      <3> QED
        BY <3>1, <3>2
    <2>3. ASSUME NEW j \in 1 .. Base', script[j] \in Commands PROVE Ordered!Settled(j)'
      <3>1. CASE j <= Base
        <4>1. Ordered!Settled(j)
          BY <2>1, <2>3, <3>1 DEF IInv, KnownInv
        <4> QED
          BY <4>1, SettledStays
      <3>2. CASE ~(j <= Base)
        BY <1>4, <2>1, <2>3, <3>2
      <3> QED
        BY <3>1, <3>2
    <2> QED
      BY <1>1, <2>2, <2>3
  <1>5. \A j \in 1 .. sent' : script'[j] \in Queries /\ j > LastReply' => sent' = j
    BY <1>1 DEF IInv, KnownInv
  <1> QED
    BY <1>2, <1>3, <1>4, <1>5 DEF KnownInv

\* The last reply, when one more is sent.
LEMMA ReplySent ==
  ASSUME Types, ~cut, NEW i \in Nat, NEW code \in Codes, Send(i, code)
  PROVE  /\ replies' \in Seq(Replies) /\ LastReply' = i
         /\ replies' = Append(replies, [to |-> i, code |-> code])
         /\ Elements(replies') = Elements(replies) \cup {[to |-> i, code |-> code]}
  <1>1. replies \in Seq(Replies) /\ [to |-> i, code |-> code] \in Replies
    BY DEF Types, Replies
  <1>2. replies' = Append(replies, [to |-> i, code |-> code])
    BY DEF Send
  <1>3. /\ replies' \in Seq(Replies) /\ replies' # <<>>
        /\ Len(replies') = Len(replies) + 1
        /\ replies'[Len(replies) + 1] = [to |-> i, code |-> code]
        /\ Elements(replies') = Elements(replies) \cup {[to |-> i, code |-> code]}
    BY <1>1, <1>2, ElementsAppend
  <1> QED
    BY <1>2, <1>3 DEF LastReply

\* A reply to a request that has not been settled: the client knows of everything before.
LEMMA ReplyStep ==
  ASSUME IInv, at # "closed", NEW i \in Nat, NEW code \in Codes, Send(i, code),
         UNCHANGED <<script, sent, taken, applied, cut>>,
         Base < i, i <= taken,
         \A j \in Base + 1 .. i - 1 : script[j] \notin Queries,
         code = 200 => i = Base + 1 /\ script[i] \in Queries,
         at' # "closed" => Base' \in Int /\ Base <= Base' /\ (~cut => Base' = i)
  PROVE  /\ KnownInv' /\ replies' \in Seq(Replies)
         /\ Elements(replies) \subseteq Elements(replies')
         /\ [Ordered!Next]_<<script, replies, applied>>
  <1>1. CASE cut
    <2>1. replies' = replies
      BY <1>1 DEF Send
    <2>2. taken' \in Nat /\ taken <= taken' /\ cut' = cut
      BY Numbers DEF IInv
    <2>3. KnownInv'
      BY <1>1, <2>1, <2>2, KnownFrame
    <2> QED
      BY <2>1, <2>3 DEF IInv, Types
  <1>2. CASE ~cut
    <2>1. /\ replies' \in Seq(Replies) /\ LastReply' = i
          /\ replies' = Append(replies, [to |-> i, code |-> code])
          /\ Elements(replies') = Elements(replies) \cup {[to |-> i, code |-> code]}
      BY <1>2, ReplySent DEF IInv
    <2>2. /\ LastReply \in Nat /\ Base \in Nat /\ taken \in Nat /\ sent \in Nat
          /\ LastReply <= Base /\ taken <= sent /\ sent <= Len(script) /\ Len(script) \in Nat
      BY LastReplyType, BaseType, Numbers DEF IInv, KnownInv
    <2>3. ASSUME NEW j \in LastReply + 1 .. i - 1 PROVE script[j] \notin Queries
      <3>1. CASE j <= Base
        BY <1>2, <2>2, <3>1 DEF IInv, KnownInv
      <3>2. CASE ~(j <= Base)
        BY <2>2, <3>2
      <3> QED
        BY <3>1, <3>2
    <2>4. \A r \in Elements(replies') : r.to \in 1 .. taken' /\ r.to <= LastReply'
      <3>1. \A r \in Elements(replies) : r.to \in 1 .. taken /\ r.to <= LastReply
        BY DEF IInv, KnownInv
      <3>2. \A n \in 1 .. taken : n <= LastReply => n <= i
        BY <2>2
      <3>3. \A r \in Elements(replies) : r.to \in 1 .. taken /\ r.to <= i
        BY <3>1, <3>2
      <3>4. i \in 1 .. taken /\ i <= i
        BY <2>2
      <3> QED
        BY <2>1, <3>3, <3>4
    <2>5. ASSUME NEW j \in 1 .. Base, script[j] \in Commands PROVE Ordered!Settled(j)'
      <3>1. Ordered!Settled(j)
        BY <1>2, <2>2, <2>5 DEF IInv, KnownInv
      <3> QED
        BY <2>1, <3>1, SettledStays
    <2>6. ASSUME NEW j \in Base + 1 .. i, script[j] \in Commands PROVE Ordered!Settled(j)'
      <3>1. code # 200
        BY <2>2, <2>6 DEF Queries, Commands
      <3>2. [to |-> i, code |-> code] \in Ordered!Elements(replies')
        BY <2>1 DEF Ordered!Elements, Elements
      <3> QED
        BY <2>2, <3>1, <3>2 DEF Ordered!Settled, Ordered!OK
    <2>7. ASSUME at' # "closed"
          PROVE  /\ LastReply' <= Base'
                 /\ \A j \in LastReply' + 1 .. Base' : script'[j] \notin Queries
                 /\ \A j \in 1 .. Base' : script'[j] \in Commands => Ordered!Settled(j)'
      <3>1. Base' = i
        BY <1>2, <2>7
      <3>2. \A j \in 1 .. i : j \in 1 .. Base \/ j \in Base + 1 .. i
        BY <2>2
      <3>3. \A j \in i + 1 .. i : FALSE
        OBVIOUS
      <3> QED
        BY <2>1, <2>5, <2>6, <3>1, <3>2, <3>3
    <2>8. \A j \in 1 .. sent' : script'[j] \in Queries /\ j > LastReply' => sent' = j
      <3>1. \A j \in 1 .. sent : j > i => j > LastReply
        BY <2>2
      <3> QED
        BY <2>1, <3>1 DEF IInv, KnownInv
    <2>9. KnownInv'
      BY <2>4, <2>7, <2>8 DEF KnownInv
    <2>10. Ordered!Reply(i, code)
      <3>1. Ordered!Last(replies) = LastReply
        BY DEF Ordered!Last, LastReply
      <3>2. ASSUME code = 200, NEW j \in 1 .. i - 1, script[j] \in Commands
            PROVE  Ordered!Settled(j)
        BY <1>2, <2>2, <3>2 DEF IInv, KnownInv
      <3> QED
        BY <2>1, <2>2, <2>3, <3>1, <3>2 DEF Ordered!Reply, Ordered!OK
    <2>11. Ordered!Next
      <3>1. i \in 1 .. Len(script)
        BY <2>2
      <3> QED
        BY <2>10, <3>1 DEF Ordered!Next, Codes
    <2> QED
      BY <2>1, <2>9, <2>11
  <1> QED
    BY <1>1, <1>2

\* A step that leaves the reader and the batch alone.
LEMMA PartsFrame ==
  ASSUME IInv, UNCHANGED <<script, taken, buffer, at, batch, next, queue>>
  PROVE  /\ ParseInv' /\ ProcessInv'
         /\ First' = First /\ Base' = Base /\ Top' = Top
         /\ at' # "closed" => Top' \in Int /\ Top <= Top' /\ Base' \in Int /\ Base <= Base'
  <1>1. First' = First
    BY DEF First
  <1>2. Base' = Base
    BY <1>1 DEF Base
  <1>3. Top' = Top
    BY <1>2 DEF Top
  <1>4. at' # "closed" => Top' \in Int /\ Top <= Top' /\ Base' \in Int /\ Base <= Base'
    <2>1. at' # "closed" => Top \in Nat /\ Base \in Nat
      BY BaseType
    <2> QED
      BY <1>2, <1>3, <2>1
  <1>5. ParseInv'
    BY <1>1 DEF IInv, ParseInv, Run
  <1>6. ProcessInv'
    BY <1>1, <1>2 DEF IInv, ProcessInv, Run
  <1> QED
    BY <1>1, <1>2, <1>3, <1>4, <1>5, <1>6

(***************************************************************************)
(* The steps of the client and of Handle.                                   *)
(***************************************************************************)
LEMMA ClientSendsInv ==
  ASSUME IInv, ClientSends
  PROVE  IInv' /\ UNCHANGED <<script, replies, applied>>
  <1>0. /\ UNCHANGED <<script, taken, buffer, at, batch, next, queue>>
        /\ UNCHANGED <<eof, ended, keepAlive, cut, senders, replies, applied>>
        /\ sent' = sent + 1 /\ sent < Len(script) /\ at # "closed"
    BY DEF ClientSends, reading
  <1>1. sent \in Nat /\ taken \in Nat /\ Len(script) \in Nat /\ taken <= sent
    BY Numbers DEF IInv
  <1>2. Types'
    <2>1. sent' \in 0 .. Len(script) /\ taken \in 0 .. sent'
      BY <1>0, <1>1
    <2> QED
      BY <1>0, <2>1 DEF IInv, Types
  <1>3. ParseInv' /\ ProcessInv' /\ Base' = Base /\ Top' = Top
        /\ Top' \in Int /\ Top <= Top'
    BY <1>0, PartsFrame
  <1>4. UsedInv'
    BY <1>0, <1>1, <1>3, UsedFrame
  <1>5. KnownInv'
    <2>1. LastReply' = LastReply
      BY <1>0 DEF LastReply
    <2>2. \A j : Ordered!Settled(j)' <=> Ordered!Settled(j)
      BY <1>0 DEF Ordered!Settled
    <2>3. \A j \in 1 .. sent' : script[j] \in Queries /\ j > LastReply => sent' = j
      <3>1. ASSUME NEW j \in 1 .. sent, script[j] \in Queries, j > LastReply PROVE FALSE
        <4>1. PICK r \in Elements(replies) : r.to = j
          BY <3>1 DEF ClientSends, Replied
        <4>2. LastReply \in Nat
          BY LastReplyType DEF IInv
        <4>3. j <= LastReply
          BY <4>1 DEF IInv, KnownInv
        <4> QED
          BY <1>1, <3>1, <4>2, <4>3
      <3>2. \A j \in 1 .. sent' : j \in 1 .. sent \/ j = sent'
        BY <1>0, <1>1
      <3> QED
        BY <3>1, <3>2
    <2> QED
      BY <1>0, <1>3, <2>1, <2>2, <2>3 DEF IInv, KnownInv
  <1>6. OrderInv'
    BY <1>0, OrderFrame DEF IInv, Waits
  <1> QED
    BY <1>0, <1>2, <1>3, <1>4, <1>5, <1>6 DEF IInv

\* The client or Handle closes a side of the connection.
LEMMA ClosesInv ==
  ASSUME IInv, ClientCloses \/ HandleTimeout
  PROVE  IInv' /\ UNCHANGED <<script, replies, applied>>
  <1>0. /\ UNCHANGED <<script, taken, buffer, at, batch, next, queue>>
        /\ UNCHANGED <<sent, ended, keepAlive, senders, replies, applied>>
        /\ cut' \in BOOLEAN /\ eof' \in BOOLEAN /\ at # "closed" /\ (cut => cut')
    BY DEF ClientCloses, HandleTimeout, client, reading, IInv, Types
  <1>1. taken \in Nat /\ taken <= taken
    BY Numbers DEF IInv
  <1>2. Types'
    BY <1>0 DEF IInv, Types
  <1>3. ParseInv' /\ ProcessInv' /\ Base' = Base /\ Top' = Top
        /\ Top' \in Int /\ Top <= Top' /\ Base' \in Int /\ Base <= Base'
    BY <1>0, PartsFrame
  <1>4. UsedInv'
    BY <1>0, <1>1, <1>3, UsedFrame
  <1>5. KnownInv'
    <2>1. \A j \in Base + 1 .. Base' : FALSE
      BY <1>3
    <2> QED
      BY <1>0, <1>1, <1>3, <2>1, KnownFrame
  <1>6. OrderInv'
    BY <1>0, OrderFrame DEF IInv, Waits
  <1> QED
    BY <1>0, <1>2, <1>3, <1>4, <1>5, <1>6 DEF IInv

(***************************************************************************)
(* answer and ParseRequests.                                                *)
(***************************************************************************)
\* The return of answer.
LEMMA ReturnFrame ==
  ASSUME IInv, Return, UNCHANGED <<script, senders, applied>>,
         Elements(replies) \subseteq Elements(replies')
  PROVE  ParseInv' /\ ProcessInv' /\ UsedInv' /\ OrderInv'
  <1>0. at' = "closed" /\ taken' = taken /\ taken' \in Nat /\ taken <= taken'
    BY Numbers DEF Return, reading, IInv
  <1>1. ParseInv' /\ ProcessInv'
    BY <1>0 DEF ParseInv, ProcessInv
  <1>2. UsedInv'
    BY <1>0, UsedFrame
  <1>3. OrderInv'
    BY <1>0, OrderFrame DEF IInv, Waits
  <1> QED
    BY <1>1, <1>2, <1>3

\* The next call of ParseRequests: everything that was read is behind.
LEMMA ParseAgainFrame ==
  ASSUME IInv, at # "closed", ParseAgain, queue' = <<>>, UNCHANGED <<script, senders, applied>>
  PROVE  /\ ParseInv' /\ ProcessInv' /\ UsedInv'
         /\ Base' = taken /\ Base' \in Nat /\ Base <= Base'
  <1>0. at' = "parse" /\ buffer' = <<>> /\ batch' = <<>> /\ taken' = taken /\ taken \in Nat
    BY Numbers DEF ParseAgain, IInv
  <1>1. First' = taken /\ Base' = taken /\ Top' = taken
    BY <1>0 DEF First, Base, Top
  <1>2. Base \in Nat /\ Top \in Nat /\ Base <= Top /\ Top <= taken
    BY BaseType
  <1>3. ParseInv' /\ ProcessInv'
    BY <1>0, <1>1 DEF ParseInv, ProcessInv, Run
  <1>4. UsedInv'
    BY <1>0, <1>1, <1>2, UsedFrame
  <1> QED
    BY <1>0, <1>1, <1>2, <1>3, <1>4

\* A batch is handed over to processRequests.
LEMMA ToProcess ==
  ASSUME at' = "process", next' = 1, queue' = <<>>, buffer' = <<>>, script' = script,
         batch' \in Seq(Nat), batch' # <<>>,
         NEW F \in Nat, Run(batch', F),
         \A k \in 1 .. Len(batch') - 1 : script[batch'[k]] \in Commands,
         script[batch'[Len(batch')]] \in Commands \cup Queries,
         \/ taken' = F + Len(batch')
         \/ taken' = F + Len(batch') + 1 /\ script[taken'] = "empty"
  PROVE  ParseInv' /\ ProcessInv' /\ Base' = F /\ Top' = F
  <1>1. Len(batch') \in Nat /\ Len(batch') > 0 /\ Len(queue') = 0
    BY EmptySeq
  <1>2. batch'[1] = F + 1
    BY <1>1 DEF Run
  <1>3. First' = F
    BY <1>2 DEF First
  <1>4. Base' = F /\ Top' = F
    BY <1>1, <1>3 DEF Base, Top
  <1>5. ParseInv'
    BY DEF ParseInv
  <1>6. Run(queue', Base')
    BY <1>1 DEF Run
  <1>7. Run(batch', First')
    BY <1>3
  <1>8. ProcessInv'
    BY <1>1, <1>3, <1>6, <1>7 DEF ProcessInv
  <1> QED
    BY <1>4, <1>5, <1>8

\* The message that is parsed next.
LEMMA ParseHead ==
  ASSUME IInv, at = "parse", buffer # <<>>
  PROVE  /\ First \in Nat /\ Base = First /\ Top = First
         /\ Head(buffer) = First + Len(batch) + 1 /\ Head(buffer) \in Nat
         /\ Head(buffer) <= taken
         /\ taken = First + Len(batch) + Len(buffer)
         /\ Tail(buffer) \in Seq(Nat) /\ Len(Tail(buffer)) = Len(buffer) - 1
         /\ Run(Tail(buffer), First + Len(batch) + 1)
         /\ Len(batch) \in Nat /\ Len(buffer) \in Nat /\ Len(buffer) > 0
         /\ queue = <<>>
  <1>0. taken \in Nat /\ Len(batch) \in Nat /\ Len(buffer) \in Nat /\ buffer \in Seq(Nat)
    BY Numbers DEF IInv, Types
  <1>1. /\ First = taken - (Len(buffer) + Len(batch)) /\ Base = First /\ Top = First
        /\ Run(buffer, First + Len(batch)) /\ First >= 0 /\ queue = <<>>
    BY DEF First, Base, Top, IInv, ParseInv
  <1>2. First \in Nat /\ First + Len(batch) \in Nat /\ taken = First + Len(batch) + Len(buffer)
    BY <1>0, <1>1
  <1>3. /\ Head(buffer) = First + Len(batch) + 1 /\ Tail(buffer) \in Seq(Nat)
        /\ Len(Tail(buffer)) = Len(buffer) - 1
        /\ Run(Tail(buffer), First + Len(batch) + 1) /\ Len(buffer) > 0
    BY <1>0, <1>1, <1>2, RunTail
  <1> QED
    BY <1>0, <1>1, <1>2, <1>3

\* Nothing was read behind a query, whose reply the client waits for, or a blank line.
LEMMA ParseLast ==
  ASSUME IInv, at = "parse", buffer # <<>>, script[Head(buffer)] \in Queries \cup {"empty"}
  PROVE  Tail(buffer) = <<>> /\ taken = Head(buffer)
  <1>0. /\ sent \in Nat /\ taken \in Nat /\ Len(script) \in Nat
        /\ taken <= sent /\ sent <= Len(script)
    BY Numbers DEF IInv
  <1>1. Head(buffer) \in 1 .. taken /\ Head(buffer) > Base
    BY <1>0, ParseHead
  <1>2. taken = Head(buffer)
    <2>1. CASE script[Head(buffer)] \in Queries
      <3>1. LastReply \in Nat
        BY LastReplyType DEF IInv
      <3>2. LastReply <= Base /\ Base \in Nat
        BY BaseType DEF IInv, KnownInv
      <3>3. Head(buffer) > LastReply /\ Head(buffer) \in 1 .. sent
        BY <1>0, <1>1, <3>1, <3>2
      <3>4. sent = Head(buffer)
        BY <2>1, <3>3 DEF IInv, KnownInv
      <3> QED
        BY <1>0, <1>1, <3>4
    <2>2. CASE script[Head(buffer)] = "empty"
      <3>1. Head(buffer) \notin 1 .. Len(script) - 1
        BY <2>2, BlankAssumption DEF IInv, Types
      <3> QED
        BY <1>0, <1>1, <3>1
    <2> QED
      BY <2>1, <2>2
  <1>3. Len(Tail(buffer)) = 0 /\ Tail(buffer) \in Seq(Nat)
    BY <1>2, ParseHead
  <1>4. Tail(buffer) = <<>>
    BY <1>3, EmptySeq
  <1> QED
    BY <1>2, <1>4

LEMMA ReadMoreInv ==
  ASSUME IInv, ReadMore
  PROVE  IInv' /\ UNCHANGED <<script, replies, applied>>
  <1>0. /\ UNCHANGED <<script, sent, eof, at, batch, ended, next, queue, keepAlive, cut>>
        /\ UNCHANGED <<senders, replies, applied>>
        /\ at = "parse" /\ buffer = <<>> /\ ~cut /\ taken < sent
    BY DEF ReadMore, client
  <1>1. sent \in Nat /\ taken \in Nat /\ Len(batch) \in Nat /\ Len(buffer) = 0
    BY <1>0, Numbers DEF IInv
  <1>2. PICK n \in 1 .. sent - taken :
          buffer' = [k \in 1 .. n |-> taken + k] /\ taken' = taken + n
    BY DEF ReadMore
  <1>3. n \in Nat /\ taken' \in 0 .. sent /\ taken' \in Nat /\ taken <= taken'
    BY <1>1, <1>2
  <1>4. buffer' \in Seq(Nat) /\ Len(buffer') = n /\ Run(buffer', taken)
    BY <1>1, <1>2, <1>3 DEF Run
  <1>5. Types'
    BY <1>0, <1>3, <1>4 DEF IInv, Types
  <1>6. First = taken - Len(batch) /\ First' = taken - Len(batch)
    BY <1>0, <1>1, <1>2, <1>3, <1>4 DEF First
  <1>7. First' = First /\ Base' = First /\ Base = First /\ Top' = First /\ Top = First
        /\ First \in Nat /\ First + Len(batch) = taken
    <2>1. First \in Nat
      BY <1>0, BaseType
    <2> QED
      BY <1>0, <1>1, <1>6, <2>1 DEF Base, Top
  <1>8. ParseInv' /\ ProcessInv'
    <2>1. ProcessInv'
      BY <1>0 DEF ProcessInv
    <2>2. First >= 0 /\ Run(batch, First) /\ queue = <<>>
          /\ \A k \in 1 .. Len(batch) : script[batch[k]] \in Commands
      BY <1>0 DEF IInv, ParseInv
    <2>3. Run(buffer', First' + Len(batch'))
      BY <1>0, <1>4, <1>7
    <2>4. Run(batch', First')
      BY <1>0, <1>7, <2>2
    <2> QED
      BY <1>0, <1>7, <2>1, <2>2, <2>3, <2>4 DEF ParseInv
  <1>9. UsedInv'
    BY <1>0, <1>3, <1>7, UsedFrame
  <1>10. KnownInv'
    <2>1. \A j \in Base + 1 .. Base' : FALSE
      BY <1>7
    <2> QED
      BY <1>0, <1>3, <1>7, <2>1, KnownFrame
  <1>11. OrderInv'
    BY <1>0, OrderFrame DEF IInv, Waits
  <1> QED
    BY <1>0, <1>5, <1>8, <1>9, <1>10, <1>11 DEF IInv

LEMMA ParseCommandInv ==
  ASSUME IInv, ParseCommand
  PROVE  IInv' /\ UNCHANGED <<script, replies, applied>>
  <1>0. /\ UNCHANGED <<script, sent, eof, taken, at, ended, next, queue, keepAlive, cut>>
        /\ UNCHANGED <<senders, replies, applied>>
        /\ at = "parse" /\ buffer # <<>> /\ script[Head(buffer)] \in Commands
        /\ batch' = Append(batch, Head(buffer)) /\ buffer' = Tail(buffer)
    BY DEF ParseCommand, Parses, client
  <1>1. /\ First \in Nat /\ Base = First /\ Top = First
        /\ Head(buffer) = First + Len(batch) + 1 /\ Head(buffer) \in Nat
        /\ Tail(buffer) \in Seq(Nat) /\ Len(Tail(buffer)) = Len(buffer) - 1
        /\ Run(Tail(buffer), First + Len(batch) + 1)
        /\ Len(batch) \in Nat /\ Len(buffer) \in Nat /\ batch \in Seq(Nat)
        /\ taken \in Nat /\ taken <= taken
    <2>1. taken \in Nat /\ batch \in Seq(Nat)
      BY Numbers DEF IInv, Types
    <2> QED
      BY <1>0, <2>1, ParseHead
  <1>2. /\ batch' \in Seq(Nat) /\ Len(batch') = Len(batch) + 1
        /\ batch'[Len(batch) + 1] = Head(buffer)
        /\ \A k \in 1 .. Len(batch) : batch'[k] = batch[k]
    BY <1>0, <1>1, ElementsAppend
  <1>3. Run(batch', First)
    BY <1>0, <1>1, RunAppend DEF IInv, ParseInv
  <1>4. Types'
    BY <1>0, <1>1, <1>2 DEF IInv, Types
  <1>5. First' = First /\ Base' = First /\ Top' = First
    <2>1. First = taken - (Len(buffer) + Len(batch))
          /\ First' = taken' - (Len(buffer') + Len(batch'))
      BY <1>0 DEF First
    <2>2. Len(buffer') = Len(buffer) - 1 /\ Len(batch') = Len(batch) + 1
      BY <1>0, <1>1, <1>2
    <2>3. First' = First
      BY <1>0, <1>1, <2>1, <2>2
    <2> QED
      BY <1>0, <2>3 DEF Base, Top
  <1>6. ParseInv' /\ ProcessInv'
    <2>1. ASSUME NEW k \in 1 .. Len(batch') PROVE script[batch'[k]] \in Commands
      <3>1. k \in 1 .. Len(batch) \/ k = Len(batch) + 1
        BY <1>1, <1>2
      <3> QED
        BY <1>0, <1>2, <3>1 DEF IInv, ParseInv
    <2>2. ProcessInv'
      BY <1>0 DEF ProcessInv
    <2>3. First' + Len(batch') = First + Len(batch) + 1
      BY <1>1, <1>2, <1>5
    <2>4. Run(buffer', First' + Len(batch')) /\ Run(batch', First')
      BY <1>0, <1>1, <1>3, <1>5, <2>3
    <2> QED
      BY <1>0, <1>1, <1>5, <2>1, <2>2, <2>4 DEF IInv, ParseInv
  <1>7. UsedInv'
    BY <1>0, <1>1, <1>5, UsedFrame
  <1>8. KnownInv'
    <2>1. \A j \in Base + 1 .. Base' : FALSE
      BY <1>1, <1>5
    <2> QED
      BY <1>0, <1>1, <1>5, <2>1, KnownFrame
  <1>9. OrderInv'
    BY <1>0, OrderFrame DEF IInv, Waits
  <1> QED
    BY <1>0, <1>4, <1>6, <1>7, <1>8, <1>9 DEF IInv

LEMMA ParseQueryInv ==
  ASSUME IInv, ParseQuery
  PROVE  IInv' /\ UNCHANGED <<script, replies, applied>>
  <1>0. /\ UNCHANGED <<script, sent, eof, taken, ended, queue, keepAlive, cut>>
        /\ UNCHANGED <<senders, replies, applied>>
        /\ at = "parse" /\ buffer # <<>> /\ script[Head(buffer)] \in Queries
        /\ batch' = Append(batch, Head(buffer)) /\ buffer' = Tail(buffer)
        /\ at' = "process" /\ next' = 1
    BY DEF ParseQuery, Parses, client
  <1>1. /\ First \in Nat /\ Base = First /\ Top = First
        /\ Head(buffer) = First + Len(batch) + 1 /\ Head(buffer) \in Nat
        /\ Len(batch) \in Nat /\ queue = <<>>
    BY <1>0, ParseHead
  <1>2. batch \in Seq(Nat) /\ taken \in Nat /\ taken <= taken
    BY Numbers DEF IInv, Types
  <1>3. /\ batch' \in Seq(Nat) /\ batch' # <<>> /\ Len(batch') = Len(batch) + 1
        /\ batch'[Len(batch) + 1] = Head(buffer)
        /\ \A k \in 1 .. Len(batch) : batch'[k] = batch[k]
    BY <1>0, <1>1, <1>2, ElementsAppend
  <1>4. Run(batch', First)
    BY <1>0, <1>1, <1>2, RunAppend DEF IInv, ParseInv
  <1>5. buffer' = <<>> /\ taken = First + Len(batch')
    BY <1>0, <1>1, <1>3, ParseLast
  <1>6. Types'
    BY <1>0, <1>3, <1>5 DEF IInv, Types
  <1>7. ParseInv' /\ ProcessInv' /\ Base' = First /\ Top' = First
    <2>1. \A k \in 1 .. Len(batch') - 1 : script[batch'[k]] \in Commands
      <3>1. Len(batch') - 1 = Len(batch)
        BY <1>1, <1>3
      <3>2. \A k \in 1 .. Len(batch) : script[batch[k]] \in Commands
        BY <1>0 DEF IInv, ParseInv
      <3> QED
        BY <1>3, <3>1, <3>2
    <2>2. script[batch'[Len(batch')]] \in Commands \cup Queries
      BY <1>0, <1>3
    <2> QED
      BY <1>0, <1>1, <1>3, <1>4, <1>5, <2>1, <2>2, ToProcess
  <1>8. UsedInv'
    BY <1>0, <1>1, <1>2, <1>7, UsedFrame
  <1>9. KnownInv'
    <2>1. \A j \in Base + 1 .. Base' : FALSE
      BY <1>1, <1>7
    <2> QED
      BY <1>0, <1>1, <1>2, <1>7, <2>1, KnownFrame
  <1>10. OrderInv'
    BY <1>0, OrderFrame DEF IInv, Waits
  <1> QED
    BY <1>0, <1>6, <1>7, <1>8, <1>9, <1>10 DEF IInv

LEMMA ParseEmptyInv ==
  ASSUME IInv, ParseEmpty
  PROVE  IInv' /\ [Ordered!Next]_<<script, replies, applied>>
  <1>0. /\ UNCHANGED <<script, sent, eof, queue, keepAlive, cut, senders, applied>>
        /\ at = "parse" /\ buffer # <<>> /\ script[Head(buffer)] = "empty"
    BY DEF ParseEmpty, Parses, client
  <1>1. /\ First \in Nat /\ Base = First /\ Top = First
        /\ Head(buffer) = First + Len(batch) + 1 /\ Head(buffer) \in Nat
        /\ Len(batch) \in Nat /\ queue = <<>>
    BY <1>0, ParseHead
  <1>2. Tail(buffer) = <<>> /\ taken = Head(buffer)
    BY <1>0, ParseLast
  <1>3. batch \in Seq(Nat) /\ taken \in Nat /\ taken <= taken
    BY Numbers DEF IInv, Types
  <1>4. CASE /\ batch # <<>>
             /\ at' = "process" /\ next' = 1 /\ buffer' = Tail(buffer)
             /\ UNCHANGED <<taken, batch, ended, replies>>
    <2>1. Types'
      BY <1>0, <1>2, <1>4 DEF IInv, Types
    <2>2. ParseInv' /\ ProcessInv' /\ Base' = First /\ Top' = First
      <3>1. /\ Run(batch, First)
            /\ \A k \in 1 .. Len(batch) : script[batch[k]] \in Commands
        BY <1>0 DEF IInv, ParseInv
      <3>2. Len(batch) \in 1 .. Len(batch)
        BY <1>1, <1>3, <1>4, EmptySeq
      <3>3. /\ \A k \in 1 .. Len(batch') - 1 : script[batch'[k]] \in Commands
            /\ script[batch'[Len(batch')]] \in Commands \cup Queries
        BY <1>1, <1>4, <3>1, <3>2
      <3>4. taken' = First + Len(batch') + 1 /\ script[taken'] = "empty"
        BY <1>0, <1>1, <1>2, <1>4
      <3>5. /\ batch' \in Seq(Nat) /\ batch' # <<>> /\ Run(batch', First)
            /\ queue' = <<>> /\ buffer' = <<>>
        BY <1>0, <1>1, <1>2, <1>3, <1>4, <3>1
      <3> QED
        BY <1>0, <1>1, <1>4, <3>3, <3>4, <3>5, ToProcess
    <2>3. UsedInv'
      BY <1>0, <1>1, <1>3, <1>4, <2>2, UsedFrame
    <2>4. KnownInv'
      <3>1. \A j \in Base + 1 .. Base' : FALSE
        BY <1>1, <2>2
      <3> QED
        BY <1>0, <1>1, <1>3, <1>4, <2>2, <3>1, KnownFrame
    <2>5. OrderInv'
      BY <1>0, <1>4, OrderFrame DEF IInv, Waits
    <2> QED
      BY <1>0, <1>4, <2>1, <2>2, <2>3, <2>4, <2>5 DEF IInv
  <1>5. CASE batch = <<>> /\ keepAlive /\ ParseAgain /\ UNCHANGED <<next, replies>>
    <2>0. UNCHANGED taken /\ at' = "parse" /\ buffer' = <<>> /\ batch' = <<>> /\ ended' = FALSE
      BY <1>5 DEF ParseAgain
    <2>1. Types'
      BY <1>0, <1>5, <2>0 DEF IInv, Types
    <2>2. /\ ParseInv' /\ ProcessInv' /\ UsedInv'
          /\ Base' = taken /\ Base' \in Nat /\ Base <= Base'
      BY <1>0, <1>1, <1>5, ParseAgainFrame
    <2>3. KnownInv'
      <3>1. \A j \in Base + 1 .. Base' : j = Head(buffer)
        BY <1>1, <1>2, <1>5, <2>2
      <3>2. \A j \in Base + 1 .. Base' : script[j] \notin Queries \cup Commands
        BY <1>0, <3>1 DEF Queries, Commands
      <3> QED
        BY <1>0, <1>3, <1>5, <2>0, <2>2, <3>2, KnownFrame
    <2>4. OrderInv'
      BY <1>0, <1>5, <2>0, OrderFrame DEF IInv, Waits
    <2> QED
      BY <1>0, <1>5, <2>1, <2>2, <2>3, <2>4 DEF IInv
  <1>6. CASE batch = <<>> /\ ~keepAlive /\ Send(Head(buffer), 400) /\ Return /\ UNCHANGED next
    <2>0. at' = "closed" /\ UNCHANGED <<taken, buffer, batch, ended>>
      BY <1>6 DEF Return, reading
    <2>1. /\ KnownInv' /\ replies' \in Seq(Replies)
          /\ Elements(replies) \subseteq Elements(replies')
          /\ [Ordered!Next]_<<script, replies, applied>>
      <3>1. 400 \in Codes /\ 400 # 200
        BY DEF Codes
      <3>2. Base < Head(buffer) /\ Head(buffer) <= taken
        BY <1>1, <1>2
      <3>3. \A j \in Base + 1 .. Head(buffer) - 1 : FALSE
        BY <1>1, <1>6
      <3> QED
        BY <1>0, <1>1, <1>6, <2>0, <3>1, <3>2, <3>3, ReplyStep
    <2>2. Types'
      BY <1>0, <1>6, <2>0, <2>1 DEF IInv, Types
    <2>3. ParseInv' /\ ProcessInv' /\ UsedInv' /\ OrderInv'
      BY <1>0, <1>6, <2>1, ReturnFrame
    <2> QED
      BY <2>1, <2>2, <2>3 DEF IInv
  <1> QED
    BY <1>4, <1>5, <1>6 DEF ParseEmpty

LEMMA ParseBadInv ==
  ASSUME IInv, ParseBad
  PROVE  IInv' /\ [Ordered!Next]_<<script, replies, applied>>
  <1>0. /\ UNCHANGED <<script, sent, eof, next, queue, keepAlive, cut, senders, applied>>
        /\ at = "parse" /\ buffer # <<>> /\ Send(Head(buffer), 400)
        /\ Return /\ at' = "closed" /\ UNCHANGED <<taken, buffer, batch, ended>>
    BY DEF ParseBad, Parses, client, Return, reading
  <1>1. /\ First \in Nat /\ Base = First
        /\ Head(buffer) = First + Len(batch) + 1 /\ Head(buffer) \in Nat
        /\ Head(buffer) <= taken /\ Len(batch) \in Nat
    BY <1>0, ParseHead
  <1>2. \A j \in Base + 1 .. Head(buffer) - 1 : script[j] \notin Queries
    <2>1. \A k \in 1 .. Len(batch) : batch[k] = First + k /\ script[batch[k]] \in Commands
      BY <1>0 DEF IInv, ParseInv, Run
    <2>2. ASSUME NEW j \in Base + 1 .. Head(buffer) - 1 PROVE script[j] \notin Queries
      <3>1. j - First \in 1 .. Len(batch) /\ First + (j - First) = j
        BY <1>1
      <3>2. script[j] \in Commands
        BY <2>1, <3>1
      <3> QED
        BY <3>2 DEF Queries, Commands
    <2> QED
      BY <2>2
  <1>3. /\ KnownInv' /\ replies' \in Seq(Replies)
        /\ Elements(replies) \subseteq Elements(replies')
        /\ [Ordered!Next]_<<script, replies, applied>>
    <2>1. 400 \in Codes /\ 400 # 200 /\ Base < Head(buffer)
      BY <1>1 DEF Codes
    <2> QED
      BY <1>0, <1>1, <1>2, <2>1, ReplyStep
  <1>4. Types'
    BY <1>0, <1>3 DEF IInv, Types
  <1>5. ParseInv' /\ ProcessInv' /\ UsedInv' /\ OrderInv'
    BY <1>0, <1>3, ReturnFrame
  <1> QED
    BY <1>3, <1>4, <1>5 DEF IInv

\* answer returns without a reply.
LEMMA ReturnInv ==
  ASSUME IInv, Return,
         UNCHANGED <<client, next, queue, cut, senders, replies, applied>>,
         keepAlive' \in BOOLEAN
  PROVE  IInv' /\ UNCHANGED <<script, replies, applied>>
  <1>0. at' = "closed" /\ UNCHANGED <<taken, buffer, batch, ended, script, sent, eof>>
    BY DEF Return, reading, client
  <1>1. taken \in Nat /\ taken <= taken
    BY Numbers DEF IInv
  <1>2. Types'
    BY <1>0 DEF IInv, Types
  <1>3. ParseInv' /\ ProcessInv' /\ UsedInv' /\ OrderInv'
    BY <1>0, ReturnFrame
  <1>4. KnownInv'
    BY <1>0, <1>1, KnownFrame
  <1> QED
    BY <1>0, <1>2, <1>3, <1>4 DEF IInv

LEMMA ParseEOFInv ==
  ASSUME IInv, ParseEOF
  PROVE  IInv' /\ UNCHANGED <<script, replies, applied>>
  <1>0. /\ UNCHANGED <<client, queue, keepAlive, cut, senders, replies, applied>>
        /\ at = "parse" /\ buffer = <<>> /\ ~cut /\ keepAlive \in BOOLEAN
    BY DEF ParseEOF, IInv, Types
  <1>1. CASE batch = <<>> /\ Return /\ UNCHANGED next
    BY <1>0, <1>1, ReturnInv
  <1>2. CASE /\ batch # <<>>
             /\ at' = "process" /\ next' = 1 /\ ended' = TRUE
             /\ UNCHANGED <<taken, buffer, batch>>
    <2>0. UNCHANGED <<script, sent, eof>>
      BY <1>0 DEF client
    <2>1. taken \in Nat /\ taken <= taken /\ Len(batch) \in Nat /\ batch \in Seq(Nat)
      BY Numbers DEF IInv, Types
    <2>2. First \in Nat /\ Base = First /\ Top = First /\ taken = First + Len(batch)
      <3>1. Len(buffer) = 0
        BY <1>0
      <3>2. First = taken - (Len(buffer) + Len(batch)) /\ Base = First /\ Top = First
        BY <1>0 DEF First, Base, Top
      <3>3. First \in Nat
        BY <1>0, BaseType
      <3> QED
        BY <2>1, <3>1, <3>2, <3>3
    <2>3. Types'
      BY <1>0, <1>2, <2>0 DEF IInv, Types
    <2>4. ParseInv' /\ ProcessInv' /\ Base' = First /\ Top' = First
      <3>1. /\ Run(batch, First) /\ queue = <<>>
            /\ \A k \in 1 .. Len(batch) : script[batch[k]] \in Commands
        BY <1>0 DEF IInv, ParseInv
      <3>2. Len(batch) \in 1 .. Len(batch)
        BY <1>2, <2>1, EmptySeq
      <3>3. /\ \A k \in 1 .. Len(batch') - 1 : script[batch'[k]] \in Commands
            /\ script[batch'[Len(batch')]] \in Commands \cup Queries
        BY <1>2, <2>1, <3>1, <3>2
      <3>4. /\ batch' \in Seq(Nat) /\ batch' # <<>> /\ Run(batch', First)
            /\ queue' = <<>> /\ buffer' = <<>> /\ taken' = First + Len(batch')
        BY <1>0, <1>2, <2>1, <2>2, <3>1
      <3> QED
        BY <1>2, <2>0, <2>2, <3>3, <3>4, ToProcess
    <2>5. UsedInv'
      BY <1>0, <1>2, <2>0, <2>1, <2>2, <2>4, UsedFrame
    <2>6. KnownInv'
      <3>1. \A j \in Base + 1 .. Base' : FALSE
        BY <2>2, <2>4
      <3> QED
        BY <1>0, <1>2, <2>0, <2>1, <2>2, <2>4, <3>1, KnownFrame
    <2>7. OrderInv'
      BY <1>0, <1>2, OrderFrame DEF IInv, Waits
    <2> QED
      BY <1>0, <2>0, <2>3, <2>4, <2>5, <2>6, <2>7 DEF IInv
  <1> QED
    BY <1>1, <1>2 DEF ParseEOF

\* A read that fails.
LEMMA ReadFailsInv ==
  ASSUME IInv, ReadFails \/ ReadTimeout
  PROVE  IInv' /\ UNCHANGED <<script, replies, applied>>
  <1>1. Return /\ UNCHANGED <<client, next, queue, keepAlive, cut, senders, replies, applied>>
    BY DEF ReadFails, ReadTimeout
  <1>2. keepAlive' \in BOOLEAN
    BY <1>1 DEF IInv, Types
  <1> QED
    BY <1>1, <1>2, ReturnInv

(***************************************************************************)
(* processRequests.                                                        *)
(***************************************************************************)
\* The requests that are handled.
LEMMA ProcessFacts ==
  ASSUME IInv, at \in {"process", "send"}
  PROVE  /\ First \in Nat /\ Base \in Nat /\ taken \in Nat /\ next \in Nat
         /\ Len(batch) \in Nat /\ Len(queue) \in Nat
         /\ batch \in Seq(Nat) /\ queue \in Seq(Nat)
         /\ First = batch[1] - 1 /\ Base + Len(queue) = First + (next - 1)
         /\ 1 <= next /\ next <= Len(batch) + 1 /\ Base + Len(queue) <= taken
         /\ \A k \in 1 .. Len(batch) : batch[k] = First + k
         /\ Elements(queue) = Base + 1 .. Base + Len(queue) /\ Increasing(queue)
  <1>0. /\ taken \in Nat /\ next \in Nat /\ Len(batch) \in Nat /\ Len(queue) \in Nat
        /\ batch \in Seq(Nat) /\ queue \in Seq(Nat)
    BY Numbers DEF IInv, Types
  <1>1. First \in Nat /\ Base \in Nat /\ First + Len(batch) <= taken
    BY BaseType
  <1>2. First = batch[1] - 1 /\ Base = First + (next - 1) - Len(queue)
    BY DEF First, Base
  <1>3. next \in 1 .. Len(batch) + 1 /\ Run(batch, First) /\ Run(queue, Base)
    BY DEF IInv, ProcessInv
  <1>4. Base + Len(queue) = First + (next - 1) /\ 1 <= next /\ next <= Len(batch) + 1
    <2>1. Base = First + (next - 1) - Len(queue)
      BY <1>2
    <2>2. 1 <= next /\ next <= Len(batch) + 1
      BY <1>0, <1>3
    <2> QED
      BY <1>0, <1>1, <2>1, <2>2
  <1>5. Base + Len(queue) <= taken
    BY <1>0, <1>1, <1>4
  <1>6. Elements(queue) = Base + 1 .. Base + Len(queue) /\ Increasing(queue)
    BY <1>0, <1>1, <1>3, RunElements
  <1>7. \A k \in 1 .. Len(batch) : batch[k] = First + k
    BY <1>3 DEF Run
  <1> QED
    BY <1>0, <1>1, <1>2, <1>4, <1>5, <1>6, <1>7

\* The batch goes on with another request.
LEMMA GoesOn ==
  ASSUME IInv, at \in {"process", "send"}, at' = "process",
         UNCHANGED <<script, taken, buffer, batch>>,
         next' \in Nat, 1 <= next', next' <= Len(batch) + 1, Len(queue') <= next' - 1,
         NEW b \in Nat, b + Len(queue') = First + (next' - 1),
         queue' \in Seq(Nat), Run(queue', b),
         \A k \in 1 .. Len(queue') : script[queue'[k]] \in Commands
  PROVE  /\ ParseInv' /\ ProcessInv' /\ Base' = b /\ Top' = b
  <1>0. Len(queue') \in Nat /\ First \in Nat /\ Len(batch) \in Nat /\ First = batch[1] - 1
    BY ProcessFacts
  <1>1. First' = First
    BY <1>0 DEF First
  <1>2. Base' = b /\ Top' = b
    <2>1. Base' = First + (next' - 1) - Len(queue')
      BY <1>1 DEF Base
    <2>2. \A f, m, k, n \in Int : n + k = f + (m - 1) => f + (m - 1) - k = n
      OBVIOUS
    <2>3. First \in Int /\ next' \in Int /\ b \in Int /\ Len(queue') \in Int
      BY <1>0
    <2>4. First + (next' - 1) - Len(queue') = b
      BY <2>2, <2>3, Zenon
    <2>5. Base' = b
      BY <2>1, <2>4, Zenon
    <2> QED
      BY <2>5 DEF Top
  <1>3. ParseInv'
    BY DEF ParseInv
  <1>4. next' \in 1 .. Len(batch) + 1 /\ First >= 0
    BY <1>0
  <1>5. /\ batch # <<>> /\ buffer = <<>> /\ Run(batch, First)
        /\ \A k \in 1 .. Len(batch) - 1 : script[batch[k]] \in Commands
        /\ script[batch[Len(batch)]] \in Commands \cup Queries
        /\ \/ taken = First + Len(batch)
           \/ taken = First + Len(batch) + 1 /\ script[taken] = "empty"
    BY DEF IInv, ProcessInv
  <1>6. Run(queue', Base') /\ Run(batch', First')
    BY <1>1, <1>2, <1>5
  <1>7. ProcessInv'
    BY <1>1, <1>4, <1>5, <1>6 DEF ProcessInv
  <1> QED
    BY <1>2, <1>3, <1>7

LEMMA QueueCommandInv ==
  ASSUME IInv, QueueCommand
  PROVE  IInv' /\ UNCHANGED <<script, replies, applied>>
  <1>0. /\ UNCHANGED <<script, sent, eof, taken, buffer, batch, ended, at, keepAlive, cut>>
        /\ UNCHANGED <<senders, replies, applied>>
        /\ at = "process" /\ next <= Len(batch) /\ script[batch[next]] \in Commands
        /\ queue' = Append(queue, batch[next]) /\ next' = next + 1
    BY DEF QueueCommand, Processing, client, reading
  <1>1. /\ First \in Nat /\ Base \in Nat /\ taken \in Nat /\ next \in Nat
        /\ Len(batch) \in Nat /\ Len(queue) \in Nat /\ queue \in Seq(Nat)
        /\ Base + Len(queue) = First + (next - 1) /\ 1 <= next
        /\ \A k \in 1 .. Len(batch) : batch[k] = First + k
    BY <1>0, ProcessFacts
  <1>2. batch[next] = Base + Len(queue) + 1 /\ batch[next] \in Nat
    <2>1. batch[next] = First + next
      BY <1>0, <1>1
    <2> QED
      BY <1>1, <2>1
  <1>3. /\ queue' \in Seq(Nat) /\ Len(queue') = Len(queue) + 1
        /\ queue'[Len(queue) + 1] = batch[next]
        /\ \A k \in 1 .. Len(queue) : queue'[k] = queue[k]
    BY <1>0, <1>1, <1>2, ElementsAppend
  <1>4. Run(queue, Base) /\ (\A k \in 1 .. Len(queue) : script[queue[k]] \in Commands)
        /\ Len(queue) <= next - 1
    BY <1>0 DEF IInv, ProcessInv
  <1>5. Run(queue', Base)
    BY <1>0, <1>1, <1>2, <1>4, RunAppend
  <1>6. ASSUME NEW k \in 1 .. Len(queue') PROVE script[queue'[k]] \in Commands
    <2>1. k \in 1 .. Len(queue) \/ k = Len(queue) + 1
      BY <1>1, <1>3
    <2> QED
      BY <1>0, <1>3, <1>4, <2>1
  <1>7. ParseInv' /\ ProcessInv' /\ Base' = Base /\ Top' = Base
    <2>1. /\ next' \in Nat /\ 1 <= next' /\ next' <= Len(batch) + 1
          /\ Len(queue') <= next' - 1 /\ Base + Len(queue') = First + (next' - 1)
      <3>1. Len(queue') = Len(queue) + 1 /\ next' = next + 1
        BY <1>0, <1>3
      <3> QED
        BY <1>0, <1>1, <1>4, <3>1
    <2> QED
      BY <1>0, <1>1, <1>3, <1>5, <1>6, <2>1, GoesOn
  <1>8. Types'
    BY <1>0, <1>1, <1>3 DEF IInv, Types
  <1>9. Top = Base /\ taken <= taken
    BY <1>0, <1>1 DEF Top
  <1>10. UsedInv'
    BY <1>0, <1>1, <1>7, <1>9, UsedFrame
  <1>11. KnownInv'
    <2>1. \A j \in Base + 1 .. Base' : FALSE
      BY <1>1, <1>7
    <2> QED
      BY <1>0, <1>1, <1>7, <1>9, <2>1, KnownFrame
  <1>12. OrderInv'
    BY <1>0, OrderFrame DEF IInv, Waits
  <1> QED
    BY <1>0, <1>7, <1>8, <1>10, <1>11, <1>12 DEF IInv

LEMMA EndOfBatchInv ==
  ASSUME IInv, EndOfBatch
  PROVE  IInv' /\ UNCHANGED <<script, replies, applied>>
  <1>0. /\ UNCHANGED <<client, next, queue, cut, senders, replies, applied>>
        /\ at = "process" /\ next > Len(batch) /\ queue = <<>>
        /\ keepAlive' \in BOOLEAN
    BY DEF EndOfBatch
  <1>1. CASE Return
    BY <1>0, <1>1, ReturnInv
  <1>2. CASE ParseAgain
    <2>0. /\ UNCHANGED <<script, sent, eof, taken>> /\ at' = "parse" /\ buffer' = <<>>
          /\ batch' = <<>> /\ ended' = FALSE
      BY <1>0, <1>2 DEF ParseAgain, client
    <2>1. /\ First \in Nat /\ Base \in Nat /\ taken \in Nat /\ next \in Nat
          /\ Len(batch) \in Nat /\ Base + Len(queue) = First + (next - 1)
          /\ next <= Len(batch) + 1 /\ Len(queue) = 0 /\ taken <= taken
      BY <1>0, ProcessFacts
    <2>2. Base = First + Len(batch)
      <3>1. next = Len(batch) + 1
        BY <1>0, <2>1
      <3> QED
        BY <2>1, <3>1
    <2>3. Types'
      BY <1>0, <2>0 DEF IInv, Types
    <2>4. /\ ParseInv' /\ ProcessInv' /\ UsedInv'
          /\ Base' = taken /\ Base' \in Nat /\ Base <= Base'
      BY <1>0, <1>2, <2>0, ParseAgainFrame
    <2>5. KnownInv'
      <3>1. taken = Base \/ (taken = Base + 1 /\ script[taken] = "empty")
        BY <1>0, <2>2 DEF IInv, ProcessInv
      <3>2. \A j \in Base + 1 .. Base' : j = taken /\ script[taken] = "empty"
        BY <2>1, <2>4, <3>1
      <3>3. \A j \in Base + 1 .. Base' : script[j] \notin Queries /\ script[j] \notin Commands
        BY <3>2 DEF Queries, Commands
      <3> QED
        BY <1>0, <2>0, <2>1, <2>4, <3>3, KnownFrame
    <2>6. OrderInv'
      BY <1>0, <2>0, OrderFrame DEF IInv, Waits
    <2> QED
      BY <1>0, <2>0, <2>3, <2>4, <2>5, <2>6 DEF IInv
  <1> QED
    BY <1>1, <1>2 DEF EndOfBatch

\* A query is the last request that was read.
LEMMA AnswerInv ==
  ASSUME IInv, Answer
  PROVE  IInv' /\ [Ordered!Next]_<<script, replies, applied>>
  <1>0. /\ UNCHANGED <<script, sent, eof, queue, keepAlive, cut, senders, applied>>
        /\ at = "process" /\ next <= Len(batch) /\ script[batch[next]] \in Queries
        /\ queue = <<>>
    BY DEF Answer, Processing, client
  <1>1. /\ First \in Nat /\ Base \in Nat /\ taken \in Nat /\ next \in Nat
        /\ Len(batch) \in Nat /\ batch \in Seq(Nat) /\ Len(queue) = 0
        /\ Base + Len(queue) = First + (next - 1) /\ 1 <= next
        /\ \A k \in 1 .. Len(batch) : batch[k] = First + k
    BY <1>0, ProcessFacts
  <1>2. next = Len(batch)
    <2>1. next \notin 1 .. Len(batch) - 1
      BY <1>0 DEF IInv, ProcessInv, Queries, Commands
    <2> QED
      BY <1>0, <1>1, <2>1
  <1>3. batch[next] = First + next /\ batch[next] = Base + 1 /\ batch[next] \in Nat
    <2>1. batch[next] = First + next
      BY <1>0, <1>1
    <2> QED
      BY <1>1, <2>1
  <1>4. taken = Base + 1
    <2>1. LastReply \in Nat /\ LastReply <= Base
      BY <1>0, LastReplyType DEF IInv, KnownInv
    <2>2. sent \in Nat /\ taken <= sent
      BY Numbers DEF IInv
    <2>3. First + Len(batch) <= taken
      BY <1>0, BaseType
    <2>4. Base + 1 <= taken
      BY <1>1, <1>2, <2>3
    <2>5. Base + 1 \in 1 .. sent /\ Base + 1 > LastReply
      BY <1>1, <2>1, <2>2, <2>4
    <2>6. sent = Base + 1
      BY <1>0, <1>3, <2>5 DEF IInv, KnownInv
    <2> QED
      BY <1>1, <2>2, <2>4, <2>6
  <1>5. Top = Base /\ taken <= taken /\ Base < Base + 1 /\ Base + 1 <= taken
        /\ \A j \in Base + 1 .. (Base + 1) - 1 : FALSE
    BY <1>0, <1>1, <1>4 DEF Top
  <1>6. ASSUME NEW code \in Codes, Send(batch[next], code), UNCHANGED taken,
               at' # "closed" => Base' \in Int /\ Base <= Base' /\ (~cut => Base' = Base + 1)
        PROVE  /\ KnownInv' /\ replies' \in Seq(Replies)
               /\ Elements(replies) \subseteq Elements(replies')
               /\ [Ordered!Next]_<<script, replies, applied>>
    <2>1. Send(Base + 1, code) /\ Base + 1 \in Nat /\ script[Base + 1] \in Queries
      BY <1>0, <1>1, <1>3, <1>6
    <2> QED
      BY <1>0, <1>5, <1>6, <2>1, ReplyStep
  <1>7. ASSUME NEW code \in Codes, Send(batch[next], code), Finish, UNCHANGED next
        PROVE  IInv' /\ [Ordered!Next]_<<script, replies, applied>>
    <2>1. CASE Return
      <3>0. at' = "closed" /\ UNCHANGED <<taken, buffer, batch, ended>>
        BY <2>1 DEF Return, reading
      <3>1. /\ KnownInv' /\ replies' \in Seq(Replies)
            /\ Elements(replies) \subseteq Elements(replies')
            /\ [Ordered!Next]_<<script, replies, applied>>
        BY <1>6, <1>7, <3>0
      <3>2. Types'
        BY <1>0, <1>7, <3>0, <3>1 DEF IInv, Types
      <3>3. ParseInv' /\ ProcessInv' /\ UsedInv' /\ OrderInv'
        BY <1>0, <2>1, <3>1, ReturnFrame
      <3> QED
        BY <3>1, <3>2, <3>3 DEF IInv
    <2>2. CASE ParseAgain
      <3>0. at' = "parse" /\ buffer' = <<>> /\ batch' = <<>> /\ ended' = FALSE /\ UNCHANGED taken
        BY <2>2 DEF ParseAgain
      <3>1. /\ ParseInv' /\ ProcessInv' /\ UsedInv'
            /\ Base' = taken /\ Base' \in Nat /\ Base <= Base'
        BY <1>0, <2>2, ParseAgainFrame
      <3>2. /\ KnownInv' /\ replies' \in Seq(Replies)
            /\ Elements(replies) \subseteq Elements(replies')
            /\ [Ordered!Next]_<<script, replies, applied>>
        BY <1>4, <1>6, <1>7, <3>0, <3>1
      <3>3. Types'
        BY <1>0, <1>7, <3>0, <3>2 DEF IInv, Types
      <3>4. OrderInv'
        BY <1>0, <3>0, <3>2, OrderFrame DEF IInv, Waits
      <3> QED
        BY <3>1, <3>2, <3>3, <3>4 DEF IInv
    <2> QED
      BY <1>7, <2>1, <2>2 DEF Finish
  <1>8. CASE Send(batch[next], 200) /\ next' = next + 1 /\ UNCHANGED <<reading, at>>
    <2>0. UNCHANGED <<taken, buffer, batch, ended, at>>
      BY <1>8 DEF reading
    <2>1. ParseInv' /\ ProcessInv' /\ Base' = Base + 1 /\ Top' = Base + 1
      <3>1. /\ next' \in Nat /\ 1 <= next' /\ next' <= Len(batch) + 1
            /\ queue' = <<>> /\ Len(queue') = 0 /\ queue' \in Seq(Nat)
            /\ Base + 1 \in Nat /\ (Base + 1) + 0 = First + (next' - 1) /\ 0 <= next' - 1
        BY <1>0, <1>1, <1>8
      <3>2. Run(queue', Base + 1) /\ \A k \in 1 .. Len(queue') : FALSE
        BY <3>1 DEF Run
      <3> QED
        BY <1>0, <2>0, <3>1, <3>2, GoesOn
    <2>2. Base' \in Int /\ Base <= Base' /\ Top' \in Int /\ Top <= Top'
      BY <1>1, <1>5, <2>1
    <2>3. /\ KnownInv' /\ replies' \in Seq(Replies)
          /\ Elements(replies) \subseteq Elements(replies')
          /\ [Ordered!Next]_<<script, replies, applied>>
      <3>1. 200 \in Codes
        BY DEF Codes
      <3> QED
        BY <1>6, <1>8, <2>0, <2>1, <2>2, <3>1
    <2>4. Types'
      BY <1>0, <1>1, <1>8, <2>0, <2>3 DEF IInv, Types
    <2>5. UsedInv'
      BY <1>0, <1>1, <1>5, <2>0, <2>2, UsedFrame
    <2>6. OrderInv'
      BY <1>0, <2>0, <2>3, OrderFrame DEF IInv, Waits
    <2> QED
      BY <2>1, <2>3, <2>4, <2>5, <2>6 DEF IInv
  <1>9. 200 \in Codes /\ 400 \in Codes /\ 502 \in Codes
    BY DEF Codes
  <1> QED
    BY <1>7, <1>8, <1>9 DEF Answer

(***************************************************************************)
(* SendCommands and its goroutines.                                         *)
(***************************************************************************)
LEMMA SendCommandsInv ==
  ASSUME IInv, SendCommands
  PROVE  IInv' /\ UNCHANGED <<script, replies, applied>>
  <1> DEFINE new == {[peer |-> p, cmds |-> queue, result |-> "sending"] : p \in Peers}
  <1>0. /\ UNCHANGED <<script, sent, eof, taken, buffer, batch, ended, next, queue>>
        /\ UNCHANGED <<keepAlive, cut, replies, applied>>
        /\ at = "process" /\ queue # <<>> /\ at' = "send"
        /\ senders' = senders \cup new
    BY DEF SendCommands, client, reading
  <1>1. /\ First \in Nat /\ Base \in Nat /\ taken \in Nat /\ taken <= taken
        /\ Len(queue) \in Nat /\ queue \in Seq(Nat) /\ First = batch[1] - 1
        /\ Base + Len(queue) <= taken
        /\ Elements(queue) = Base + 1 .. Base + Len(queue) /\ Increasing(queue)
    BY <1>0, ProcessFacts
  <1>2. First' = First /\ Base' = Base /\ Top' = Base + Len(queue) /\ Top = Base
    <2>1. First' = First
      BY <1>0 DEF First
    <2>2. Base' = Base
      BY <1>0, <2>1 DEF Base
    <2> QED
      BY <1>0, <2>1, <2>2 DEF Top
  <1>3. new \subseteq Senders
    BY <1>1 DEF Senders
  <1>4. Types'
    BY <1>0, <1>3 DEF IInv, Types
  <1>5. ParseInv' /\ ProcessInv'
    <2>1. ParseInv'
      BY <1>0 DEF ParseInv
    <2> QED
      BY <1>0, <1>2, <2>1 DEF IInv, ProcessInv, Run
  <1>6. /\ \A n \in new : n.peer \in Peers /\ n.cmds = queue /\ n.result = "sending"
        /\ \A m, n \in new : m.peer = n.peer => m = n
        /\ \A p \in Peers : \E n \in new : n.peer = p /\ n.cmds = queue
    <2>1. ASSUME NEW n \in new
          PROVE  n.peer \in Peers /\ n = [peer |-> n.peer, cmds |-> queue, result |-> "sending"]
      OBVIOUS
    <2>2. ASSUME NEW p \in Peers PROVE \E n \in new : n.peer = p /\ n.cmds = queue
      <3>1. [peer |-> p, cmds |-> queue, result |-> "sending"] \in new
        OBVIOUS
      <3> QED
        BY <3>1
    <2>3. ASSUME NEW m \in new, NEW n \in new, m.peer = n.peer PROVE m = n
      BY <2>1, <2>3
    <2> QED
      BY <2>1, <2>2, <2>3
  <1>7. /\ \A s \in senders : \A j \in Elements(s.cmds) : j \in 1 .. taken /\ j <= Base
        /\ \A p \in Peers : \A j \in Elements(applied[p]) : j \in 1 .. taken /\ j <= Base
    BY <1>0, <1>2 DEF IInv, UsedInv
  <1>8. /\ \A j \in Elements(queue) : j \in 1 .. taken /\ j <= Top' /\ Base < j /\ j \in Nat
        /\ \A j \in 1 .. taken : j <= Base => j <= Top' /\ j \notin Elements(queue)
    BY <1>1, <1>2
  <1>9. \A j \in Elements(queue) : script[j] \in Commands
    BY <1>0 DEF IInv, ProcessInv, Elements
  <1>10. UsedInv'
    <2>1. ASSUME NEW s \in senders'
          PROVE  /\ s.cmds # <<>> /\ Increasing(s.cmds)
                 /\ \A j \in Elements(s.cmds) :
                      j \in 1 .. taken' /\ script'[j] \in Commands /\ j <= Top'
                 /\ s.result = "sending" => Elements(s.cmds) \cap Elements(applied'[s.peer]) = {}
                 /\ s.result = "ok" => Elements(s.cmds) \subseteq Elements(applied'[s.peer])
      <3>1. CASE s \in senders
        BY <1>0, <1>7, <1>8, <3>1 DEF IInv, UsedInv
      <3>2. CASE s \in new
        <4>1. s.peer \in Peers /\ s.cmds = queue /\ s.result = "sending"
          BY <1>6, <3>2
        <4>2. Elements(queue) \cap Elements(applied[s.peer]) = {}
          BY <1>7, <1>8, <4>1
        <4> QED
          BY <1>0, <1>1, <1>8, <1>9, <4>1, <4>2
      <3> QED
        BY <1>0, <3>1, <3>2
    <2>2. ASSUME NEW s \in senders', NEW t \in senders', s.peer = t.peer, s # t
          PROVE  Elements(s.cmds) \cap Elements(t.cmds) = {}
      <3>1. CASE s \in senders /\ t \in senders
        BY <2>2, <3>1 DEF IInv, UsedInv
      <3>2. CASE s \in senders /\ t \in new
        BY <1>6, <1>7, <1>8, <3>2
      <3>3. CASE s \in new /\ t \in senders
        BY <1>6, <1>7, <1>8, <3>3
      <3>4. CASE s \in new /\ t \in new
        BY <1>6, <2>2, <3>4
      <3> QED
        BY <1>0, <3>1, <3>2, <3>3, <3>4
    <2>3. \A p \in Peers : \A j \in Elements(applied'[p]) : j \in 1 .. taken' /\ j <= Top'
      BY <1>0, <1>7, <1>8
    <2>4. \A p \in Peers : \E s \in senders' : s.peer = p /\ s.cmds = queue'
      BY <1>0, <1>6
    <2> QED
      BY <2>1, <2>2, <2>3, <2>4 DEF UsedInv
  <1>11. KnownInv'
    <2>1. \A j \in Base + 1 .. Base' : FALSE
      BY <1>1, <1>2
    <2>2. \A p \in Peers : Elements(applied[p]) \subseteq Elements(applied'[p])
      BY <1>0
    <2> QED
      BY <1>0, <1>1, <1>2, <2>1, <2>2, KnownFrame
  <1>12. OrderInv'
    <2>1. CASE \E r \in Elements(replies) : r.code = 202
      BY <1>0, <2>1 DEF OrderInv
    <2>2. CASE ~ \E r \in Elements(replies) : r.code = 202
      <3>1. Pending = {} /\ \A p \in Peers : Increasing(applied[p])
        BY <1>0, <2>2 DEF IInv, OrderInv
      <3>2. Pending' = new
        BY <1>0, <1>6, <3>1 DEF Pending
      <3>3. \A s \in new : \A i \in Elements(applied[s.peer]), j \in Elements(s.cmds) : i < j
        <4>1. ASSUME NEW s \in new, NEW i \in Elements(applied[s.peer]), NEW j \in Elements(s.cmds)
              PROVE  i < j
          <5>1. i \in 1 .. taken /\ i <= Base /\ Base < j /\ j \in Nat
            BY <1>6, <1>7, <1>8, <4>1
          <5> QED
            BY <1>1, <5>1
        <4> QED
          BY <4>1
      <3> QED
        BY <1>0, <1>6, <3>1, <3>2, <3>3 DEF OrderInv
    <2> QED
      BY <2>1, <2>2
  <1> QED
    BY <1>0, <1>4, <1>5, <1>10, <1>11, <1>12 DEF IInv

LEMMA SenderEndsInv ==
  ASSUME IInv, NEW s \in senders, SenderEnds(s)
  PROVE  IInv' /\ [Ordered!Next]_<<script, replies, applied>>
  <1>0. /\ UNCHANGED <<script, sent, eof, taken, buffer, batch, ended, at, next, queue>>
        /\ UNCHANGED <<keepAlive, cut, replies>> /\ s.result = "sending"
    BY DEF SenderEnds, client, reading
  <1>1. PICK result \in {"ok", "error"}, got \in BOOLEAN :
          /\ result = "ok" => got
          /\ senders' = (senders \ {s}) \cup {[s EXCEPT !.result = result]}
          /\ applied' = IF got THEN [applied EXCEPT ![s.peer] = @ \o s.cmds] ELSE applied
    BY DEF SenderEnds
  <1> DEFINE t == [s EXCEPT !.result = result]
  <1>2. /\ s \in Senders /\ s.peer \in Peers /\ s.cmds \in Seq(Nat)
        /\ applied \in [Peers -> Seq(Nat)]
    BY DEF IInv, Types, Senders
  <1>3. /\ t \in Senders /\ t.peer = s.peer /\ t.cmds = s.cmds
        /\ t.result = result /\ t.result # "sending"
    BY <1>2 DEF Senders
  <1>4. /\ s.cmds # <<>> /\ Increasing(s.cmds)
        /\ \A j \in Elements(s.cmds) : j \in 1 .. taken /\ script[j] \in Commands
        /\ at # "closed" => \A j \in Elements(s.cmds) : j <= Top
        /\ Elements(s.cmds) \cap Elements(applied[s.peer]) = {}
        /\ \A u \in senders \ {s} : u.peer = s.peer => Elements(u.cmds) \cap Elements(s.cmds) = {}
    BY <1>0 DEF IInv, UsedInv
  <1>5. /\ applied' \in [Peers -> Seq(Nat)]
        /\ \A p \in Peers \ {s.peer} : applied'[p] = applied[p]
        /\ got => applied'[s.peer] = applied[s.peer] \o s.cmds
        /\ ~got => applied' = applied
    <2>1. applied[s.peer] \o s.cmds \in Seq(Nat)
      BY <1>2, ElementsConcat
    <2> QED
      BY <1>1, <1>2, <2>1
  <1>6. /\ Len(applied[s.peer] \o s.cmds) = Len(applied[s.peer]) + Len(s.cmds)
        /\ \A k \in 1 .. Len(applied[s.peer]) : (applied[s.peer] \o s.cmds)[k] = applied[s.peer][k]
        /\ Elements(applied[s.peer] \o s.cmds) = Elements(applied[s.peer]) \cup Elements(s.cmds)
        /\ applied[s.peer] \in Seq(Nat)
    BY <1>2, ElementsConcat
  <1>7. \A p \in Peers :
          /\ Elements(applied[p]) \subseteq Elements(applied'[p])
          /\ Elements(applied'[p]) \subseteq
               Elements(applied[p]) \cup (IF p = s.peer THEN Elements(s.cmds) ELSE {})
    BY <1>5, <1>6
  <1>8. Types'
    BY <1>0, <1>1, <1>3, <1>5 DEF IInv, Types
  <1>9. /\ ParseInv' /\ ProcessInv' /\ Base' = Base /\ Top' = Top
        /\ at' # "closed" => Base' \in Int /\ Base <= Base'
    BY <1>0, PartsFrame
  <1>10. UsedInv'
    <2>1. ASSUME NEW u \in senders'
          PROVE  /\ u.cmds # <<>> /\ Increasing(u.cmds)
                 /\ \A j \in Elements(u.cmds) : j \in 1 .. taken /\ script[j] \in Commands
                 /\ at # "closed" => \A j \in Elements(u.cmds) : j <= Top
                 /\ u.result = "sending" => Elements(u.cmds) \cap Elements(applied'[u.peer]) = {}
                 /\ u.result = "ok" => Elements(u.cmds) \subseteq Elements(applied'[u.peer])
      <3>1. CASE u \in senders \ {s}
        <4>1. /\ u.cmds # <<>> /\ Increasing(u.cmds) /\ u.peer \in Peers
              /\ \A j \in Elements(u.cmds) : j \in 1 .. taken /\ script[j] \in Commands
              /\ at # "closed" => \A j \in Elements(u.cmds) : j <= Top
              /\ u.result = "sending" => Elements(u.cmds) \cap Elements(applied[u.peer]) = {}
              /\ u.result = "ok" => Elements(u.cmds) \subseteq Elements(applied[u.peer])
          BY <3>1, Numbers DEF IInv, UsedInv
        <4>2. u.result = "sending" => Elements(u.cmds) \cap Elements(applied'[u.peer]) = {}
          BY <1>4, <1>7, <3>1, <4>1
        <4>3. u.result = "ok" => Elements(u.cmds) \subseteq Elements(applied'[u.peer])
          BY <1>7, <4>1
        <4> QED
          BY <4>1, <4>2, <4>3
      <3>2. CASE u = t
        <4>1. result = "ok" => Elements(s.cmds) \subseteq Elements(applied'[s.peer])
          BY <1>1, <1>5, <1>6
        <4> QED
          BY <1>3, <1>4, <3>2, <4>1
      <3> QED
        BY <1>1, <3>1, <3>2
    <2>2. ASSUME NEW u \in senders', NEW v \in senders', u.peer = v.peer, u # v
          PROVE  Elements(u.cmds) \cap Elements(v.cmds) = {}
      <3>1. CASE u \in senders \ {s} /\ v \in senders \ {s}
        BY <2>2, <3>1 DEF IInv, UsedInv
      <3>2. CASE u = t /\ v \in senders \ {s}
        BY <1>3, <1>4, <2>2, <3>2
      <3>3. CASE u \in senders \ {s} /\ v = t
        BY <1>3, <1>4, <2>2, <3>3
      <3> QED
        BY <1>1, <2>2, <3>1, <3>2, <3>3
    <2>3. ASSUME NEW p \in Peers, NEW j \in Elements(applied'[p])
          PROVE  j \in 1 .. taken /\ (at # "closed" => j <= Top)
      <3>1. CASE j \in Elements(applied[p])
        BY <3>1 DEF IInv, UsedInv
      <3>2. CASE j \in Elements(s.cmds)
        BY <1>4, <3>2
      <3> QED
        BY <1>7, <3>1, <3>2
    <2>4. ASSUME at = "send", NEW p \in Peers
          PROVE  \E u \in senders' : u.peer = p /\ u.cmds = queue
      <3>1. PICK u \in senders : u.peer = p /\ u.cmds = queue
        BY <2>4 DEF IInv, UsedInv
      <3> QED
        BY <1>1, <1>3, <3>1
    <2> QED
      BY <1>0, <1>9, <2>1, <2>2, <2>3, <2>4 DEF UsedInv
  <1>11. KnownInv'
    <2>1. at' # "closed" => \A j \in Base + 1 .. Base' : FALSE
      BY <1>0, <1>9, BaseType
    <2>2. taken \in Nat /\ taken <= taken
      BY Numbers DEF IInv
    <2>3. \A p \in Peers : Elements(applied[p]) \subseteq Elements(applied'[p])
      BY <1>7
    <2> QED
      BY <1>0, <1>9, <2>1, <2>2, <2>3, KnownFrame
  <1>12. OrderInv'
    <2>1. CASE \E r \in Elements(replies) : r.code = 202
      BY <1>0, <2>1 DEF OrderInv
    <2>2. CASE ~ \E r \in Elements(replies) : r.code = 202
      <3>1. /\ \A p \in Peers : Increasing(applied[p])
            /\ \A u \in Pending : \A i \in Elements(applied[u.peer]), j \in Elements(u.cmds) : i < j
            /\ \A u, v \in Pending : u.peer = v.peer => u = v
            /\ Pending # {} => at \in {"send", "closed"} \/ (at = "parse" /\ cut /\ buffer = <<>>)
            /\ at = "send" => \A u \in Pending : u.cmds = queue
        BY <2>2 DEF IInv, OrderInv
      <3>2. Pending' = Pending \ {s} /\ s \in Pending
        BY <1>0, <1>1, <1>3 DEF Pending
      <3>3. ASSUME NEW p \in Peers PROVE Increasing(applied'[p])
        <4>1. CASE p = s.peer /\ got
          <5>1. Increasing(applied[s.peer] \o s.cmds)
            BY <1>2, <1>4, <1>6, <3>1, <3>2, IncreasingConcat
          <5> QED
            BY <1>5, <4>1, <5>1
        <4>2. CASE ~(p = s.peer /\ got)
          BY <1>5, <3>1, <4>2
        <4> QED
          BY <4>1, <4>2
      <3>4. \A u \in Pending' : u.peer \in Peers /\ u.peer # s.peer
        BY <3>1, <3>2, Numbers DEF IInv, Pending
      <3>5. \A u \in Pending' : \A i \in Elements(applied'[u.peer]), j \in Elements(u.cmds) : i < j
        BY <1>5, <3>1, <3>2, <3>4
      <3> QED
        BY <1>0, <3>1, <3>2, <3>3, <3>5 DEF OrderInv
    <2> QED
      BY <2>1, <2>2
  <1>13. [Ordered!Next]_<<script, replies, applied>>
    <2>1. CASE ~got
      BY <1>0, <1>5, <2>1
    <2>2. CASE got
      <3>1. applied'[s.peer] = applied[s.peer] \o s.cmds
        BY <1>5, <2>2
      <3>2. /\ Len(applied[s.peer] \o s.cmds) > Len(applied[s.peer])
            /\ SubSeq(applied[s.peer] \o s.cmds, Len(applied[s.peer]) + 1,
                      Len(applied[s.peer] \o s.cmds)) = s.cmds
        BY <1>2, <1>4, <1>6, JoinedPart
      <3>3. /\ Len(applied'[s.peer]) > Len(applied[s.peer])
            /\ SubSeq(applied'[s.peer], Len(applied[s.peer]) + 1, Len(applied'[s.peer])) = s.cmds
        BY <3>1, <3>2, Zenon
      <3>4. \A j \in Ordered!Elements(s.cmds) :
              script[j] \in Commands /\ j \notin Ordered!Elements(applied[s.peer])
        BY <1>4 DEF Ordered!Elements, Elements
      <3>5. Ordered!Increasing(s.cmds)
        BY <1>4 DEF Ordered!Increasing, Increasing
      <3>6. Ordered!Apply(s.peer)
        BY <1>0, <1>5, <1>6, <3>1, <3>3, <3>4, <3>5 DEF Ordered!Apply
      <3> QED
        BY <1>2, <3>6 DEF Ordered!Next
    <2> QED
      BY <2>1, <2>2
  <1> QED
    BY <1>8, <1>9, <1>10, <1>11, <1>12, <1>13 DEF IInv

\* The reply to the commands: without an error every backend has them; what is told
\* of with an error is settled by it.
LEMMA CommandReplyInv ==
  ASSUME IInv, at = "send", NEW code \in {200, 202, 400, 500}, CommandReply(code),
         code = 200 => \A s \in Current : s.result = "ok",
         code # 202 => \A s \in Current : s.result # "sending"
  PROVE  IInv' /\ [Ordered!Next]_<<script, replies, applied>>
  <1>0. /\ UNCHANGED <<script, sent, eof, next, keepAlive, cut, senders, applied>>
        /\ queue' = <<>> /\ code \in Codes
    BY DEF CommandReply, client, Codes
  <1>1. /\ First \in Nat /\ Base \in Nat /\ taken \in Nat /\ next \in Nat /\ taken <= taken
        /\ Len(batch) \in Nat /\ Len(queue) \in Nat /\ queue \in Seq(Nat)
        /\ Base + Len(queue) = First + (next - 1)
        /\ 1 <= next /\ next <= Len(batch) + 1 /\ Base + Len(queue) <= taken
        /\ Elements(queue) = Base + 1 .. Base + Len(queue)
    BY ProcessFacts
  <1> DEFINE q == Base + Len(queue)
  <1>2. /\ queue # <<>> /\ Run(queue, Base)
        /\ \A k \in 1 .. Len(queue) : script[queue[k]] \in Commands
    BY DEF IInv, ProcessInv
  <1>3. Len(queue) > 0 /\ queue[Len(queue)] = q
    <2>1. Len(queue) > 0
      BY <1>1, <1>2, EmptySeq
    <2>2. Len(queue) \in 1 .. Len(queue)
      BY <1>1, <2>1
    <2> QED
      BY <1>2, <2>1, <2>2 DEF Run
  <1>4. \A j \in Base + 1 .. q : script[j] \in Commands /\ script[j] \notin Queries
    <2>1. \A j \in Elements(queue) : script[j] \in Commands
      BY <1>2 DEF Elements
    <2> QED
      BY <1>1, <2>1 DEF Queries, Commands
  <1>5. Top = q /\ q \in Nat /\ Base < q /\ Base <= q /\ q <= taken
    BY <1>1, <1>3 DEF Top
  <1>6. ASSUME at' = "process", UNCHANGED reading
        PROVE  /\ ParseInv' /\ ProcessInv' /\ Base' = q /\ Top' = q
               /\ UNCHANGED <<taken, buffer, batch, ended>>
    <2>1. UNCHANGED <<taken, buffer, batch, ended>>
      BY <1>6 DEF reading
    <2>2. /\ Len(queue') = 0 /\ queue' \in Seq(Nat) /\ Run(queue', q)
          /\ \A k \in 1 .. Len(queue') : FALSE
      BY <1>0 DEF Run
    <2>3. /\ next' \in Nat /\ 1 <= next' /\ next' <= Len(batch) + 1 /\ 0 <= next' - 1
          /\ q + 0 = First + (next' - 1)
      BY <1>0, <1>1
    <2>4. Len(queue') <= next' - 1 /\ q + Len(queue') = First + (next' - 1)
      BY <2>2, <2>3
    <2>5. ParseInv' /\ ProcessInv' /\ Base' = q /\ Top' = q
      BY <1>0, <1>5, <1>6, <2>1, <2>2, <2>3, <2>4, GoesOn
    <2> QED
      BY <2>1, <2>5
  <1>7. ASSUME at' # "send", Elements(replies) \subseteq Elements(replies'),
               \/ code # 202
               \/ \E r \in Elements(replies') : r.code = 202
               \/ Waits'
        PROVE  OrderInv'
    <2>1. CASE \E r \in Elements(replies') : r.code = 202
      BY <2>1 DEF OrderInv
    <2>2. CASE ~ \E r \in Elements(replies') : r.code = 202
      <3>1. ~ \E r \in Elements(replies) : r.code = 202
        BY <1>7, <2>2
      <3>2. /\ \A p \in Peers : Increasing(applied[p])
            /\ \A s \in Pending : \A i \in Elements(applied[s.peer]), j \in Elements(s.cmds) : i < j
            /\ \A s, t \in Pending : s.peer = t.peer => s = t
            /\ \A s \in Pending : s.cmds = queue
        BY <3>1 DEF IInv, OrderInv
      <3>3. code # 202 => Pending = {}
        BY <3>2 DEF Pending, Current
      <3>4. Pending' = Pending
        BY <1>0 DEF Pending
      <3>5. Pending' # {} => Waits'
        BY <1>7, <2>2, <3>3, <3>4
      <3> QED
        BY <1>0, <1>7, <3>2, <3>4, <3>5 DEF OrderInv, Waits
    <2> QED
      BY <2>1, <2>2
  <1>8. CASE code = 200
    <2>1. at' = "process" /\ UNCHANGED <<reading, replies>>
      BY <1>8 DEF CommandReply
    <2>2. /\ ParseInv' /\ ProcessInv' /\ Base' = q /\ Top' = q
          /\ UNCHANGED <<taken, buffer, batch, ended>>
      BY <1>6, <2>1
    <2>3. Types'
      BY <1>0, <2>1, <2>2 DEF IInv, Types
    <2>4. UsedInv'
      BY <1>0, <1>1, <1>5, <2>1, <2>2, UsedFrame
    <2>5. ASSUME NEW j \in Base + 1 .. Base' PROVE Ordered!Settled(j)'
      <3>1. j \in Elements(queue)
        BY <1>1, <2>2
      <3>2. ASSUME NEW p \in Peers PROVE j \in Ordered!Elements(applied'[p])
        <4>1. PICK s \in senders : s.peer = p /\ s.cmds = queue
          BY DEF IInv, UsedInv
        <4>2. s.result = "ok"
          BY <1>8, <4>1 DEF Current
        <4>3. j \in Elements(applied[p])
          BY <3>1, <4>1, <4>2 DEF IInv, UsedInv
        <4> QED
          BY <1>0, <4>3 DEF Ordered!Elements, Elements
      <3> QED
        BY <3>2 DEF Ordered!Settled
    <2>6. KnownInv'
      <3>1. \A j \in Base + 1 .. Base' : script[j] \notin Queries
        BY <1>4, <2>2
      <3>2. Base' \in Int /\ Base <= Base'
        BY <1>5, <2>2
      <3> QED
        BY <1>0, <1>1, <2>1, <2>2, <2>5, <3>1, <3>2, KnownFrame
    <2>7. OrderInv'
      BY <1>7, <1>8, <2>1
    <2> QED
      BY <1>0, <2>1, <2>2, <2>3, <2>4, <2>6, <2>7 DEF IInv
  <1>9. CASE code # 200
    <2>1. Send(q, code) /\ IF cut THEN Finish ELSE at' = "process" /\ UNCHANGED reading
      BY <1>3, <1>9 DEF CommandReply
    <2>2. ASSUME UNCHANGED taken,
                 at' # "closed" => Base' \in Int /\ Base <= Base' /\ (~cut => Base' = q)
          PROVE  /\ KnownInv' /\ replies' \in Seq(Replies)
                 /\ Elements(replies) \subseteq Elements(replies')
                 /\ [Ordered!Next]_<<script, replies, applied>>
      <3>1. \A j \in Base + 1 .. q - 1 : script[j] \notin Queries
        BY <1>1, <1>4, <1>5
      <3> QED
        BY <1>0, <1>5, <1>9, <2>1, <2>2, <3>1, ReplyStep
    <2>3. CASE ~cut
      <3>1. at' = "process" /\ UNCHANGED reading
        BY <2>1, <2>3
      <3>2. /\ ParseInv' /\ ProcessInv' /\ Base' = q /\ Top' = q
            /\ UNCHANGED <<taken, buffer, batch, ended>>
        BY <1>6, <3>1
      <3>3. /\ KnownInv' /\ replies' \in Seq(Replies)
            /\ Elements(replies) \subseteq Elements(replies')
            /\ [Ordered!Next]_<<script, replies, applied>>
        BY <1>5, <2>2, <3>2
      <3>4. Types'
        BY <1>0, <3>1, <3>2, <3>3 DEF IInv, Types
      <3>5. UsedInv'
        BY <1>0, <1>1, <1>5, <3>1, <3>2, UsedFrame
      <3>6. OrderInv'
        <4>1. code = 202 => \E r \in Elements(replies') : r.code = 202
          <5>1. [to |-> q, code |-> code] \in Elements(replies')
            BY <1>0, <1>5, <2>1, <2>3, ReplySent DEF IInv
          <5> QED
            BY <5>1
        <4> QED
          BY <1>7, <3>1, <3>3, <4>1
      <3> QED
        BY <3>2, <3>3, <3>4, <3>5, <3>6 DEF IInv
    <2>4. CASE cut /\ ParseAgain
      <3>1. at' = "parse" /\ buffer' = <<>> /\ batch' = <<>> /\ ended' = FALSE /\ UNCHANGED taken
        BY <2>4 DEF ParseAgain
      <3>2. /\ ParseInv' /\ ProcessInv' /\ UsedInv'
            /\ Base' = taken /\ Base' \in Nat /\ Base <= Base'
        BY <1>0, <2>4, ParseAgainFrame
      <3>3. /\ KnownInv' /\ replies' \in Seq(Replies)
            /\ Elements(replies) \subseteq Elements(replies')
            /\ [Ordered!Next]_<<script, replies, applied>>
        BY <2>2, <2>4, <3>1, <3>2
      <3>4. Types'
        <4>1. buffer' \in Seq(Nat) /\ batch' \in Seq(Nat) /\ queue' \in Seq(Nat)
          BY <1>0, <3>1, EmptySeq, Zenon
        <4> QED
          BY <1>0, <3>1, <3>3, <4>1 DEF IInv, Types
      <3>5. OrderInv'
        BY <1>0, <1>7, <2>4, <3>1, <3>3 DEF Waits
      <3> QED
        BY <3>2, <3>3, <3>4, <3>5 DEF IInv
    <2>5. CASE cut /\ Return
      <3>1. at' = "closed" /\ UNCHANGED <<taken, buffer, batch, ended>>
        BY <2>5 DEF Return, reading
      <3>2. /\ KnownInv' /\ replies' \in Seq(Replies)
            /\ Elements(replies) \subseteq Elements(replies')
            /\ [Ordered!Next]_<<script, replies, applied>>
        BY <2>2, <3>1
      <3>3. Types'
        BY <1>0, <3>1, <3>2 DEF IInv, Types
      <3>4. ParseInv' /\ ProcessInv' /\ UsedInv' /\ OrderInv'
        BY <1>0, <2>5, <3>2, ReturnFrame
      <3> QED
        BY <3>2, <3>3, <3>4 DEF IInv
    <2> QED
      BY <2>1, <2>3, <2>4, <2>5 DEF Finish
  <1> QED
    BY <1>8, <1>9

LEMMA CommandsEndInv ==
  ASSUME IInv, CommandsDone \/ CommandsTimeout
  PROVE  IInv' /\ [Ordered!Next]_<<script, replies, applied>>
  <1>1. CASE CommandsTimeout
    <2>1. at = "send" /\ CommandReply(202)
      BY <1>1 DEF CommandsTimeout
    <2> QED
      BY <2>1, CommandReplyInv
  <1>2. CASE CommandsDone
    <2>1. at = "send" /\ \A s \in Current : s.result # "sending"
      BY <1>2 DEF CommandsDone
    <2>2. CASE (\A s \in Current : s.result = "ok") /\ CommandReply(200)
      BY <2>1, <2>2, CommandReplyInv
    <2>3. ASSUME NEW code \in {400, 500}, CommandReply(code)
          PROVE  IInv' /\ [Ordered!Next]_<<script, replies, applied>>
      <3>1. code \in {200, 202, 400, 500} /\ code # 200
        OBVIOUS
      <3> QED
        BY <2>1, <2>3, <3>1, CommandReplyInv
    <2> QED
      BY <1>2, <2>2, <2>3 DEF CommandsDone
  <1> QED
    BY <1>1, <1>2

(***************************************************************************)
(* The theorems.                                                           *)
(***************************************************************************)
\* The invariant holds at the start.
LEMMA InitInv ==
  ASSUME Init
  PROVE  IInv /\ Ordered!Init
  <1>1. /\ script \in Scripts /\ sent = 0 /\ eof = FALSE
        /\ taken = 0 /\ buffer = <<>> /\ at = "parse" /\ batch = <<>> /\ ended = FALSE
        /\ next = 1 /\ queue = <<>> /\ keepAlive = FALSE /\ cut = FALSE
        /\ senders = {} /\ replies = <<>> /\ applied = [p \in Peers |-> <<>>]
    BY DEF Init
  <1>2. Len(script) \in Nat
    BY <1>1, ScriptsAssumption
  <1>3. Types
    <2>1. /\ buffer \in Seq(Nat) /\ batch \in Seq(Nat) /\ queue \in Seq(Nat)
          /\ replies \in Seq(Replies)
      BY <1>1
    <2>2. applied \in [Peers -> Seq(Nat)]
      BY <1>1
    <2>3. sent \in 0 .. Len(script) /\ taken \in 0 .. sent /\ next \in Nat
      BY <1>1, <1>2
    <2> QED
      BY <1>1, <2>1, <2>2, <2>3 DEF Types
  <1>4. First = 0 /\ Base = 0 /\ Top = 0 /\ LastReply = 0
    <2>1. Len(buffer) = 0 /\ Len(batch) = 0
      BY <1>1
    <2>2. First = taken - (Len(buffer) + Len(batch))
      BY <1>1 DEF First
    <2>3. First = 0
      BY <1>1, <2>1, <2>2
    <2> QED
      BY <1>1, <2>3 DEF Base, Top, LastReply
  <1>5. ParseInv /\ ProcessInv
    BY <1>1, <1>4 DEF ParseInv, ProcessInv, Run
  <1>6. Elements(<<>>) = {}
    BY DEF Elements
  <1>7. UsedInv
    BY <1>1, <1>6 DEF UsedInv
  <1>8. KnownInv
    BY <1>1, <1>4, <1>6 DEF KnownInv
  <1>9. OrderInv
    BY <1>1, <1>6 DEF OrderInv, Pending, Increasing
  <1>10. Ordered!Init
    BY <1>1 DEF Ordered!Init
  <1> QED
    BY <1>3, <1>5, <1>7, <1>8, <1>9, <1>10 DEF IInv

\* Every step keeps the invariant and is a step of OrderedReplies, or none.
LEMMA NextInv ==
  ASSUME IInv, [Next]_vars
  PROVE  IInv' /\ [Ordered!Next]_<<script, replies, applied>>
  <1>1. CASE UNCHANGED vars
    <2>1. UNCHANGED <<script, taken, buffer, at, batch, next, queue>>
          /\ UNCHANGED <<sent, eof, ended, keepAlive, cut, senders, replies, applied>>
      BY <1>1 DEF vars
    <2>2. ParseInv' /\ ProcessInv' /\ Base' = Base /\ Top' = Top
      BY <2>1, PartsFrame
    <2>3. Types'
      BY <2>1 DEF IInv, Types
    <2>4. UsedInv'
      BY <2>1, <2>2 DEF IInv, UsedInv
    <2>5. KnownInv'
      <3>1. LastReply' = LastReply
        BY <2>1 DEF LastReply
      <3>2. \A j : Ordered!Settled(j)' <=> Ordered!Settled(j)
        BY <2>1 DEF Ordered!Settled
      <3> QED
        BY <2>1, <2>2, <3>1, <3>2 DEF IInv, KnownInv
    <2>6. OrderInv'
      BY <2>1, OrderFrame DEF IInv, Waits
    <2> QED
      BY <2>1, <2>2, <2>3, <2>4, <2>5, <2>6 DEF IInv
  <1>2. CASE ClientSends
    BY <1>2, ClientSendsInv
  <1>3. CASE ClientCloses \/ HandleTimeout
    BY <1>3, ClosesInv
  <1>4. CASE ReadTimeout \/ ReadFails
    BY <1>4, ReadFailsInv
  <1>5. CASE ReadMore
    BY <1>5, ReadMoreInv
  <1>6. CASE ParseCommand
    BY <1>6, ParseCommandInv
  <1>7. CASE ParseQuery
    BY <1>7, ParseQueryInv
  <1>8. CASE ParseEmpty
    BY <1>8, ParseEmptyInv
  <1>9. CASE ParseBad
    BY <1>9, ParseBadInv
  <1>10. CASE ParseEOF
    BY <1>10, ParseEOFInv
  <1>11. CASE QueueCommand
    BY <1>11, QueueCommandInv
  <1>12. CASE Answer
    BY <1>12, AnswerInv
  <1>13. CASE EndOfBatch
    BY <1>13, EndOfBatchInv
  <1>14. CASE SendCommands
    BY <1>14, SendCommandsInv
  <1>15. CASE CommandsDone \/ CommandsTimeout
    BY <1>15, CommandsEndInv
  <1>16. CASE \E s \in senders : SenderEnds(s)
    BY <1>16, SenderEndsInv
  <1> QED
    BY <1>1, <1>2, <1>3, <1>4, <1>5, <1>6, <1>7, <1>8, <1>9, <1>10, <1>11, <1>12, <1>13,
       <1>14, <1>15, <1>16 DEF Next, Parse, Process

LEMMA Invariance == Spec => []IInv
  <1>1. Init => IInv
    BY InitInv
  <1>2. IInv /\ [Next]_vars => IInv'
    BY NextInv
  <1> QED
    BY <1>1, <1>2, PTL DEF Spec

\* What the reader and processRequests hold, also when they have stopped.
HeldInv ==
  /\ Elements(buffer) \subseteq 1 .. taken
  /\ Elements(batch) \subseteq 1 .. taken
  /\ Elements(queue) \subseteq 1 .. taken
  /\ next \in 1 .. Len(script) + 1

LEMMA HeldStep ==
  ASSUME IInv, HeldInv, [Next]_vars
  PROVE  HeldInv'
  <1>0. /\ sent \in Nat /\ taken \in Nat /\ Len(script) \in Nat
        /\ taken <= sent /\ sent <= Len(script)
        /\ buffer \in Seq(Nat) /\ batch \in Seq(Nat) /\ queue \in Seq(Nat)
    BY Numbers DEF IInv, Types
  <1>1. Elements(<<>>) = {}
    BY DEF Elements
  <1>2. buffer # <<>> =>
          Head(buffer) \in 1 .. taken /\ Head(buffer) \in Nat
          /\ Elements(Tail(buffer)) \subseteq 1 .. taken
    <2> SUFFICES ASSUME buffer # <<>>
                 PROVE  Head(buffer) \in 1 .. taken /\ Head(buffer) \in Nat
                        /\ Elements(Tail(buffer)) \subseteq 1 .. taken
      OBVIOUS
    <2>1. /\ Head(buffer) = buffer[1] /\ Len(Tail(buffer)) = Len(buffer) - 1
          /\ \A k \in 1 .. Len(Tail(buffer)) : Tail(buffer)[k] = buffer[k + 1]
      BY <1>0, HeadTailProperties
    <2>2. Len(buffer) \in Nat /\ Len(buffer) > 0
      BY <1>0, EmptySeq
    <2>3. \A k \in 1 .. Len(buffer) - 1 : k + 1 \in 1 .. Len(buffer)
      BY <2>2
    <2>4. 1 \in 1 .. Len(buffer)
      BY <2>2
    <2>5. \A k \in 1 .. Len(buffer) : buffer[k] \in 1 .. taken
      BY DEF HeldInv, Elements
    <2>6. Head(buffer) \in 1 .. taken
      BY <2>1, <2>4, <2>5
    <2> QED
      BY <1>0, <2>1, <2>3, <2>5, <2>6 DEF Elements
  <1>3. at \in {"process", "send"} =>
          /\ next \in Nat /\ 1 <= next /\ next <= Len(batch) + 1 /\ Len(batch) \in Nat
          /\ Len(batch) <= taken
    <2>1. at \in {"process", "send"} => First \in Nat /\ First + Len(batch) <= taken
      BY BaseType
    <2>2. at \in {"process", "send"} =>
            next \in Nat /\ 1 <= next /\ next <= Len(batch) + 1 /\ Len(batch) \in Nat
      BY ProcessFacts
    <2> QED
      BY <1>0, <2>1, <2>2
  <1>4. ASSUME script' = script, taken' = taken, buffer' \in {buffer, <<>>},
               batch' \in {batch, <<>>}, queue' \in {queue, <<>>}, next' \in {next, 1}
        PROVE  HeldInv'
    <2>1. 1 \in 1 .. Len(script) + 1
      BY <1>0
    <2> QED
      BY <1>1, <1>4, <2>1 DEF HeldInv
  <1>5. CASE \/ UNCHANGED vars \/ ClientSends \/ ClientCloses \/ HandleTimeout
             \/ ReadTimeout \/ ReadFails \/ SendCommands \/ ParseBad \/ ParseEOF
             \/ \E s \in senders : SenderEnds(s)
    BY <1>4, <1>5 DEF vars, ClientSends, ClientCloses, HandleTimeout, ReadTimeout, ReadFails,
       SendCommands, ParseBad, ParseEOF, SenderEnds, Return, client, reading
  <1>6. CASE ReadMore
    <2>1. PICK n \in 1 .. sent - taken :
            buffer' = [k \in 1 .. n |-> taken + k] /\ taken' = taken + n
      BY <1>6 DEF ReadMore
    <2>2. n \in Nat /\ Len(buffer') = n /\ \A k \in 1 .. n : buffer'[k] \in 1 .. taken'
      BY <1>0, <2>1
    <2>3. \A k \in 1 .. taken : k \in 1 .. taken'
      BY <1>0, <2>1, <2>2
    <2>4. Elements(buffer') \subseteq 1 .. taken'
      BY <2>2 DEF Elements
    <2> QED
      BY <1>6, <2>3, <2>4 DEF HeldInv, ReadMore, client
  <1>7. CASE ParseCommand \/ ParseQuery
    <2>1. /\ buffer # <<>> /\ batch' = Append(batch, Head(buffer)) /\ buffer' = Tail(buffer)
          /\ next' \in {next, 1} /\ UNCHANGED <<script, taken, queue>>
      BY <1>7 DEF ParseCommand, ParseQuery, Parses, client
    <2>2. Elements(batch') = Elements(batch) \cup {Head(buffer)}
      BY <1>0, <1>2, <2>1, ElementsAppend
    <2>3. 1 \in 1 .. Len(script) + 1
      BY <1>0
    <2> QED
      BY <1>2, <2>1, <2>2, <2>3 DEF HeldInv
  <1>8. CASE ParseEmpty
    <2>1. CASE buffer' = Tail(buffer)
      <3>1. /\ next' \in {next, 1} /\ UNCHANGED <<script, taken, queue>> /\ buffer # <<>>
            /\ batch' \in {batch, <<>>}
        BY <1>8 DEF ParseEmpty, Parses, client, ParseAgain, Return, reading
      <3>2. 1 \in 1 .. Len(script) + 1
        BY <1>0
      <3> QED
        BY <1>1, <1>2, <2>1, <3>1, <3>2 DEF HeldInv
    <2>2. CASE buffer' # Tail(buffer)
      BY <1>4, <1>8, <2>2 DEF ParseEmpty, client, ParseAgain, Return, reading
    <2> QED
      BY <2>1, <2>2
  <1>9. CASE QueueCommand
    <2>1. /\ at = "process" /\ next <= Len(batch) /\ queue' = Append(queue, batch[next])
          /\ next' = next + 1 /\ UNCHANGED <<script, taken, buffer, batch>>
      BY <1>9 DEF QueueCommand, Processing, client, reading
    <2>2. next \in 1 .. Len(batch) /\ next + 1 \in 1 .. Len(script) + 1
      BY <1>0, <1>3, <2>1
    <2>3. batch[next] \in 1 .. taken
      BY <2>2 DEF HeldInv, Elements
    <2>4. batch[next] \in Nat
      BY <1>0, <2>3
    <2>5. Elements(queue') = Elements(queue) \cup {batch[next]}
      BY <1>0, <2>1, <2>4, ElementsAppend
    <2> QED
      BY <2>1, <2>2, <2>3, <2>5 DEF HeldInv
  <1>10. CASE Answer
    <2>1. CASE next' = next + 1
      <3>1. /\ at = "process" /\ next <= Len(batch) /\ UNCHANGED <<script, taken, queue>>
            /\ buffer' \in {buffer, <<>>} /\ batch' \in {batch, <<>>}
        BY <1>10 DEF Answer, Processing, client, reading, Finish, ParseAgain, Return
      <3>2. next + 1 \in 1 .. Len(script) + 1
        BY <1>0, <1>3, <3>1
      <3> QED
        BY <1>1, <2>1, <3>1, <3>2 DEF HeldInv
    <2>2. CASE next' # next + 1
      BY <1>4, <1>10, <2>2 DEF Answer, client, reading, Finish, ParseAgain, Return
    <2> QED
      BY <2>1, <2>2
  <1>11. CASE EndOfBatch
    BY <1>4, <1>11 DEF EndOfBatch, client, reading, ParseAgain, Return
  <1>12. CASE CommandsDone \/ CommandsTimeout
    <2>1. PICK code : CommandReply(code)
      BY <1>12 DEF CommandsDone, CommandsTimeout
    <2> QED
      BY <1>4, <2>1 DEF CommandReply, client, reading, Finish, ParseAgain, Return
  <1> QED
    BY <1>5, <1>6, <1>7, <1>8, <1>9, <1>10, <1>11, <1>12 DEF Next, Parse, Process

\* What is read, buffered, parsed, queued, sent or replied to are messages that have
\* arrived, whatever part of the stream a read returns (ParseRequests).
THEOREM TypeCorrect == Spec => []TypeOK
  <1>1. Init => HeldInv
    <2> SUFFICES ASSUME Init PROVE HeldInv
      OBVIOUS
    <2>1. Elements(<<>>) = {}
      BY DEF Elements
    <2>2. 1 \in 1 .. Len(script) + 1
      BY ScriptsAssumption DEF Init
    <2> QED
      BY <2>1, <2>2 DEF Init, HeldInv
  <1>2. IInv /\ HeldInv /\ [Next]_vars => HeldInv'
    BY HeldStep
  <1>3. IInv /\ HeldInv => TypeOK
    <2> SUFFICES ASSUME IInv, HeldInv PROVE TypeOK
      OBVIOUS
    <2>1. /\ sent \in Nat /\ taken \in Nat /\ Len(script) \in Nat
          /\ taken <= sent /\ sent <= Len(script)
      BY Numbers DEF IInv
    <2>2. /\ script \in Scripts /\ sent \in 0 .. Len(script) /\ eof \in BOOLEAN
          /\ taken \in 0 .. sent
          /\ at \in {"parse", "process", "send", "closed"}
          /\ ended \in BOOLEAN /\ keepAlive \in BOOLEAN /\ cut \in BOOLEAN
      BY DEF IInv, Types
    <2>3. /\ Elements(buffer) \cup Elements(batch) \cup Elements(queue) \subseteq 1 .. taken
          /\ next \in 1 .. Len(script) + 1
      BY DEF HeldInv
    <2>4. \A s \in senders : /\ s.peer \in Peers /\ Elements(s.cmds) \subseteq 1 .. taken
                             /\ s.result \in {"sending", "ok", "error"}
      BY DEF IInv, Types, UsedInv, Senders
    <2>5. \A r \in Elements(replies) : r.to \in 1 .. taken /\ r.code \in Codes
      <3>1. \A r \in Elements(replies) : r \in Replies
        BY ElementOfSeq DEF Elements, IInv, Types
      <3> QED
        BY <3>1 DEF IInv, KnownInv, Replies
    <2>6. \A p \in Peers : Elements(applied[p]) \subseteq 1 .. taken
      BY DEF IInv, UsedInv
    <2> QED
      BY <2>2, <2>3, <2>4, <2>5, <2>6 DEF TypeOK
  <1> QED
    BY <1>1, <1>2, <1>3, Invariance, PTL DEF Spec

\* A backend gets the commands of a connection in the order of the stream, unless a
\* reply 202 has told the client that goroutines of SendCommands were left behind.
THEOREM InOrder == Spec => []CommandsInOrder
  <1>1. IInv => CommandsInOrder
    BY DEF IInv, OrderInv, CommandsInOrder
  <1> QED
    BY <1>1, Invariance, PTL

\* The connection implements OrderedReplies: replies come in the order of the requests,
\* at most one for each, none for a later request than a query that has no reply, and
\* with the answer to a query the fate of all earlier commands is known; a backend gets
\* a command at most once (answer, ParseRequests, processRequests, SendCommands).
THEOREM Refinement == Spec => ImplementsOrderedReplies
  <1>1. Init => Ordered!Init
    BY InitInv
  <1>2. IInv /\ [Next]_vars => [Ordered!Next]_<<script, replies, applied>>
    BY NextInv
  <1> QED
    BY <1>1, <1>2, Invariance, PTL DEF Spec, Ordered!Spec, ImplementsOrderedReplies
=============================================================================
