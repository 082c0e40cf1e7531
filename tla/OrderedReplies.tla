--------------------------- MODULE OrderedReplies ---------------------------
(***************************************************************************)
(* What a client of the livestatus socket may rely on.  Requests carry no   *)
(* number: the client knows the answer to a query only by its place in the  *)
(* stream.  So every reply belongs to a later request than the one before,  *)
(* no query is passed over, a command reaches a backend at most once, and   *)
(* who gets the answer to a query knows what has become of the commands it  *)
(* has sent before: they were sent to all backends, or an error said so.    *)
(***************************************************************************)
EXTENDS Integers, Sequences

CONSTANTS Peers, Queries, Commands    \* the kinds of requests that are which
VARIABLES script, replies, applied

OK == 200
Last(rs) == IF rs = <<>> THEN 0 ELSE rs[Len(rs)].to
Elements(s) == {s[j] : j \in 1 .. Len(s)}

Init ==
  /\ replies = <<>>
  /\ applied = [p \in Peers |-> <<>>]

\* A command is settled when every backend has it or an error was reported since.
Settled(j) ==
  \/ \A p \in Peers : j \in Elements(applied[p])
  \/ \E r \in Elements(replies) : r.to >= j /\ r.code # OK

Reply(i, code) ==
  /\ Last(replies) < i
  /\ \A j \in Last(replies) + 1 .. i - 1 : script[j] \notin Queries
  /\ code = OK =>
       /\ script[i] \in Queries
       /\ \A j \in 1 .. i - 1 : script[j] \in Commands => Settled(j)
  /\ replies' = Append(replies, [to |-> i, code |-> code])
  /\ UNCHANGED <<script, applied>>

\* Some commands that the backend does not have yet, in the order of the client.
Increasing(cs) == \A j, k \in 1 .. Len(cs) : j < k => cs[j] < cs[k]
Apply(p) ==
  /\ Len(applied'[p]) > Len(applied[p])
  /\ \A j \in 1 .. Len(applied[p]) : applied'[p][j] = applied[p][j]
  /\ LET cs == SubSeq(applied'[p], Len(applied[p]) + 1, Len(applied'[p]))
     IN /\ Increasing(cs)
        /\ \A j \in Elements(cs) : script[j] \in Commands /\ j \notin Elements(applied[p])
  /\ \A q \in Peers \ {p} : applied'[q] = applied[q]
  /\ UNCHANGED <<script, replies>>

Next ==
  \/ \E i \in 1 .. Len(script), code \in {200, 202, 400, 500, 502} : Reply(i, code)
  \/ \E p \in Peers : Apply(p)

Spec == Init /\ [][Next]_<<script, replies, applied>>
=============================================================================
