-------------------------- MODULE ClientConnection --------------------------
(***************************************************************************)
(* One client connection (lmd/client_con.go, ParseRequests in               *)
(* lmd/request.go): requests are read and handled in batches, queries are   *)
(* answered, commands are collected and sent to their backends by a         *)
(* goroutine per backend, which may outlive the wait for it.                *)
(*                                                                         *)
(* The client's stream is a sequence of messages, one per request or blank  *)
(* line, named by their places in it.  Every call of ParseRequests has a    *)
(* bufio.Reader of its own: what that has read and not parsed is gone.      *)
(* A client that has sent a query waits for the reply before it goes on;    *)
(* it cannot wait after a command, which is answered only when it fails.    *)
(* Every command goes to all Peers.  How a backend gets a command is in     *)
(* module Peer.                                                            *)
(***************************************************************************)
EXTENDS Integers, Sequences, FiniteSets

CONSTANTS
  Peers,     \* the backends of a command
  Scripts,   \* the streams of messages a client may send
  Longest    \* bound: their length

Queries == {"get", "getKeep"}
Commands == {"command", "commandKeep"}
Kept == {"getKeep", "commandKeep"}        \* header KeepAlive: on
Kinds == Queries \cup Commands \cup {"empty", "bad"}

ASSUME ScriptsAssumption ==
  Scripts \subseteq Seq(Kinds) /\ Longest \in Nat /\ \A s \in Scripts : Len(s) <= Longest
\* Nothing follows a blank line.  The client cannot wait for what it brings about, and
\* what is read together with it may be thrown away (ParseAgain).
ASSUME BlankAssumption == \A s \in Scripts : \A j \in 1 .. Len(s) - 1 : s[j] # "empty"

VARIABLES
  script,     \* what this client sends
  sent,       \* messages that have arrived
  eof,        \* the client has closed its side
  taken,      \* messages read from the socket
  buffer,     \* those the bufio.Reader still holds
  at,         \* what the goroutine in answer does
  batch,      \* reqs
  ended,      \* ParseRequests has met the end of the stream
  next,       \* the request that processRequests handles
  queue,      \* commandsByPeer
  keepAlive,  \* cl.keepAlive
  cut,        \* Handle has closed the connection: listenTimeout
  senders,    \* goroutines of SendCommands
  replies,    \* what the client receives
  applied     \* per backend: the commands it has received

client == <<script, sent, eof>>
reading == <<taken, buffer, batch, ended>>
vars == <<script, sent, eof, taken, buffer, at, batch, ended, next, queue, keepAlive,
          cut, senders, replies, applied>>

Init ==
  /\ script \in Scripts /\ sent = 0 /\ eof = FALSE
  /\ taken = 0 /\ buffer = <<>> /\ at = "parse" /\ batch = <<>> /\ ended = FALSE
  /\ next = 1 /\ queue = <<>> /\ keepAlive = FALSE /\ cut = FALSE
  /\ senders = {} /\ replies = <<>> /\ applied = [p \in Peers |-> <<>>]

Elements(s) == {s[j] : j \in 1 .. Len(s)}
Replied(i) == \E r \in Elements(replies) : r.to = i

(***************************************************************************)
(* The client.                                                             *)
(***************************************************************************)
ClientSends ==
  /\ sent < Len(script) /\ ~eof /\ at # "closed"
  /\ \A j \in 1 .. sent : script[j] \in Queries => Replied(j)
  /\ sent' = sent + 1
  /\ UNCHANGED <<script, eof, reading, at, next, queue, keepAlive, cut, senders, replies,
                 applied>>

ClientCloses ==
  /\ ~eof /\ at # "closed"
  /\ eof' = TRUE
  /\ UNCHANGED <<script, sent, reading, at, next, queue, keepAlive, cut, senders, replies,
                 applied>>

(***************************************************************************)
(* answer: the next call of ParseRequests, or the return with its deferred  *)
(* Close.  Write fails when Handle has closed the connection.               *)
(***************************************************************************)
ParseAgain ==
  /\ at' = "parse" /\ buffer' = <<>> /\ batch' = <<>> /\ ended' = FALSE
  /\ UNCHANGED taken
Return == at' = "closed" /\ UNCHANGED reading
Send(i, code) ==
  replies' = IF cut THEN replies ELSE Append(replies, [to |-> i, code |-> code])

\* The end of processRequests: with an error or after a query without keepalive
\* cl.keepAlive is what the last batch that was handled to its end has made it.
Finish == IF keepAlive THEN ParseAgain ELSE Return

(***************************************************************************)
(* ParseRequests: only commands may be followed by more requests.           *)
(***************************************************************************)
readsTooFar ==                            \* mutant: part of a message taken for one
  /\ at = "parse" /\ buffer = <<>> /\ ~cut /\ taken < sent
  /\ buffer' = [k \in 1 .. (sent - taken) + 1 |-> taken + k]
  /\ taken' = sent + 1
  /\ UNCHANGED <<client, at, batch, ended, next, queue, keepAlive, cut, senders, replies,
                 applied>>
ReadMore ==
  /\ at = "parse" /\ buffer = <<>> /\ ~cut /\ taken < sent
  /\ \E n \in 1 .. sent - taken :
       /\ buffer' = [k \in 1 .. n |-> taken + k]
       /\ taken' = taken + n
  /\ UNCHANGED <<client, at, batch, ended, next, queue, keepAlive, cut, senders, replies,
                 applied>>

Parses(kinds) == at = "parse" /\ buffer # <<>> /\ script[Head(buffer)] \in kinds

ParseCommand ==
  /\ Parses(Commands)
  /\ batch' = Append(batch, Head(buffer)) /\ buffer' = Tail(buffer)
  /\ UNCHANGED <<client, taken, ended, at, next, queue, keepAlive, cut, senders, replies,
                 applied>>

ParseQuery ==
  /\ Parses(Queries)
  /\ batch' = Append(batch, Head(buffer)) /\ buffer' = Tail(buffer)
  /\ at' = "process" /\ next' = 1
  /\ UNCHANGED <<client, taken, ended, queue, keepAlive, cut, senders, replies, applied>>

\* A blank line ends a batch.  Without one, a kept connection waits for more.
ParseEmpty ==
  /\ Parses({"empty"})
  /\ \/ /\ batch # <<>>
        /\ at' = "process" /\ next' = 1 /\ buffer' = Tail(buffer)
        /\ UNCHANGED <<taken, batch, ended, replies>>
     \/ /\ batch = <<>> /\ keepAlive
        /\ ParseAgain /\ UNCHANGED <<next, replies>>
     \/ /\ batch = <<>> /\ ~keepAlive
        /\ Send(Head(buffer), 400) /\ Return /\ UNCHANGED next
  /\ UNCHANGED <<client, queue, keepAlive, cut, senders, applied>>

\* The commands of the batch are given up with it.
ParseBad ==
  /\ Parses({"bad"})
  /\ Send(Head(buffer), 400) /\ Return
  /\ UNCHANGED <<client, next, queue, keepAlive, cut, senders, applied>>

eofDrops ==                               \* mutant: io.EOF returned with the requests
  /\ at = "parse" /\ buffer = <<>> /\ ~cut /\ taken = sent /\ eof
  /\ Return
  /\ UNCHANGED <<client, next, queue, keepAlive, cut, senders, replies, applied>>
ParseEOF ==
  /\ at = "parse" /\ buffer = <<>> /\ ~cut /\ taken = sent /\ eof
  /\ \/ batch = <<>> /\ Return /\ UNCHANGED next
     \/ /\ batch # <<>>
        /\ at' = "process" /\ next' = 1 /\ ended' = TRUE
        /\ UNCHANGED <<taken, buffer, batch>>
  /\ UNCHANGED <<client, queue, keepAlive, cut, senders, replies, applied>>

\* A net.Error: Handle has closed the connection, or its deadline has passed.
ReadFails ==
  /\ at = "parse" /\ buffer = <<>> /\ cut
  /\ Return
  /\ UNCHANGED <<client, next, queue, keepAlive, cut, senders, replies, applied>>

ReadTimeout ==
  /\ at = "parse" /\ buffer = <<>> /\ ~cut /\ taken = sent /\ ~eof
  /\ Return
  /\ UNCHANGED <<client, next, queue, keepAlive, cut, senders, replies, applied>>

(***************************************************************************)
(* processRequests.                                                        *)
(***************************************************************************)
Processing == at = "process" /\ next <= Len(batch)

queueReversed ==                          \* mutant: commands prepended
  /\ Processing /\ script[batch[next]] \in Commands
  /\ queue' = <<batch[next]>> \o queue /\ next' = next + 1
  /\ UNCHANGED <<client, reading, at, keepAlive, cut, senders, replies, applied>>
QueueCommand ==
  /\ Processing /\ script[batch[next]] \in Commands
  /\ queue' = Append(queue, batch[next]) /\ next' = next + 1
  /\ UNCHANGED <<client, reading, at, keepAlive, cut, senders, replies, applied>>

errorsUnanswered ==                       \* mutant: errors of GetResponse not sent
  /\ Processing /\ script[batch[next]] \in Queries /\ queue = <<>>
  /\ \/ /\ Send(batch[next], 200)
        /\ IF ~cut /\ script[batch[next]] \in Kept
           THEN next' = next + 1 /\ UNCHANGED <<reading, at>>
           ELSE Finish /\ UNCHANGED next
     \/ Finish /\ UNCHANGED <<next, replies>>
  /\ UNCHANGED <<client, queue, keepAlive, cut, senders, applied>>
Answer ==
  /\ Processing /\ script[batch[next]] \in Queries /\ queue = <<>>
  /\ \/ /\ Send(batch[next], 200)                          \* a response
        /\ IF ~cut /\ script[batch[next]] \in Kept
           THEN next' = next + 1 /\ UNCHANGED <<reading, at>>
           ELSE Finish /\ UNCHANGED next
     \/ /\ \E code \in {400, 502} : Send(batch[next], code) \* an error
        /\ Finish /\ UNCHANGED next
  /\ UNCHANGED <<client, queue, keepAlive, cut, senders, applied>>

EndOfBatch ==
  /\ at = "process" /\ next > Len(batch) /\ queue = <<>>
  /\ keepAlive' = (script[batch[Len(batch)]] \in Kept /\ ~ended)
  /\ IF keepAlive' THEN ParseAgain ELSE Return
  /\ UNCHANGED <<client, next, queue, cut, senders, replies, applied>>

(***************************************************************************)
(* sendRemainingCommands and SendCommands: before a query and at the end of *)
(* a batch.  Queries follow whatever the reply to the commands was.         *)
(***************************************************************************)
SendCommands ==
  /\ at = "process" /\ queue # <<>>
  /\ next <= Len(batch) => script[batch[next]] \in Queries
  /\ senders' = senders \cup {[peer |-> p, cmds |-> queue, result |-> "sending"] : p \in Peers}
  /\ at' = "send"
  /\ UNCHANGED <<client, reading, next, queue, keepAlive, cut, replies, applied>>

\* SendCommandsWithRetry ends: the backend has the commands, or not although it
\* was tried, or has them although an error was seen.
SenderEnds(s) ==
  /\ s.result = "sending"
  /\ \E result \in {"ok", "error"}, got \in BOOLEAN :
       /\ result = "ok" => got
       /\ senders' = (senders \ {s}) \cup {[s EXCEPT !.result = result]}
       /\ applied' = IF got THEN [applied EXCEPT ![s.peer] = @ \o s.cmds] ELSE applied
  /\ UNCHANGED <<client, reading, at, next, queue, keepAlive, cut, replies>>

Current == {s \in senders : s.cmds = queue}
CommandReply(code) ==
  /\ queue' = <<>>
  /\ IF code = 200 THEN at' = "process" /\ UNCHANGED <<reading, replies>>
     ELSE /\ Send(queue[Len(queue)], code)
          /\ IF cut THEN Finish ELSE at' = "process" /\ UNCHANGED reading
  /\ UNCHANGED <<client, next, keepAlive, cut, senders, applied>>

\* Any error makes the reply an error.
anyOK ==                                  \* mutant: the last result counts
  /\ at = "send" /\ \A s \in Current : s.result # "sending"
  /\ \/ (\E s \in Current : s.result = "ok") /\ CommandReply(200)
     \/ (\E s \in Current : s.result = "error") /\ \E code \in {400, 500} : CommandReply(code)
CommandsDone ==
  /\ at = "send" /\ \A s \in Current : s.result # "sending"
  /\ \/ (\A s \in Current : s.result = "ok") /\ CommandReply(200)
     \/ (\E s \in Current : s.result = "error") /\ \E code \in {400, 500} : CommandReply(code)

CommandsTimeout ==
  /\ at = "send" /\ \E s \in Current : s.result = "sending"
  /\ CommandReply(202)

\* Handle: the goroutine in answer goes on without its connection.
HandleTimeout ==
  /\ ~cut /\ at # "closed"
  /\ cut' = TRUE
  /\ UNCHANGED <<client, reading, at, next, queue, keepAlive, senders, replies, applied>>

-----------------------------------------------------------------------------
Parse == \/ ReadMore \/ ParseCommand \/ ParseQuery \/ ParseEmpty \/ ParseBad
         \/ ParseEOF \/ ReadFails
Process == QueueCommand \/ Answer \/ EndOfBatch \/ SendCommands \/ CommandsDone
           \/ CommandsTimeout
Next ==
  \/ ClientSends \/ ClientCloses \/ HandleTimeout \/ ReadTimeout
  \/ Parse \/ Process
  \/ \E s \in senders : SenderEnds(s)

Spec == Init /\ [][Next]_vars
\* The goroutine in answer runs: nothing it waits for but the client is without a
\* timeout.  That the client's time runs out is not relied on.
FairSpec == Spec /\ WF_vars(Parse \/ Process)

-----------------------------------------------------------------------------
Places == 1 .. Len(script)
Codes == {200, 202, 400, 500, 502}

\* Every variable has a value the code can give it, and what is read, buffered,
\* parsed or queued are messages that have arrived.
TypeOK ==
  /\ script \in Scripts /\ sent \in 0 .. Len(script) /\ eof \in BOOLEAN
  /\ taken \in 0 .. sent
  /\ Elements(buffer) \cup Elements(batch) \cup Elements(queue) \subseteq 1 .. taken
  /\ at \in {"parse", "process", "send", "closed"}
  /\ ended \in BOOLEAN /\ keepAlive \in BOOLEAN /\ cut \in BOOLEAN
  /\ next \in 1 .. Len(script) + 1
  /\ \A s \in senders : /\ s.peer \in Peers /\ Elements(s.cmds) \subseteq 1 .. taken
                        /\ s.result \in {"sending", "ok", "error"}
  /\ \A r \in Elements(replies) : r.to \in 1 .. taken /\ r.code \in Codes
  /\ \A p \in Peers : Elements(applied[p]) \subseteq 1 .. taken

\* The connection implements what its client may rely on: replies in order and at
\* most one for a request, no query passed over, and the fate of earlier commands
\* known when a query is answered (answer, processRequests, SendCommands).
Ordered == INSTANCE OrderedReplies
             WITH Peers <- Peers, Queries <- Queries, Commands <- Commands,
                  script <- script, replies <- replies, applied <- applied
ImplementsOrderedReplies == Ordered!Spec

\* A backend gets the commands of a connection in the order they were sent in,
\* unless the client was told that some are still being sent (SendCommands: the
\* goroutines of a call that has timed out run on beside those of the next).
Increasing(cs) == \A j, k \in 1 .. Len(cs) : j < k => cs[j] < cs[k]
CommandsInOrder ==
  \/ \A p \in Peers : Increasing(applied[p])
  \/ \E r \in Elements(replies) : r.code = 202

\* Commands that were read before the client closed its side are not lost: they
\* are sent to the backends, or the client gets an error, unless the connection
\* has timed out (ParseRequests, processRequests).
ReadCommandsAreSent ==
  \A j \in 1 .. Longest :
    (at = "parse" /\ eof /\ j \in Elements(batch)) ~> (Ordered!Settled(j) \/ cut)

\* A query that has arrived is answered or the connection is closed (answer).
QueriesAnswered ==
  \A j \in 1 .. Longest :
    (j <= sent /\ j \in DOMAIN script /\ script[j] \in Queries) ~> (Replied(j) \/ at = "closed")

\* Contradicted: without keepalive the connection is closed after the answer.
ClosedUnlessKept ==
  at = "parse" /\ batch = <<>> /\ replies # <<>> =>
    \A j \in Places : script[j] = "get" => ~Replied(j)
=============================================================================
