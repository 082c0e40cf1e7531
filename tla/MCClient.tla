------------------------------ MODULE MCClient ------------------------------
(* Instances of ClientConnection for TLC.                                    *)
EXTENDS ClientConnection

\* All streams of up to Longest requests; a blank line, which the client cannot wait
\* for, only at the end.
ShortScripts ==
  {s \in UNION {[1 .. n -> Kinds] : n \in 1 .. Longest} :
     \A j \in 1 .. Len(s) - 1 : s[j] # "empty"}
=============================================================================
