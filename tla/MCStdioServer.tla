----------------------------- MODULE MCStdioServer -----------------------------
(* Small instances of StdioServer for TLC.                                 *)
EXTENDS StdioServer

Read(wantsReply) ==
  [valid |-> TRUE, wantsReply |-> wantsReply, method |-> "resources/read",
   params |-> "registered"]
Unknown ==
  [valid |-> TRUE, wantsReply |-> TRUE, method |-> "nothing",
   params |-> "malformed"]

F(k, l, m) == [key |-> k, length |-> l, message |-> m]

\* Well framed messages of every kind, and a request with every wrong length
\* and with the other key.
MixedFrames ==
  {F(AcceptedKey, "exact", m) :
     m \in {Read(TRUE), Read(FALSE), Unknown, [valid |-> FALSE]}}
    \union {F(AcceptedKey, l, Read(TRUE)) : l \in Lengths}
    \union {F(WrittenKey, "exact", Read(TRUE))}

\* Clients that use the header the server writes.
ConformingFrames == {F(WrittenKey, "exact", m) : m \in {Read(TRUE), Unknown}}
===============================================================================
