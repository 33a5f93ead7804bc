------------------------------ MODULE MCUvServer ------------------------------
(***************************************************************************)
(* Instances of UvServer for TLC: one connection whose client waits for    *)
(* its responses, one whose client pipelines, and streams of at most two   *)
(* requests: the second request is what meets the parser state the first   *)
(* left.                                                                   *)
(***************************************************************************)
EXTENDS UvServer

CONSTANTS c1, c2   \* connections

R(v, k, f) == [version |-> v, connection |-> k, fault |-> f]

KeepAlive == R(11, "none", "none")
CloseIt == R(11, "close", "none")
OldClose == R(10, "none", "none")
OldKeep == R(10, "keep-alive", "none")
Bad == R(11, "none", "parse")
Throwing == R(11, "none", "handler")

MCConns == {c1, c2}
MCPipelining == {c2}

\* Every kind of request alone and before or after one of another kind.
MCStreams ==
  {<<KeepAlive, CloseIt>>, <<CloseIt, KeepAlive>>, <<OldClose, KeepAlive>>,
   <<OldKeep, OldClose>>, <<KeepAlive, Bad>>, <<OldKeep, Throwing>>}

\* For the stop run: well-formed requests, the last of which ends the connection.
MCStreamsStop == {<<KeepAlive, CloseIt>>}
===============================================================================
