----------------------------- MODULE Connections -----------------------------
(***************************************************************************)
(* What the libuv front end promises about its connections, without the    *)
(* callbacks: a connection is offered, open, shutting (its last response   *)
(* is out), closing and over, in this order; every request received is     *)
(* owed one response while the connection is open and none later; and a    *)
(* connection is over only when nothing is owed any more.  UvServer        *)
(* implements it.                                                          *)
(***************************************************************************)
EXTENDS Integers

CONSTANT Conns   (* the connections the server may be offered               *)

VARIABLES
  server,     (* the process                                                *)
  state,      (* of each connection                                         *)
  received,   (* requests that arrived completely                           *)
  owed,       (* responses not yet written, or found to be undeliverable    *)
  refused     (* responses that came too late to be written                 *)

vars == <<server, state, received, owed, refused>>

States == {"none", "rejected", "open", "shutting", "closing", "over"}

TypeOK ==
  /\ server \in {"running", "stopped", "dead"}
  /\ state \in [Conns -> States]
  /\ received \in [Conns -> Nat] /\ owed \in [Conns -> Nat] /\ refused \in [Conns -> Nat]

Init ==
  /\ server = "running"
  /\ state = [c \in Conns |-> "none"]
  /\ received = [c \in Conns |-> 0]
  /\ owed = [c \in Conns |-> 0]
  /\ refused = [c \in Conns |-> 0]

-----------------------------------------------------------------------------
(* What one connection may do in a step.                                    *)

Moves(c, from, to) == state[c] \in from /\ state'[c] = to

SameCounts(c) ==
  received'[c] = received[c] /\ owed'[c] = owed[c] /\ refused'[c] = refused[c]

Stays(c) == state'[c] = state[c] /\ SameCounts(c)

Offered(c) ==
  /\ Moves(c, {"none"}, "open") \/ Moves(c, {"none"}, "rejected")
  /\ SameCounts(c)

\* Requests that no response is made for: the one whose handler ends the
\* process.
Unanswered == IF server' = "dead" THEN {0, 1} ELSE {0}

\* Requests arrive.  Once the last response is out, further ones are refused.
Receives(c) ==
  /\ state[c] \in {"open", "shutting"} /\ state'[c] = state[c]
  /\ received'[c] > received[c]
  /\ \E u \in Unanswered :
       LET n == received'[c] - received[c] - u
       IN IF state[c] = "open"
          THEN owed'[c] = owed[c] + n /\ refused'[c] = refused[c]
          ELSE refused'[c] = refused[c] + n /\ owed'[c] = owed[c]

\* The oldest response is done; it may be the last.
Answers(c) ==
  /\ owed[c] > 0
  /\ owed'[c] = owed[c] - 1
  /\ received'[c] = received[c] /\ refused'[c] = refused[c]
  /\ state'[c] = state[c] \/ Moves(c, {"open"}, "shutting")

Closes(c) == Moves(c, {"open", "shutting"}, "closing") /\ SameCounts(c)

Ends(c) == owed[c] = 0 /\ Moves(c, {"closing"}, "over") /\ SameCounts(c)

Step(c) == Stays(c) \/ Offered(c) \/ Receives(c) \/ Answers(c) \/ Closes(c) \/ Ends(c)

\* Several connections may step at once (stop closes all).  The server leaves
\* its loop only when no connection is left, and does nothing after it ended.
Next ==
  /\ server = "running"
  /\ TypeOK'
  /\ \A c \in Conns : Step(c)
  /\ server' = "stopped" => \A c \in Conns : state[c] \in {"none", "rejected", "over"}

Spec == Init /\ [][Next]_vars

-----------------------------------------------------------------------------
\* Of what a connection received some is owed or refused and the rest was
\* answered; none is refused before the last response is out, and nothing is
\* owed when a connection is over or was never accepted.
Settled ==
  \A c \in Conns :
    /\ server # "dead" => owed[c] + refused[c] <= received[c]
    /\ state[c] \in {"none", "rejected", "open"} => refused[c] = 0
    /\ state[c] \in {"none", "rejected", "over"} => owed[c] = 0
    /\ state[c] \in {"none", "rejected"} => received[c] = 0

===============================================================================
