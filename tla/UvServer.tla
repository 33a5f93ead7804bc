------------------------------- MODULE UvServer -------------------------------
(***************************************************************************)
(* The libuv front end of whs: class LibuvWhs and its callbacks            *)
(* (src/src/uv.cpp), with the Client object it makes for each connection   *)
(* (src/src/client.h, client.cpp).                                         *)
(*                                                                         *)
(* One loop thread runs every callback to its end, so a callback is one    *)
(* action.  What the loop interleaves is the order of the callbacks of the *)
(* connections, and stop(), which another thread calls.  libuv is modelled *)
(* by its contract: requests complete in order, a closing handle cancels   *)
(* its requests and then runs its close callback, closing a handle that    *)
(* already closes fails an assertion and ends the process.                 *)
(*                                                                         *)
(* A client's bytes are abstracted to parser events: each request is four  *)
(* of them (Phases), and a read delivers any number of the next ones, so a *)
(* read may stop inside a request (uvAllocCB hands out 512 bytes) or hold  *)
(* several requests.                                                       *)
(***************************************************************************)
EXTENDS Integers, Sequences

CONSTANTS
  Conns,          (* the connections the server may be offered               *)
  Streams,        (* what a client may send: sequences of Request            *)
  Pipelining,     (* connections whose next request may be read before the   *)
                  (* write callback of an earlier response has run           *)
  AcceptResults,  (* outcomes of uv_accept: TRUE is success                  *)
  Strict,         (* http_parser was built with HTTP_PARSER_STRICT           *)
  MaxStops        (* bound: how often stop() is called                       *)

Request == [ version : {10, 11},                  \* HTTP/1.0 or HTTP/1.1
             connection : {"none", "close", "keep-alive"},
             fault : {"none", "parse", "handler"} ]

ASSUME StreamsAssumption == Streams \subseteq Seq(Request)
ASSUME PipeliningAssumption == Pipelining \subseteq Conns
ASSUME AcceptAssumption == AcceptResults \subseteq BOOLEAN
ASSUME StrictAssumption == Strict \in BOOLEAN
ASSUME MaxStopsAssumption == MaxStops \in Nat

VARIABLES
  outcome,   (* the process: "running", "exited" (start() returned), or how it died *)
  stopping,  (* stop_uv() has run                                               *)
  stops,     (* calls of stop() so far                                          *)
  async,     (* stop_async was signalled and its callback has not run           *)
  handle,    (* c's uv_tcp_t in the loop                                        *)
  closeCB,   (* the callback uv_close() was given                               *)
  reading,   (* uv_read_start() is in force                                     *)
  shut,      (* an uv_shutdown() request is outstanding                         *)
  writes,    (* uv_write() requests whose callback has not run                  *)
  refused,   (* responses uv_write() returned an error for                      *)
  heap,      (* which objects of the connection are allocated                   *)
  stream,    (* what c's client sends                                           *)
  pos        (* parser events of stream[c] consumed                             *)

process == <<outcome, stopping, stops, async>>
vars == <<outcome, stopping, stops, async, handle, closeCB, reading, shut,
          writes, refused, heap, stream, pos>>

Objects == {"client", "two", "tcp"}
HandleStates == {"absent", "open", "closing", "closed", "freed"}
Crashes == {"exception", "closeTwice", "freedHandle"}
Outcomes == {"running", "exited"} \cup Crashes
-------------------------------------------------------------------------------
(***************************************************************************)
(* The parser position.  Event p (from 1) is phase Phase(p) of request     *)
(* Index(p): 1 message begin, 2 request line, 3 headers, 4 complete.       *)
(***************************************************************************)
Phases == 4
Index(p) == ((p - 1) \div Phases) + 1
Phase(p) == ((p - 1) % Phases) + 1
Complete(p) == p \div Phases          \* requests completed by the first p events
StreamEnd(c) == Phases * Len(stream[c])

\* parser.http_major/minor: kept from the previous message until the request
\* line of the next one is read, 0 in a fresh parser.
Version(c) ==
  IF pos[c] = 0 THEN 0
  ELSE IF Phase(pos[c]) >= 2 THEN stream[c][Index(pos[c])].version
  ELSE IF Index(pos[c]) > 1 THEN stream[c][Index(pos[c]) - 1].version
  ELSE 0

\* parser.flags: cleared when a message begins, set by its headers.
Flag(c) ==
  IF pos[c] > 0 /\ Phase(pos[c]) >= 3
    THEN stream[c][Index(pos[c])].connection
    ELSE "none"

\* MUTANTS: the HTTP/1.0 rule for every version; a lost close flag.
ShouldCloseAsHttp10(c) == Flag(c) # "keep-alive"
ShouldNeverClose(c) == Version(c) = 10 /\ Flag(c) = "close"

\* Client::connection_should_close(): http_should_keep_alive(&parser) == 0,
\* asked of the parser as it is when the write callback runs.
ConnectionShouldClose(c) ==
  IF Version(c) = 11 THEN Flag(c) = "close" ELSE Flag(c) # "keep-alive"

\* Request i asks for the connection to be closed after its response.
AsksToClose(c, i) ==
  LET r == stream[c][i]
  IN  IF r.version = 11 THEN r.connection = "close" ELSE r.connection # "keep-alive"

\* Event p of c makes HttpParser::readFromNetwork throw: http_parser refuses
\* the bytes, or (strict) more bytes follow a message that closed the
\* connection, or the request's handler throws.
Throws(c, p) ==
  LET r == stream[c][Index(p)]
  IN  \/ Phase(p) = 2 /\ r.fault = "parse"
      \/ Phase(p) = 4 /\ r.fault = "handler"
      \/ Strict /\ Phase(p) = 1 /\ Index(p) > 1 /\ AsksToClose(c, Index(p) - 1)

\* A read of n more events.  On a connection that does not pipeline, the client
\* sends a request after it has the response before it, and none after one that
\* asked to close; libuv runs the callback of a finished write before it polls
\* for input again.
Readable(c, n) ==
  /\ pos[c] + n <= StreamEnd(c)
  /\ \A k \in 1 .. n - 1 : ~Throws(c, pos[c] + k)
  /\ c \notin Pipelining =>
       /\ Complete(pos[c] + n - 1) = Complete(pos[c])
       /\ pos[c] > 0 /\ pos[c] % Phases = 0 =>
            writes[c] = 0 /\ ~AsksToClose(c, Complete(pos[c]))
-------------------------------------------------------------------------------
Init ==
  /\ outcome = "running"
  /\ stopping = FALSE
  /\ stops = 0
  /\ async = FALSE
  /\ handle = [c \in Conns |-> "absent"]
  /\ closeCB = [c \in Conns |-> "none"]
  /\ reading = [c \in Conns |-> FALSE]
  /\ shut = [c \in Conns |-> FALSE]
  /\ writes = [c \in Conns |-> 0]
  /\ refused = [c \in Conns |-> 0]
  /\ heap = [c \in Conns |-> {}]
  /\ stream \in [Conns -> Streams]
  /\ pos = [c \in Conns |-> 0]

\* A handle freed without uv_close() is still linked in the loop's list.
FreedHandleInLoop == \E c \in Conns : handle[c] = "freed"

\* MUTANT: reading starts whatever uv_accept said.
ReadAnyway(accepted) == TRUE

\* uv_read_start() is called when uv_accept() succeeded.
StartsReading(accepted) == accepted

\* uvConnectCB: allocate tcp handle, two and Client, accept, start reading.
\* When uv_accept fails the handle is deleted while it is in the loop's list.
uvConnectCB(c) ==
  /\ outcome = "running"
  /\ ~stopping
  /\ handle[c] = "absent"
  /\ \E accepted \in AcceptResults :
       /\ handle' = [handle EXCEPT ![c] = IF accepted THEN "open" ELSE "freed"]
       /\ heap' = [heap EXCEPT ![c] = IF accepted THEN Objects ELSE {"client", "two"}]
       /\ reading' = [reading EXCEPT ![c] = StartsReading(accepted)]
  /\ UNCHANGED <<process, closeCB, shut, writes, refused, stream, pos>>

\* MUTANT: one response for all the requests of a read.
OneResponse(from, to) == IF Complete(to) > Complete(from) THEN 1 ELSE 0

\* finishCurrentRequest() gives one response to write() for each request that
\* completes.
Responses(from, to) == Complete(to) - Complete(from)

\* uvReadCB with nread > 0: http_parser_execute runs the callbacks; every
\* request that completes is processed and its response given to uv_write(),
\* whose result LibuvWhs::write ignores.  An exception leaves the callback
\* and nothing catches it.
uvReadCBData(c) ==
  /\ outcome = "running"
  /\ reading[c]
  /\ \E n \in 1 .. StreamEnd(c) :
       /\ Readable(c, n)
       /\ LET thrown    == Throws(c, pos[c] + n)
              answered  == IF thrown THEN pos[c] + n - 1 ELSE pos[c] + n
              responses == Responses(pos[c], answered)
          IN  /\ pos' = [pos EXCEPT ![c] = @ + n]
              /\ outcome' = IF thrown THEN "exception" ELSE outcome
              /\ IF shut[c]
                   THEN /\ refused' = [refused EXCEPT ![c] = @ + responses]
                        /\ UNCHANGED writes
                   ELSE /\ writes' = [writes EXCEPT ![c] = @ + responses]
                        /\ UNCHANGED refused
  /\ UNCHANGED <<stopping, stops, async, handle, closeCB, reading, shut, heap, stream>>

\* uv_close(h, cb) on the connection's handle; it also stops reading.
uvClose(c, cb) ==
  /\ handle' = [handle EXCEPT ![c] = "closing"]
  /\ closeCB' = [closeCB EXCEPT ![c] = cb]
  /\ reading' = [reading EXCEPT ![c] = FALSE]

\* uvReadCB with nread < 0: end of file, reset or another read error.
uvReadCBError(c) ==
  /\ outcome = "running"
  /\ reading[c]
  /\ uvClose(c, "uvCloseCB")
  /\ UNCHANGED <<process, shut, writes, refused, heap, stream, pos>>

\* A write of c has finished or was cancelled and its callback is due.
WriteEnds(c) == writes[c] > 0

\* The uv_write callback, run for a finished or a cancelled write.  On a handle
\* that closes or already shuts down uv_shutdown() returns an error and its
\* callback never runs.
writeCB(c) ==
  /\ outcome = "running"
  /\ WriteEnds(c)
  /\ writes' = [writes EXCEPT ![c] = @ - 1]
  /\ shut' = [shut EXCEPT ![c] =
                @ \/ (handle[c] = "open" /\ ConnectionShouldClose(c))]
  /\ UNCHANGED <<process, handle, closeCB, reading, refused, heap, stream, pos>>

\* The uv_shutdown callback, run when the queued writes are out, or cancelled
\* when the handle closes first: it calls uv_close() in either case.
shutdownCB(c) ==
  /\ outcome = "running"
  /\ shut[c]
  /\ writes[c] = 0
  /\ shut' = [shut EXCEPT ![c] = FALSE]
  /\ IF handle[c] = "open"
       THEN uvClose(c, "uvCloseCB") /\ UNCHANGED outcome
       ELSE outcome' = "closeTwice" /\ UNCHANGED <<handle, closeCB, reading>>
  /\ UNCHANGED <<stopping, stops, async, writes, refused, heap, stream, pos>>

\* MUTANT: the two structure is forgotten.
DeletedButTwo == {"client", "tcp"}

\* What uvCloseCB deletes.
Deleted == {"client", "two", "tcp"}

\* libuv ends the close of a handle with no request left and runs its close
\* callback: uvCloseCB deletes the three objects, stop_uv passed none.
uvCloseCB(c) ==
  /\ outcome = "running"
  /\ handle[c] = "closing"
  /\ writes[c] = 0
  /\ ~shut[c]
  /\ handle' = [handle EXCEPT ![c] = "closed"]
  /\ heap' = [heap EXCEPT ![c] = IF closeCB[c] = "uvCloseCB" THEN @ \ Deleted ELSE @]
  /\ UNCHANGED <<process, closeCB, reading, shut, writes, refused, stream, pos>>

\* LibuvWhs::stop(), from any thread: uv_async_send(stop_async).
stop ==
  /\ outcome = "running"
  /\ stops < MaxStops
  /\ stops' = stops + 1
  /\ async' = TRUE
  /\ UNCHANGED <<outcome, stopping, handle, closeCB, reading, shut, writes,
                 refused, heap, stream, pos>>

\* MUTANT: the connections are left open.
WalkLeavesOpen == UNCHANGED <<handle, closeCB, reading>>

\* uv_walk(): uv_close(h, nullptr) on every handle of the loop.
WalkCloses ==
  /\ handle' = [c \in Conns |-> IF handle[c] = "open" THEN "closing" ELSE handle[c]]
  /\ closeCB' = [c \in Conns |-> IF handle[c] = "open" THEN "nullptr" ELSE closeCB[c]]
  /\ reading' = [c \in Conns |-> FALSE]

\* uvAsyncStopCB -> stop_uv(): uv_stop, then the walk.
uvAsyncStopCB ==
  /\ outcome = "running"
  /\ async
  /\ ~stopping
  /\ async' = FALSE
  /\ stopping' = TRUE
  /\ \A c \in Conns : handle[c] # "closing"
  /\ WalkCloses
  /\ UNCHANGED <<outcome, stops, shut, writes, refused, heap, stream, pos>>

\* stop_uv() when a handle of the walk already closes: libuv's assertion.
uvAsyncStopCBFails ==
  /\ outcome = "running"
  /\ async
  /\ ~stopping
  /\ \E c \in Conns : handle[c] = "closing"
  /\ outcome' = "closeTwice"
  /\ UNCHANGED <<stopping, stops, async, handle, closeCB, reading, shut, writes,
                 refused, heap, stream, pos>>

\* The loop follows its list of handles (to link the next one, to unlink a
\* closed one, to walk it for stop) into the memory of a deleted handle.
touchFreedHandle ==
  /\ outcome = "running"
  /\ FreedHandleInLoop
  /\ \/ ~stopping /\ \E c \in Conns : handle[c] = "absent"
     \/ \E c \in Conns : handle[c] = "closing"
     \/ async /\ ~stopping
  /\ outcome' = "freedHandle"
  /\ UNCHANGED <<stopping, stops, async, handle, closeCB, reading, shut, writes,
                 refused, heap, stream, pos>>

\* uv_run returns in _start(): stopped, and the closing handles of the last
\* iteration are done.
startReturns ==
  /\ outcome = "running"
  /\ stopping
  /\ \A c \in Conns : handle[c] \notin {"open", "closing"}
  /\ outcome' = "exited"
  /\ UNCHANGED <<stopping, stops, async, handle, closeCB, reading, shut, writes,
                 refused, heap, stream, pos>>

ConnNext(c) ==
  \/ uvConnectCB(c) \/ uvReadCBData(c) \/ uvReadCBError(c)
  \/ writeCB(c) \/ shutdownCB(c) \/ uvCloseCB(c)

Next ==
  \/ \E c \in Conns : ConnNext(c)
  \/ stop \/ uvAsyncStopCB \/ uvAsyncStopCBFails \/ touchFreedHandle \/ startReturns

Spec == Init /\ [][Next]_vars

\* The loop runs every callback that is due, and a peer either drains its
\* socket or resets the connection, so queued writes end.  Nobody has to
\* connect, send, close or call stop().
Fairness ==
  /\ \A c \in Conns : WF_vars(writeCB(c)) /\ WF_vars(shutdownCB(c)) /\ WF_vars(uvCloseCB(c))
  /\ WF_vars(uvAsyncStopCB) /\ WF_vars(uvAsyncStopCBFails)
  /\ WF_vars(startReturns)

FairSpec == Spec /\ Fairness
-------------------------------------------------------------------------------
(***************************************************************************)
(* Properties                                                              *)
(***************************************************************************)

\* Every variable has its type.
TypeOK ==
  /\ outcome \in Outcomes
  /\ stopping \in BOOLEAN
  /\ stops \in 0 .. MaxStops
  /\ async \in BOOLEAN
  /\ handle \in [Conns -> HandleStates]
  /\ closeCB \in [Conns -> {"none", "uvCloseCB", "nullptr"}]
  /\ reading \in [Conns -> BOOLEAN]
  /\ shut \in [Conns -> BOOLEAN]
  /\ writes \in [Conns -> Nat]
  /\ refused \in [Conns -> Nat]
  /\ heap \in [Conns -> SUBSET Objects]
  /\ stream \in [Conns -> Streams]
  /\ pos \in [Conns -> Nat]

\* No callback libuv can still run for a connection dereferences freed memory:
\* uvReadCB reaches Client through two, the write callback uses Client (and two
\* and the handle if it shuts down), the shutdown callback the handle, and
\* uvCloseCB deletes all three, whatever the order of read error, write
\* completion, shutdown completion and stop().
CallbacksSeeLiveMemory ==
  \A c \in Conns :
    reading[c] \/ writes[c] > 0 \/ shut[c] \/ (handle[c] = "closing" /\ closeCB[c] = "uvCloseCB")
      => heap[c] = Objects

\* Who still owns memory when a connection is over: a connection the server or
\* its peer closed is freed completely; one that stop_uv() closed, or whose
\* accept failed, is never freed.
HeapAccounting ==
  \A c \in Conns :
    /\ handle[c] = "closed" => heap[c] = IF closeCB[c] = "uvCloseCB" THEN {} ELSE Objects
    /\ outcome = "exited" /\ heap[c] # {} => handle[c] = "freed" \/ closeCB[c] = "nullptr"
    /\ closeCB[c] = "nullptr" => stopping

\* A client that waits for each response gets every one of them: its requests
\* are never answered into a connection the server already shuts down.
LockStepAnswered == \A c \in Conns \ Pipelining : refused[c] = 0

\* The server starts to shut down a waiting client's connection only between
\* two requests, never in the middle of one.
ShutdownBetweenRequests ==
  \A c \in Conns \ Pipelining : shut[c] => pos[c] % Phases = 0

\* As long as stop() is not called the process dies of a double uv_close() in
\* one race only: the peer of a connection the server began to shut down closes
\* its end before the shutdown callback runs.
CloseTwiceNeedsRace ==
  outcome = "closeTwice" /\ stops = 0 =>
    \E c \in Conns :
      /\ handle[c] = "closing"
      /\ Complete(pos[c]) > 0
      /\ c \notin Pipelining => pos[c] % Phases = 0 /\ AsksToClose(c, Complete(pos[c]))

\* The server never shuts down a waiting client's connection that is to be kept
\* alive: only when the last request answered asks for it.
ShutsDownOnlyWhenAsked ==
  [][\A c \in Conns \ Pipelining :
       ~shut[c] /\ shut'[c] =>
         Complete(pos[c]) > 0 /\ AsksToClose(c, Complete(pos[c]))]_vars

\* The callbacks together keep the contract of Connections, whatever their
\* order: shutting is a connection on which uv_shutdown was called and not yet
\* uv_close, what is owed are the writes libuv has not reported.
StateOf(c) ==
  CASE handle[c] = "absent" -> "none"
    [] handle[c] = "freed" -> "rejected"
    [] handle[c] = "open" -> IF shut[c] THEN "shutting" ELSE "open"
    [] handle[c] = "closing" -> "closing"
    [] OTHER -> "over"

Process == CASE outcome = "running" -> "running"
             [] outcome = "exited" -> "stopped"
             [] OTHER -> "dead"

ConnStates == [c \in Conns |-> StateOf(c)]
Arrived == [c \in Conns |-> Complete(pos[c])]

Contract == INSTANCE Connections WITH
  server <- Process, state <- ConnStates, received <- Arrived, owed <- writes

ImplementsConnections == Contract!Spec

\* A waiting client that asked for it is disconnected after its response,
\* unless the process ends before.
CloseRequestHonoured ==
  \A c \in Conns \ Pipelining :
    (/\ handle[c] = "open"
     /\ pos[c] > 0 /\ pos[c] % Phases = 0
     /\ AsksToClose(c, Complete(pos[c])))
      ~> (handle[c] = "closed" \/ outcome # "running")

\* stop() is never without effect: the process leaves the loop, by returning
\* from start() or by dying.
StopTakesEffect == async /\ ~stopping ~> outcome # "running"

\* What examples/main.cpp relies on: after stop(), start() returns.
StopReturns == async /\ ~stopping ~> outcome = "exited"
===============================================================================
