------------------------------ MODULE KeepAlive ------------------------------
(***************************************************************************)
(* A RawWhs with its one Client (src/src/whs.cpp, src/src/client.cpp): the *)
(* requests of a connection arrive at HttpParser, each one that is         *)
(* complete goes the way of RequestFlow, and its response is kept in a     *)
(* buffer until the user of the RawWhs takes it out.                       *)
(*                                                                         *)
(* Everything happens in the thread that calls in(): while a request is    *)
(* processed the parser stands still.  The server has the static file      *)
(* server, with one file, and no middleware or route of its own; every     *)
(* request is a GET.  What its URL asks for, and whether its If-None-Match *)
(* names the file's etag, is read off the texts the parser kept, whole     *)
(* ones or parts: any of them may mean anything.                           *)
(***************************************************************************)
EXTENDS HttpParser

CONSTANTS
  Condition,   (* the name If-None-Match                                    *)
  Meanings     (* what texts may mean: which are the path of the file,      *)
               (* which are too short to take the static prefix off, and    *)
               (* which agree with the file's etag as far as they go        *)

ASSUME KeepAliveAssumption ==
  /\ Condition \in Fields
  /\ \A m \in Meanings :
       /\ m \in [file : SUBSET Text, short : SUBSET Text, naming : SUBSET Text]
       /\ m.file \cap m.short = {}

VARIABLES
  meaning,                 (* one of Meanings                               *)
  pc, i, resp, sets, lost, (* of RequestFlow                                *)
  outbox,                  (* the MemoryBuffer the responses are written to *)
  taken                    (* the responses out() gave since the last reset *)

flowVars == <<pc, i, resp, sets, lost>>
allVars == <<vars, flowVars, meaning, outbox, taken>>

File == "file"
Short == "short"
Elsewhere == "elsewhere"

\* The request as StaticFileServer sees it: of a URL that came in two parts the
\* last is asked for, and as many bytes of the etag are compared as the value
\* has, of which the first part was kept.
Asked ==
  [ method |-> "GET",
    url |-> IF saw.url \in meaning.file THEN File
            ELSE IF saw.url \in meaning.short THEN Short ELSE Elsewhere,
    etag |-> IF saw.headers[Condition] \in meaning.naming THEN "same" ELSE "none" ]

\* What an application that has no handler gives: NoHandler of RequestFlow.
HandlerLeaving(how) ==
  [ headers |-> {}, length |-> -1, assigns |-> FALSE, body |-> -1, status |-> -1,
    ends |-> FALSE, leaves |-> how ]

\* A static table, and a disk, that hold the files S, of one byte.
Holding(S) == [u \in {File, Elsewhere} |-> IF u \in S THEN 1 ELSE -1]

Flow == INSTANCE RequestFlow WITH
  Handlers <- {}, Pipelines <- {<<>>}, NotFounds <- {},
  Urls <- {File, Short, Elsewhere}, ShortUrls <- {Short}, FileSizes <- {1},
  NotFoundSize <- 3, ErrorSize <- 2, JunkStatuses <- {0}, UIntRange <- 8,
  before <- <<>>, after <- <<>>, static <- File \in {File},
  notFound <- HandlerLeaving("none"), target <- HandlerLeaving("none"),
  files <- Holding({File}), disk <- Holding({File}), request <- Asked

-----------------------------------------------------------------------------
Waiting == pc = "idle"

\* in(): http_parser calls back, but for the end of a request.
parse ==
  /\ Waiting
  /\ \/ URLArrives
     \/ \E f \in Field, part \in Parts : onHeaderField(f, part)
     \/ \E part \in Parts : onHeaderValue(part)
     \/ onHeaderCompelete
     \/ \E l \in 1..MaxBody : onBody(l)
     \/ lastChunk
     \/ Refuse
  /\ UNCHANGED <<flowVars, meaning, outbox, taken>>

\* HttpParser::finishCurrentRequest() up to the call of processing_request().
finish ==
  /\ Waiting
  /\ UNCHANGED <<meaning, outbox, taken>>
  /\ \E params \in SUBSET Names : onMessageComplete(params)
  /\ Flow!finishCurrentRequest

\* processing_request(): one middleware after the other.  A URL too short for the
\* prefix throws out of it, and out of in(): nothing follows.
process ==
  /\ pc # "respond"
  /\ UNCHANGED <<vars, meaning, outbox, taken>>
  /\ Flow!Processing

Written == [id |-> own.id, status |-> resp.status, body |-> resp.body]

\* Client::write_response() and RawWhs::write(): behind what is not taken yet.
write ==
  /\ UNCHANGED <<vars, meaning, taken>>
  /\ outbox' = Append(outbox, Written)
  /\ Flow!write_response

\* RawWhs::out(), called when readable_size() is not 0: all there is.
out ==
  /\ Waiting /\ outbox # <<>>
  /\ taken' = taken \o outbox
  /\ outbox' = <<>>
  /\ UNCHANGED <<vars, flowVars, meaning>>

\* MUTANT: reset() leaves the responses that were not taken.
OutboxKept == outbox

\* mb->clear();
OutboxCleared == <<>>

\* RawWhs::reset().
resetAll ==
  /\ Waiting
  /\ reset
  /\ outbox' = OutboxCleared
  /\ taken' = <<>>
  /\ UNCHANGED <<flowVars, meaning>>

AllInit ==
  /\ Init
  /\ meaning \in Meanings
  /\ pc = "idle" /\ i = 1 /\ resp = Flow!NewResponse /\ sets = 0 /\ lost = 0
  /\ outbox = <<>> /\ taken = <<>>

AllNext == parse \/ finish \/ process \/ write \/ out \/ resetAll

AllSpec == AllInit /\ [][AllNext]_allVars

-----------------------------------------------------------------------------
(* Properties.                                                              *)

Identified(s) == [k \in 1 .. Len(s) |-> s[k].id]

\* Whoever takes the responses of a RawWhs out, whenever it does, gets one for
\* each request that was complete since the last reset(), in their order, and
\* none of a request before it.
ResponsesInOrder ==
  LET n == IF Waiting THEN Len(answered) ELSE Len(answered) - 1
  IN Identified(taken \o outbox) = Identified(SubSeq(answered, 1, n))

\* If-None-Match outlives its request: 304 goes out exactly if what came last of
\* the request's URL is the path of the file, and what came first of the earliest
\* If-None-Match since the last reset(), a part or all of it, agrees with the etag,
\* whatever this request sends.
EarliestConditionDecides ==
  LET senders == {k \in 1 .. Len(answered) : Condition \in answered[k].headers}
      earliest == answered[EarliestWith(senders)].id
  IN pc = "respond" =>
       (resp.status = 304 <=>
          /\ saw.url \in {<<own.id, "all">>, <<own.id, "tail">>} \cap meaning.file
          /\ senders # {}
          /\ saw.headers[Condition] \in
               {<<earliest, "all">>, <<earliest, "head">>} \cap meaning.naming)

===============================================================================
