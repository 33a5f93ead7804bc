----------------------------- MODULE RequestFlow -----------------------------
(***************************************************************************)
(* The way of one request through a started server (src/src/whs.cpp):      *)
(* HttpParser::finishCurrentRequest makes a Response, the `before'         *)
(* pipeline, the router and the `after' pipeline write into it, toBytes()  *)
(* serialises it.  Every middleware called is one action.                  *)
(*                                                                         *)
(* The framework's own middlewares are written out: StaticFileServer (the  *)
(* last of `before' when enable_static_file() was called), NotFoundHandler *)
(* and MergeDefaultCommonHeaders (the last of `after').  A middleware of   *)
(* the application is a record of what it does to the response and how it  *)
(* returns.  Between two requests, and between two steps of one, files on  *)
(* disk change under the table StaticFileServer made when it started.      *)
(***************************************************************************)
EXTENDS Integers, Sequences

CONSTANTS
  Handlers,        (* what middlewares of the application may do            *)
  Pipelines,       (* the sequences of handlers given to setup()            *)
  NotFounds,       (* handlers setNotFoundHandler() may be given            *)
  Urls,            (* URLs of requests                                      *)
  ShortUrls,       (* those that are shorter than the static prefix         *)
  FileSizes,       (* sizes a file may have                                 *)
  NotFoundSize,    (* length of "route to <url> not found."                 *)
  ErrorSize,       (* length of what an HttpException builds as a body      *)
  JunkStatuses,    (* values of an HttpException's uninitialized status     *)
  UIntRange        (* 2^32: _bodySize is an unsigned int, a size is not     *)

\* No body, no length, no status, no file.
Absent == -1

\* A Content-Length of no characters: operator[] makes one when it is only read.
Blank == -2

Sizes == Nat \cup {Absent, Blank}

\* One middleware of the application: the headers, the Content-Length (as the
\* number it reads as; by operator[] if it assigns, else by addHeader), the body
\* (of that size) and the status it sets, whether it ends the response, and how
\* it leaves: by returning a bool or by an exception (a NotFoundException, another
\* HttpException, or any other).
HeaderNames == {"ContentType", "CacheControl", "Etag", "Server"}
Handler == [ headers : SUBSET HeaderNames, length : Sizes, assigns : BOOLEAN,
             body : Nat \cup {Absent}, status : Nat \cup {Absent}, ends : BOOLEAN,
             leaves : {"true", "false", "notFound", "http", "foreign"} ]

NoHandler == [ headers |-> {}, length |-> Absent, assigns |-> FALSE, body |-> Absent,
               status |-> Absent, ends |-> FALSE, leaves |-> "none" ]

ASSUME HandlersAssumption == Handlers \subseteq Handler
ASSUME PipelinesAssumption == Pipelines \subseteq Seq(Handlers)
ASSUME NotFoundsAssumption == NotFounds \subseteq Handlers
ASSUME UrlsAssumption == ShortUrls \subseteq Urls
ASSUME SizesAssumption ==
  /\ FileSizes \subseteq Nat /\ NotFoundSize \in Nat /\ ErrorSize \in Nat
  /\ UIntRange \in Nat \ {0} /\ JunkStatuses \subseteq Nat

VARIABLES
  before,     (* the application's part of the pipeline `before'            *)
  static,     (* enable_static_file() was called                            *)
  notFound,   (* the handler given to setNotFoundHandler, or NoHandler      *)
  after,      (* the application's part of the pipeline `after'             *)
  files,      (* StaticFileServer::files: size of each file tracked         *)
  disk,       (* size of each file on disk now                              *)
  request,    (* method, URL and If-None-Match of the request               *)
  target,     (* the handler its route leads to, or NoHandler               *)
  pc,         (* the step of processing_request()                           *)
  i,          (* the next middleware of the pipeline                        *)
  resp,       (* the Response                                               *)
  sets,       (* calls of setBody() on it                                   *)
  lost        (* body buffers that nothing will delete                      *)

config == <<before, static, notFound, after, files>>
vars == <<before, static, notFound, after, files, disk, request, target, pc, i,
          resp, sets, lost>>

\* etag: If-None-Match names the file's etag, or nothing that matches it.
Request == [ method : {"GET", "HEAD", "POST"}, url : Urls, etag : {"none", "same"} ]

\* What the files of the static table can be asked for by.
Paths == Urls \ ShortUrls

Bodies == {"none", "handler", "file", "notFound", "error"}
Writers == {"", "handler", "file", "default"}
Response == [ status : Nat, body : Bodies, size : Nat, length : Sizes, given : BOOLEAN,
              headers : [HeaderNames -> Writers], ended : BOOLEAN ]

\* RestfulHttpResponse(): a response nothing was written to.
NewResponse ==
  [ status |-> 0, body |-> "none", size |-> 0, length |-> Absent, given |-> FALSE,
    headers |-> [h \in HeaderNames |-> ""], ended |-> FALSE ]
-------------------------------------------------------------------------------
(***************************************************************************)
(* Operations of Response.  `length' is the Content-Length header, and     *)
(* `given' tells that its value is a middleware's of the application; the  *)
(* other headers are known by who wrote them.                              *)
(***************************************************************************)

\* addHeader() and addHeaderIfNotExists(): map::emplace keeps what is there.
AddHeaders(hs, names, who) ==
  [h \in HeaderNames |-> IF h \in names /\ hs[h] = "" THEN who ELSE hs[h]]

\* MUTANT: the length counts a terminating zero.
AddLengthWithZero(length, n) == IF length = Absent THEN n + 1 ELSE length

AddLength(length, n) == IF length = Absent THEN n ELSE length

\* setBody(): the old buffer is not deleted, a Content-Length that is there is
\* kept, and the size is cut to an unsigned int.
SetBody(r, who, n) ==
  [ status |-> r.status, body |-> who, size |-> n % UIntRange,
    length |-> AddLength(r.length, n), given |-> r.given,
    headers |-> AddHeaders(r.headers, {"ContentType"}, "default"), ended |-> r.ended ]

WithStatus(r, s) ==
  [ status |-> s, body |-> r.body, size |-> r.size, length |-> r.length,
    given |-> r.given, headers |-> r.headers, ended |-> r.ended ]

WithHeaders(r, names, who) ==
  [ status |-> r.status, body |-> r.body, size |-> r.size, length |-> r.length,
    given |-> r.given, headers |-> AddHeaders(r.headers, names, who), ended |-> r.ended ]

WithLength(r, n) ==
  [ status |-> r.status, body |-> r.body, size |-> r.size,
    length |-> AddLength(r.length, n), given |-> r.given,
    headers |-> r.headers, ended |-> r.ended ]

\* operator[] overwrites a Content-Length, addHeader() keeps the one that is there.
Gives(h, r) == h.length # Absent /\ (h.assigns \/ r.length = Absent)

GivenLength(h, r) ==
  [ status |-> r.status, body |-> r.body, size |-> r.size,
    length |-> IF Gives(h, r) THEN h.length ELSE r.length, given |-> r.given \/ Gives(h, r),
    headers |-> r.headers, ended |-> r.ended ]

Ended(r, e) ==
  [ status |-> r.status, body |-> r.body, size |-> r.size, length |-> r.length,
    given |-> r.given, headers |-> r.headers, ended |-> r.ended \/ e ]

\* MUTANT: asks for the body.
isBodySetByBody(r) == r.body # "none"

\* isBodySet() asks for the status.
isBodySet(r) == r.status # 0

\* The Content-Length toBytes() sends: "0" for none, or an empty one, without a body.
SentLength(r) == IF r.length \in {Absent, Blank} /\ r.size = 0 THEN 0 ELSE r.length
-------------------------------------------------------------------------------
\* What a handler has done to the response when it returns or throws.
Wrote(h, r) ==
  LET headed == GivenLength(h, WithHeaders(r, h.headers, "handler"))
      bodied == IF h.body = Absent THEN headed ELSE SetBody(headed, "handler", h.body)
  IN  Ended(IF h.status = Absent THEN bodied ELSE WithStatus(bodied, h.status), h.ends)

\* MUTANT: setBody() keeps a copy and forgets the buffer it was given.
CountedCopies(n, dropped) == sets' = sets + n /\ lost' = lost + dropped + n

\* The calls of setBody(), n of them in this step, and the buffers they lose: all
\* but the first of a response, and those `dropped' without being set.
Counted(n, dropped) ==
  /\ sets' = sets + n
  /\ lost' = lost + dropped + (IF n > 0 /\ sets = 0 THEN n - 1 ELSE n)

BodiesOf(h) == IF h.body = Absent THEN 0 ELSE 1

\* The status the exception carries: only NotFoundException sets it.
ExceptionStatuses(h) == IF h.leaves = "notFound" THEN {404} ELSE JunkStatuses

Returns(h) == h.leaves \in {"true", "false"}

\* MUTANT: the outer catch block is missing.
CaughtNotFoundOnly(h) == h.leaves = "notFound"

Caught(h) == h.leaves \in {"http", "notFound"}

\* processing_request() calls h.  When it returns, whatever it returns, the
\* processing goes on with `next'; the catch block of an HttpException makes the
\* exception's text the body and skips the rest; nothing catches another
\* exception.
Call(h, next, position) ==
  \/ /\ Returns(h)
     /\ resp' = Wrote(h, resp)
     /\ Counted(BodiesOf(h), 0)
     /\ pc' = next
     /\ i' = position
  \/ /\ Caught(h)
     /\ \E s \in ExceptionStatuses(h) :
          resp' = WithStatus(SetBody(Wrote(h, resp), "error", ErrorSize), s)
     /\ Counted(BodiesOf(h) + 1, 0)
     /\ pc' = "respond"
     /\ i' = 1
  \/ /\ ~Returns(h) /\ ~Caught(h)
     /\ resp' = Wrote(h, resp)
     /\ Counted(BodiesOf(h), 0)
     /\ pc' = "died"
     /\ i' = 1
-------------------------------------------------------------------------------
\* The size the static table keeps of a file: a uint32_t.
Tracked(n) == IF n = Absent THEN Absent ELSE n % UIntRange

\* A started server: both pipelines, the static table and the disk it was made from.
Init ==
  /\ before \in Pipelines
  /\ static \in BOOLEAN
  /\ notFound \in NotFounds \cup {NoHandler}
  /\ after \in Pipelines
  /\ disk \in [Paths -> FileSizes \cup {Absent}]
  /\ files = [u \in Paths |-> Tracked(disk[u])]
  /\ request \in Request
  /\ target = NoHandler
  /\ pc = "idle"
  /\ i = 1
  /\ resp = NewResponse
  /\ sets = 0
  /\ lost = 0

\* finishCurrentRequest(): a new Response; the route table decides on the target.
finishCurrentRequest ==
  /\ pc = "idle"
  /\ request' \in Request
  /\ target' \in Handlers \cup {NoHandler}
  /\ pc' = "before"
  /\ i' = 1
  /\ UNCHANGED <<config, disk, resp, sets, lost>>

\* feed() of `before': the next middleware of the application.
feedBefore ==
  /\ pc = "before"
  /\ i <= Len(before)
  /\ Call(before[i], "before", i + 1)
  /\ UNCHANGED <<config, disk, request, target>>

\* The request is StaticFileServer's: a GET or HEAD for a file of its table.
FileTracked ==
  /\ static
  /\ request.method \in {"GET", "HEAD"}
  /\ request.url \in Paths
  /\ files[request.url] # Absent

\* GET of a file the client has: 304 and no body.
NotModified == FileTracked /\ request.method = "GET" /\ request.etag = "same"

\* read() may return as many bytes as the table promises; it may always return
\* fewer, and of very large files it does.
FileRead(u) == disk[u] # Absent /\ disk[u] >= files[u]

\* The response with what StaticFileServer::operator() writes for a tracked file.
StaticHeaders == WithHeaders(resp, {"ContentType", "Etag"}, "file")
StaticCached(r) == WithHeaders(r, {"CacheControl"}, "file")

\* MUTANT: not modified, but the length of the file all the same.
StaticNotModifiedLong == WithStatus(WithLength(StaticHeaders, files[request.url] + 1), 304)

StaticNotModified == WithStatus(StaticCached(StaticHeaders), 304)

StaticBody ==
  LET n == files[request.url]
  IN  WithLength(StaticCached(SetBody(StaticHeaders, "file", n)), n)

StaticNoBody == WithLength(StaticHeaders, files[request.url])

\* Taking the prefix off the URL throws std::out_of_range.
UrlTooShort == request.method \in {"GET", "HEAD"} /\ request.url \in ShortUrls

\* StaticFileServer::operator(), the last middleware of `before'.  Its result,
\* false for a file it has answered, is ignored as every result is.
staticFile ==
  /\ pc = "before"
  /\ static
  /\ i = Len(before) + 1
  /\ i' = i + 1
  /\ \/ UrlTooShort /\ pc' = "died" /\ UNCHANGED <<resp, sets, lost>>
     \/ ~UrlTooShort /\ ~FileTracked /\ UNCHANGED <<pc, resp, sets, lost>>
     \/ /\ FileTracked
        /\ UNCHANGED pc
        /\ \/ NotModified /\ resp' = StaticNotModified /\ UNCHANGED <<sets, lost>>
           \/ /\ request.method = "GET" /\ ~NotModified
              /\ \/ FileRead(request.url) /\ resp' = StaticBody /\ Counted(1, 0)
                 \/ resp' = StaticNoBody /\ Counted(0, 1)
           \/ request.method = "HEAD" /\ resp' = StaticNoBody /\ UNCHANGED <<sets, lost>>
  /\ UNCHANGED <<config, disk, request, target>>

\* `before' is done: an ended response is not routed.
beforeDone ==
  /\ pc = "before"
  /\ i > Len(before) + (IF static THEN 1 ELSE 0)
  /\ pc' = IF resp.ended THEN "after" ELSE "route"
  /\ i' = 1
  /\ UNCHANGED <<config, disk, request, target, resp, sets, lost>>

\* HttpRouter::operator() finds a handler; its NotFoundException is caught by the
\* inner try block.
routeFound ==
  /\ pc = "route"
  /\ target # NoHandler
  /\ \/ target.leaves # "notFound" /\ Call(target, "after", 1)
     \/ /\ target.leaves = "notFound"
        /\ resp' = Wrote(target, resp)
        /\ Counted(BodiesOf(target), 0)
        /\ pc' = "notFound"
        /\ UNCHANGED i
  /\ UNCHANGED <<config, disk, request, target>>

\* HttpRouter::operator() finds none and throws NotFoundException.
routeMissing ==
  /\ pc = "route"
  /\ target = NoHandler
  /\ pc' = "notFound"
  /\ UNCHANGED <<config, disk, request, target, i, resp, sets, lost>>

\* NotFoundHandler::operator(): answers 404 unless a status was set.
NotFoundHandler ==
  /\ pc = "notFound"
  /\ notFound = NoHandler
  /\ IF isBodySet(resp)
       THEN UNCHANGED <<resp, sets, lost>>
       ELSE /\ resp' = WithStatus(SetBody(resp, "notFound", NotFoundSize), 404)
            /\ Counted(1, 0)
  /\ pc' = "after"
  /\ i' = 1
  /\ UNCHANGED <<config, disk, request, target>>

\* The handler the application gave to setNotFoundHandler().
userNotFoundHandler ==
  /\ pc = "notFound"
  /\ notFound # NoHandler
  /\ Call(notFound, "after", 1)
  /\ UNCHANGED <<config, disk, request, target>>

\* feed() of `after': the next middleware of the application.
feedAfter ==
  /\ pc = "after"
  /\ i <= Len(after)
  /\ Call(after[i], "after", i + 1)
  /\ UNCHANGED <<config, disk, request, target>>

\* The headers MergeDefaultCommonHeaders adds; "Server" stands for X-Powered-By
\* and Date too, which it adds with it.
DefaultHeaders == {"Server", "CacheControl"}

\* MergeDefaultCommonHeaders::operator(), the last middleware of `after'.
MergeDefaultCommonHeaders ==
  /\ pc = "after"
  /\ i = Len(after) + 1
  /\ resp' = WithHeaders(resp, DefaultHeaders, "default")
  /\ pc' = "respond"
  /\ i' = 1
  /\ UNCHANGED <<config, disk, request, target, sets, lost>>

\* write_response(): toBytes() and write(); the Response and its body are gone.
write_response ==
  /\ pc = "respond"
  /\ pc' = "idle"
  /\ resp' = NewResponse
  /\ sets' = 0
  /\ lost' = 0
  /\ UNCHANGED <<config, disk, request, target, i>>

\* A file is written, truncated, deleted or made by somebody else.
fileChanges ==
  /\ \E u \in Paths, n \in FileSizes \cup {Absent} : disk' = [disk EXCEPT ![u] = n]
  /\ UNCHANGED <<config, request, target, pc, i, resp, sets, lost>>

Processing ==
  \/ feedBefore \/ staticFile \/ beforeDone \/ routeFound \/ routeMissing
  \/ NotFoundHandler \/ userNotFoundHandler \/ feedAfter
  \/ MergeDefaultCommonHeaders \/ write_response

Next == finishCurrentRequest \/ Processing \/ fileChanges

Spec == Init /\ [][Next]_vars

-------------------------------------------------------------------------------
(***************************************************************************)
(* Properties                                                              *)
(***************************************************************************)

\* Every variable has its type.
TypeOK ==
  /\ before \in Pipelines /\ after \in Pipelines
  /\ static \in BOOLEAN
  /\ notFound \in NotFounds \cup {NoHandler}
  /\ files \in [Paths -> Nat \cup {Absent}]
  /\ disk \in [Paths -> FileSizes \cup {Absent}]
  /\ request \in Request
  /\ target \in Handlers \cup {NoHandler}
  /\ pc \in {"idle", "before", "route", "notFound", "after", "respond", "died"}
  /\ i \in Nat \ {0}
  /\ resp \in Response
  /\ sets \in Nat
  /\ lost \in Nat

\* The Content-Length sent is the number of body bytes sent, on every path and
\* with files that change, but in these cases: it is one that a middleware of the
\* application gave itself (setBody keeps it), two parties set a body (the first
\* length stays), the body has 2^32 bytes or more, or StaticFileServer promised
\* the length of a file (HEAD, or a file that cannot be read) and the body is
\* not the file's.
LengthTrue ==
  pc = "respond" /\ SentLength(resp) # resp.size =>
    \/ resp.given
    \/ sets > 1
    \/ resp.length >= UIntRange
    \/ FileTracked /\ resp.body # "file"

\* A body buffer is leaked only when a second body replaced it, or when a file
\* turned out unreadable.
LostOnlyIfReplaced ==
  lost > 0 =>
    \/ sets > 1
    \/ FileTracked /\ request.method = "GET" /\ ~NotModified /\ resp.body # "file"

\* A status somebody set is taken back by calling status(0) only: by a handler
\* that NotFoundHandler comes after, or by any.
ResetEarly == target.status = 0 \/ \E k \in 1 .. Len(before) : before[k].status = 0
Reset ==
  ResetEarly \/ notFound.status = 0 \/ \E k \in 1 .. Len(after) : after[k].status = 0

\* A client is told that there is no route only if its request had none (or its
\* handler said so), and, unless a handler reset the status, no middleware before
\* had set one, and it did not ask for a file it has.
NotFoundMeansNoAnswer ==
  resp.body = "notFound" =>
    /\ (target = NoHandler \/ target.leaves = "notFound")
    /\ \/ ResetEarly
       \/ (\A k \in 1 .. Len(before) : before[k].status = Absent) /\ ~NotModified

\* A response without a status (sent as 000, README.md:64-68) has gone by nobody
\* who sets one: the framework's own middlewares always do, so that it was
\* routed to a handler of the application, ended before, or left to the
\* application's handler of routes not found.  A status that was set is lost only
\* to status(0), or to an HttpException, which carries one of its own.
NoStatusNeedsSilence ==
  pc = "respond" /\ resp.status = 0 /\ resp.body # "error" /\ ~Reset =>
    /\ \A k \in 1 .. Len(before) : before[k].status = Absent
    /\ \A k \in 1 .. Len(after) : after[k].status = Absent
    /\ ~NotModified
    /\ \/ resp.ended
       \/ target # NoHandler /\ target.leaves # "notFound" /\ target.status = Absent
       \/ notFound # NoHandler /\ notFound.status = Absent

\* A handler that does nothing to the response.
Silent(h) == h.length = Absent /\ h.body = Absent /\ h.status = Absent /\ Returns(h)

\* 304 goes out without a body and with length 0, though the request goes on to
\* the router and NotFoundHandler, if no handler of the application writes into
\* it (ending the response before is not writing: StaticFileServer runs anyway).
NotModifiedIsEmpty ==
  /\ pc = "respond" /\ NotModified
  /\ target = NoHandler /\ notFound = NoHandler
  /\ \A k \in 1 .. Len(before) : Silent(before[k])
  /\ \A k \in 1 .. Len(after) : Silent(after[k])
  => resp.status = 304 /\ resp.body = "none" /\ SentLength(resp) = 0

\* An exception that is no HttpException can leave processing_request().
Foreign(h) == h.leaves = "foreign"
MayDie ==
  \/ Foreign(target) \/ Foreign(notFound)
  \/ \E k \in 1 .. Len(before) : Foreign(before[k])
  \/ \E k \in 1 .. Len(after) : Foreign(after[k])
  \/ static /\ UrlTooShort

\* The process survives every request but one that reaches a handler which
\* throws something else than an HttpException, or that StaticFileServer cannot
\* cut the prefix off: whatever HttpException leaves whatever handler, of
\* either pipeline or of the router, is caught.
DiesOnlyOfForeign == pc = "died" => MayDie

\* builder.h:33-35: a middleware that returns false stops the pipeline.
FalseStops == pc = "before" => \A k \in 1 .. i - 2 : before[k].leaves # "false"

===============================================================================
