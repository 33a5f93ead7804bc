# A TLA+ model of whs

whs is a small C++ library for HTTP servers: an application gives it routes,
middlewares and perhaps a directory of static files; a libuv backend accepts
connections, http_parser cuts their bytes into requests, and each request runs
through a pipeline of middlewares, the router and a second pipeline before its
response is written back.

This directory models that code in TLA+, checks the models with TLC on small
instances and proves what matters most about the central ones with TLAPS. Every
definition is translated from the source; `PROJECT.json` names the lines.

## Inventory

| Component (source) | State | Operations | Module |
|---|---|---|---|
| libuv backend and `Client` (`src/uv.cpp`, `client.*`) | per connection: handle, read, shutdown and write requests, the three objects on the heap; the stop signal | accept, read, write, shut down, close, `stop()`, return of `start()` | `UvServer` (implements `Connections`) |
| `MemoryBuffer` (`src/utils.*`) | deque of pages, byte count | `write`, `read`, `clear` | `MemoryBuffer` (implements `ByteQueue`) |
| Request processing (`src/whs.cpp`, `whs-internal.h`) | the two pipelines, the response being built | `processing_request` with every middleware it calls | `RequestFlow` |
| `HttpParser`, `RestfulHttpRequest` (`src/parser.cpp`, `request.cpp`) | `current`, the body buffer, the last header name | the callbacks of http_parser, `reset` | `HttpParser` |
| `RawWhs` with its `Client` (`src/whs.cpp`, `client.cpp`) | the responses not yet taken out | `in`, `out`, `reset` | `KeepAlive` (composes `HttpParser` and `RequestFlow`) |
| Router (`src/router.cpp`) | the tree of segments | `use`, `withURLPrefix`, lookup | `Router` |
| Configuration (`src/whs.cpp`, `pipeline.cpp`, `builder.h`) | who holds which middleware | `setup`, `enable_static_file`, `setNotFoundHandler`, `start`, `~Whs` | `WhsLifecycle` |
| `RestfulHttpResponse` (`src/response.cpp`, `entity.h`) | header map, status, body | `addHeader`, `operator[]`, `setBody`, `toBytes` | `Response`, `RequestFlow` |
| `StaticFileServer` (`src/static.cpp`) | the table of files, the inotify descriptor | `start`, `list_files`, `operator()` | `StaticListing`, `RequestFlow` |
| `regex` over PCRE2 (`src/internal.cpp`) | compiled patterns and who owns them, the loop of `execute` | `compile`, move, `swap`, destruction, `execute`, `match` | `Regex`, `Router` |
| utilities (`src/utils.cpp`) | none | splitting URLs, query strings, parameter syntax | in `Regex`, `Router`, `HttpParser` |
| mutex wrappers, `TcpWhs`, logger, `format_time` | | | not modelled |

How they interact. There is one loop thread. libuv calls the functions of
`uv.cpp`; `uvReadCB` hands bytes to the connection's `HttpParser`, whose
`onMessageComplete` calls, through `Client`, `Whs::processing_request` and then
`write`, all in the same callback. The only other thread is the one that calls
`stop()`; it signals an async handle. All else that interleaves is the order in
which libuv runs callbacks, what peers do, and what other processes do to the
directory of static files.

What is hard here:

* callbacks that hold pointers into objects another callback deletes (write,
  shutdown and close of one connection beside its peer's reset, beside `stop()`);
* decisions taken when a write completes from a parser that has moved on;
* state of a keep-alive connection that survives from one request into the next;
* bytes that arrive cut anywhere;
* a pipeline in which every middleware runs whatever the one before returned, so
  that several of them write one response;
* files that change after, or while, they are listed;
* raw pointers to middlewares that are copied from builders into pipelines;
* a `std::map` whose order depends on how a name was given;
* a loop over the matches of a regex that handles empty matches, CRLFs and
  characters of several bytes by hand.

What makes each part correct is the list of properties below; the hazards they
are aimed at are in `PROJECT.json`, each at its line.

## Modules and their correspondence to the code

**`UvServer`** One action per libuv callback, because the loop runs a callback
to its end. `handle`, `closeCB`, `reading`, `shut`, `writes` are what libuv
knows of a `uv_tcp_t`; `heap` says which of `Client`, `two` and `uv_tcp_t` are
allocated. libuv is modelled by its contract: a closing handle cancels what is
outstanding and then runs its close callback; a second `uv_close` of one handle
ends the process. The bytes of a client are events of its parser, four per
request, and a read takes any number of the next ones: inside a request, or
several requests. `connection_should_close` is asked of the parser as it stands
when the write callback runs, as the code does. A connection in `Pipelining`
may have more bytes read before a write completes; the others wait.

**`Connections`** is what `UvServer` promises without its callbacks: a connection
is offered, open, shutting, closing and over, in this order; every complete
request is owed one response while it is open, and refused one afterwards; and a
connection is over only when nothing is owed. `StateOf` and `Process` are the
refinement mapping, `ImplementsConnections` the property.

**`MemoryBuffer`** `write` and `read` page by page, so that every state between
two pages is a state of the model. Bytes are numbered in the order they were
written, which makes what `read` delivers comparable with what was written.
**`ByteQueue`** is what the buffer promises: bytes go in and come out in order.
`ImplementsByteQueue` is the refinement.

**`RequestFlow`** One action per middleware called. Those of the application are
records of what they may do (headers, a `Content-Length` by `addHeader` or
`operator[]`, body, status, `status(0)` too, `end()`, and how they leave);
`StaticFileServer::operator()`, `NotFoundHandler` and `MergeDefaultCommonHeaders`
are written out. Files on disk change between any two steps, and a `read` may
return less than was asked for. `UIntRange` is the 2^32 of both narrow sizes,
that of a body and that of a file in the static table. A field is one name here:
that a name given as a string may not be found by its enumerator is in `Response`.

**`HttpParser`** One action per callback of http_parser. A request is identified
by a number, and every piece of text carries the number of the request it came
from, so that what a handler sees can be traced to the request that sent it.
URLs, header names and values arrive in one piece or two, bodies in several; the
second piece of a header name may be empty, or read as another name (`Fields`).
Behind the last chunk of a body trailers may come (`lastChunk`), for which
http_parser calls back as for headers. `swap` leaves `_bodySize` with its object;
no operation reads it, and it is no part of the model.

**`KeepAlive`** puts `HttpParser` and `RequestFlow` together as `RawWhs` does: the
parser's `onMessageComplete` and `finishCurrentRequest` are one step, the
middlewares run while the parser stands still, and what they write goes into the
buffer `out()` empties and `reset()` clears. `RequestFlow` is an `INSTANCE` whose
request is computed from what the parser hands over (`Asked`); the server has a
static file and no middleware of the application. The parser keeps the last piece
of a URL and the first of a header's value, and a piece may mean what the whole
does not: the end of `/x/file` asks for `/file`, the first byte of any etag that
begins like the file's is all that is compared. Which texts are the file's path,
which are too short to take the prefix off (the process dies of `out_of_range`, as
`in()` catches nothing) and which agree with the etag is therefore one of a set
`Meanings` of arbitrary choices, whole texts or pieces.

**`Regex`** The objects of `utils::regex` with the pattern, the name table and the
count each one holds; the loop of `execute`, one turn a step; and
`parseQueryString` over the bytes of a query. PCRE2 is external: a pattern on a
subject is any function that gives for each offset where the match starting there
ends, and where the one ends that is not empty. `Router` uses `match`, which
accepts a text only if `pcre2_match` returns 1.

**`Router`** `insertChild` builds the tree, one node made or found for each segment
of the path (`Walk`); `getRoute` is what each node answers for each place of the URL
(`Answer`, whose loop over the children is `firstFound`). A URL is its segments, and
the pointers that the code moves along it are places in that sequence. The table is
compared with `Fits`, a definition of matching that knows nothing of trees.

**`WhsLifecycle`** Middlewares are numbered as they are made; pipelines and
builders are sequences of those numbers, as the code copies their pointers.

**`Response`** The header map as a tree, keyed by names given as enumerators or as
strings: a lookup is the descent libstdc++ does, one turn of its loop after the
other (`Down`, `Descent`), followed by the look at a neighbour that each call
takes. `setBody`, whose order of writing type and length is kept, and the bytes
`toBytes` allocates and writes. The names, their order as texts, the values of the
enumerators and the lengths of the status texts are constants.

**`StaticListing`** One action per system call of `list_files`, with the changes
other processes make to the directory between any two. The prefix may be any
text, since `operator()` cuts off its length and compares nothing; of a size the
table keeps what fits a `uint32_t`.

`MC*` modules give the constants their values. An operator whose comment begins
with "MUTANT" is a changed form of the definition after it; replacing that
definition by it must break the property `PROJECT.json` pairs it with. That
shows the property depends on the code.

## Runs

| Run | Checks | Shows |
|---|---|---|
| `UvServer_safety` | `CallbacksSeeLiveMemory`, `HeapAccounting`, `LockStepAnswered`, `CloseTwiceNeedsRace`, `ShutsDownOnlyWhenAsked`, `ImplementsConnections`, `CloseRequestHonoured`, `StopTakesEffect` | no callback that can still run sees freed memory; what is freed, and what leaks, at the end of a connection; a client that waits for its responses gets them and is disconnected only when it asked; without `stop()` the process dies of a double close only if a peer closes between shutdown and its callback; the callbacks keep the contract of `Connections`; a client that asked is disconnected; `stop()` always ends the loop, by returning or by dying |
| `UvServer_stop` (violated) | `StopReturns` | `stop()` while a connection closes kills the process |
| `MemoryBuffer` | `StoredIsUnread`, `UndefinedOnlyWhenEmpty`, `PoolIsTight`, `ImplementsByteQueue` | the paged buffer is a queue of bytes, keeps an exact count and no useless page |
| `RequestFlow` | `LengthTrue`, `LostOnlyIfReplaced`, `NotFoundMeansNoAnswer`, `NoStatusNeedsSilence`, `NotModifiedIsEmpty`, `DiesOnlyOfForeign` | the cases outside which the declared length is right (a handler that gives one itself, two bodies, 2^32 bytes, a file promised and not sent), no body leaks, no 404 replaces an answer, no status is missing and the process does not end |
| `RequestFlow_false` (violated) | `FalseStops` | returning `false` does not stop a pipeline, against `builder.h:33-35` |
| `KeepAlive` | `RoutedByOwnURL`, `HeadersFirstWin`, `FirstRequestFaithful`, `BodyIsOwn`, `ResponsesInOrder`, `EarliestConditionDecides` | which parts of a request are its own: the URL and the body are, headers and middlewares' pointers are the first that came on the connection; one consequence all the way to the response: 304 is decided by the last piece of a request's URL and the first of the connection's earliest `If-None-Match`; responses come out in order and none survives `reset()` |
| `HttpParser_param` (violated) | `ParamIsOwn` | a second request sees the first one's parameter, against `entity.h:49-52` |
| `Router` | `RoutedSoundly`, `RoutedByPrecedence`, `ParamsOfTheRoute`, `RoutableStays` | a lookup finds a fitting route iff there is one that can be reached, the one of the earliest branch, and leaves that route's parameters only; adding a route takes no URL away |
| `Regex` | `MatchesAreSuccessive`, `QueryParsed`, `PatternsOwnedOnce`, `NamesOfOwnPattern`, `ExecuteEnds` | `execute` collects exactly the successive matches of any pattern and ends; which arguments `parseQueryString` finds; a compiled pattern is freed once, or lost by a second `compile` into its object; what a move and a swap do to the name table |
| `WhsLifecycle` | `DeletedOnce`, `CompleteOnceStarted`, `NothingLeft` | the calls after which a middleware is deleted twice, and that there are no others; a started server has what a request needs; after one `start()`, whatever was set up before or behind it, nothing leaks that the server was given |
| `Response` | `OnceWhileOrdered`, `FitsAllocation` | the map is a map while `operator<` is a strict weak ordering of its keys, enumerators, strings or both; the response fits its buffer |
| `StaticListing` | `QuietListingExact`, `StayingFilesListed` | an undisturbed listing is exact, sizes up to 32 bits; a disturbed one, unless cut short, knows every file that stayed |

The `TypeOK` of `UvServer`, `MemoryBuffer`, `RequestFlow`, `HttpParser`, `Router`,
`WhsLifecycle` and `StaticListing`, and the `ResponseTypeOK` of `Response`, are
theorems. Those of the other modules hold in the runs' models too; they are left
out of the configurations, which check what a type error would break besides.

Deadlock is not checked where the program stops (the process exits, the server
is destroyed, all clients have sent what they had to send, an empty regex was
executed); `Response` has no such state and checks it.

### Bounds

* `UvServer`: two connections, so that one can end while the other works, one
  waiting and one pipelining; two requests each, because the second is the first
  that meets a used parser; up to two `stop()`. The proofs are for any number.
* `MemoryBuffer`: pages of three bytes, twelve bytes in all, calls of 0 to 7
  bytes: below, at and above one and two pages. The 512 bytes of the code differ in nothing
  but size; the proofs are for any page size.
* `RequestFlow`: pipelines of at most two of the application's middlewares, one
  handler of each way to answer and to leave, three that give a length of their own
  (with a body, over one that may be there, and an empty one), one that takes the
  status back; `UIntRange = 8`, a body of nine bytes and a file of eleven stand for
  2^32 bytes and more. 1.9 million states.
* `KeepAlive`: two requests, bodies of up to two bytes, one query, parameter and
  header name that requests may share, beside the empty name that a cut leaves: all
  of the mixing is between a request and the ones before it. One file of one byte
  on disk, served below the prefix `/`; the header name is `If-None-Match`. Two
  `Meanings`: in one a first byte of an etag matches that is not the file's, and the
  end of a URL is too short for the prefix; in the other the end of a URL is the
  file's path. 1.1 million states; the proof is for any meanings.
* `Router`: three routes suffice for two that fit and a third that separates
  their branches. Paths share segments, put a parameter beside a text, use a
  regex, repeat a name and end in slashes; one regex has a capture group, so that
  it matches with a code other than 1.
* `Regex`: two objects and three patterns are enough for a move, a swap and a
  compile over each other. Subjects of up to three bytes: a CRLF with a character
  before or behind it, a character of two and one of three bytes. All patterns are
  tried on each, but only while one object exists (`InBounds`), since what
  `execute` does depends on its own object only; `parseQueryString`, whose regex is
  its own, only before any is made. Queries are all strings of up to seven bytes
  over `&`, `=` and one letter, which two arguments of one name and a third piece
  fit in, and of up to four over these, a second letter and `?`.
* `WhsLifecycle`: two builders, five middlewares, builders given twice each.
  Builders are symmetric: no property tells them apart.
* `Response`: four entries. Lookups that go wrong need two; with five, libstdc++
  would rebalance in ways this tree does not follow. Three enumerators whose values
  are in another order than their texts and one name that has none; status texts of
  9 bytes and of 31, the longest; values empty or not; bodies of none, 12 and 70123
  bytes, the last more than `BodySizeRange`, which is 2^16 in the run. The proofs
  are for any names, values, texts and sizes.
* `StaticListing`: a place for a file, one for a directory and one in it; two
  changes are enough for a replacement and its undoing; two starts. `UIntRange` is 2,
  so that a file of two bytes is one of 2^32.

### Fairness

`UvServer_safety`, for its two liveness properties, and `UvServer_stop` need it.
Weak fairness is assumed of the
callbacks that are due (write, shutdown, close, the async signal) and of the
return of `start()`: `uv_run` runs every callback that is due, and a queued write
ends because the peer drains its socket or resets the connection. Nobody has to
connect, to send, to close or to call `stop()`. In `Regex` it is assumed of the
turns of the loop of `execute`: the thread that runs it runs on. That PCRE2 gives
up, which would end the loop as well, is not assumed.

## Proofs

All theorems are of the form `Spec => ...`, for every value of the constants that
satisfies the module's named assumptions. These give the types of the constants
and, where the code or a library it calls does, what the data is like: a file's
place is below directories that are places too (`StaticAssumption`); a UTF subject
is valid, since PCRE2 refuses any other, and a query begins with the `?` from which
`onURL` takes it (`RegexAssumption`); paths, prefixes and URLs are sequences of
segments, and a URL has at least one, since it begins with a slash
(`RouterAssumption`); no status text is longer than 31 bytes, which is that of 511,
and maps have up to the four entries the tree is modelled for
(`ResponseAssumption`). TLC found no state of its models that
violates a property before it was proved.

* `UvServerProofs`. `TypeCorrect`. `MemorySafe` and `MemoryAccounted` follow from
  `LifeInv`, which ties what is on the heap to the state of the handle and its
  close callback: requests can only be outstanding while the handle is open or
  closing, and only `uvCloseCB`, the last callback of a handle, frees.
  `CallbacksSeeLiveMemory` alone is not inductive: it does not say why no write is
  outstanding after the close callback. `WaitingClientAnswered`,
  `ShutdownAtBoundary` and `ShutdownWhenAsked` follow from `LockStepInv`: of a
  client that waits, a write is outstanding only at a boundary between requests,
  so that the parser asked by the write callback is in the state of the request
  that was answered. `ConnectionsImplemented` proves the refinement: `TypeOK` and
  `LifeInv` give that a write callback finds a response owed, and that at the close
  callback and at the return of `start()` none is; each action then maps to the
  steps of its connection (`ContractStep`). `AlwaysSettled` is the balance of the
  contract itself, by induction over its steps; `ConnectionsSettled` carries it over
  to `UvServer` through the refinement.
* `MemoryBufferProofs`. `Inv` adds to the count the shape of the pool (which pages
  may be empty or partly filled at each step), that bytes are numbered within a
  page (`Numbered`) and from one page to the next (`Chained`), and that the last
  byte is the last written (`LastByte`). The count is proved without a sum over
  pages, which would need induction: the numbers of the first and last bytes give
  it. `Refinement` maps initial state and every step to `ByteQueue` or a stutter.
  `TightCorrect` needs to know which pages a read has emptied at each of its steps
  (`Tight`) and that successive pages hold successive runs of bytes (`Spread`).
* `RequestFlowProofs`. `LengthInv` says what is known between two middlewares:
  nothing written (`NoBodyYet`), or one body whose length is the declared one
  (`OneBody`), or a named exception, a length that a handler gave among them; `Lost` counts the buffers. `LengthCorrect`
  and `LostCorrect` follow. `StatusInv` says that a status is never taken back but
  by `status(0)` or an `HttpException`, so that while it is 0 nobody the request has passed sets
  one; `SilenceCorrect` (a response without a status) and `NotFoundCorrect` (the 404
  of `NotFoundHandler`) follow. `SurvivalCorrect`: the process dies only of what the
  two `catch` clauses let through. `NotModifiedCorrect` follows the request on which
  `StaticFileServer` gave 304 through the router and `NotFoundHandler`, which both
  still run: with the status set, neither writes (`QuietInv`).
* `RequestFlowProofs`, last part: `Response`. A descent ends in the gap where the
  entries it went left of begin, if these are all behind one place of the map
  (`DescentFacts`, over the ranges of entries that the loop passes through). Where
  that is so depends on the order, so the invariant says it of every numbering of
  the keys: if the order of `HeaderName` is that of the numbers, on the keys of the
  map, then the entries are sorted by them without a repetition (`Placed`, for all
  numberings; `Shape`). Keys only ever become more (`Larger`), so an order that agrees
  now agreed at each step before. An order that is a strict weak ordering of finitely
  many keys is one such numbering (how many keys are smaller): `OnceCorrect`.
  `GivenCorrect` (`GivenValuesStay`: a value a handler gave is changed by `operator[]`
  only) needs no order: whatever a lookup finds, what is assigned was empty. `TypeIgnored`
  (`OwnTypeIgnored`: a body's own content type changes nothing): after `setBody`
  an entry of the number of `Content-Type` is there in every numbering that agrees
  (`Has`), so that the type which is offered afterwards finds it (`HasStale`).
  `FitsCorrect` is arithmetic, for bodies of any size, once the sum over the headers
  is known to be a number (`HeaderBytesNatural`).
* `UvServerProofs` again: `CloseTwiceCorrect`. Without `stop()` the asynchronous
  callback has nothing to close (`StopInv`); a shutdown is outstanding only after a
  request (`AnswersInv`), so the second close is a peer's end that came between the
  shutdown and its callback (`RaceStep`).
* `KeepAliveProofs` has the theorems of `HttpParser` and of `KeepAlive`. For the
  parser: the length counted is that of the body sent (`Arriving`, which type
  correctness needs too); the current request's line is the arriving one's unless a
  read cut the URL in two (`OwnLine`); the body held is the part of it that has
  arrived (`OwnBytes`); each header held is the text of the earliest request since
  `reset()` that sent it, or of the one that is arriving (`HeldInv`), because
  `emplace` keeps the first; and up to the first answer nothing came from another
  request (`FirstSoFar`). `ParserImplemented` is the refinement of `HttpParser` by
  the composition, by which `ParserOfConnection` has these properties of the parser
  inside a `RawWhs`. `OrderCorrect` is by `OrderInv`: what was taken out and what
  the buffer holds are, together, one response for each request answered.
  `ConditionCorrect` joins `HeadersFirstWin` with `KeptInv`, which says that a URL
  kept is the last piece of one and a value kept never a second piece, and with
  `FlowInv`: once `StaticFileServer` has run, the status is 304 exactly if the
  request that the parser handed over is for the file and agrees with its etag.
* `WhsLifecycleProofs`. `CompleteInv`: `start()` supplies the router and the handlers
  that were not configured. While nothing is shared, a middleware is in one place
  at most (`ContentInv` of the builders, `OwnInv` of the server), and what the
  server was not given yet it neither holds nor has deleted (`PendingInv`);
  `DeletedCorrect` follows. `NothingLeftCorrect` needs the converse, that each
  middleware is held, deleted, in a builder or the static server of `start()`
  (`AccountInv`).
* `RegexProofs`. `OwnInv`: no two objects hold the same pattern, and what an object
  holds is not freed. `MatchesCorrect`: every match collected is the next one after
  the match before it, an empty one being retried (`Chained`, kept by `LoopInv` at
  each turn), and when the loop ends there is no further one (`DoneInv`); "next" is a
  least offset, whose existence is a lemma. `QueryCorrect`: as long as the pieces of
  a query between `&` are well-formed, the match at the end of a piece is the next
  piece (`NextPiece`, `PieceAt`), so that by induction over the pieces `execute()`
  collects all of them up to the first that is not (`QueryFound`), and nothing but
  them if there is no such piece; the first of a name becomes the argument.
* `StaticListingProofs`. `StayingCorrect`: each file that stays, whatever happens
  around it, is known, or being looked at, or on the way: a directory above it is
  stacked, or is being read and has not returned the next name down, or has it in
  the entry (`WayInv`, at any depth). That a file's own text is what is looked up
  needs that different places have different texts (`TextInjective`).
  `QuietCorrect`: without a disturbance every key in the table is a file's
  (`QuietInv`).
* `RouterProofs`. The tree stands for the routes (`Stands`): each node is labelled
  with the segments on the way to it (`Labels`), and the end of a route with those
  of the route's path. `TreeInv` keeps it, and `Replied` says that the last lookup
  was made in the tree as it is now, which no longer changes once it is built.
  `RouterSound` and `ParamsSound` follow by induction from the leaves up
  (`LookupSound`): what a node answers is a route below it whose further segments
  the URL fits, with the parameters of these and no others. `RouterStays`: a route
  more adds nodes and changes none, and the ends that were there still answer
  (`StillFound`). A path with an empty segment can lead below an end, where no
  lookup goes; the converse, that what matches is found, is therefore stated for
  tables without such paths. For these `FullInv` adds that the tree has no two
  nodes for the same segments (`Unique`), that each was made for the first route
  that passes it (`Births`) and that every route is in it (`Covered`). Then a route
  that matches is reached (`MatchReaches`), and among the children of a node the
  order is that of their births (`BestEverywhere`): `RouterPrecedence`. That the
  recursive functions `getRoute` and `Walk` satisfy their equations is proved from
  the same principle (`getRouteFacts`, `WalkFacts`).

Only model-checked: liveness (`CloseRequestHonoured`, `StopTakesEffect`,
`ExecuteEnds`), which the provers at hand cannot reach because it rests on fairness
and `ENABLED`. Every other property of a passing run is a theorem; `GivenValuesStay` and
`OwnTypeIgnored` are theorems that no run checks besides. Induction over the natural numbers is done by a least counterexample
(`WellFoundedInduction`) where a proof needs it; the library's induction theorems,
which take an operator as parameter, cannot be used.

## Findings

1. `stop()` while a connection closes: `uv_close` twice on one handle
   (`UvServer_stop`).
2. `Pipeline::feed` ignores what middlewares return (`RequestFlow_false`). One
   consequence: after a static file was put into a response the router runs, finds
   no route, and `NotFoundHandler`, which looks at the status only, replaces the
   file by its 404 text under the file's `Content-Length`. `LengthTrue` names the
   case.
3. `current` is never cleared on a keep-alive connection (`HttpParser_param`;
   `HeadersFirstWin` says what a handler sees instead).

Other behaviour that surprises, recorded as the exceptions the properties name:
a response whose handler set no status is sent as `000`; a `Content-Length` that a
handler gave is sent whatever the body is; a URL that arrives in two fragments is
routed by the last one, and an `If-None-Match` in two compared by the first; a file
of 2^32 bytes or more is listed with a smaller size; the same header given as a string and as
an enumerator can be sent twice (`Content-Length` set by name, then `setBody`);
the content type that a `ResponseBodyType` names is offered after `setBody` has put
`text/plain`, and is not used;
a route `"/a/"` registered after `"/a"` is under an end node and never found; two
`start()` with static files delete the file server twice; one unreadable
directory ends the listing; a parameter whose regex has a capture group never
matches; a query in which no argument has both a name and a `=` makes the request
fail; a regex that was moved or swapped has name tables that are not its own.

## Not modelled

* mutex wrappers, `TcpWhs`, the logger, time formatting, MIME types, computation of
  ETags: pure functions or thin wrappers.
* PCRE2 beyond the contract of `pcre2_match`: patterns with `\K` or `\G` (a match
  that starts before the place it was searched from, for which the loop has the
  `startchar` branch), and what one pattern matches. The build with `std::regex`.
* An external libuv loop (`stop()` and `_start()` do nothing with it) and failures
  of `bind` and `listen`, whose results the code ignores.
* Symbolic links and hash collisions in the table of static files; `list_files`
  follows links, so a loop of them repeats files until the kernel refuses the path.
* http_parser, libuv and libstdc++ beyond the contract the code relies on.

## Plan

The order is by weight: the connection life cycle and the buffer first, then the
request flow, the parser, the router, the configuration, the response, the
listing, the contract of a connection, the regex and the composition `KeepAlive`.
All of these modules exist. What is left:

1. The defaults of the library beside headers of the application in one map of
   more than four entries, with the full rebalancing of the tree.
