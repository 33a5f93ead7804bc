------------------------------ MODULE HttpParser ------------------------------
(***************************************************************************)
(* HttpParser (src/src/parser.cpp): the callbacks http_parser makes while  *)
(* the requests of one keep-alive connection arrive, what they leave in    *)
(* `current', `_buf', `bodyLength' and `currentHeaderField', and what      *)
(* finishCurrentRequest() hands to Whs::processing_request.                *)
(*                                                                         *)
(* libuv reads at most 512 bytes at a time, and http_parser calls back     *)
(* with what each read holds: a URL, the name of a header or its value may *)
(* come in two parts, a body in several.  The n-th request writes n into   *)
(* its URL and its values, so that a text tells whose it is and which      *)
(* part; names of headers, and parts of them, are texts of a set.          *)
(***************************************************************************)
EXTENDS Integers, Sequences

CONSTANTS
  Names,        (* names of query arguments and of parameters               *)
  Fields,       (* texts that names of headers, and parts of them, may be   *)
  MaxRequests,  (* bound: requests that arrive                              *)
  MaxBody,      (* bound: bytes of one body                                 *)
  CanReset      (* the server is a RawWhs, whose user may call reset()      *)

ASSUME ParserAssumption ==
  /\ MaxRequests \in Nat \ {0} /\ MaxBody \in Nat /\ CanReset \in BOOLEAN

VARIABLES
  phase,               (* where http_parser is in the stream                *)
  sent,                (* the request arriving, as the client sends it      *)
  current,             (* HttpParser::current                               *)
  currentHeaderField,
  buf,                 (* _buf: whose byte each one is                      *)
  bodyLength,
  answered,            (* the headers of each request answered since the    *)
                       (* last reset(), as its client sent them             *)
  own,                 (* the last of them, as its client sent it           *)
  saw,                 (* and what its handler was given                    *)
  interrupted          (* a reset() came while part of a body was in _buf   *)

vars == <<phase, sent, current, currentHeaderField, buf, bodyLength,
          answered, own, saw, interrupted>>

Ids == 1..MaxRequests
Parts == {"all", "head", "tail"}
Text == Ids \X Parts
NoText == <<0, "all">>
NoField == ""      \* the empty text: no name, but the second part of one may be
Field == Fields \cup {NoField}
Phases == {"ready", "urlTail", "fields", "fieldTail", "value", "valueTail", "body", "failed"}

\* What a client sends: `split' when a read ended inside one of the texts,
\* `trailing' while what follows the last chunk of a body arrives.  A header is
\* known by the text that is kept of its name.
Sent == [ id : 0..MaxRequests, split : BOOLEAN, marked : BOOLEAN, trailing : BOOLEAN,
          queries : SUBSET Names, headers : SUBSET Field, params : SUBSET Names,
          body : 0..MaxBody ]

\* RestfulHttpRequest; a map gives the text each key has, or none.
Request == [ url : Text \cup {NoText}, method : 0..MaxRequests,
             queries : [Names -> 0..MaxRequests], params : [Names -> 0..MaxRequests],
             headers : [Field -> Text \cup {NoText}], body : Seq(0..MaxRequests),
             data : 0..MaxRequests ]   \* process_data: whose pointer a key has

NewSent(n) == [ id |-> n, split |-> FALSE, marked |-> FALSE, trailing |-> FALSE,
                queries |-> {}, headers |-> {}, params |-> {}, body |-> 0 ]

NewRequest == [ url |-> NoText, method |-> 0, queries |-> [k \in Names |-> 0],
                params |-> [k \in Names |-> 0], headers |-> [f \in Field |-> NoText],
                body |-> <<>>, data |-> 0 ]

TypeOK ==
  /\ phase \in Phases /\ sent \in Sent /\ own \in Sent
  /\ current \in Request /\ saw \in Request
  /\ currentHeaderField \in Field
  /\ buf \in Seq(Ids) /\ bodyLength \in 0..MaxBody
  /\ answered \in Seq([id : Ids, headers : SUBSET Field]) /\ interrupted \in BOOLEAN

-----------------------------------------------------------------------------
(* std::map::emplace: a key that is there keeps its value.                  *)

EmplaceAll(map, keys, n) ==
  [k \in Names |-> IF k \in keys /\ map[k] = 0 THEN n ELSE map[k]]

\* addParam() looks first and emplaces then.
addParams(map, keys, n) == EmplaceAll(map, keys, n)

\* MUTANT: the later value wins.
EmplaceHeaderLast(headers, f, text) == [headers EXCEPT ![f] = text]

\* emplaceHeader: the earlier value stays.
EmplaceHeader(headers, f, text) ==
  IF headers[f] = NoText THEN [headers EXCEPT ![f] = text] ELSE headers

\* put_processing_data emplaces as well.
put_processing_data(data, n) == IF data = 0 THEN n ELSE data

-----------------------------------------------------------------------------
(* The callbacks.                                                           *)

\* MUTANT: the path is kept like the headers are.
BaseURLFirst(text) == IF current.url = NoText THEN text ELSE current.url

\* setBaseURL assigns: the path of the last part called with.
BaseURL(text) == text

\* utils::parseQueryString: no argument when the regex does not match.
Parsed(q, marks, parses) == IF marks /\ parses THEN q ELSE {}

\* The request line.  `q' are the arguments the part brings; only behind a '?'
\* of its own (`marks') are they parsed, and when they do not parse the
\* callback fails, which is an error of http_parser.
onURL(part, q, marks, parses) ==
  LET n == IF part = "tail" THEN sent.id ELSE sent.id + 1
      s == IF part = "tail" THEN sent ELSE NewSent(n)
  IN /\ \/ phase = "ready" /\ part # "tail" /\ n \in Ids
        \/ phase = "urlTail" /\ part = "tail"
     /\ q # {} => marks \/ s.marked
     /\ marks => ~s.marked /\ q # {}
     /\ parses = FALSE => marks
     /\ sent' = [s EXCEPT !.split = @ \/ part # "all", !.marked = (part = "head" /\ marks),
                          !.queries = @ \cup q]
     /\ current' = [current EXCEPT
                     !.url = BaseURL(<<n, part>>),
                     !.queries = EmplaceAll(@, Parsed(q, marks, parses), n)]
     /\ phase' = IF ~parses THEN "failed" ELSE IF part = "head" THEN "urlTail" ELSE "fields"
     /\ UNCHANGED <<currentHeaderField, buf, bodyLength, answered, own, saw, interrupted>>

\* setCurrentHeaderField assigns: of a name in two parts the second is kept, which
\* may be empty, or read as a whole name.
onHeaderField(f, part) ==
  /\ \/ phase = "fields" /\ part # "tail" /\ f # NoField
     \/ phase = "fieldTail" /\ part = "tail"
  /\ currentHeaderField' = f
  /\ sent' = IF part = "head" THEN [sent EXCEPT !.split = TRUE]
             ELSE [sent EXCEPT !.headers = @ \cup {f}]
  /\ phase' = IF part = "head" THEN "fieldTail" ELSE "value"
  /\ UNCHANGED <<current, buf, bodyLength, answered, own, saw, interrupted>>

\* emplaceHeader copies the name: of a value in two parts the first is kept.
onHeaderValue(part) ==
  /\ \/ phase = "value" /\ part # "tail"
     \/ phase = "valueTail" /\ part = "tail"
  /\ current' = [current EXCEPT
                  !.headers = EmplaceHeader(@, currentHeaderField, <<sent.id, part>>)]
  /\ sent' = [sent EXCEPT !.split = @ \/ part # "all"]
  /\ phase' = IF part = "head" THEN "valueTail" ELSE "fields"
  /\ UNCHANGED <<currentHeaderField, buf, bodyLength, answered, own, saw, interrupted>>

\* After the trailers of a body http_parser does not call it again.
onHeaderCompelete ==
  /\ phase = "fields" /\ ~sent.trailing
  /\ current' = [current EXCEPT !.method = sent.id]
  /\ phase' = "body"
  /\ UNCHANGED <<sent, currentHeaderField, buf, bodyLength, answered, own, saw, interrupted>>

onBody(l) ==
  /\ phase = "body" /\ sent.body + l <= MaxBody
  /\ buf' = buf \o [i \in 1..l |-> sent.id]
  /\ bodyLength' = bodyLength + l
  /\ sent' = [sent EXCEPT !.body = @ + l]
  /\ UNCHANGED <<phase, current, currentHeaderField, answered, own, saw, interrupted>>

\* External: the last chunk of a body, of no bytes.  What follows are trailers,
\* for which http_parser calls back as for headers.
lastChunk ==
  /\ phase = "body"
  /\ sent' = [sent EXCEPT !.trailing = TRUE]
  /\ phase' = "fields"
  /\ UNCHANGED <<current, currentHeaderField, buf, bodyLength, answered, own, saw, interrupted>>

\* The n bytes _buf.read() copies: those it does not have are left undefined.
Read(n) == [i \in 1..n |-> IF i <= Len(buf) THEN buf[i] ELSE 0]

\* What _buf.read() leaves.
Rest == SubSeq(buf, bodyLength + 1, Len(buf))

\* MUTANT: like a parameter, a body that is there is kept.
BodyFirst == IF current.body = <<>> THEN Read(bodyLength) ELSE current.body

\* setBody() replaces the pointer; without a body the old one stays.
Body == IF bodyLength > 0 THEN Read(bodyLength) ELSE current.body

\* finishCurrentRequest(): the body is taken out of _buf, the router adds the
\* parameters of the path (addParam), a middleware puts a pointer of its own
\* under a key, the handler sees `current', the response is written.  Nothing of
\* `current' is cleared for the next request.
onMessageComplete(params) ==
  LET req == [current EXCEPT !.body = Body,
                             !.params = addParams(@, params, sent.id),
                             !.data = put_processing_data(@, sent.id)]
  IN /\ phase = "body" \/ (phase = "fields" /\ sent.trailing)
     /\ buf' = Rest
     /\ bodyLength' = 0
     /\ current' = req /\ saw' = req
     /\ sent' = [sent EXCEPT !.params = params, !.trailing = FALSE]
     /\ own' = sent'
     /\ answered' = Append(answered, [id |-> sent.id, headers |-> sent.headers])
     /\ phase' = "ready"
     /\ UNCHANGED <<currentHeaderField, interrupted>>

-----------------------------------------------------------------------------
(* External: bytes http_parser refuses.  readFromNetwork() throws           *)
(* HttpParserException, and every later call does, until reset().           *)

Refuse ==
  /\ phase # "failed"
  /\ phase' = "failed"
  /\ UNCHANGED <<sent, current, currentHeaderField, buf, bodyLength, answered, own, saw, interrupted>>

\* MUTANT: what the request in `current' holds survives.
CurrentSurvives == current

\* Request req; current.swap(req);  (swap() leaves _bodySize, which nothing reads.)
CurrentSwapped == NewRequest

\* RawWhs::reset(), Client::reset(), HttpParser::reset(): _buf keeps its bytes.
reset ==
  /\ CanReset
  /\ phase' = "ready"
  /\ current' = CurrentSwapped
  /\ bodyLength' = 0
  /\ interrupted' = (interrupted \/ bodyLength > 0)
  /\ answered' = <<>> /\ own' = NewSent(0) /\ saw' = NewRequest
  /\ sent' = NewSent(sent.id)
  /\ UNCHANGED <<currentHeaderField, buf>>

Init ==
  /\ phase = "ready" /\ sent = NewSent(0)
  /\ current = NewRequest /\ saw = NewRequest
  /\ currentHeaderField = NoField
  /\ buf = <<>> /\ bodyLength = 0
  /\ answered = <<>> /\ own = NewSent(0) /\ interrupted = FALSE

URLArrives == \E part \in Parts, q \in SUBSET Names, marks, parses \in BOOLEAN :
                onURL(part, q, marks, parses)

Next ==
  \/ URLArrives
  \/ \E f \in Field, part \in Parts : onHeaderField(f, part)
  \/ \E part \in Parts : onHeaderValue(part)
  \/ onHeaderCompelete
  \/ \E l \in 1..MaxBody : onBody(l)
  \/ lastChunk
  \/ \E params \in SUBSET Names : onMessageComplete(params)
  \/ Refuse
  \/ reset

Spec == Init /\ [][Next]_vars

-----------------------------------------------------------------------------
(* Properties.                                                              *)

Handled == answered # <<>>

EarliestWith(S) == CHOOSE k \in S : \A j \in S : k <= j

\* Whatever came before on the connection, a request that no read has cut in
\* two is routed by its own method and its own path (onURL and
\* onHeaderCompelete overwrite what the last request left).
RoutedByOwnURL ==
  Handled /\ ~own.split => saw.url = <<own.id, "all">> /\ saw.method = own.id

\* `current' is never cleared, so a handler sees the union of the headers of
\* all the requests of the connection; of a header that several sent it sees
\* the value of the earliest, and no header that was sent is missing.  So it is
\* with the pointer a middleware puts for it: it gets the first request's.
HeadersFirstWin ==
  Handled =>
    /\ \A f \in Field :
         LET senders == {k \in 1..Len(answered) : f \in answered[k].headers}
         IN saw.headers[f][1] = IF senders = {} THEN 0 ELSE answered[EarliestWith(senders)].id
    /\ saw.data = answered[1].id

\* The first request after the parser was made, or reset, is given to its
\* handler exactly as it was sent: arguments, parameters, headers, the pointer
\* put for it and, unless the reset lost part of a body, the body.
FirstRequestFaithful ==
  Len(answered) = 1 /\ ~own.split =>
    /\ saw.queries = [k \in Names |-> IF k \in own.queries THEN own.id ELSE 0]
    /\ saw.params = [k \in Names |-> IF k \in own.params THEN own.id ELSE 0]
    /\ \A f \in Field : saw.headers[f] = IF f \in own.headers THEN <<own.id, "all">> ELSE NoText
    /\ Len(saw.body) = own.body /\ saw.data = own.id
    /\ ~interrupted => \A i \in 1..own.body : saw.body[i] = own.id

\* A body in any number of chunks, on a connection that had any number of
\* bodies, reaches its handler complete and unmixed: reset() in the middle of
\* a body is the only way to bytes of another request.
BodyIsOwn ==
  Handled /\ own.body > 0 =>
    /\ Len(saw.body) = own.body
    /\ ~interrupted => \A i \in 1..own.body : saw.body[i] = own.id

\* entity.h:49-52: of GET /user/tj/information routed by /usr/{name}/information
\* the handler finds the parameter name = "tj", the request's own.
ParamIsOwn == Handled => \A k \in own.params : saw.params[k] = own.id

===============================================================================
