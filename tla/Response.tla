------------------------------ MODULE Response ------------------------------
(***************************************************************************)
(* The header map and the wire form of one RestfulHttpResponse             *)
(* (include/whs/entity.h, src/response.cpp).                               *)
(*                                                                         *)
(* The headers are a std::map keyed by HeaderName, which holds either an   *)
(* enumerator of CommonHeader or a string, and whose operator< compares    *)
(* two enumerators by their values and any other pair by their texts.  The *)
(* two orders disagree, so what a lookup finds depends on the shape of the *)
(* tree.  The tree is kept as the sequence of its entries in order, each   *)
(* with a rank: the root of a range of entries is the one of least rank.   *)
(* At most four entries are ever searched: with three entries the tree is  *)
(* always rebalanced about the middle one, and the fourth is a leaf.       *)
(*                                                                         *)
(* A value is its length: only its emptiness and the bytes it takes        *)
(* matter.                                                                 *)
(*                                                                         *)
(* The specification's names begin with Response, so that RequestFlow and  *)
(* this module can be extended together.                                   *)
(***************************************************************************)
EXTENDS Integers, Sequences, FiniteSets, SequencesExt

CONSTANTS
  Statuses,      \* status codes handlers set, 0 (never set) among them
  BodySizes,     \* sizes of the bodies handlers set, of any length
  BodySizeRange, \* 2^32: _bodySize is an unsigned int
  ValueLengths,  \* lengths of the header values handlers give
  TextRank,      \* the header names, and the place of each in their order
  NameLength,    \* the length of each
  CommonHeader,  \* the enumerators, and the value of each
  StatusText,    \* the length of http_status_str of each status code
  MaxHeaders     \* bound: entries of the map

\* The longest status text is that of 511.
ASSUME ResponseAssumption ==
  /\ TextRank \in [DOMAIN TextRank -> Nat]
  /\ NameLength \in [DOMAIN TextRank -> Nat]
  /\ CommonHeader \in [DOMAIN CommonHeader -> Nat]
  /\ {"Content-Type", "Content-Length"} \subseteq DOMAIN CommonHeader
  /\ DOMAIN CommonHeader \subseteq DOMAIN TextRank
  /\ 0 \in Statuses /\ Statuses \subseteq Nat /\ StatusText \in [Statuses -> 0..31]
  /\ BodySizes \subseteq Nat /\ BodySizeRange \in Nat \ {0}
  /\ ValueLengths \subseteq Nat
  /\ MaxHeaders \in 1..4

VARIABLES
  headers,  \* _headers: the entries of the map, in its order
  status,   \* _status
  body,     \* _bodySize
  out       \* what toBytes made, or None

responseVars == <<headers, status, body, out>>

\* A name is kept as an enumerator or as a string, and the two are different keys.
HeaderName == [kind : {"STRING"}, name : DOMAIN TextRank]
              \cup [kind : {"ENUM"}, name : DOMAIN CommonHeader]
Enum(n) == [kind |-> "ENUM", name |-> n]

Entry == [key : HeaderName, length : Nat, rank : 1..MaxHeaders + 1]

None == [alloc |-> 0, size |-> 0, left |-> 0]

ResponseInit ==
  /\ headers = <<>>
  /\ status = 0
  /\ body = 0
  /\ out = None

-----------------------------------------------------------------------------
\* HeaderName::operator<.

\* MUTANT: an order that is not strict.
LessOrSame(k, l) == TextRank[k.name] <= TextRank[l.name]

Less(k, l) ==
  IF k.kind = "ENUM" /\ l.kind = "ENUM"
  THEN CommonHeader[k.name] < CommonHeader[l.name]
  ELSE TextRank[k.name] < TextRank[l.name]

-----------------------------------------------------------------------------
\* The tree of libstdc++'s std::map.

Root(h, lo, hi) == CHOOSE r \in lo..hi : \A i \in lo..hi : h[r].rank <= h[i].rank

\* One turn of a descent: from the entries range.lo..range.hi to those on one
\* side of their root, the left one if the root is among those in `left'.
Down(h, range, left) ==
  LET r == Root(h, range.lo, range.hi)
  IN IF range.lo > range.hi THEN range
     ELSE IF r \in left THEN [range EXCEPT !.hi = r - 1] ELSE [range EXCEPT !.lo = r + 1]

\* The gap a descent ends in: gap i is the one before the i-th entry.
Descent(h, left) ==
  LET range[turns \in 0..Len(h)] ==
        IF turns = 0 THEN [lo |-> 1, hi |-> Len(h)] ELSE Down(h, range[turns - 1], left)
  IN range[Len(h)].lo

UpperGap(h, k) == Descent(h, {i \in 1..Len(h) : Less(k, h[i].key)})
lower_bound(h, k) == Descent(h, {i \in 1..Len(h) : ~Less(h[i].key, k)})

\* The third entry makes the middle one the root.
Rebalanced(h) ==
  IF Len(h) # 3 THEN h
  ELSE [i \in 1..3 |-> [h[i] EXCEPT !.rank = IF i = 2 THEN 1 ELSE 2]]

Inserted(h, i, k, n) ==
  Rebalanced(InsertAt(h, i, [key |-> k, length |-> n, rank |-> Len(h) + 1]))

\* emplace, and insert of a pair: the descent, then a look at the entry
\* before the gap; an equal one keeps its value.
Fresh(h, k) == LET i == UpperGap(h, k) IN i = 1 \/ Less(h[i - 1].key, k)

emplace(h, k, n) == IF Fresh(h, k) THEN Inserted(h, UpperGap(h, k), k, n) ELSE h

\* Where find, and first of all operator[], finds the key, or 0.
Found(h, k) ==
  LET i == lower_bound(h, k)
  IN IF i <= Len(h) /\ ~Less(k, h[i].key) THEN i ELSE 0

\* operator[] of a key it does not find takes lower_bound as a hint: it
\* inserts there when the entry before is less, and as emplace does otherwise.
HintHolds(h, k) == LET i == lower_bound(h, k) IN i = 1 \/ Less(h[i - 1].key, k)

\* The entry operator[] refers to when it makes none, or 0.
Referred(h, k) ==
  IF Found(h, k) # 0 THEN Found(h, k)
  ELSE IF HintHolds(h, k) \/ Fresh(h, k) THEN 0 ELSE UpperGap(h, k) - 1

\* Assigning n bytes through operator[].
Assigned(h, k, n) ==
  LET i == Referred(h, k)
  IN IF i # 0 THEN [h EXCEPT ![i].length = n]
     ELSE IF HintHolds(h, k) THEN Inserted(h, lower_bound(h, k), k, n)
     ELSE emplace(h, k, n)

\* What operator[] refers to is empty: made by it, or given so.
Empty(h, k) == LET i == Referred(h, k) IN i = 0 \/ h[i].length = 0

-----------------------------------------------------------------------------
\* Building a response.

Building == out = None

addHeader(k, n) ==
  /\ Building /\ Len(headers) < MaxHeaders
  /\ headers' = emplace(headers, k, n)
  /\ UNCHANGED <<status, body, out>>

addHeaderIfNotExists(c, n) ==
  /\ Building /\ Len(headers) < MaxHeaders
  /\ headers' = IF Found(headers, Enum(c)) = 0 THEN emplace(headers, Enum(c), n) ELSE headers
  /\ UNCHANGED <<status, body, out>>

assign(k, n) ==
  /\ Building /\ Len(headers) < MaxHeaders
  /\ headers' = Assigned(headers, k, n)
  /\ UNCHANGED <<status, body, out>>

setStatus(s) ==
  /\ Building
  /\ status' = s
  /\ UNCHANGED <<headers, body, out>>

\* The characters itoa writes of a number of 64 bits: one, and one for each
\* division by ten that leaves something.
itoa(v) ==
  LET left[d \in 0..19] == IF d = 0 THEN v ELSE left[d - 1] \div 10
  IN 1 + Cardinality({d \in 1..19 : left[d] > 0})

\* The type of a body is text/plain unless there is one already; the length
\* is declared unless there is one already.
Declared(h, n) ==
  LET k == Enum("Content-Type")
      typed == IF Empty(h, k) THEN Assigned(h, k, 10) ELSE h
  IN emplace(typed, Enum("Content-Length"), itoa(n))

setBody(n) ==
  /\ Building /\ Len(headers) + 2 <= MaxHeaders
  /\ headers' = Declared(headers, n)
  /\ body' = n % BodySizeRange
  /\ UNCHANGED <<status, out>>

\* A body that names its own type: it is offered after setBody has given one.
setTypedBody(n) ==
  /\ Building /\ Len(headers) + 3 <= MaxHeaders
  /\ headers' = emplace(Declared(headers, n), Enum("Content-Type"), 16)
  /\ body' = n % BodySizeRange
  /\ UNCHANGED <<status, out>>

-----------------------------------------------------------------------------
\* toBytes.

\* The sum over the headers: name, colon, space, value and end of line.
HeaderBytes(h) ==
  LET sum[i \in 0..Len(h)] ==
        IF i = 0 THEN 0 ELSE sum[i - 1] + NameLength[h[i].key.name] + h[i].length + 4
  IN sum[Len(h)]

\* MUTANT: the separators of the headers are not counted.
calcForgetsColons(h, n) ==
  (8 + 1 + 3 + 1 + 32 + 2) + HeaderBytes(h) - 4 * Len(h) + 2 + (IF n > 0 THEN n + 2 ELSE 0)

\* What is allocated: room for the longest status text, and five to spare.
calcHttpResponseSize(h, n) ==
  (8 + 1 + 3 + 1 + 32 + 2) + HeaderBytes(h) + 2 + (IF n > 0 THEN n + 2 ELSE 0)

\* Status line, headers and the empty line.
HeadBytes(h) == 9 + 4 + StatusText[status] + 2 + HeaderBytes(h) + 2

\* toBytes makes a Content-Length when there is none, and gives an empty one
\* the value 0 in a response without a body.
LengthMade(h) ==
  LET k == Enum("Content-Length")
  IN IF body = 0 /\ Empty(h, k) THEN Assigned(h, k, 1)
     ELSE IF Referred(h, k) = 0 THEN Assigned(h, k, 0)
     ELSE h

toBytes ==
  /\ Building /\ Len(headers) <= MaxHeaders
  /\ headers' = LengthMade(headers)
  /\ LET alloc == calcHttpResponseSize(headers', body) + 5
     IN out' = [alloc |-> alloc, size |-> HeadBytes(headers') + body,
                left |-> alloc - HeadBytes(headers')]
  /\ UNCHANGED <<status, body>>

\* The bytes go to the connection and the response is destroyed.
written ==
  /\ ~Building
  /\ headers' = <<>> /\ status' = 0 /\ body' = 0 /\ out' = None

ResponseNext ==
  \/ \E k \in HeaderName, n \in ValueLengths : addHeader(k, n) \/ assign(k, n)
  \/ \E c \in DOMAIN CommonHeader, n \in ValueLengths : addHeaderIfNotExists(c, n)
  \/ \E s \in Statuses : setStatus(s)
  \/ \E n \in BodySizes : setBody(n) \/ setTypedBody(n)
  \/ toBytes
  \/ written

ResponseSpec == ResponseInit /\ [][ResponseNext]_responseVars

-----------------------------------------------------------------------------
\* Properties.

ResponseTypeOK ==
  /\ headers \in Seq(Entry) /\ Len(headers) <= MaxHeaders + 1
  /\ status \in Statuses
  /\ body \in Nat
  /\ out \in [alloc : Nat, size : Nat, left : Nat]

Names == {headers[i].key.name : i \in DOMAIN headers}
Keys == {headers[i].key : i \in DOMAIN headers}

\* Each header field is sent once, whichever way its name was given
\* (test/test.cpp, responseBuilder, mixes the ways).
FieldOnce == Cardinality(Names) = Len(headers)

\* What a std::map asks of its order: a strict weak ordering of its keys.  The
\* enumerators' order is not that of their texts (Content-Type comes before
\* Content-Length), so HeaderName's is one or not as the keys are.
StrictWeak(S) == \A k, l, m \in S : Less(k, m) => Less(k, l) \/ Less(l, m)

Sorted == \A i, j \in DOMAIN headers : i < j => Less(headers[i].key, headers[j].key)

\* As long as HeaderName's operator< orders what the map holds, enumerators,
\* strings or both, a field is in it once, and sent in that order.
OnceWhileOrdered == StrictWeak(Keys) => FieldOnce /\ Sorted

\* What was given as the value of a header stays, unless operator[] is used to
\* change it: setBody and toBytes leave a type or a length that a handler gave as
\* it is, and so does every other header of that name.
Given(h) == {<<h[i].key, h[i].length>> : i \in {j \in DOMAIN h : h[j].length # 0}}

GivenValuesStay ==
  [][ \/ \E k \in HeaderName, n \in ValueLengths : assign(k, n)
      \/ written
      \/ Given(headers) \subseteq Given(headers') ]_responseVars

\* While the map's keys are ordered, as those of a response with a body are
\* unless strings come between them, a body's own type is never used: setBody
\* has put text/plain where there was none before the body's getContentType()
\* is offered.
OwnTypeIgnored ==
  [][ \A n \in BodySizes :
        setTypedBody(n) /\ StrictWeak(Keys)' => headers' = Declared(headers, n) ]_responseVars

\* The response is never longer than what is allocated for it, and toBytes'
\* assert(end - p > _bodySize) holds.
FitsAllocation == ~Building => out.size <= out.alloc /\ out.left > body

=============================================================================
