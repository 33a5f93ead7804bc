----------------------------- MODULE KeepAliveProofs -----------------------------
(***************************************************************************)
(* Proofs about HttpParser, for every number of requests, of names and of  *)
(* bytes: what `current' and `_buf' hold while a request arrives, and so   *)
(* what its handler is given; and, behind them, about KeepAlive: a RawWhs  *)
(* is such a parser, and what it answers.                                  *)
(***************************************************************************)
EXTENDS KeepAlive, TLAPS

InFlight == phase \in {"urlTail", "fields", "fieldTail", "value", "valueTail", "body"}

-------------------------------------------------------------------------------
(* What the callbacks write, one field at a time.                            *)

LEMMA NewTypes ==
  /\ NewRequest \in Request /\ NewSent(0) \in Sent
  /\ \A n \in 0..MaxRequests : NewSent(n) \in Sent
  /\ \A n : /\ NewSent(n).id = n /\ NewSent(n).split = FALSE /\ NewSent(n).marked = FALSE
            /\ NewSent(n).trailing = FALSE
            /\ NewSent(n).queries = {} /\ NewSent(n).headers = {}
            /\ NewSent(n).params = {} /\ NewSent(n).body = 0
<1>1. 0 \in 0..MaxRequests /\ 0 \in 0..MaxBody
  BY ParserAssumption
<1>2. <<>> \in Seq(0..MaxRequests)
  OBVIOUS
<1>3. NewRequest \in Request
  BY <1>1, <1>2 DEF NewRequest, Request
<1>4. \A n \in 0..MaxRequests : NewSent(n) \in Sent
  BY <1>1 DEF NewSent, Sent
<1> QED
  BY <1>1, <1>3, <1>4 DEF NewSent

LEMMA EmplaceAllFacts ==
  ASSUME NEW map \in [Names -> 0..MaxRequests], NEW keys \in SUBSET Names,
         NEW n \in 0..MaxRequests
  PROVE  /\ EmplaceAll(map, keys, n) \in [Names -> 0..MaxRequests]
         /\ (\A k \in Names : map[k] = 0) =>
              EmplaceAll(map, keys, n) = [k \in Names |-> IF k \in keys THEN n ELSE 0]
BY DEF EmplaceAll

LEMMA EmplaceHeaderFacts ==
  ASSUME NEW hs \in [Field -> Text \cup {NoText}], NEW f \in Field, NEW t \in Text
  PROVE  LET e == EmplaceHeader(hs, f, t)
         IN  /\ e \in [Field -> Text \cup {NoText}]
             /\ \A g \in Field : g # f => e[g] = hs[g]
             /\ e[f] = IF hs[f] = NoText THEN t ELSE hs[f]
BY DEF EmplaceHeader

\* A text that is there has the number of its request.
LEMMA TextFacts ==
  /\ \A t \in Text : t[1] \in Ids /\ t # NoText /\ t = <<t[1], t[2]>>
  /\ NoText[1] = 0 /\ 0 \notin Ids
  /\ \A t \in Text \cup {NoText} : t[1] = 0 <=> t = NoText
  /\ \A n \in Ids, p \in Parts : <<n, p>> \in Text /\ <<n, p>>[1] = n
BY ParserAssumption DEF Text, NoText, Ids

LEMMA URLStep ==
  ASSUME TypeOK, NEW part \in Parts, NEW q \in SUBSET Names, NEW marks \in BOOLEAN,
         NEW parses \in BOOLEAN, onURL(part, q, marks, parses), InFlight => sent.id \in Ids
  PROVE  LET n == sent'.id
         IN  /\ n \in Ids
             /\ phase \in {"ready", "urlTail"} /\ phase' \in {"failed", "urlTail", "fields"}
             /\ sent' \in Sent /\ current' \in Request
             /\ sent'.headers = (IF phase = "ready" THEN {} ELSE sent.headers)
             /\ sent'.body = (IF phase = "ready" THEN 0 ELSE sent.body)
             /\ phase = "ready" => ~sent'.trailing
             /\ phase = "urlTail" => n = sent.id /\ sent'.trailing = sent.trailing
             /\ phase' = "fields" => part # "head"
             /\ current'.url = <<n, part>>
             /\ current'.headers = current.headers /\ current'.params = current.params
             /\ current'.body = current.body /\ current'.data = current.data
             /\ current'.method = current.method
             /\ phase' = "urlTail" => sent'.split
             /\ phase = "urlTail" => sent'.split
             /\ ~sent'.split /\ phase' # "failed" =>
                  /\ phase = "ready" /\ part = "all"
                  /\ current'.queries = EmplaceAll(current.queries, sent'.queries, n)
<1> DEFINE n == IF part = "tail" THEN sent.id ELSE sent.id + 1
           s == IF part = "tail" THEN sent ELSE NewSent(n)
           keys == Parsed(q, marks, parses)
<1>1. sent \in Sent /\ sent.id \in 0..MaxRequests /\ sent.queries \in SUBSET Names
      /\ sent.headers \in SUBSET Field /\ sent.params \in SUBSET Names
      /\ sent.split \in BOOLEAN /\ sent.marked \in BOOLEAN /\ sent.trailing \in BOOLEAN
      /\ sent.body \in 0..MaxBody
  BY DEF TypeOK, Sent
<1>2. n \in Ids /\ n \in 0..MaxRequests
  BY ParserAssumption DEF onURL, InFlight, Ids
<1>3. s \in Sent /\ s.id = n
  BY <1>1, <1>2, NewTypes
<1>4. keys \in SUBSET Names
  BY DEF Parsed
<1>5. current.queries \in [Names -> 0..MaxRequests]
  BY DEF TypeOK, Request
<1>6. EmplaceAll(current.queries, keys, n) \in [Names -> 0..MaxRequests]
  BY <1>2, <1>4, <1>5, EmplaceAllFacts
<1>7. /\ \/ phase = "ready" /\ part # "tail"
         \/ phase = "urlTail" /\ part = "tail"
      /\ q # {} => marks \/ s.marked
      /\ parses = FALSE => marks
      /\ sent' = [s EXCEPT !.split = @ \/ part # "all", !.marked = (part = "head" /\ marks),
                           !.queries = @ \cup q]
      /\ current' = [current EXCEPT !.url = BaseURL(<<n, part>>),
                                    !.queries = EmplaceAll(@, keys, n)]
      /\ phase' = IF ~parses THEN "failed" ELSE IF part = "head" THEN "urlTail" ELSE "fields"
  BY DEF onURL
<1> HIDE DEF n, s, keys
<1>8. sent' = [ id |-> s.id, split |-> s.split \/ part # "all",
                marked |-> (part = "head" /\ marks), trailing |-> s.trailing,
                queries |-> s.queries \cup q, headers |-> s.headers, params |-> s.params, body |-> s.body ]
  <2>1. s = [ id |-> s.id, split |-> s.split, marked |-> s.marked,
              trailing |-> s.trailing, queries |-> s.queries,
              headers |-> s.headers, params |-> s.params, body |-> s.body ]
    BY <1>3 DEF Sent
  <2> DEFINE split == s.split \/ part # "all"
             marked == (part = "head" /\ marks)
  <2>2. sent' = [s EXCEPT !.split = split, !.marked = marked, !.queries = @ \cup q]
    BY <1>7
  <2> HIDE DEF split, marked
  <2>3. sent' = [ id |-> s.id, split |-> split, marked |-> marked,
                  trailing |-> s.trailing, queries |-> s.queries \cup q,
                  headers |-> s.headers, params |-> s.params, body |-> s.body ]
    BY ONLY <2>1, <2>2
  <2> QED
    BY <2>3 DEF split, marked
<1>9. current' = [ url |-> <<n, part>>, method |-> current.method,
                   queries |-> EmplaceAll(current.queries, keys, n),
                   params |-> current.params, headers |-> current.headers,
                   body |-> current.body, data |-> current.data ]
  BY <1>7 DEF TypeOK, Request, BaseURL
<1>10. sent' \in Sent
  BY <1>3, <1>8 DEF Sent
<1>11. <<n, part>> \in Text
  BY <1>2 DEF Text
<1>12. current' \in Request
  BY <1>6, <1>9, <1>11 DEF TypeOK, Request
<1>13. phase = "ready" => s = NewSent(n)
  BY <1>7 DEF s
<1>14. phase = "urlTail" => s = sent
  BY <1>7 DEF s
<1>15. /\ sent'.headers = (IF phase = "ready" THEN {} ELSE sent.headers)
       /\ sent'.body = (IF phase = "ready" THEN 0 ELSE sent.body)
       /\ phase = "ready" => ~sent'.trailing
       /\ phase = "urlTail" => sent'.trailing = sent.trailing
  BY <1>7, <1>8, <1>13, <1>14, NewTypes
<1>16. sent'.split <=> s.split \/ part # "all"
  BY <1>8
<1>17. ASSUME ~sent'.split, phase' # "failed"
       PROVE  /\ phase = "ready" /\ part = "all"
              /\ current'.queries = EmplaceAll(current.queries, sent'.queries, n)
  <2>1. part = "all" /\ phase = "ready" /\ parses
    BY <1>7, <1>16, <1>17
  <2>2. s.marked = FALSE /\ s.queries = {}
    BY <1>13, <2>1, NewTypes
  <2>3. keys = q
    BY <1>7, <2>1, <2>2 DEF keys, Parsed
  <2> QED
    BY <1>8, <1>9, <2>1, <2>2, <2>3
<1>18. sent'.id = n
  BY <1>3, <1>8
<1>19. phase = "urlTail" => n = sent.id
  BY <1>7 DEF n
<1>20. phase' = "urlTail" \/ phase = "urlTail" => sent'.split
  BY <1>7, <1>16
<1>21. /\ current'.url = <<n, part>>
       /\ current'.headers = current.headers /\ current'.params = current.params
       /\ current'.body = current.body /\ current'.data = current.data
       /\ current'.method = current.method
  BY <1>9
<1>22. /\ phase \in {"ready", "urlTail"} /\ phase' \in {"failed", "urlTail", "fields"}
       /\ phase' = "fields" => part # "head"
  BY <1>7
<1> QED
  BY ONLY <1>2, <1>10, <1>12, <1>15, <1>17, <1>18, <1>19, <1>20, <1>21, <1>22

LEMMA HeaderFieldStep ==
  ASSUME TypeOK, NEW f \in Field, NEW part \in Parts, onHeaderField(f, part)
  PROVE  /\ phase \in {"fields", "fieldTail"} /\ phase' \in {"fieldTail", "value"}
         /\ currentHeaderField' = f /\ currentHeaderField' \in Field
         /\ sent'.trailing = sent.trailing
         /\ sent' \in Sent /\ sent'.id = sent.id /\ sent'.body = sent.body
         /\ sent'.queries = sent.queries /\ (sent.split => sent'.split)
         /\ phase' = "fieldTail" => sent'.split /\ sent'.headers = sent.headers
         /\ phase' = "value" =>
              /\ sent'.headers = sent.headers \cup {currentHeaderField'}
              /\ sent'.split = sent.split
         /\ phase = "fields" /\ phase' = "value" => part = "all"
         /\ UNCHANGED <<current, buf, bodyLength, answered, own, saw, interrupted>>
<1>1. sent \in Sent
  BY DEF TypeOK
<1>2. CASE part = "head"
  <2>1. sent' = [ id |-> sent.id, split |-> TRUE, marked |-> sent.marked,
                  trailing |-> sent.trailing, queries |-> sent.queries, headers |-> sent.headers,
                  params |-> sent.params, body |-> sent.body ]
    BY <1>1, <1>2 DEF onHeaderField, Sent
  <2>2. sent' \in Sent
    BY <1>1, <2>1 DEF Sent
  <2> QED
    BY <1>1, <1>2, <2>1, <2>2 DEF onHeaderField
<1>3. CASE part # "head"
  <2>1. sent' = [ id |-> sent.id, split |-> sent.split, marked |-> sent.marked,
                  trailing |-> sent.trailing,
                  queries |-> sent.queries, headers |-> sent.headers \cup {f},
                  params |-> sent.params, body |-> sent.body ]
    BY <1>1, <1>3 DEF onHeaderField, Sent
  <2>2. sent' \in Sent
    BY <1>1, <2>1 DEF Sent
  <2>3. part \in {"all", "tail"}
    BY <1>3 DEF Parts
  <2> QED
    BY <1>1, <1>3, <2>1, <2>2, <2>3 DEF onHeaderField
<1> QED
  BY <1>2, <1>3

LEMMA HeaderValueStep ==
  ASSUME TypeOK, NEW part \in Parts, onHeaderValue(part),
         sent.id \in Ids, currentHeaderField \in Field
  PROVE  LET f == currentHeaderField
         IN  /\ phase \in {"value", "valueTail"} /\ phase' \in {"valueTail", "fields"}
             /\ sent' \in Sent /\ sent'.id = sent.id /\ sent'.body = sent.body
             /\ sent'.queries = sent.queries /\ sent'.headers = sent.headers
             /\ sent'.trailing = sent.trailing
             /\ phase' = "valueTail" => part = "head"
             /\ part = "tail" => phase = "valueTail"
             /\ sent.split => sent'.split
             /\ ~sent'.split => part = "all"
             /\ current' \in Request
             /\ current'.headers = EmplaceHeader(current.headers, f, <<sent.id, part>>)
             /\ current'.url = current.url /\ current'.method = current.method
             /\ current'.queries = current.queries /\ current'.params = current.params
             /\ current'.body = current.body /\ current'.data = current.data
             /\ UNCHANGED <<currentHeaderField, buf, bodyLength, answered, own, saw, interrupted>>
<1> DEFINE hs == EmplaceHeader(current.headers, currentHeaderField, <<sent.id, part>>)
           split == sent.split \/ part # "all"
<1>1. sent \in Sent /\ current \in Request
      /\ current.headers \in [Field -> Text \cup {NoText}] /\ <<sent.id, part>> \in Text
  BY DEF TypeOK, Request, Text
<1>2. hs \in [Field -> Text \cup {NoText}]
  BY <1>1, EmplaceHeaderFacts
<1>3. split \in BOOLEAN
  OBVIOUS
<1>4. /\ current' = [current EXCEPT !.headers = hs] /\ sent' = [sent EXCEPT !.split = split]
      /\ phase \in {"value", "valueTail"} /\ phase' \in {"valueTail", "fields"}
      /\ phase' = "valueTail" => part = "head"
      /\ part = "tail" => phase = "valueTail"
      /\ UNCHANGED <<currentHeaderField, buf, bodyLength, answered, own, saw, interrupted>>
  BY DEF onHeaderValue
<1>5. (sent.split => split) /\ (~split => part = "all")
  OBVIOUS
<1> HIDE DEF hs, split
<1>6. sent' \in Sent /\ sent'.split = split /\ sent'.id = sent.id /\ sent'.body = sent.body
      /\ sent'.queries = sent.queries /\ sent'.headers = sent.headers
      /\ sent'.trailing = sent.trailing
  BY ONLY <1>1, <1>3, <1>4 DEF Sent
<1>7. /\ current' \in Request /\ current'.headers = hs
      /\ current'.url = current.url /\ current'.method = current.method
      /\ current'.queries = current.queries /\ current'.params = current.params
      /\ current'.body = current.body /\ current'.data = current.data
  BY ONLY <1>1, <1>2, <1>4 DEF Request
<1> QED
  BY <1>4, <1>5, <1>6, <1>7 DEF hs

LEMMA HeaderCompleteStep ==
  ASSUME TypeOK, onHeaderCompelete
  PROVE  /\ phase = "fields" /\ phase' = "body"
         /\ current' \in Request /\ current'.method = sent.id
         /\ current'.headers = current.headers
         /\ current'.url = current.url
         /\ current'.queries = current.queries /\ current'.params = current.params
         /\ current'.body = current.body /\ current'.data = current.data
         /\ UNCHANGED <<sent, currentHeaderField, buf, bodyLength, answered, own, saw, interrupted>>
<1>1. current \in Request /\ sent.id \in 0..MaxRequests
  BY DEF TypeOK, Sent
<1>2. current' = [current EXCEPT !.method = sent.id]
  BY DEF onHeaderCompelete
<1>3. /\ current' \in Request /\ current'.method = sent.id
      /\ current'.headers = current.headers /\ current'.url = current.url
      /\ current'.queries = current.queries /\ current'.params = current.params
      /\ current'.body = current.body /\ current'.data = current.data
  BY ONLY <1>1, <1>2 DEF Request
<1> QED
  BY <1>3 DEF onHeaderCompelete

LEMMA BodyStep ==
  ASSUME TypeOK, NEW l \in 1..MaxBody, onBody(l), sent.id \in Ids, bodyLength = sent.body
  PROVE  /\ phase = "body" /\ phase' = "body"
         /\ sent' \in Sent /\ sent'.id = sent.id /\ sent'.split = sent.split
         /\ sent'.trailing = sent.trailing
         /\ sent'.queries = sent.queries /\ sent'.headers = sent.headers
         /\ bodyLength' = sent'.body /\ bodyLength' = bodyLength + l
         /\ bodyLength' \in 0..MaxBody
         /\ buf' \in Seq(Ids) /\ Len(buf') = Len(buf) + l
         /\ (\A b \in 1..Len(buf) : buf[b] = sent.id) =>
               \A b \in 1..Len(buf') : buf'[b] = sent.id
         /\ UNCHANGED <<current, currentHeaderField, answered, own, saw, interrupted>>
<1> DEFINE chunk == [b \in 1..l |-> sent.id]
<1>1. sent \in Sent /\ buf \in Seq(Ids) /\ l \in Nat /\ sent.body \in Nat /\ MaxBody \in Nat
  BY ParserAssumption DEF TypeOK, Sent
<1>2. chunk \in Seq(Ids) /\ Len(chunk) = l /\ \A b \in 1..l : chunk[b] = sent.id
  BY <1>1
<1>3. /\ buf' = buf \o chunk /\ bodyLength' = bodyLength + l
      /\ sent' = [sent EXCEPT !.body = sent.body + l] /\ sent.body + l <= MaxBody
  BY DEF onBody
<1> HIDE DEF chunk
<1>4. sent.body + l \in 0..MaxBody
  BY <1>1, <1>3
<1>5. /\ sent' \in Sent /\ sent'.body = sent.body + l
      /\ sent'.id = sent.id /\ sent'.split = sent.split
      /\ sent'.queries = sent.queries /\ sent'.headers = sent.headers
      /\ sent'.trailing = sent.trailing
  BY ONLY <1>1, <1>3, <1>4 DEF Sent
<1>6. /\ buf' \in Seq(Ids) /\ Len(buf') = Len(buf) + l
      /\ \A b \in 1..Len(buf') : buf'[b] = IF b <= Len(buf) THEN buf[b] ELSE chunk[b - Len(buf)]
  BY <1>1, <1>2, <1>3
<1>7. ASSUME \A b \in 1..Len(buf) : buf[b] = sent.id, NEW b \in 1..Len(buf')
      PROVE  buf'[b] = sent.id
  BY <1>1, <1>2, <1>6, <1>7
<1> QED
  BY <1>3, <1>4, <1>5, <1>6, <1>7 DEF onBody

LEMMA LastChunkStep ==
  ASSUME TypeOK, lastChunk
  PROVE  /\ phase = "body" /\ phase' = "fields"
         /\ sent' \in Sent /\ sent'.id = sent.id /\ sent'.split = sent.split
         /\ sent'.queries = sent.queries /\ sent'.headers = sent.headers
         /\ sent'.body = sent.body
         /\ UNCHANGED <<current, currentHeaderField, buf, bodyLength, answered, own, saw,
                        interrupted>>
<1>1. sent \in Sent
  BY DEF TypeOK
<1>2. sent' = [sent EXCEPT !.trailing = TRUE]
  BY DEF lastChunk
<1>3. /\ sent' \in Sent /\ sent'.id = sent.id /\ sent'.split = sent.split
      /\ sent'.queries = sent.queries /\ sent'.headers = sent.headers
      /\ sent'.body = sent.body
  BY ONLY <1>1, <1>2 DEF Sent
<1> QED
  BY <1>3 DEF lastChunk

LEMMA ReadFacts ==
  ASSUME TypeOK, NEW n \in Nat
  PROVE  /\ Read(n) \in Seq(0..MaxRequests) /\ Len(Read(n)) = n
         /\ n <= Len(buf) => \A b \in 1..n : Read(n)[b] = buf[b]
<1>1. buf \in Seq(Ids) /\ Ids \subseteq 0..MaxRequests /\ 0 \in 0..MaxRequests
  BY ParserAssumption DEF TypeOK, Ids
<1>2. ASSUME NEW b \in 1..n PROVE (IF b <= Len(buf) THEN buf[b] ELSE 0) \in 0..MaxRequests
  <2>1. b <= Len(buf) => b \in 1..Len(buf)
    BY <1>1
  <2>2. b <= Len(buf) => buf[b] \in Ids
    BY <1>1, <2>1
  <2> QED
    BY <1>1, <2>2
<1> QED
  BY <1>1, <1>2 DEF Read

LEMMA MessageStep ==
  ASSUME TypeOK, NEW params \in SUBSET Names, onMessageComplete(params),
         sent.id \in Ids, bodyLength = sent.body
  PROVE  /\ phase = "body" \/ (phase = "fields" /\ sent.trailing)
         /\ phase' = "ready"
         /\ bodyLength' = 0 /\ buf' \in Seq(Ids)
         /\ Len(buf) = bodyLength => Len(buf') = 0
         /\ current' \in Request /\ saw' = current'
         /\ current'.body = Body
         /\ current'.params = EmplaceAll(current.params, params, sent.id)
         /\ current'.data = (IF current.data = 0 THEN sent.id ELSE current.data)
         /\ current'.headers = current.headers /\ current'.url = current.url
         /\ current'.method = current.method /\ current'.queries = current.queries
         /\ sent' \in Sent /\ own' = sent'
         /\ sent'.id = sent.id /\ sent'.split = sent.split /\ sent'.queries = sent.queries
         /\ sent'.headers = sent.headers /\ sent'.params = params /\ sent'.body = sent.body
         /\ answered' = Append(answered, [id |-> sent.id, headers |-> sent.headers])
         /\ UNCHANGED <<currentHeaderField, interrupted>>
<1> DEFINE ps == EmplaceAll(current.params, params, sent.id)
           d == put_processing_data(current.data, sent.id)
           b == Body
<1>1. /\ sent \in Sent /\ current \in Request /\ buf \in Seq(Ids) /\ bodyLength \in Nat
      /\ sent.id \in 0..MaxRequests /\ current.params \in [Names -> 0..MaxRequests]
      /\ current.data \in 0..MaxRequests /\ current.body \in Seq(0..MaxRequests)
  BY SMTT(60) DEF TypeOK, Sent, Request
<1>2. ps \in [Names -> 0..MaxRequests]
  BY <1>1, EmplaceAllFacts
<1>3. d \in 0..MaxRequests /\ d = (IF current.data = 0 THEN sent.id ELSE current.data)
  BY <1>1 DEF put_processing_data
<1>4. b \in Seq(0..MaxRequests)
  BY <1>1, ReadFacts DEF Body
<1>5. /\ current' = [current EXCEPT !.body = b, !.params = ps, !.data = d]
      /\ saw' = current'
      /\ sent' = [sent EXCEPT !.params = params, !.trailing = FALSE] /\ own' = sent'
      /\ phase = "body" \/ (phase = "fields" /\ sent.trailing)
      /\ phase' = "ready" /\ bodyLength' = 0 /\ buf' = Rest
      /\ answered' = Append(answered, [id |-> sent.id, headers |-> sent.headers])
      /\ UNCHANGED <<currentHeaderField, interrupted>>
  BY DEF onMessageComplete, addParams
<1> HIDE DEF ps, d, b
<1>6. current' = [ url |-> current.url, method |-> current.method, queries |-> current.queries,
                   params |-> ps, headers |-> current.headers, body |-> b, data |-> d ]
  BY ONLY <1>1, <1>5 DEF Request
<1>7. current' \in Request
  BY ONLY <1>1, <1>2, <1>3, <1>4, <1>6 DEF Request
<1>8. /\ sent' \in Sent /\ sent'.params = params /\ sent'.id = sent.id
      /\ sent'.split = sent.split /\ sent'.queries = sent.queries
      /\ sent'.headers = sent.headers /\ sent'.body = sent.body
  BY ONLY <1>1, <1>5, params \in SUBSET Names DEF Sent
<1>9. buf' \in Seq(Ids) /\ (Len(buf) = bodyLength => Len(buf') = 0)
  BY <1>1, <1>5, SMTT(60) DEF Rest
<1>10. /\ current'.body = Body /\ current'.params = EmplaceAll(current.params, params, sent.id)
       /\ current'.data = (IF current.data = 0 THEN sent.id ELSE current.data)
       /\ current'.headers = current.headers /\ current'.url = current.url
       /\ current'.method = current.method /\ current'.queries = current.queries
  BY <1>3, <1>6 DEF b, ps
<1> QED
  BY ONLY <1>5, <1>7, <1>8, <1>9, <1>10

LEMMA ResetStep ==
  ASSUME TypeOK, reset
  PROVE  /\ phase' = "ready" /\ current' = NewRequest /\ saw' = NewRequest
         /\ bodyLength' = 0 /\ buf' = buf /\ answered' = <<>>
         /\ own' = NewSent(0) /\ sent' = NewSent(sent.id) /\ sent' \in Sent
         /\ interrupted' \in BOOLEAN /\ (~interrupted' => ~interrupted /\ bodyLength = 0)
         /\ currentHeaderField' = currentHeaderField
<1>1. sent.id \in 0..MaxRequests /\ bodyLength \in Nat
  BY DEF TypeOK, Sent
<1>2. sent' = NewSent(sent.id) /\ sent' \in Sent
  BY <1>1, NewTypes DEF reset
<1>3. interrupted' = (interrupted \/ bodyLength > 0)
  BY DEF reset
<1>4. ~(bodyLength > 0) => bodyLength = 0
  BY <1>1
<1>5. interrupted' \in BOOLEAN /\ (~interrupted' => ~interrupted /\ bodyLength = 0)
  BY ONLY <1>3, <1>4
<1> QED
  BY <1>2, <1>5 DEF reset, CurrentSwapped

-------------------------------------------------------------------------------
(***************************************************************************)
(* Types.  They rest on the length counted being that of the body sent     *)
(* (setBody reads so many bytes), and on a request in flight having a      *)
(* number; a name is held when its value arrives.                          *)
(***************************************************************************)
Arriving ==
  /\ InFlight => sent.id \in Ids /\ bodyLength = sent.body
  /\ phase = "ready" => bodyLength = 0
  /\ phase \in {"value", "valueTail"} => currentHeaderField \in sent.headers

LEMMA ArrivingInductive == TypeOK /\ Arriving /\ [Next]_vars => TypeOK' /\ Arriving'
<1> SUFFICES ASSUME TypeOK, Arriving, [Next]_vars PROVE TypeOK' /\ Arriving'
  OBVIOUS
<1>1. ASSUME NEW part \in Parts, NEW q \in SUBSET Names, NEW marks \in BOOLEAN,
             NEW parses \in BOOLEAN, onURL(part, q, marks, parses)
      PROVE  TypeOK' /\ Arriving'
  <2>1. InFlight => sent.id \in Ids
    BY DEF Arriving
  <2>2. /\ sent'.id \in Ids
        /\ phase \in {"ready", "urlTail"} /\ phase' \in {"failed", "urlTail", "fields"}
        /\ sent' \in Sent /\ current' \in Request
        /\ sent'.body = (IF phase = "ready" THEN 0 ELSE sent.body)
    BY <1>1, <2>1, URLStep
  <2>3. UNCHANGED <<currentHeaderField, buf, bodyLength, answered, own, saw, interrupted>>
    BY <1>1 DEF onURL
  <2>4. bodyLength = sent'.body
    BY <2>2 DEF Arriving, InFlight
  <2> QED
    BY <2>2, <2>3, <2>4 DEF TypeOK, Arriving, InFlight, Phases
<1>2. ASSUME NEW f \in Field, NEW part \in Parts, onHeaderField(f, part)
      PROVE  TypeOK' /\ Arriving'
  <2>1. /\ phase \in {"fields", "fieldTail"} /\ phase' \in {"fieldTail", "value"}
        /\ currentHeaderField' \in Field
        /\ sent' \in Sent /\ sent'.id = sent.id /\ sent'.body = sent.body
        /\ phase' = "value" => sent'.headers = sent.headers \cup {currentHeaderField'}
        /\ UNCHANGED <<current, buf, bodyLength, answered, own, saw, interrupted>>
    BY <1>2, HeaderFieldStep
  <2> QED
    BY <2>1 DEF TypeOK, Arriving, InFlight, Phases
<1>3. ASSUME NEW part \in Parts, onHeaderValue(part)
      PROVE  TypeOK' /\ Arriving'
  <2>1. sent.id \in Ids /\ currentHeaderField \in Field
    BY <1>3 DEF TypeOK, Sent, onHeaderValue, Arriving, InFlight
  <2>2. /\ phase \in {"value", "valueTail"} /\ phase' \in {"valueTail", "fields"}
        /\ sent' \in Sent /\ sent'.id = sent.id /\ sent'.body = sent.body
        /\ sent'.headers = sent.headers /\ current' \in Request
        /\ UNCHANGED <<currentHeaderField, buf, bodyLength, answered, own, saw, interrupted>>
    BY <1>3, <2>1, HeaderValueStep
  <2> QED
    BY <2>2 DEF TypeOK, Arriving, InFlight, Phases
<1>4. CASE onHeaderCompelete
  <2>1. /\ phase = "fields" /\ phase' = "body" /\ current' \in Request
        /\ UNCHANGED <<sent, currentHeaderField, buf, bodyLength, answered, own, saw, interrupted>>
    BY <1>4, HeaderCompleteStep
  <2> QED
    BY <2>1 DEF TypeOK, Arriving, InFlight, Phases
<1>5. ASSUME NEW l \in 1..MaxBody, onBody(l)
      PROVE  TypeOK' /\ Arriving'
  <2>1. sent.id \in Ids /\ bodyLength = sent.body
    BY <1>5 DEF onBody, Arriving, InFlight
  <2>2. /\ phase = "body" /\ phase' = "body" /\ sent' \in Sent /\ sent'.id = sent.id
        /\ bodyLength' = sent'.body /\ bodyLength' \in 0..MaxBody /\ buf' \in Seq(Ids)
        /\ UNCHANGED <<current, currentHeaderField, answered, own, saw, interrupted>>
    BY <1>5, <2>1, BodyStep
  <2> QED
    BY <2>1, <2>2 DEF TypeOK, Arriving, InFlight, Phases
<1>6. ASSUME NEW params \in SUBSET Names, onMessageComplete(params)
      PROVE  TypeOK' /\ Arriving'
  <2>1. sent.id \in Ids /\ bodyLength = sent.body
    BY <1>6 DEF onMessageComplete, Arriving, InFlight
  <2>2. /\ phase' = "ready" /\ bodyLength' = 0 /\ buf' \in Seq(Ids)
        /\ current' \in Request /\ saw' = current' /\ sent' \in Sent /\ own' = sent'
        /\ answered' = Append(answered, [id |-> sent.id, headers |-> sent.headers])
        /\ UNCHANGED <<currentHeaderField, interrupted>>
    BY <1>6, <2>1, MessageStep
  <2>3. [id |-> sent.id, headers |-> sent.headers] \in [id : Ids, headers : SUBSET Field]
    BY <2>1 DEF TypeOK, Sent
  <2>4. answered' \in Seq([id : Ids, headers : SUBSET Field])
    BY <2>2, <2>3 DEF TypeOK
  <2>5. bodyLength' \in 0..MaxBody
    BY <2>2, ParserAssumption
  <2> QED
    BY <2>2, <2>4, <2>5 DEF TypeOK, Arriving, InFlight, Phases
<1>7. CASE Refuse
  BY <1>7 DEF Refuse, TypeOK, Arriving, InFlight, Phases
<1>8. CASE reset
  <2>1. answered' \in Seq([id : Ids, headers : SUBSET Field]) /\ bodyLength' \in 0..MaxBody
    BY <1>8, ResetStep, ParserAssumption
  <2> QED
    BY <1>8, <2>1, ResetStep, NewTypes DEF TypeOK, Arriving, InFlight, Phases
<1>9. CASE UNCHANGED vars
  BY <1>9 DEF vars, TypeOK, Arriving, InFlight
<1>10. CASE lastChunk
  <2>1. /\ phase = "body" /\ phase' = "fields" /\ sent' \in Sent /\ sent'.id = sent.id
        /\ sent'.split = sent.split /\ sent'.queries = sent.queries
        /\ sent'.headers = sent.headers /\ sent'.body = sent.body
        /\ UNCHANGED <<current, currentHeaderField, buf, bodyLength, answered, own, saw,
                       interrupted>>
    BY <1>10, LastChunkStep
  <2> QED
    BY <2>1 DEF TypeOK, Arriving, InFlight, Phases
<1> QED
  BY <1>1, <1>2, <1>3, <1>4, <1>5, <1>6, <1>7, <1>8, <1>9, <1>10 DEF Next, URLArrives

LEMMA Arrival == Spec => [](TypeOK /\ Arriving)
<1>1. Init => TypeOK /\ Arriving
  <2> SUFFICES ASSUME Init PROVE TypeOK /\ Arriving
    OBVIOUS
  <2>1. /\ NewRequest \in Request /\ NewSent(0) \in Sent /\ 0 \in 0..MaxBody
        /\ <<>> \in Seq(Ids) /\ <<>> \in Seq([id : Ids, headers : SUBSET Field])
    BY NewTypes, ParserAssumption
  <2> QED
    BY <2>1 DEF Init, TypeOK, Arriving, InFlight, Phases, Field
<1> QED
  BY <1>1, ArrivingInductive, PTL DEF Spec

\* What a request arrives as is a request, however it is cut and interrupted.
THEOREM TypeCorrect == Spec => []TypeOK
BY Arrival, PTL

-------------------------------------------------------------------------------
(***************************************************************************)
(* The path and the method.  Only a URL that came in two parts leaves a    *)
(* path that is not the request's own, and then `split' is set.            *)
(***************************************************************************)
OwnLine ==
  /\ phase = "urlTail" => sent.split
  /\ InFlight /\ ~sent.split => current.url = <<sent.id, "all">>
  /\ phase = "body" \/ (InFlight /\ sent.trailing) => current.method = sent.id

LEMMA OwnLineInductive ==
  TypeOK /\ Arriving /\ OwnLine /\ RoutedByOwnURL /\ [Next]_vars
    => OwnLine' /\ RoutedByOwnURL'
<1> SUFFICES ASSUME TypeOK, Arriving, OwnLine, RoutedByOwnURL, [Next]_vars
             PROVE  OwnLine' /\ RoutedByOwnURL'
  OBVIOUS
<1>1. ASSUME NEW part \in Parts, NEW q \in SUBSET Names, NEW marks \in BOOLEAN,
             NEW parses \in BOOLEAN, onURL(part, q, marks, parses)
      PROVE  OwnLine' /\ RoutedByOwnURL'
  <2>1. InFlight => sent.id \in Ids
    BY DEF Arriving
  <2>2. /\ phase' \in {"failed", "urlTail", "fields"}
        /\ current'.url = <<sent'.id, part>> /\ current'.method = current.method
        /\ phase = "ready" => ~sent'.trailing
        /\ phase = "urlTail" => sent'.id = sent.id /\ sent'.trailing = sent.trailing
        /\ phase \in {"ready", "urlTail"}
        /\ phase' = "urlTail" => sent'.split
        /\ ~sent'.split /\ phase' # "failed" => part = "all"
    BY <1>1, <2>1, URLStep
  <2>3. UNCHANGED <<answered, own, saw>>
    BY <1>1 DEF onURL
  <2> QED
    BY <2>2, <2>3 DEF OwnLine, RoutedByOwnURL, Handled, InFlight
<1>2. ASSUME NEW f \in Field, NEW part \in Parts, onHeaderField(f, part)
      PROVE  OwnLine' /\ RoutedByOwnURL'
  <2>1. /\ phase \in {"fields", "fieldTail"} /\ phase' \in {"fieldTail", "value"}
        /\ sent'.id = sent.id /\ (sent.split => sent'.split)
        /\ sent'.trailing = sent.trailing /\ UNCHANGED <<current, answered, own, saw>>
    BY <1>2, HeaderFieldStep
  <2> QED
    BY <2>1 DEF OwnLine, RoutedByOwnURL, Handled, InFlight
<1>3. ASSUME NEW part \in Parts, onHeaderValue(part)
      PROVE  OwnLine' /\ RoutedByOwnURL'
  <2>1. sent.id \in Ids /\ currentHeaderField \in Field
    BY <1>3 DEF TypeOK, Sent, onHeaderValue, Arriving, InFlight
  <2>2. /\ phase \in {"value", "valueTail"} /\ phase' \in {"valueTail", "fields"}
        /\ sent'.id = sent.id /\ (sent.split => sent'.split)
        /\ sent'.trailing = sent.trailing
        /\ current'.url = current.url /\ current'.method = current.method
        /\ UNCHANGED <<answered, own, saw>>
    BY <1>3, <2>1, HeaderValueStep
  <2> QED
    BY <2>2 DEF OwnLine, RoutedByOwnURL, Handled, InFlight
<1>4. CASE onHeaderCompelete
  <2>1. /\ phase = "fields" /\ phase' = "body" /\ current'.method = sent.id
        /\ current'.url = current.url /\ UNCHANGED <<sent, answered, own, saw>>
    BY <1>4, HeaderCompleteStep
  <2> QED
    BY <2>1 DEF OwnLine, RoutedByOwnURL, Handled, InFlight
<1>5. ASSUME NEW l \in 1..MaxBody, onBody(l)
      PROVE  OwnLine' /\ RoutedByOwnURL'
  <2>1. sent.id \in Ids /\ bodyLength = sent.body
    BY <1>5 DEF onBody, Arriving, InFlight
  <2>2. /\ phase = "body" /\ phase' = "body" /\ sent'.id = sent.id
        /\ sent'.split = sent.split /\ sent'.trailing = sent.trailing
        /\ UNCHANGED <<current, answered, own, saw>>
    BY <1>5, <2>1, BodyStep
  <2> QED
    BY <2>2 DEF OwnLine, RoutedByOwnURL, Handled, InFlight
<1>6. ASSUME NEW params \in SUBSET Names, onMessageComplete(params)
      PROVE  OwnLine' /\ RoutedByOwnURL'
  <2>1. sent.id \in Ids /\ bodyLength = sent.body
    BY <1>6 DEF onMessageComplete, Arriving, InFlight
  <2>2. /\ phase = "body" \/ (phase = "fields" /\ sent.trailing)
        /\ phase' = "ready" /\ saw' = current' /\ own' = sent'
        /\ current'.url = current.url /\ current'.method = current.method
        /\ sent'.id = sent.id /\ sent'.split = sent.split
    BY <1>6, <2>1, MessageStep
  <2> QED
    BY <2>2 DEF OwnLine, RoutedByOwnURL, Handled, InFlight
<1>7. CASE Refuse
  BY <1>7 DEF Refuse, OwnLine, RoutedByOwnURL, Handled, InFlight
<1>8. CASE reset
  BY <1>8, ResetStep DEF OwnLine, RoutedByOwnURL, Handled, InFlight
<1>9. CASE UNCHANGED vars
  BY <1>9 DEF vars, OwnLine, RoutedByOwnURL, Handled, InFlight
<1>10. CASE lastChunk
  <2>1. /\ phase = "body" /\ phase' = "fields" /\ sent' \in Sent /\ sent'.id = sent.id
        /\ sent'.split = sent.split /\ sent'.queries = sent.queries
        /\ sent'.headers = sent.headers /\ sent'.body = sent.body
        /\ UNCHANGED <<current, currentHeaderField, buf, bodyLength, answered, own, saw,
                       interrupted>>
    BY <1>10, LastChunkStep
  <2> QED
    BY <2>1 DEF OwnLine, RoutedByOwnURL, Handled, InFlight
<1> QED
  BY <1>1, <1>2, <1>3, <1>4, <1>5, <1>6, <1>7, <1>8, <1>9, <1>10 DEF Next, URLArrives

\* A request that no read has cut in two is routed by its own method and path,
\* whatever the connection carried before (parser.cpp, onURL and
\* onHeaderCompelete).
THEOREM RouteCorrect == Spec => []RoutedByOwnURL
<1>1. Init => OwnLine /\ RoutedByOwnURL
  BY DEF Init, OwnLine, RoutedByOwnURL, Handled, InFlight
<1> QED
  BY <1>1, OwnLineInductive, Arrival, PTL DEF Spec

-------------------------------------------------------------------------------
(***************************************************************************)
(* The body.  As long as no reset() cut one short, _buf holds what was     *)
(* counted in bodyLength, and all of it is of the request in flight.       *)
(***************************************************************************)
OwnBytes ==
  ~interrupted =>
    /\ Len(buf) = bodyLength
    /\ InFlight => \A b \in 1..Len(buf) : buf[b] = sent.id

LEMMA OwnBytesInductive ==
  TypeOK /\ Arriving /\ OwnBytes /\ BodyIsOwn /\ [Next]_vars => OwnBytes' /\ BodyIsOwn'
<1> SUFFICES ASSUME TypeOK, Arriving, OwnBytes, BodyIsOwn, [Next]_vars
             PROVE  OwnBytes' /\ BodyIsOwn'
  OBVIOUS
<1> USE DEF InFlight, Handled
<1>1. ASSUME NEW part \in Parts, NEW q \in SUBSET Names, NEW marks \in BOOLEAN,
             NEW parses \in BOOLEAN, onURL(part, q, marks, parses)
      PROVE  OwnBytes' /\ BodyIsOwn'
  <2>1. InFlight => sent.id \in Ids
    BY DEF Arriving
  <2>2. /\ phase \in {"ready", "urlTail"}
        /\ phase = "urlTail" => sent'.id = sent.id
    BY <1>1, <2>1, URLStep
  <2>3. UNCHANGED <<answered, own, saw, buf, bodyLength, interrupted>>
    BY <1>1 DEF onURL
  <2>4. phase = "ready" /\ ~interrupted => Len(buf) = 0
    BY DEF OwnBytes, Arriving
  <2>5. BodyIsOwn'
    BY <2>3 DEF BodyIsOwn
  <2>6. OwnBytes'
    <3>1. CASE phase = "ready"
      BY <2>3, <2>4, <3>1 DEF OwnBytes
    <3>2. CASE phase = "urlTail"
      BY <2>2, <2>3, <3>2 DEF OwnBytes
    <3> QED
      BY <2>2, <3>1, <3>2
  <2> QED
    BY <2>5, <2>6
<1>2. ASSUME NEW f \in Field, NEW part \in Parts, onHeaderField(f, part)
      PROVE  OwnBytes' /\ BodyIsOwn'
  <2>1. /\ phase \in {"fields", "fieldTail"} /\ phase' \in {"fieldTail", "value"}
        /\ sent'.id = sent.id
        /\ UNCHANGED <<answered, own, saw, buf, bodyLength, interrupted>>
    BY <1>2, HeaderFieldStep
  <2> QED
    BY <2>1 DEF OwnBytes, BodyIsOwn
<1>3. ASSUME NEW part \in Parts, onHeaderValue(part)
      PROVE  OwnBytes' /\ BodyIsOwn'
  <2>1. sent.id \in Ids /\ currentHeaderField \in Field
    BY <1>3 DEF TypeOK, Sent, onHeaderValue, Arriving
  <2>2. /\ phase \in {"value", "valueTail"} /\ phase' \in {"valueTail", "fields"}
        /\ sent'.id = sent.id
        /\ UNCHANGED <<answered, own, saw, buf, bodyLength, interrupted>>
    BY <1>3, <2>1, HeaderValueStep
  <2> QED
    BY <2>2 DEF OwnBytes, BodyIsOwn
<1>4. CASE onHeaderCompelete
  <2>1. /\ phase = "fields" /\ phase' = "body"
        /\ UNCHANGED <<sent, answered, own, saw, buf, bodyLength, interrupted>>
    BY <1>4, HeaderCompleteStep
  <2> QED
    BY <2>1 DEF OwnBytes, BodyIsOwn
<1>5. ASSUME NEW l \in 1..MaxBody, onBody(l)
      PROVE  OwnBytes' /\ BodyIsOwn'
  <2>1. sent.id \in Ids /\ bodyLength = sent.body
    BY <1>5 DEF onBody, Arriving
  <2>2. /\ phase = "body" /\ sent'.id = sent.id
        /\ bodyLength' = bodyLength + l /\ Len(buf') = Len(buf) + l
        /\ (\A b \in 1..Len(buf) : buf[b] = sent.id) =>
              \A b \in 1..Len(buf') : buf'[b] = sent.id
        /\ UNCHANGED <<answered, own, saw, interrupted>>
    BY <1>5, <2>1, BodyStep
  <2> QED
    BY <2>2 DEF OwnBytes, BodyIsOwn
<1>6. ASSUME NEW params \in SUBSET Names, onMessageComplete(params)
      PROVE  OwnBytes' /\ BodyIsOwn'
  <2>1. sent.id \in Ids /\ bodyLength = sent.body /\ bodyLength \in Nat
    BY <1>6 DEF onMessageComplete, Arriving, TypeOK
  <2>2. /\ phase \in {"body", "fields"} /\ phase' = "ready" /\ saw' = current' /\ own' = sent'
        /\ bodyLength' = 0 /\ current'.body = Body
        /\ Len(buf) = bodyLength => Len(buf') = 0
        /\ sent'.id = sent.id /\ sent'.body = sent.body /\ interrupted' = interrupted
    BY <1>6, <2>1, MessageStep
  <2>3. OwnBytes'
    BY <2>2 DEF OwnBytes
  <2>4. ASSUME bodyLength > 0
        PROVE  /\ Len(Body) = bodyLength
               /\ ~interrupted => \A b \in 1..bodyLength : Body[b] = sent.id
    <3>1. Body = Read(bodyLength)
      BY <2>4 DEF Body
    <3>2. ~interrupted => Len(buf) = bodyLength /\ \A b \in 1..Len(buf) : buf[b] = sent.id
      BY <2>2 DEF OwnBytes
    <3>3. ~interrupted => bodyLength <= Len(buf)
      BY <2>1, <3>2
    <3> QED
      BY <2>1, <3>1, <3>2, <3>3, ReadFacts
  <2>5. BodyIsOwn'
    BY <2>1, <2>2, <2>4 DEF BodyIsOwn
  <2> QED
    BY <2>3, <2>5
<1>7. CASE Refuse
  BY <1>7 DEF Refuse, OwnBytes, BodyIsOwn
<1>8. CASE reset
  BY <1>8, ResetStep DEF OwnBytes, BodyIsOwn
<1>9. CASE UNCHANGED vars
  BY <1>9 DEF vars, OwnBytes, BodyIsOwn
<1>10. CASE lastChunk
  <2>1. /\ phase = "body" /\ phase' = "fields" /\ sent' \in Sent /\ sent'.id = sent.id
        /\ sent'.split = sent.split /\ sent'.queries = sent.queries
        /\ sent'.headers = sent.headers /\ sent'.body = sent.body
        /\ UNCHANGED <<current, currentHeaderField, buf, bodyLength, answered, own, saw,
                       interrupted>>
    BY <1>10, LastChunkStep
  <2> QED
    BY <2>1 DEF OwnBytes, BodyIsOwn
<1> QED
  BY <1>1, <1>2, <1>3, <1>4, <1>5, <1>6, <1>7, <1>8, <1>9, <1>10 DEF Next, URLArrives

\* A body in any number of chunks reaches its handler complete, and unmixed
\* unless a reset() left bytes of another in _buf (parser.cpp,
\* finishCurrentRequest).
THEOREM BodyCorrect == Spec => []BodyIsOwn
<1>1. Init => OwnBytes /\ BodyIsOwn
  BY DEF Init, OwnBytes, BodyIsOwn, Handled, InFlight
<1> QED
  BY <1>1, OwnBytesInductive, Arrival, PTL DEF Spec

-------------------------------------------------------------------------------
(***************************************************************************)
(* The headers.  `current' holds of each the text of the first request     *)
(* that sent it; one of the request in flight waits for its value.         *)
(***************************************************************************)
Record == [id : Ids, headers : SUBSET Field]
Senders(s, f) == {k \in 1..Len(s) : f \in s[k].headers}
FirstId(s, f) == IF Senders(s, f) = {} THEN 0 ELSE s[EarliestWith(Senders(s, f))].id

\* There is a first one.
HasFirst(s, f) ==
  Senders(s, f) # {} => \E k \in Senders(s, f) : \A j \in Senders(s, f) : k <= j

LEMMA EarliestIs ==
  ASSUME NEW S \in SUBSET Nat, NEW m \in S, \A j \in S : m <= j
  PROVE  EarliestWith(S) = m
<1>1. \A k \in S : (\A j \in S : k <= j) => k = m
  OBVIOUS
<1> QED
  BY <1>1 DEF EarliestWith

LEMMA FirstIdFacts ==
  ASSUME NEW s \in Seq(Record), NEW f \in Field, HasFirst(s, f)
  PROVE  /\ FirstId(s, f) \in 0..MaxRequests
         /\ FirstId(s, f) = 0 <=> Senders(s, f) = {}
<1>1. CASE Senders(s, f) = {}
  BY <1>1, ParserAssumption DEF FirstId
<1>2. CASE Senders(s, f) # {}
  <2>1. PICK m \in Senders(s, f) : \A j \in Senders(s, f) : m <= j
    BY <1>2 DEF HasFirst
  <2>2. Senders(s, f) \in SUBSET Nat /\ m \in 1..Len(s)
    BY DEF Senders
  <2>3. EarliestWith(Senders(s, f)) = m
    BY <2>1, <2>2, EarliestIs
  <2>4. s[m] \in Record
    BY <2>2
  <2> QED
    BY <1>2, <2>3, <2>4, ParserAssumption DEF FirstId, Record, Ids
<1> QED
  BY <1>1, <1>2

LEMMA FirstIdAppend ==
  ASSUME NEW s \in Seq(Record), NEW r \in Record, NEW f \in Field, HasFirst(s, f)
  PROVE  /\ HasFirst(Append(s, r), f)
         /\ FirstId(Append(s, r), f) =
              IF Senders(s, f) # {} THEN FirstId(s, f)
              ELSE IF f \in r.headers THEN r.id ELSE 0
<1> DEFINE t == Append(s, r)
           S == Senders(s, f)
           T == Senders(t, f)
<1>1. /\ Len(t) = Len(s) + 1 /\ t[Len(t)] = r /\ \A k \in 1..Len(s) : t[k] = s[k]
      /\ Len(s) \in Nat
  OBVIOUS
<1> HIDE DEF t
<1>2. T = S \cup (IF f \in r.headers THEN {Len(t)} ELSE {})
  BY <1>1 DEF Senders
<1>3. S \in SUBSET (1..Len(s)) /\ T \in SUBSET Nat
  BY <1>1 DEF Senders
<1>4. CASE S # {}
  <2>1. PICK m \in S : \A j \in S : m <= j
    BY <1>4 DEF HasFirst
  <2>2. m \in T /\ \A j \in T : m <= j
    BY <1>1, <1>2, <1>3, <2>1
  <2>3. EarliestWith(S) = m /\ EarliestWith(T) = m
    BY <1>3, <2>1, <2>2, EarliestIs
  <2>4. t[m] = s[m]
    BY <1>1, <1>3, <2>1
  <2> QED
    BY <1>4, <2>2, <2>3, <2>4 DEF HasFirst, FirstId, t
<1>5. CASE S = {} /\ f \in r.headers
  <2>1. T = {Len(t)}
    BY <1>2, <1>5
  <2>2. Len(t) \in T /\ \A j \in T : Len(t) <= j
    BY <1>1, <2>1
  <2>3. EarliestWith(T) = Len(t)
    BY <1>3, <2>2, EarliestIs
  <2> QED
    BY <1>1, <1>5, <2>2, <2>3 DEF HasFirst, FirstId, t
<1>6. CASE S = {} /\ f \notin r.headers
  <2>1. T = {}
    BY <1>2, <1>6
  <2> QED
    BY <1>6, <2>1 DEF HasFirst, FirstId, t
<1> QED
  BY <1>4, <1>5, <1>6

\* The number in the text `current' holds of f; 0 for no text.
HeldId(f) == current.headers[f][1]

Held(f) ==
  /\ HasFirst(answered, f)
  /\ phase = "ready" => HeldId(f) = FirstId(answered, f)
  /\ InFlight /\ FirstId(answered, f) # 0 => HeldId(f) = FirstId(answered, f)
  /\ InFlight /\ FirstId(answered, f) = 0 =>
       /\ f \notin sent.headers => HeldId(f) = 0
       /\ f \in sent.headers => HeldId(f) \in {0, sent.id}
       /\ f \in sent.headers /\ ~(phase = "value" /\ f = currentHeaderField) =>
            HeldId(f) = sent.id

HeldInv ==
  /\ \A f \in Field : Held(f)
  /\ current.data = IF answered = <<>> THEN 0 ELSE answered[1].id

\* What stays when nothing is answered.
LEMMA HeadersFrame ==
  ASSUME HeadersFirstWin, UNCHANGED <<answered, own, saw>> PROVE HeadersFirstWin'
BY DEF HeadersFirstWin, Handled

LEMMA HeldInductive ==
  TypeOK /\ Arriving /\ HeldInv /\ HeadersFirstWin /\ [Next]_vars
    => HeldInv' /\ HeadersFirstWin'
<1> SUFFICES ASSUME TypeOK, Arriving, HeldInv, HeadersFirstWin, [Next]_vars
             PROVE  HeldInv' /\ HeadersFirstWin'
  OBVIOUS
<1> USE DEF InFlight
<1>0. answered \in Seq(Record) /\ current.headers \in [Field -> Text \cup {NoText}]
  BY DEF TypeOK, Request, Record
<1>1. ASSUME NEW part \in Parts, NEW q \in SUBSET Names, NEW marks \in BOOLEAN,
             NEW parses \in BOOLEAN, onURL(part, q, marks, parses)
      PROVE  HeldInv' /\ HeadersFirstWin'
  <2>1. InFlight => sent.id \in Ids
    BY DEF Arriving
  <2>2. /\ phase \in {"ready", "urlTail"} /\ phase' \in {"failed", "urlTail", "fields"}
        /\ sent'.headers = (IF phase = "ready" THEN {} ELSE sent.headers)
        /\ phase = "urlTail" => sent'.id = sent.id
        /\ current'.headers = current.headers /\ current'.data = current.data
    BY <1>1, <2>1, URLStep
  <2>3. UNCHANGED <<answered, own, saw, currentHeaderField>>
    BY <1>1 DEF onURL
  <2>4. ASSUME NEW f \in Field PROVE Held(f)'
    <3>1. Held(f) /\ HeldId(f)' = HeldId(f) /\ HasFirst(answered, f)'
          /\ FirstId(answered, f)' = FirstId(answered, f)
      BY <2>2, <2>3 DEF HeldInv, HeldId, Held
    <3> QED
      BY <2>2, <2>3, <3>1 DEF Held
  <2> QED
    BY <2>2, <2>3, <2>4, HeadersFrame DEF HeldInv
<1>2. ASSUME NEW f \in Field, NEW part \in Parts, onHeaderField(f, part)
      PROVE  HeldInv' /\ HeadersFirstWin'
  <2>1. /\ phase \in {"fields", "fieldTail"} /\ phase' \in {"fieldTail", "value"}
        /\ sent'.id = sent.id
        /\ phase' = "fieldTail" => sent'.headers = sent.headers
        /\ phase' = "value" => sent'.headers = sent.headers \cup {currentHeaderField'}
        /\ UNCHANGED <<current, answered, own, saw>>
    BY <1>2, HeaderFieldStep
  <2>2. ASSUME NEW g \in Field PROVE Held(g)'
    <3>1. Held(g) /\ HeldId(g)' = HeldId(g) /\ HasFirst(answered, g)'
          /\ FirstId(answered, g)' = FirstId(answered, g)
      BY <2>1 DEF HeldInv, HeldId, Held
    <3> QED
      BY <2>1, <3>1 DEF Held
  <2> QED
    BY <2>1, <2>2, HeadersFrame DEF HeldInv
<1>3. ASSUME NEW part \in Parts, onHeaderValue(part)
      PROVE  HeldInv' /\ HeadersFirstWin'
  <2>1. sent.id \in Ids /\ currentHeaderField \in Field /\ currentHeaderField \in sent.headers
    BY <1>3 DEF TypeOK, Sent, onHeaderValue, Arriving
  <2>2. /\ phase \in {"value", "valueTail"} /\ phase' \in {"valueTail", "fields"}
        /\ sent'.id = sent.id /\ sent'.headers = sent.headers
        /\ current'.headers =
             EmplaceHeader(current.headers, currentHeaderField, <<sent.id, part>>)
        /\ current'.data = current.data
        /\ UNCHANGED <<currentHeaderField, answered, own, saw>>
    BY <1>3, <2>1, HeaderValueStep
  <2>3. <<sent.id, part>> \in Text /\ <<sent.id, part>>[1] = sent.id
    BY <2>1, TextFacts
  <2>4. /\ \A g \in Field : g # currentHeaderField => HeldId(g)' = HeldId(g)
        /\ HeldId(currentHeaderField)' =
             IF HeldId(currentHeaderField) = 0 THEN sent.id ELSE HeldId(currentHeaderField)
    <3>1. LET e == EmplaceHeader(current.headers, currentHeaderField, <<sent.id, part>>)
          IN  /\ \A g \in Field : g # currentHeaderField => e[g] = current.headers[g]
              /\ e[currentHeaderField] =
                   IF current.headers[currentHeaderField] = NoText THEN <<sent.id, part>>
                   ELSE current.headers[currentHeaderField]
      BY <1>0, <2>1, <2>3, EmplaceHeaderFacts
    <3>2. current.headers[currentHeaderField] = NoText <=> HeldId(currentHeaderField) = 0
      BY <1>0, <2>1, TextFacts DEF HeldId
    <3> QED
      BY <2>2, <2>3, <3>1, <3>2 DEF HeldId
  <2>5. ASSUME NEW f \in Field PROVE Held(f)'
    <3>1. Held(f) /\ HasFirst(answered, f)' /\ FirstId(answered, f)' = FirstId(answered, f)
      BY <2>2 DEF HeldInv, Held
    <3>2. CASE f = currentHeaderField
      BY <2>1, <2>2, <2>4, <3>1, <3>2 DEF Held
    <3>3. CASE f # currentHeaderField
      BY <2>2, <2>4, <3>1, <3>3 DEF Held
    <3> QED
      BY <3>2, <3>3
  <2> QED
    BY <2>2, <2>5, HeadersFrame DEF HeldInv
<1>4. CASE onHeaderCompelete
  <2>1. /\ phase = "fields" /\ phase' = "body" /\ current'.headers = current.headers
        /\ current'.data = current.data
        /\ UNCHANGED <<sent, currentHeaderField, answered, own, saw>>
    BY <1>4, HeaderCompleteStep
  <2> QED
    BY <2>1, HeadersFrame DEF HeldInv, Held, HeldId
<1>5. ASSUME NEW l \in 1..MaxBody, onBody(l)
      PROVE  HeldInv' /\ HeadersFirstWin'
  <2>1. sent.id \in Ids /\ bodyLength = sent.body
    BY <1>5 DEF onBody, Arriving
  <2>2. /\ phase = "body" /\ phase' = "body" /\ sent'.id = sent.id
        /\ sent'.headers = sent.headers
        /\ UNCHANGED <<current, currentHeaderField, answered, own, saw>>
    BY <1>5, <2>1, BodyStep
  <2> QED
    BY <2>2, HeadersFrame DEF HeldInv, Held, HeldId
<1>6. ASSUME NEW params \in SUBSET Names, onMessageComplete(params)
      PROVE  HeldInv' /\ HeadersFirstWin'
  <2>1. sent.id \in Ids /\ bodyLength = sent.body
    BY <1>6 DEF onMessageComplete, Arriving
  <2> DEFINE r == [id |-> sent.id, headers |-> sent.headers]
  <2>2. /\ phase \in {"body", "fields"} /\ phase' = "ready" /\ saw' = current'
        /\ current'.headers = current.headers
        /\ current'.data = (IF current.data = 0 THEN sent.id ELSE current.data)
        /\ answered' = Append(answered, r)
    BY <1>6, <2>1, MessageStep
  <2>3. r \in Record /\ r.id = sent.id /\ r.headers = sent.headers
    BY <2>1 DEF TypeOK, Sent, Record
  <2> HIDE DEF r
  <2>4. ASSUME NEW f \in Field
        PROVE  HasFirst(answered', f) /\ HeldId(f)' = FirstId(answered', f)
    <3>1. Held(f) /\ HasFirst(answered, f)
      BY DEF HeldInv, Held
    <3>2. HeldId(f)' = HeldId(f)
      BY <2>2 DEF HeldId
    <3> QED
      BY <1>0, <2>2, <2>3, <3>1, <3>2, FirstIdAppend, FirstIdFacts DEF Held
  <2>5. current'.data = answered'[1].id /\ answered' # <<>>
    <3>1. \A k \in 1..Len(answered) : answered[k].id # 0
      <4>1. \A k \in 1..Len(answered) : answered[k] \in Record
        BY <1>0
      <4> QED
        BY <4>1, TextFacts DEF Record
    <3>2. CASE answered = <<>>
      BY <2>1, <2>2, <2>3, <3>2 DEF HeldInv
    <3>3. CASE answered # <<>>
      <4>1. 1 \in 1..Len(answered) /\ answered'[1] = answered[1]
        BY <1>0, <2>2, <3>3
      <4>2. answered' # <<>>
        BY <1>0, <2>2
      <4> QED
        BY <2>2, <3>1, <3>3, <4>1, <4>2 DEF HeldInv
    <3> QED
      BY <3>2, <3>3
  <2>6. HeldInv'
    BY <2>2, <2>4, <2>5 DEF HeldInv, Held
  <2>7. HeadersFirstWin'
    BY <2>2, <2>4, <2>5 DEF HeadersFirstWin, HeldId, FirstId, Senders
  <2> QED
    BY <2>6, <2>7
<1>7. CASE Refuse
  <2>1. phase' = "failed" /\ UNCHANGED <<current, answered, own, saw>>
    BY <1>7 DEF Refuse
  <2> QED
    BY <2>1, HeadersFrame DEF HeldInv, Held
<1>8. CASE reset
  <2>1. phase' = "ready" /\ current' = NewRequest /\ answered' = <<>>
    BY <1>8, ResetStep
  <2>2. ASSUME NEW f \in Field PROVE HeldId(f)' = 0 /\ Senders(answered', f) = {}
    BY <2>1, TextFacts DEF HeldId, NewRequest, Senders
  <2>3. current'.data = 0
    BY <2>1 DEF NewRequest
  <2> QED
    BY <2>1, <2>2, <2>3 DEF HeldInv, Held, HasFirst, FirstId, HeadersFirstWin, Handled
<1>9. CASE UNCHANGED vars
  BY <1>9, HeadersFrame DEF vars, HeldInv, Held, HeldId
<1>10. CASE lastChunk
  <2>1. /\ phase = "body" /\ phase' = "fields" /\ sent' \in Sent /\ sent'.id = sent.id
        /\ sent'.split = sent.split /\ sent'.queries = sent.queries
        /\ sent'.headers = sent.headers /\ sent'.body = sent.body
        /\ UNCHANGED <<current, currentHeaderField, buf, bodyLength, answered, own, saw,
                       interrupted>>
    BY <1>10, LastChunkStep
  <2> QED
    BY <2>1, HeadersFrame DEF HeldInv, Held, HeldId
<1> QED
  BY <1>1, <1>2, <1>3, <1>4, <1>5, <1>6, <1>7, <1>8, <1>9, <1>10 DEF Next, URLArrives

LEMMA HeldInvariant == Spec => [](HeldInv /\ HeadersFirstWin)
<1>1. Init => HeldInv /\ HeadersFirstWin
  <2> SUFFICES ASSUME Init PROVE HeldInv /\ HeadersFirstWin
    OBVIOUS
  <2>1. phase = "ready" /\ current = NewRequest /\ answered = <<>>
    BY DEF Init
  <2>2. ASSUME NEW f \in Field PROVE HeldId(f) = 0 /\ Senders(answered, f) = {}
    BY <2>1, TextFacts DEF HeldId, NewRequest, Senders
  <2>3. current.data = 0
    BY <2>1 DEF NewRequest
  <2> QED
    BY <2>1, <2>2, <2>3
       DEF HeldInv, Held, HasFirst, FirstId, HeadersFirstWin, Handled, InFlight
<1> QED
  BY <1>1, HeldInductive, Arrival, PTL DEF Spec

\* A handler is given the union of the headers of the connection, and of each
\* the earliest text; and the first pointer (request.h, emplace; parser.cpp
\* never clears current).
THEOREM HeadersCorrect == Spec => []HeadersFirstWin
BY HeldInvariant, PTL

-------------------------------------------------------------------------------
(***************************************************************************)
(* The first request.  Until it is answered `current' holds nothing that   *)
(* it did not send; if no read cut it in two, whole texts.                 *)
(***************************************************************************)
WholeOrNone == \A f \in Field : current.headers[f] \in {NoText, <<sent.id, "all">>}

FirstSoFar ==
  answered = <<>> =>
    /\ phase = "ready" => current = NewRequest
    /\ InFlight => (\A k \in Names : current.params[k] = 0) /\ current.body = <<>>
    /\ InFlight /\ ~sent.split =>
         /\ current.queries = [k \in Names |-> IF k \in sent.queries THEN sent.id ELSE 0]
         /\ WholeOrNone

\* What stays when nothing is answered.
LEMMA FirstFrame ==
  ASSUME FirstRequestFaithful, UNCHANGED <<answered, own, saw, interrupted>>
  PROVE  FirstRequestFaithful'
BY DEF FirstRequestFaithful

\* What the handler of the first request is given.
LEMMA FirstAnswered ==
  ASSUME TypeOK, Arriving, OwnBytes, HeldInv, FirstSoFar, answered = <<>>,
         NEW params \in SUBSET Names, onMessageComplete(params)
  PROVE  FirstRequestFaithful'
<1>1. sent.id \in Ids /\ bodyLength = sent.body /\ bodyLength \in Nat
  BY DEF onMessageComplete, Arriving, InFlight, TypeOK
<1>2. /\ phase \in {"body", "fields"} /\ saw' = current' /\ own' = sent'
      /\ current'.body = Body
      /\ current'.params = EmplaceAll(current.params, params, sent.id)
      /\ current'.data = (IF current.data = 0 THEN sent.id ELSE current.data)
      /\ current'.headers = current.headers /\ current'.queries = current.queries
      /\ sent'.id = sent.id /\ sent'.split = sent.split /\ sent'.queries = sent.queries
      /\ sent'.headers = sent.headers /\ sent'.params = params /\ sent'.body = sent.body
      /\ interrupted' = interrupted
  BY <1>1, MessageStep
<1>3. InFlight
  BY <1>2 DEF InFlight
<1>4. current.params \in [Names -> 0..MaxRequests] /\ sent.id \in 0..MaxRequests
      /\ current.headers \in [Field -> Text \cup {NoText}]
  BY DEF TypeOK, Request, Sent
<1>5. saw'.params = [k \in Names |-> IF k \in own'.params THEN own'.id ELSE 0]
  <2>1. \A k \in Names : current.params[k] = 0
    BY <1>3 DEF FirstSoFar
  <2>2. EmplaceAll(current.params, params, sent.id) =
          [k \in Names |-> IF k \in params THEN sent.id ELSE 0]
    BY <2>1 DEF EmplaceAll
  <2>3. /\ own'.params = params /\ own'.id = sent.id
        /\ saw'.params = EmplaceAll(current.params, params, sent.id)
    BY <1>2
  <2> QED
    BY ONLY <2>2, <2>3
<1>6. ~own'.split =>
        saw'.queries = [k \in Names |-> IF k \in own'.queries THEN own'.id ELSE 0]
  BY <1>2, <1>3 DEF FirstSoFar
<1>7. saw'.data = own'.id
  BY <1>1, <1>2 DEF HeldInv
<1>8. ASSUME NEW f \in Field, ~own'.split
      PROVE  saw'.headers[f] = IF f \in own'.headers THEN <<own'.id, "all">> ELSE NoText
  <2>1. FirstId(answered, f) = 0
    BY DEF FirstId, Senders
  <2>2. HeldId(f) = IF f \in sent.headers THEN sent.id ELSE 0
    BY <1>2, <1>3, <2>1 DEF HeldInv, Held
  <2>3. current.headers[f] \in {NoText, <<sent.id, "all">>}
    BY <1>2, <1>3, <1>8 DEF FirstSoFar, WholeOrNone
  <2>4. NoText[1] = 0 /\ <<sent.id, "all">>[1] = sent.id /\ sent.id # 0
    BY <1>1, TextFacts
  <2>5. current.headers[f] = IF f \in sent.headers THEN <<sent.id, "all">> ELSE NoText
    BY <2>2, <2>3, <2>4 DEF HeldId
  <2> QED
    BY <1>2, <2>5
<1>9. Len(Body) = own'.body /\ (~interrupted' => \A b \in 1..own'.body : Body[b] = own'.id)
  <2>1. CASE bodyLength > 0
    <3>1. Body = Read(bodyLength)
      BY <2>1 DEF Body
    <3>2. ~interrupted => Len(buf) = bodyLength /\ \A b \in 1..Len(buf) : buf[b] = sent.id
      BY <1>3 DEF OwnBytes
    <3>3. ~interrupted => bodyLength <= Len(buf)
      BY <1>1, <3>2
    <3> QED
      BY <1>1, <1>2, <3>1, <3>2, <3>3, ReadFacts, ZenonT(60)
  <2>2. CASE bodyLength = 0
    <3>1. Body = <<>>
      BY <1>3, <2>2 DEF Body, FirstSoFar
    <3> QED
      BY <1>1, <1>2, <2>2, <3>1
  <2> QED
    BY <1>1, <2>1, <2>2
<1> QED
  BY <1>2, <1>5, <1>6, <1>7, <1>8, <1>9 DEF FirstRequestFaithful

LEMMA FirstInductive ==
  TypeOK /\ Arriving /\ OwnBytes /\ HeldInv /\ FirstSoFar /\ FirstRequestFaithful
    /\ [Next]_vars => FirstSoFar' /\ FirstRequestFaithful'
<1> SUFFICES ASSUME TypeOK, Arriving, OwnBytes, HeldInv, FirstSoFar, FirstRequestFaithful,
                    [Next]_vars
             PROVE  FirstSoFar' /\ FirstRequestFaithful'
  OBVIOUS
<1> USE DEF InFlight
<1>1. ASSUME NEW part \in Parts, NEW q \in SUBSET Names, NEW marks \in BOOLEAN,
             NEW parses \in BOOLEAN, onURL(part, q, marks, parses)
      PROVE  FirstSoFar' /\ FirstRequestFaithful'
  <2>1. InFlight => sent.id \in Ids
    BY DEF Arriving
  <2>2. /\ sent'.id \in Ids /\ sent' \in Sent
        /\ phase \in {"ready", "urlTail"} /\ phase' \in {"failed", "urlTail", "fields"}
        /\ current'.headers = current.headers /\ current'.params = current.params
        /\ current'.body = current.body
        /\ phase' = "urlTail" => sent'.split
        /\ ~sent'.split /\ phase' # "failed" =>
              /\ phase = "ready"
              /\ current'.queries = EmplaceAll(current.queries, sent'.queries, sent'.id)
    BY <1>1, <2>1, URLStep
  <2>3. UNCHANGED <<answered, own, saw, interrupted>>
    BY <1>1 DEF onURL
  <2>4. ASSUME answered = <<>>, phase' # "failed"
        PROVE  (\A k \in Names : current'.params[k] = 0) /\ current'.body = <<>>
    <3>1. CASE phase = "ready"
      BY <2>2, <2>4, <3>1 DEF FirstSoFar, NewRequest
    <3>2. CASE phase = "urlTail"
      BY <2>2, <2>4, <3>2 DEF FirstSoFar
    <3> QED
      BY <2>2, <3>1, <3>2
  <2>5. ASSUME answered = <<>>, phase' # "failed", ~sent'.split
        PROVE  /\ current'.queries =
                    [k \in Names |-> IF k \in sent'.queries THEN sent'.id ELSE 0]
               /\ WholeOrNone'
    <3>1. current = NewRequest
      BY <2>2, <2>5 DEF FirstSoFar
    <3>2. /\ sent'.id \in 0..MaxRequests /\ sent'.queries \in SUBSET Names
          /\ 0 \in 0..MaxRequests
      BY <2>2, ParserAssumption DEF Sent
    <3>3. /\ current.queries \in [Names -> 0..MaxRequests]
          /\ \A k \in Names : current.queries[k] = 0
          /\ \A f \in Field : current.headers[f] = NoText
      BY <3>1, <3>2 DEF NewRequest
    <3>4. EmplaceAll(current.queries, sent'.queries, sent'.id) =
            [k \in Names |-> IF k \in sent'.queries THEN sent'.id ELSE 0]
      BY <3>2, <3>3, EmplaceAllFacts
    <3>5. WholeOrNone'
      BY <2>2, <3>3 DEF WholeOrNone
    <3> QED
      BY <2>2, <2>5, <3>4, <3>5
  <2>6. FirstSoFar'
    BY <2>2, <2>3, <2>4, <2>5 DEF FirstSoFar
  <2> QED
    BY <2>3, <2>6, FirstFrame
<1>2. ASSUME NEW f \in Field, NEW part \in Parts, onHeaderField(f, part)
      PROVE  FirstSoFar' /\ FirstRequestFaithful'
  <2>1. /\ phase \in {"fields", "fieldTail"} /\ phase' \in {"fieldTail", "value"}
        /\ sent'.id = sent.id /\ sent'.queries = sent.queries /\ (sent.split => sent'.split)
        /\ UNCHANGED <<current, answered, own, saw, interrupted>>
    BY <1>2, HeaderFieldStep
  <2> QED
    BY <2>1, FirstFrame DEF FirstSoFar, WholeOrNone
<1>3. ASSUME NEW part \in Parts, onHeaderValue(part)
      PROVE  FirstSoFar' /\ FirstRequestFaithful'
  <2>1. sent.id \in Ids /\ currentHeaderField \in Field
    BY <1>3 DEF TypeOK, Sent, onHeaderValue, Arriving
  <2>2. /\ phase \in {"value", "valueTail"} /\ phase' \in {"valueTail", "fields"}
        /\ sent'.id = sent.id /\ sent'.queries = sent.queries /\ (sent.split => sent'.split)
        /\ ~sent'.split => part = "all"
        /\ current'.headers =
             EmplaceHeader(current.headers, currentHeaderField, <<sent.id, part>>)
        /\ current'.queries = current.queries /\ current'.params = current.params
        /\ current'.body = current.body
        /\ UNCHANGED <<answered, own, saw, interrupted>>
    BY <1>3, <2>1, HeaderValueStep
  <2>3. ASSUME WholeOrNone, part = "all" PROVE WholeOrNone'
    <3>1. <<sent.id, part>> \in Text /\ current.headers \in [Field -> Text \cup {NoText}]
      BY <2>1, TextFacts DEF TypeOK, Request
    <3>2. LET e == EmplaceHeader(current.headers, currentHeaderField, <<sent.id, part>>)
          IN  /\ \A g \in Field : g # currentHeaderField => e[g] = current.headers[g]
              /\ e[currentHeaderField] \in {<<sent.id, part>>, current.headers[currentHeaderField]}
      BY <2>1, <3>1, EmplaceHeaderFacts
    <3> QED
      BY <2>1, <2>2, <2>3, <3>2 DEF WholeOrNone
  <2> QED
    BY <2>2, <2>3, FirstFrame DEF FirstSoFar
<1>4. CASE onHeaderCompelete
  <2>1. /\ phase = "fields" /\ phase' = "body" /\ current'.headers = current.headers
        /\ current'.queries = current.queries /\ current'.params = current.params
        /\ current'.body = current.body
        /\ UNCHANGED <<sent, answered, own, saw, interrupted>>
    BY <1>4, HeaderCompleteStep
  <2> QED
    BY <2>1, FirstFrame DEF FirstSoFar, WholeOrNone
<1>5. ASSUME NEW l \in 1..MaxBody, onBody(l)
      PROVE  FirstSoFar' /\ FirstRequestFaithful'
  <2>1. sent.id \in Ids /\ bodyLength = sent.body
    BY <1>5 DEF onBody, Arriving
  <2>2. /\ phase = "body" /\ phase' = "body" /\ sent'.id = sent.id
        /\ sent'.split = sent.split /\ sent'.queries = sent.queries
        /\ UNCHANGED <<current, answered, own, saw, interrupted>>
    BY <1>5, <2>1, BodyStep
  <2> QED
    BY <2>2, FirstFrame DEF FirstSoFar, WholeOrNone
<1>6. ASSUME NEW params \in SUBSET Names, onMessageComplete(params)
      PROVE  FirstSoFar' /\ FirstRequestFaithful'
  <2>1. answered' = Append(answered, [id |-> sent.id, headers |-> sent.headers])
    BY <1>6 DEF onMessageComplete
  <2>2. answered \in Seq([id : Ids, headers : SUBSET Field])
    BY DEF TypeOK
  <2>3. answered' # <<>> /\ (Len(answered') = 1 => answered = <<>>)
    BY <2>1, <2>2
  <2>4. FirstSoFar'
    BY <2>3 DEF FirstSoFar
  <2>5. CASE answered = <<>>
    BY <1>6, <2>4, <2>5, FirstAnswered
  <2>6. CASE answered # <<>>
    BY <2>3, <2>4, <2>6 DEF FirstRequestFaithful
  <2> QED
    BY <2>5, <2>6
<1>7. CASE Refuse
  BY <1>7, FirstFrame DEF Refuse, FirstSoFar
<1>8. CASE reset
  BY <1>8, ResetStep DEF FirstSoFar, FirstRequestFaithful
<1>9. CASE UNCHANGED vars
  BY <1>9, FirstFrame DEF vars, FirstSoFar, WholeOrNone
<1>10. CASE lastChunk
  <2>1. /\ phase = "body" /\ phase' = "fields" /\ sent' \in Sent /\ sent'.id = sent.id
        /\ sent'.split = sent.split /\ sent'.queries = sent.queries
        /\ sent'.headers = sent.headers /\ sent'.body = sent.body
        /\ UNCHANGED <<current, currentHeaderField, buf, bodyLength, answered, own, saw,
                       interrupted>>
    BY <1>10, LastChunkStep
  <2> QED
    BY <2>1, FirstFrame DEF FirstSoFar, WholeOrNone
<1> QED
  BY <1>1, <1>2, <1>3, <1>4, <1>5, <1>6, <1>7, <1>8, <1>9, <1>10 DEF Next, URLArrives

\* The first request after the parser was made, or reset (Client::reset swaps
\* current for a new one), reaches its handler exactly as it was sent.
THEOREM FirstCorrect == Spec => []FirstRequestFaithful
<1>1. Init => FirstSoFar /\ FirstRequestFaithful
  BY DEF Init, FirstSoFar, FirstRequestFaithful, InFlight
<1>2. Init => OwnBytes /\ BodyIsOwn
  BY DEF Init, OwnBytes, BodyIsOwn, Handled, InFlight
<1> QED
  BY <1>1, <1>2, FirstInductive, OwnBytesInductive, HeldInvariant, Arrival, PTL DEF Spec

-------------------------------------------------------------------------------
(***************************************************************************)
(* KeepAlive.  Whatever is done with a RawWhs, its parser does what        *)
(* HttpParser says.                                                        *)
(***************************************************************************)
THEOREM ParserImplemented == AllSpec => Spec
<1>1. AllInit => Init
  BY DEF AllInit
<1>2. [AllNext]_allVars => [Next]_vars
  <2> SUFFICES ASSUME [AllNext]_allVars PROVE [Next]_vars
    OBVIOUS
  <2>1. CASE parse
    BY <2>1 DEF parse, Next
  <2>2. CASE finish
    BY <2>2 DEF finish, Next
  <2>3. CASE resetAll
    BY <2>3 DEF resetAll, Next
  <2>4. CASE process \/ write \/ out
    BY <2>4 DEF process, write, out
  <2>5. CASE UNCHANGED allVars
    BY <2>5 DEF allVars
  <2> QED BY <2>1, <2>2, <2>3, <2>4, <2>5 DEF AllNext
<1> QED BY <1>1, <1>2, PTL DEF AllSpec, Spec

\* So every request a RawWhs processes is routed by its own line, has its own
\* body and the union of the headers, and the first one is as it was sent.
THEOREM ParserOfConnection ==
  AllSpec => [](RoutedByOwnURL /\ BodyIsOwn /\ HeadersFirstWin /\ FirstRequestFaithful)
BY ParserImplemented, RouteCorrect, BodyCorrect, HeadersCorrect, FirstCorrect, PTL

-------------------------------------------------------------------------------
(***************************************************************************)
(* What processing_request() does with the response: of this server only   *)
(* StaticFileServer, NotFoundHandler and MergeDefaultCommonHeaders write.  *)
(***************************************************************************)
Steps == {"before", "route", "notFound", "after", "respond"}

\* The request is for the file, and its condition names the etag.
Unmodified == Asked.url = File /\ Asked.etag = "same"

FlowInv ==
  /\ pc \in Steps \cup {"idle", "died"}
  /\ resp.status \in {0, 304, 404} /\ resp.body \in Flow!Bodies /\ ~resp.ended
  /\ pc = "idle" => resp.status = 0
  /\ i \in {1, 2}
  /\ pc = "before" /\ i = 1 => resp.status = 0
  /\ pc \in Steps /\ ~(pc = "before" /\ i = 1) => (resp.status = 304 <=> Unmodified)

\* The three fields, of what the operations on the response make.
LEMMA ResponseFacts ==
  ASSUME NEW r, NEW n, NEW who, NEW names, NEW s
  PROVE  /\ Flow!WithStatus(r, s).status = s /\ Flow!WithStatus(r, s).body = r.body
         /\ Flow!WithStatus(r, s).ended = r.ended
         /\ Flow!WithHeaders(r, names, who).status = r.status
         /\ Flow!WithHeaders(r, names, who).body = r.body
         /\ Flow!WithHeaders(r, names, who).ended = r.ended
         /\ Flow!WithLength(r, n).status = r.status
         /\ Flow!WithLength(r, n).body = r.body
         /\ Flow!WithLength(r, n).ended = r.ended
         /\ Flow!SetBody(r, who, n).status = r.status
         /\ Flow!SetBody(r, who, n).body = who
         /\ Flow!SetBody(r, who, n).ended = r.ended
BY DEF Flow!WithStatus, Flow!WithHeaders, Flow!WithLength, Flow!SetBody

LEMMA NewResponseFacts ==
  /\ Flow!NewResponse.status = 0 /\ Flow!NewResponse.body = "none"
  /\ Flow!NewResponse.ended = FALSE
BY DEF Flow!NewResponse

LEMMA BodiesFacts == {"none", "handler", "file", "notFound", "error"} = Flow!Bodies
BY DEF Flow!Bodies

\* StaticFileServer: 304 exactly for a condition that names the file's etag.
LEMMA StaticStep ==
  ASSUME FlowInv, Flow!staticFile
  PROVE  /\ pc = "before" /\ pc' \in {"before", "died"} /\ i' = 2
         /\ pc' = "died" => resp'.status = 0
         /\ pc' = "before" => resp'.status = (IF Unmodified THEN 304 ELSE 0)
         /\ resp'.body \in Flow!Bodies /\ ~resp'.ended
<1>1. pc = "before" /\ i = 1 /\ i' = 2
  BY DEF Flow!staticFile
<1>2. resp.status = 0 /\ resp.body \in Flow!Bodies /\ ~resp.ended
  BY <1>1 DEF FlowInv
<1>3. /\ Asked.method = "GET" /\ Asked.url \in {File, Short, Elsewhere}
      /\ File # Elsewhere /\ File # Short /\ Short # Elsewhere
  BY DEF Asked, File, Short, Elsewhere
<1>4. Flow!UrlTooShort <=> Asked.url = Short
  BY <1>3 DEF Flow!UrlTooShort
<1>5. Flow!FileTracked <=> Asked.url = File
  BY <1>3 DEF Flow!FileTracked, Flow!Paths, Holding, Flow!Absent
<1>6. Flow!NotModified <=> Unmodified
  BY <1>3, <1>5 DEF Flow!NotModified, Unmodified
<1>7. \/ ~Flow!FileTracked /\ pc' \in {"before", "died"} /\ UNCHANGED resp
      \/ /\ Flow!FileTracked /\ UNCHANGED pc
         /\ \/ Flow!NotModified /\ resp' = Flow!StaticNotModified
            \/ ~Flow!NotModified /\ resp' \in {Flow!StaticBody, Flow!StaticNoBody}
  <2>1. CASE Flow!UrlTooShort
    BY <1>1, <1>3, <1>4, <1>5, <2>1 DEF Flow!staticFile
  <2>2. CASE ~Flow!UrlTooShort
    BY <1>1, <1>3, <2>2 DEF Flow!staticFile
  <2> QED BY <2>1, <2>2
<1>8. /\ Flow!StaticNotModified.status = 304 /\ Flow!StaticNotModified.body = resp.body
      /\ Flow!StaticNotModified.ended = resp.ended
  <2>1. PICK h : h = Flow!StaticHeaders
    OBVIOUS
  <2>2. /\ h.status = resp.status /\ h.body = resp.body /\ h.ended = resp.ended
    BY <2>1, ResponseFacts DEF Flow!StaticHeaders
  <2>3. PICK c : c = Flow!StaticCached(h)
    OBVIOUS
  <2>4. /\ c.status = h.status /\ c.body = h.body /\ c.ended = h.ended
    BY <2>3, ResponseFacts DEF Flow!StaticCached
  <2>5. Flow!StaticNotModified = Flow!WithStatus(c, 304)
    BY <2>1, <2>3 DEF Flow!StaticNotModified
  <2> QED BY <2>2, <2>4, <2>5, ResponseFacts
<1>9. /\ Flow!StaticBody.status = resp.status /\ Flow!StaticBody.body = "file"
      /\ Flow!StaticBody.ended = resp.ended
  <2>1. PICK h : h = Flow!StaticHeaders
    OBVIOUS
  <2>2. h.status = resp.status /\ h.ended = resp.ended
    BY <2>1, ResponseFacts DEF Flow!StaticHeaders
  <2>3. PICK n : n = Holding({File})[Asked.url]
    OBVIOUS
  <2>4. PICK b : b = Flow!SetBody(h, "file", n)
    OBVIOUS
  <2>5. b.status = h.status /\ b.body = "file" /\ b.ended = h.ended
    BY <2>4, ResponseFacts
  <2>6. PICK c : c = Flow!StaticCached(b)
    OBVIOUS
  <2>7. c.status = b.status /\ c.body = b.body /\ c.ended = b.ended
    BY <2>6, ResponseFacts DEF Flow!StaticCached
  <2>8. Flow!StaticBody = Flow!WithLength(c, n)
    BY <2>1, <2>3, <2>4, <2>6 DEF Flow!StaticBody
  <2> QED BY <2>2, <2>5, <2>7, <2>8, ResponseFacts
<1>10. /\ Flow!StaticNoBody.status = resp.status /\ Flow!StaticNoBody.body = resp.body
       /\ Flow!StaticNoBody.ended = resp.ended
  <2>1. PICK h : h = Flow!StaticHeaders
    OBVIOUS
  <2>2. /\ h.status = resp.status /\ h.body = resp.body /\ h.ended = resp.ended
    BY <2>1, ResponseFacts DEF Flow!StaticHeaders
  <2>3. Flow!StaticNoBody = Flow!WithLength(h, Holding({File})[Asked.url])
    BY <2>1 DEF Flow!StaticNoBody
  <2> QED BY <2>2, <2>3, ResponseFacts, SMTT(60)
<1>11. CASE ~Flow!FileTracked
  BY <1>1, <1>2, <1>5, <1>7, <1>11 DEF Unmodified
<1>12. CASE Flow!FileTracked /\ Flow!NotModified
  BY <1>1, <1>2, <1>6, <1>7, <1>8, <1>12
<1>13. CASE Flow!FileTracked /\ ~Flow!NotModified
  BY <1>1, <1>2, <1>6, <1>7, <1>9, <1>10, <1>13, BodiesFacts
<1> QED BY <1>11, <1>12, <1>13

\* The steps of processing_request(), of this server.
LEMMA FlowStep ==
  ASSUME FlowInv, pc # "respond", Flow!Processing, UNCHANGED <<saw, meaning>>
  PROVE  FlowInv' /\ pc \in Steps /\ pc' \in Steps \cup {"died"}
<1>u. Unmodified' <=> Unmodified
  BY DEF Unmodified, Asked
<1>b. Flow!Bodies' = Flow!Bodies
  BY DEF Flow!Bodies
<1>t. Flow!NoHandler = HandlerLeaving("none")
  BY DEF Flow!NoHandler, HandlerLeaving, Flow!Absent
<1>0. /\ resp.status \in {0, 304, 404} /\ resp.body \in Flow!Bodies /\ ~resp.ended
      /\ i \in {1, 2}
  BY DEF FlowInv
<1>1. CASE Flow!staticFile
  <2>1. /\ pc = "before" /\ pc' \in {"before", "died"} /\ i' = 2
        /\ pc' = "died" => resp'.status = 0
        /\ pc' = "before" => resp'.status = (IF Unmodified THEN 304 ELSE 0)
        /\ resp'.body \in Flow!Bodies /\ ~resp'.ended
    BY <1>1, StaticStep
  <2> QED BY <1>u, <1>b, <2>1 DEF FlowInv, Steps
<1>2. CASE Flow!beforeDone
  <2>1. pc = "before" /\ i > 1 /\ pc' = "route" /\ i' = 1 /\ UNCHANGED resp
    BY <1>0, <1>2 DEF Flow!beforeDone
  <2>2. resp.status = 304 <=> Unmodified
    BY <2>1 DEF FlowInv, Steps
  <2> QED BY <1>0, <1>u, <1>b, <2>1, <2>2 DEF FlowInv, Steps
<1>3. CASE Flow!routeMissing
  <2>1. pc = "route" /\ pc' = "notFound" /\ UNCHANGED <<i, resp>>
    BY <1>3 DEF Flow!routeMissing
  <2>2. resp.status = 304 <=> Unmodified
    BY <2>1 DEF FlowInv, Steps
  <2> QED BY <1>0, <1>u, <1>b, <2>1, <2>2 DEF FlowInv, Steps
<1>4. CASE Flow!NotFoundHandler
  <2>1. /\ pc = "notFound" /\ pc' = "after" /\ i' = 1
        /\ \/ resp.status # 0 /\ UNCHANGED resp
           \/ resp.status = 0 /\ resp' = Flow!WithStatus(Flow!SetBody(resp, "notFound", 3), 404)
    BY <1>4 DEF Flow!NotFoundHandler, Flow!isBodySet
  <2>2. resp.status = 304 <=> Unmodified
    BY <2>1 DEF FlowInv, Steps
  <2>3. CASE resp.status # 0
    BY <1>0, <1>u, <1>b, <2>1, <2>2, <2>3 DEF FlowInv, Steps
  <2>4. CASE resp.status = 0
    <3>1. resp'.status = 404 /\ resp'.body = "notFound" /\ resp'.ended = resp.ended
      <4>1. resp' = Flow!WithStatus(Flow!SetBody(resp, "notFound", 3), 404)
        BY <2>1, <2>4
      <4> QED BY <4>1, ResponseFacts
    <3> QED BY <1>0, <1>u, <1>b, <2>1, <2>2, <2>4, <3>1, BodiesFacts DEF FlowInv, Steps
  <2> QED BY <2>3, <2>4
<1>5. CASE Flow!MergeDefaultCommonHeaders
  <2>1. /\ pc = "after" /\ pc' = "respond" /\ i' = 1
        /\ resp' = Flow!WithHeaders(resp, Flow!DefaultHeaders, "default")
    BY <1>5 DEF Flow!MergeDefaultCommonHeaders
  <2>2. resp'.status = resp.status /\ resp'.body = resp.body /\ resp'.ended = resp.ended
    BY <2>1, ResponseFacts
  <2>3. resp.status = 304 <=> Unmodified
    BY <2>1 DEF FlowInv, Steps
  <2> QED BY <1>0, <1>u, <1>b, <2>1, <2>2, <2>3 DEF FlowInv, Steps
<1>6. ~(Flow!feedBefore \/ Flow!feedAfter)
  <2>1. Len(<<>>) = 0
    OBVIOUS
  <2>2. ~(i <= 0)
    BY <1>0
  <2> QED BY <2>1, <2>2 DEF Flow!feedBefore, Flow!feedAfter
<1>7. ~(Flow!routeFound \/ Flow!userNotFoundHandler \/ Flow!write_response)
  BY <1>t DEF Flow!routeFound, Flow!userNotFoundHandler, Flow!write_response
<1> QED BY <1>1, <1>2, <1>3, <1>4, <1>5, <1>6, <1>7 DEF Flow!Processing

-------------------------------------------------------------------------------
(***************************************************************************)
(* The responses of a connection.  Taken or not, they are one for each     *)
(* request answered, but for the one that is on its way.                   *)
(***************************************************************************)
Out == [ id : 0..MaxRequests, status : {0, 304, 404}, body : Flow!Bodies ]

\* How many requests have their response.
Due == IF Waiting THEN Len(answered) ELSE Len(answered) - 1

OrderInv ==
  /\ taken \in Seq(Out) /\ outbox \in Seq(Out)
  /\ ~Waiting => Handled
  /\ Handled => own.id = answered[Len(answered)].id
  /\ Len(taken \o outbox) = Due
  /\ \A k \in 1 .. Due : (taken \o outbox)[k].id = answered[k].id

\* What a step of the parser that answers nothing leaves alone.
LEMMA ParseStep ==
  ASSUME parse PROVE UNCHANGED <<answered, own, saw, pc, i, resp, meaning, outbox, taken>>
<1>1. UNCHANGED <<answered, own, saw>>
  <2>1. CASE URLArrives
    BY <2>1 DEF URLArrives, onURL
  <2>2. ASSUME NEW f \in Field, NEW part \in Parts, onHeaderField(f, part)
        PROVE  UNCHANGED <<answered, own, saw>>
    BY <2>2 DEF onHeaderField
  <2>3. ASSUME NEW part \in Parts, onHeaderValue(part)
        PROVE  UNCHANGED <<answered, own, saw>>
    BY <2>3 DEF onHeaderValue
  <2>4. CASE onHeaderCompelete
    BY <2>4 DEF onHeaderCompelete
  <2>5. ASSUME NEW l \in 1..MaxBody, onBody(l)
        PROVE  UNCHANGED <<answered, own, saw>>
    BY <2>5 DEF onBody
  <2>6. CASE Refuse
    BY <2>6 DEF Refuse
  <2>7. CASE lastChunk
    BY <2>7 DEF lastChunk
  <2> QED BY <2>1, <2>2, <2>3, <2>4, <2>5, <2>6, <2>7 DEF parse
<1> QED BY <1>1 DEF parse, flowVars

LEMMA FlowFrame ==
  ASSUME FlowInv, UNCHANGED <<pc, i, resp>>, pc = "idle" \/ UNCHANGED <<saw, meaning>>
  PROVE  FlowInv'
<1>1. Flow!Bodies' = Flow!Bodies
  BY DEF Flow!Bodies
<1>2. CASE pc = "idle"
  BY <1>1, <1>2 DEF FlowInv, Steps
<1>3. CASE UNCHANGED <<saw, meaning>>
  <2>1. Unmodified' <=> Unmodified
    BY <1>3 DEF Unmodified, Asked
  <2> QED BY <1>1, <2>1 DEF FlowInv, Steps
<1> QED BY <1>2, <1>3

LEMMA OrderFrame ==
  ASSUME OrderInv, UNCHANGED <<pc, answered, own, taken, outbox>> PROVE OrderInv'
<1>1. Out' = Out
  BY DEF Out, Flow!Bodies
<1>2. Due' = Due /\ (Waiting' <=> Waiting) /\ (Handled' <=> Handled)
  BY DEF Due, Waiting, Handled
<1> QED BY <1>1, <1>2 DEF OrderInv

\* finishCurrentRequest(): the request is answered next.
LEMMA FinishStep ==
  ASSUME FlowInv, OrderInv, TypeOK, Arriving, finish
  PROVE  FlowInv' /\ OrderInv'
<1>1. pc = "idle" /\ pc' = "before" /\ i' = 1 /\ UNCHANGED <<resp, outbox, taken>>
  BY DEF finish, Waiting, Flow!finishCurrentRequest
<1>2. PICK params \in SUBSET Names : onMessageComplete(params)
  BY DEF finish
<1>3. /\ answered' = Append(answered, [id |-> sent.id, headers |-> sent.headers])
      /\ own' = sent' /\ sent' = [sent EXCEPT !.params = params, !.trailing = FALSE]
  BY <1>2 DEF onMessageComplete
<1>4. sent \in Sent /\ answered \in Seq([id : Ids, headers : SUBSET Field])
  BY DEF TypeOK
<1>5. own'.id = sent.id
  BY <1>3, <1>4 DEF Sent
<1>6. /\ Len(answered') = Len(answered) + 1 /\ Len(answered) \in Nat
      /\ answered'[Len(answered')].id = sent.id
      /\ \A k \in 1 .. Len(answered) : answered'[k] = answered[k]
  BY <1>3, <1>4
<1>7. FlowInv'
  BY <1>1 DEF FlowInv, Steps, Flow!Bodies
<1>8. Waiting /\ ~Waiting' /\ Handled'
  BY <1>1, <1>6 DEF Waiting, Handled
<1>9. Due' = Due /\ Due = Len(answered)
  BY <1>6, <1>8 DEF Due
<1>10. Out' = Out
  BY DEF Out, Flow!Bodies
<1>11. \A k \in 1 .. Due : (taken' \o outbox')[k].id = answered'[k].id
  BY <1>1, <1>6, <1>9 DEF OrderInv
<1> QED
  BY <1>1, <1>5, <1>6, <1>7, <1>8, <1>9, <1>10, <1>11 DEF OrderInv

\* write(): the response goes behind those that are not taken yet.
LEMMA WriteStep ==
  ASSUME FlowInv, OrderInv, TypeOK, write
  PROVE  FlowInv' /\ OrderInv'
<1>1. /\ pc = "respond" /\ pc' = "idle" /\ resp' = Flow!NewResponse
      /\ outbox' = Append(outbox, Written)
      /\ UNCHANGED <<taken, answered, own, i>>
  BY DEF write, vars, Flow!write_response
<1>2. FlowInv'
  <2>1. Flow!Bodies' = Flow!Bodies
    BY DEF Flow!Bodies
  <2> QED BY <1>1, <2>1, NewResponseFacts, BodiesFacts DEF FlowInv, Steps
<1>3. Out' = Out
  BY DEF Out, Flow!Bodies
<1>4. taken \in Seq(Out) /\ outbox \in Seq(Out)
  BY DEF OrderInv
<1>5. Written \in Out /\ Written.id = own.id
  <2>1. own.id \in 0..MaxRequests
    BY DEF TypeOK, Sent
  <2> QED BY <2>1 DEF Written, Out, FlowInv
<1>6. outbox' \in Seq(Out) /\ taken' \in Seq(Out)
  BY <1>1, <1>4, <1>5
<1>7. taken' \o outbox' = Append(taken \o outbox, Written)
  <2>1. \A w \in Out : taken \o Append(outbox, w) = Append(taken \o outbox, w)
    BY <1>4
  <2> QED BY <1>1, <1>5, <2>1
<1>8. ~Waiting /\ Waiting' /\ Handled /\ Handled'
  BY <1>1 DEF Waiting, Handled, OrderInv
<1>9. Len(answered) \in Nat /\ Len(answered) # 0
  BY <1>8 DEF Handled, TypeOK
<1>10. Due' = Due + 1 /\ Due + 1 = Len(answered) /\ Due \in Nat
  BY <1>1, <1>8, <1>9 DEF Due
<1>a. taken \o outbox \in Seq(Out)
  BY <1>4
<1>11. PICK all \in Seq(Out) : all = taken \o outbox
  BY <1>a
<1>12. /\ Len(all) = Due
       /\ \A k \in 1 .. Due : all[k].id = answered[k].id
       /\ own.id = answered[Len(answered)].id
  BY <1>8, <1>11 DEF OrderInv
<1>13. Len(Append(all, Written)) = Due + 1
  BY <1>5, <1>12
<1>14. \A k \in 1 .. Due + 1 : Append(all, Written)[k].id = answered[k].id
  <2> SUFFICES ASSUME NEW k \in 1 .. Due + 1
               PROVE  Append(all, Written)[k].id = answered[k].id
    OBVIOUS
  <2>1. CASE k = Due + 1
    <3>1. Append(all, Written)[k] = Written
      BY <1>5, <1>12, <2>1
    <3> QED BY <1>5, <1>10, <1>12, <2>1, <3>1
  <2>2. CASE k # Due + 1
    <3>1. k \in 1 .. Due
      BY <1>10, <2>2
    <3>2. Append(all, Written)[k] = all[k]
      BY <1>5, <1>12, <3>1
    <3> QED BY <1>12, <3>1, <3>2
  <2> QED BY <2>1, <2>2
<1> QED
  BY <1>1, <1>2, <1>3, <1>6, <1>7, <1>8, <1>10, <1>11, <1>12, <1>13, <1>14 DEF OrderInv

\* out(): all there is goes over.
LEMMA OutStep ==
  ASSUME FlowInv, OrderInv, out PROVE FlowInv' /\ OrderInv'
<1>1. /\ taken' = taken \o outbox /\ outbox' = <<>>
      /\ UNCHANGED <<pc, i, resp, saw, meaning, answered, own>>
  BY DEF out, vars, flowVars
<1>2. FlowInv'
  BY <1>1, FlowFrame
<1>3. Out' = Out
  BY DEF Out, Flow!Bodies
<1>4. Due' = Due /\ (Waiting' <=> Waiting) /\ (Handled' <=> Handled)
  BY <1>1 DEF Due, Waiting, Handled
<1>a. taken \o outbox \in Seq(Out)
  BY DEF OrderInv
<1>5. PICK all \in Seq(Out) : all = taken \o outbox
  BY <1>a
<1>6. all \o <<>> = all /\ <<>> \in Seq(Out)
  OBVIOUS
<1> QED
  BY <1>1, <1>2, <1>3, <1>4, <1>5, <1>6 DEF OrderInv

\* reset(): no response of a request before it is left.
LEMMA ResetAllStep ==
  ASSUME FlowInv, OrderInv, resetAll PROVE FlowInv' /\ OrderInv'
<1>1. /\ pc = "idle" /\ taken' = <<>> /\ outbox' = <<>> /\ answered' = <<>>
      /\ UNCHANGED <<pc, i, resp, meaning>>
  BY DEF resetAll, flowVars, Waiting, reset, OutboxCleared
<1>2. FlowInv'
  BY <1>1, FlowFrame
<1>3. Waiting' /\ ~Handled' /\ Due' = 0
  BY <1>1 DEF Waiting, Handled, Due
<1>4. <<>> \in Seq(Out') /\ <<>> \o <<>> = <<>> /\ Len(<<>>) = 0
  OBVIOUS
<1> QED
  BY <1>1, <1>2, <1>3, <1>4 DEF OrderInv

LEMMA OrderInductive ==
  TypeOK /\ Arriving /\ FlowInv /\ OrderInv /\ [AllNext]_allVars => FlowInv' /\ OrderInv'
<1> SUFFICES ASSUME TypeOK, Arriving, FlowInv, OrderInv, [AllNext]_allVars
             PROVE  FlowInv' /\ OrderInv'
  OBVIOUS
<1>1. CASE parse
  <2>1. pc = "idle" /\ UNCHANGED <<answered, own, saw, pc, i, resp, meaning, outbox, taken>>
    BY <1>1, ParseStep DEF parse, Waiting
  <2> QED BY <2>1, FlowFrame, OrderFrame
<1>2. CASE finish
  BY <1>2, FinishStep
<1>3. CASE process
  <2>1. /\ pc # "respond" /\ Flow!Processing
        /\ UNCHANGED <<saw, meaning, answered, own, outbox, taken>>
    BY <1>3 DEF process, vars
  <2>2. FlowInv' /\ pc \in Steps /\ pc' \in Steps \cup {"died"}
    BY <2>1, FlowStep
  <2>3. ~Waiting /\ ~Waiting'
    BY <2>2 DEF Steps, Waiting
  <2>4. Due' = Due /\ (Handled' <=> Handled) /\ Out' = Out
    BY <2>1, <2>3 DEF Due, Handled, Out, Flow!Bodies
  <2> QED BY <2>1, <2>2, <2>3, <2>4 DEF OrderInv
<1>4. CASE write
  BY <1>4, WriteStep
<1>5. CASE out
  BY <1>5, OutStep
<1>6. CASE resetAll
  BY <1>6, ResetAllStep
<1>7. CASE UNCHANGED allVars
  BY <1>7, FlowFrame, OrderFrame DEF allVars, vars, flowVars
<1> QED BY <1>1, <1>2, <1>3, <1>4, <1>5, <1>6, <1>7 DEF AllNext

LEMMA OrderInvariant == AllSpec => [](TypeOK /\ FlowInv /\ OrderInv)
<1>1. AllInit => FlowInv /\ OrderInv
  <2> SUFFICES ASSUME AllInit PROVE FlowInv /\ OrderInv
    OBVIOUS
  <2>1. /\ pc = "idle" /\ i = 1 /\ resp = Flow!NewResponse
        /\ outbox = <<>> /\ taken = <<>> /\ answered = <<>>
    BY DEF AllInit, Init
  <2>2. FlowInv
    BY <2>1, NewResponseFacts, BodiesFacts DEF FlowInv, Steps
  <2>3. Waiting /\ ~Handled /\ Due = 0
    BY <2>1 DEF Waiting, Handled, Due
  <2>4. <<>> \in Seq(Out) /\ <<>> \o <<>> = <<>> /\ Len(<<>>) = 0
    OBVIOUS
  <2> QED BY <2>1, <2>2, <2>3, <2>4 DEF OrderInv
<1> QED
  BY <1>1, OrderInductive, ParserImplemented, Arrival, PTL DEF AllSpec

\* Whoever takes responses out of a RawWhs, whenever it does, gets one for each
\* request that was complete since the last reset(), in their order (write()
\* appends to the buffer out() empties, and reset() clears).
THEOREM OrderCorrect == AllSpec => []ResponsesInOrder
<1>1. TypeOK /\ OrderInv => ResponsesInOrder
  <2> SUFFICES ASSUME TypeOK, OrderInv PROVE ResponsesInOrder
    OBVIOUS
  <2>1. answered \in Seq([id : Ids, headers : SUBSET Field]) /\ Len(answered) \in Nat
    BY DEF TypeOK
  <2>2. Due \in Nat /\ Due <= Len(answered)
    <3>1. CASE Waiting
      BY <2>1, <3>1 DEF Due
    <3>2. CASE ~Waiting
      <4>1. Len(answered) # 0
        BY <2>1, <3>2 DEF OrderInv, Handled
      <4> QED BY <2>1, <3>2, <4>1 DEF Due
    <3> QED BY <3>1, <3>2
  <2>3. PICK first : first = SubSeq(answered, 1, Due)
    OBVIOUS
  <2>4. Len(first) = Due /\ \A k \in 1 .. Due : first[k] = answered[k]
    BY <2>1, <2>2, <2>3
  <2>5. PICK all : all = taken \o outbox
    OBVIOUS
  <2>6. Len(all) = Due /\ \A k \in 1 .. Due : all[k].id = answered[k].id
    BY <2>5 DEF OrderInv
  <2>7. Identified(all) = Identified(first)
    BY <2>4, <2>6 DEF Identified
  <2> QED BY <2>3, <2>5, <2>7 DEF ResponsesInOrder, Due
<1> QED BY <1>1, OrderInvariant, PTL

-------------------------------------------------------------------------------
(***************************************************************************)
(* Which parts are kept.  Of a URL the last, of a header's value the first *)
(* (the second of one comes when the first is there); so it is in what a   *)
(* handler is given.                                                       *)
(***************************************************************************)
LastParts(n) == {<<n, "all">>, <<n, "tail">>}
NoTail(r) == \A f \in Field : r.headers[f][2] # "tail"

Kept ==
  /\ InFlight /\ phase # "urlTail" => current.url \in LastParts(sent.id)
  /\ phase = "valueTail" => current.headers[currentHeaderField] # NoText
  /\ NoTail(current)

KeptForHandler == Handled => saw.url \in LastParts(own.id) /\ NoTail(saw)

KeptInv == Kept /\ KeptForHandler

LEMMA KeptNothing == NoTail(NewRequest)
BY DEF NoTail, NewRequest, NoText

LEMMA KeptInductive == TypeOK /\ Arriving /\ KeptInv /\ [Next]_vars => KeptInv'
<1> SUFFICES ASSUME TypeOK, Arriving, KeptInv, [Next]_vars PROVE KeptInv'
  OBVIOUS
<1> USE DEF InFlight
<1>1. ASSUME NEW part \in Parts, NEW q \in SUBSET Names, NEW marks \in BOOLEAN,
             NEW parses \in BOOLEAN, onURL(part, q, marks, parses)
      PROVE  KeptInv'
  <2>1. InFlight => sent.id \in Ids
    BY DEF Arriving
  <2>2. /\ phase' \in {"failed", "urlTail", "fields"} /\ current'.url = <<sent'.id, part>>
        /\ phase' = "fields" => part # "head"
        /\ current'.headers = current.headers
    BY <1>1, <2>1, URLStep
  <2>3. UNCHANGED <<answered, own, saw>>
    BY <1>1 DEF onURL
  <2>4. phase' = "fields" => part \in {"all", "tail"}
    BY <2>2 DEF Parts
  <2> QED
    BY <2>2, <2>3, <2>4 DEF KeptInv, Kept, KeptForHandler, LastParts, NoTail, Handled
<1>2. ASSUME NEW f \in Field, NEW part \in Parts, onHeaderField(f, part)
      PROVE  KeptInv'
  <2>1. /\ phase \in {"fields", "fieldTail"} /\ phase' \in {"fieldTail", "value"}
        /\ sent'.id = sent.id /\ UNCHANGED <<current, answered, own, saw>>
    BY <1>2, HeaderFieldStep
  <2> QED
    BY <2>1 DEF KeptInv, Kept, KeptForHandler, Handled
<1>3. ASSUME NEW part \in Parts, onHeaderValue(part)
      PROVE  KeptInv'
  <2> DEFINE f == currentHeaderField
             e == EmplaceHeader(current.headers, f, <<sent.id, part>>)
  <2>1. sent.id \in Ids /\ f \in Field
    BY <1>3 DEF TypeOK, Sent, onHeaderValue, Arriving
  <2>2. /\ phase \in {"value", "valueTail"} /\ phase' \in {"valueTail", "fields"}
        /\ sent'.id = sent.id /\ current'.url = current.url /\ current'.headers = e
        /\ part = "tail" => phase = "valueTail"
        /\ UNCHANGED <<currentHeaderField, answered, own, saw>>
    BY <1>3, <2>1, HeaderValueStep
  <2>3. /\ <<sent.id, part>> \in Text /\ <<sent.id, part>> # NoText
        /\ current.headers \in [Field -> Text \cup {NoText}]
    BY <2>1, TextFacts DEF TypeOK, Request
  <2>4. /\ \A g \in Field : g # f => e[g] = current.headers[g]
        /\ e[f] = IF current.headers[f] = NoText THEN <<sent.id, part>> ELSE current.headers[f]
    BY <2>1, <2>3, EmplaceHeaderFacts
  <2>5. e[f] # NoText
    BY <2>3, <2>4
  <2>6. part = "tail" => current.headers[f] # NoText
    BY <2>2 DEF KeptInv, Kept
  <2>7. \A g \in Field : current.headers[g][2] # "tail"
    BY DEF KeptInv, Kept, NoTail
  <2>8. e[f][2] # "tail"
    BY <2>1, <2>4, <2>6, <2>7
  <2> HIDE DEF e, f
  <2>9. NoTail(current)'
    BY <2>2, <2>4, <2>7, <2>8 DEF NoTail
  <2>10. current'.headers[currentHeaderField'] # NoText
    BY <2>2, <2>5 DEF f
  <2> QED
    BY <2>2, <2>9, <2>10 DEF KeptInv, Kept, KeptForHandler, Handled
<1>4. CASE onHeaderCompelete
  <2>1. /\ phase = "fields" /\ phase' = "body" /\ current'.headers = current.headers
        /\ current'.url = current.url
        /\ UNCHANGED <<sent, currentHeaderField, answered, own, saw>>
    BY <1>4, HeaderCompleteStep
  <2> QED
    BY <2>1 DEF KeptInv, Kept, KeptForHandler, NoTail, Handled
<1>5. ASSUME NEW l \in 1..MaxBody, onBody(l)
      PROVE  KeptInv'
  <2>1. sent.id \in Ids /\ bodyLength = sent.body
    BY <1>5 DEF onBody, Arriving
  <2>2. /\ phase = "body" /\ phase' = "body" /\ sent'.id = sent.id
        /\ UNCHANGED <<current, answered, own, saw>>
    BY <1>5, <2>1, BodyStep
  <2> QED
    BY <2>2 DEF KeptInv, Kept, KeptForHandler, Handled
<1>6. ASSUME NEW params \in SUBSET Names, onMessageComplete(params)
      PROVE  KeptInv'
  <2>1. sent.id \in Ids /\ bodyLength = sent.body
    BY <1>6 DEF onMessageComplete, Arriving
  <2>2. /\ phase \in {"body", "fields"} /\ phase' = "ready" /\ saw' = current'
        /\ own' = sent' /\ sent'.id = sent.id
        /\ current'.headers = current.headers /\ current'.url = current.url
    BY <1>6, <2>1, MessageStep
  <2>3. current.url \in LastParts(sent.id) /\ NoTail(current)
    BY <2>2 DEF KeptInv, Kept
  <2>4. NoTail(current') /\ NoTail(saw')
    BY <2>2, <2>3 DEF NoTail
  <2> QED
    BY <2>2, <2>3, <2>4 DEF KeptInv, Kept, KeptForHandler
<1>7. CASE Refuse
  BY <1>7 DEF Refuse, KeptInv, Kept, KeptForHandler, Handled
<1>8. CASE reset
  BY <1>8, ResetStep, KeptNothing DEF KeptInv, Kept, KeptForHandler, Handled
<1>9. CASE UNCHANGED vars
  BY <1>9 DEF vars, KeptInv, Kept, KeptForHandler, Handled
<1>10. CASE lastChunk
  <2>1. /\ phase = "body" /\ phase' = "fields" /\ sent'.id = sent.id
        /\ UNCHANGED <<current, currentHeaderField, answered, own, saw>>
    BY <1>10, LastChunkStep
  <2> QED
    BY <2>1 DEF KeptInv, Kept, KeptForHandler, Handled
<1> QED
  BY <1>1, <1>2, <1>3, <1>4, <1>5, <1>6, <1>7, <1>8, <1>9, <1>10 DEF Next, URLArrives

LEMMA KeptInvariant == Spec => [](TypeOK /\ KeptInv)
<1>1. Init => KeptInv
  BY KeptNothing DEF Init, KeptInv, Kept, KeptForHandler, InFlight, Handled
<1> QED
  BY <1>1, KeptInductive, Arrival, PTL DEF Spec

-------------------------------------------------------------------------------
(***************************************************************************)
(* If-None-Match.                                                          *)
(***************************************************************************)
Named == meaning \in Meanings

\* 304 goes out exactly if what came last of the request's URL is the path of the
\* file, and what came first of the earliest If-None-Match since the last reset(), a
\* part or all of it, agrees with the etag, whatever this request sends and
\* whatever the texts mean: the parser keeps the last part of a URL and the first
\* of a header (parser.cpp:63-66, 86-100; entity.h, emplace), and of the
\* middlewares only StaticFileServer gives 304 (static.cpp:260-269).
THEOREM ConditionCorrect == AllSpec => []EarliestConditionDecides
<1>1. AllSpec => []Named
  <2>1. AllInit => Named
    BY DEF AllInit, Named
  <2>2. Named /\ [AllNext]_allVars => Named'
    BY DEF Named, AllNext, parse, finish, process, write, out, resetAll, allVars
  <2> QED BY <2>1, <2>2, PTL DEF AllSpec
<1>2. TypeOK /\ KeptInv /\ FlowInv /\ OrderInv /\ HeadersFirstWin /\ Named
        => EarliestConditionDecides
  <2> SUFFICES ASSUME TypeOK, KeptInv, FlowInv, OrderInv, HeadersFirstWin, Named,
                      pc = "respond"
               PROVE  EarliestConditionDecides
    BY DEF EarliestConditionDecides
  <2> DEFINE senders == {k \in 1 .. Len(answered) : Condition \in answered[k].headers}
             earliest == answered[EarliestWith(senders)].id
             kept == saw.headers[Condition]
  <2>1. Handled
    BY DEF OrderInv, Waiting
  <2>2. Condition \in Field
    BY KeepAliveAssumption DEF Field
  <2>3. kept[1] = IF senders = {} THEN 0 ELSE earliest
    BY <2>1, <2>2 DEF HeadersFirstWin
  <2>4. /\ meaning.file \subseteq Text /\ meaning.short \subseteq Text
        /\ meaning.naming \subseteq Text
    BY KeepAliveAssumption DEF Named
  <2>5. resp.status = 304 <=> Unmodified
    BY DEF FlowInv, Steps
  <2>6. Unmodified <=> saw.url \in meaning.file /\ kept \in meaning.naming
    BY DEF Unmodified, Asked, File, Short, Elsewhere
  <2>7. saw.url \in {<<own.id, "all">>, <<own.id, "tail">>} /\ kept[2] # "tail"
    BY <2>1, <2>2 DEF KeptInv, KeptForHandler, LastParts, NoTail
  <2>8. kept \in Text \cup {NoText}
    BY <2>2 DEF TypeOK, Request
  <2> HIDE DEF kept
  <2>9. kept \in Text => kept[1] \in Ids /\ kept = <<kept[1], kept[2]>> /\ kept[2] \in Parts
    BY DEF Text
  <2>10. kept \in Text => senders # {} /\ kept \in {<<earliest, "all">>, <<earliest, "head">>}
    <3>1. 0 \notin Ids
      BY TextFacts
    <3> HIDE DEF senders, earliest
    <3> QED BY <2>3, <2>7, <2>9, <3>1 DEF Parts
  <2>11. kept \in meaning.naming =>
           senders # {} /\ kept \in {<<earliest, "all">>, <<earliest, "head">>}
    BY <2>4, <2>10
  <2>12. resp.status = 304 <=>
           /\ saw.url \in {<<own.id, "all">>, <<own.id, "tail">>} \cap meaning.file
           /\ senders # {}
           /\ kept \in {<<earliest, "all">>, <<earliest, "head">>} \cap meaning.naming
    BY ONLY <2>5, <2>6, <2>7, <2>11
  <2> QED BY <2>12 DEF EarliestConditionDecides, kept
<1> QED
  BY <1>1, <1>2, OrderInvariant, ParserOfConnection, ParserImplemented, KeptInvariant, PTL

===============================================================================
