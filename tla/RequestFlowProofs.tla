-------------------------- MODULE RequestFlowProofs --------------------------
(***************************************************************************)
(* Proofs about RequestFlow, for every application: any handlers, any      *)
(* pipelines, any files that change at any time.  What a middleware of the *)
(* application can do to a response is stated in two lemmas about Wrote    *)
(* and Call; the invariants follow the response from step to step.  The    *)
(* last part is about the response itself, module Response: the map of its *)
(* headers, for any names and values and whatever the orders of the names. *)
(***************************************************************************)
EXTENDS RequestFlow, Response, FiniteSets, FiniteSetTheorems, WellFoundedInduction, TLAPS

LEMMA HandlerTypes ==
  /\ \A h \in Handlers : h \in Handler
  /\ \A p \in Pipelines : \A k \in 1 .. Len(p) : p[k] \in Handlers
  /\ \A h \in NotFounds : h \in Handlers
BY HandlersAssumption, PipelinesAssumption, NotFoundsAssumption

\* AddHeaders only fills what is empty.
LEMMA AddHeadersFacts ==
  ASSUME NEW hs \in [HeaderNames -> Writers], NEW names \in SUBSET HeaderNames, NEW who \in Writers
  PROVE  /\ AddHeaders(hs, names, who) \in [HeaderNames -> Writers]
         /\ \A n \in HeaderNames : hs[n] # "" => AddHeaders(hs, names, who)[n] = hs[n]
         /\ \A n \in HeaderNames \cap names :
              who # "" => AddHeaders(hs, names, who)[n] # ""
BY DEF AddHeaders

LEMMA AddLengthFacts ==
  ASSUME NEW l \in Sizes, NEW n \in Nat
  PROVE  /\ AddLength(l, n) \in Sizes /\ AddLength(l, n) # Absent
         /\ l # Absent => AddLength(l, n) = l
         /\ l = Absent => AddLength(l, n) = n
BY DEF AddLength, Sizes, Absent

\* setBody() on any response.
LEMMA SetBodyFacts ==
  ASSUME NEW r \in Response, NEW who \in Bodies, NEW n \in Nat
  PROVE  LET b == SetBody(r, who, n)
         IN  /\ b \in Response
             /\ b.status = r.status /\ b.body = who /\ b.ended = r.ended
             /\ b.length # Absent /\ b.given = r.given
             /\ r.length # Absent => b.length = r.length
             /\ r.length = Absent => b.length = b.size \/ b.length >= UIntRange
             /\ \A k \in HeaderNames : r.headers[k] # "" => b.headers[k] = r.headers[k]
<1> DEFINE hs == AddHeaders(r.headers, {"ContentType"}, "default")
           l  == AddLength(r.length, n)
<1>1. r.headers \in [HeaderNames -> Writers] /\ r.length \in Sizes /\ r.status \in Nat
      /\ r.ended \in BOOLEAN /\ r.given \in BOOLEAN
  BY DEF Response
<1>2. "default" \in Writers /\ {"ContentType"} \in SUBSET HeaderNames
  BY DEF Writers, HeaderNames
<1>3. /\ hs \in [HeaderNames -> Writers]
      /\ \A k \in HeaderNames : r.headers[k] # "" => hs[k] = r.headers[k]
  BY <1>1, <1>2, AddHeadersFacts
<1>4. /\ l \in Sizes /\ l # Absent
      /\ r.length # Absent => l = r.length
      /\ r.length = Absent => l = n
  BY <1>1, AddLengthFacts
<1>5. n % UIntRange \in Nat /\ (n < UIntRange => n % UIntRange = n)
  BY SizesAssumption
<1>6. n < UIntRange \/ n >= UIntRange
  BY SizesAssumption
<1> HIDE DEF hs, l
<1>7. SetBody(r, who, n) = [ status |-> r.status, body |-> who, size |-> n % UIntRange,
                             length |-> l, given |-> r.given, headers |-> hs,
                             ended |-> r.ended ]
  BY DEF SetBody, hs, l
<1>8. l \in Sizes
  BY <1>4
<1> DEFINE b == SetBody(r, who, n)
<1>9. /\ b.status = r.status /\ b.body = who /\ b.size = n % UIntRange
      /\ b.length = l /\ b.headers = hs /\ b.ended = r.ended /\ b.given = r.given
  BY <1>7
<1>10. b \in Response
  <2>1. /\ r.status \in Nat /\ who \in Bodies /\ n % UIntRange \in Nat /\ l \in Sizes
        /\ hs \in [HeaderNames -> Writers] /\ r.ended \in BOOLEAN /\ r.given \in BOOLEAN
    BY <1>1, <1>3, <1>5, <1>8
  <2>2. b = [ status |-> r.status, body |-> who, size |-> n % UIntRange,
              length |-> l, given |-> r.given, headers |-> hs, ended |-> r.ended ]
    BY <1>7
  <2> HIDE DEF b
  <2> QED
    BY ONLY <2>1, <2>2 DEF Response
<1> HIDE DEF b
<1>11. \A k \in HeaderNames : r.headers[k] # "" => b.headers[k] = r.headers[k]
  BY <1>3, <1>9
<1>12. r.length = Absent => b.length = b.size \/ b.length >= UIntRange
  BY <1>4, <1>5, <1>6, <1>9
<1>13. b.length # Absent /\ (r.length # Absent => b.length = r.length)
  BY <1>4, <1>9
<1> QED
  BY <1>9, <1>10, <1>11, <1>12, <1>13 DEF b

LEMMA WithStatusFacts ==
  ASSUME NEW r \in Response, NEW s \in Nat
  PROVE  /\ WithStatus(r, s) \in Response
         /\ WithStatus(r, s).status = s
         /\ WithStatus(r, s).body = r.body /\ WithStatus(r, s).size = r.size
         /\ WithStatus(r, s).length = r.length /\ WithStatus(r, s).headers = r.headers
         /\ WithStatus(r, s).ended = r.ended /\ WithStatus(r, s).given = r.given
BY DEF WithStatus, Response

LEMMA WithHeadersFacts ==
  ASSUME NEW r \in Response, NEW names \in SUBSET HeaderNames, NEW who \in Writers
  PROVE  LET w == WithHeaders(r, names, who)
         IN  /\ w \in Response
             /\ w.status = r.status /\ w.body = r.body /\ w.size = r.size
             /\ w.length = r.length /\ w.ended = r.ended /\ w.given = r.given
             /\ \A n \in HeaderNames : r.headers[n] # "" => w.headers[n] = r.headers[n]
             /\ \A n \in HeaderNames \cap names : who # "" => w.headers[n] # ""
<1> DEFINE hs == AddHeaders(r.headers, names, who)
<1>1. r.headers \in [HeaderNames -> Writers]
  BY DEF Response
<1>2. /\ hs \in [HeaderNames -> Writers]
      /\ \A n \in HeaderNames : r.headers[n] # "" => hs[n] = r.headers[n]
      /\ \A n \in HeaderNames \cap names : who # "" => hs[n] # ""
  BY <1>1, AddHeadersFacts
<1> HIDE DEF hs
<1>3. WithHeaders(r, names, who) =
        [ status |-> r.status, body |-> r.body, size |-> r.size, length |-> r.length,
          given |-> r.given, headers |-> hs, ended |-> r.ended ]
  BY DEF WithHeaders, hs
<1> DEFINE w == WithHeaders(r, names, who)
<1>4. /\ w.status = r.status /\ w.body = r.body /\ w.size = r.size
      /\ w.length = r.length /\ w.headers = hs /\ w.ended = r.ended /\ w.given = r.given
  BY <1>3
<1>5. w \in Response
  <2>1. /\ r.status \in Nat /\ r.body \in Bodies /\ r.size \in Nat /\ r.length \in Sizes
        /\ r.ended \in BOOLEAN /\ r.given \in BOOLEAN
    BY DEF Response
  <2>2. w = [ status |-> r.status, body |-> r.body, size |-> r.size, length |-> r.length,
              given |-> r.given, headers |-> hs, ended |-> r.ended ]
    BY <1>3
  <2> HIDE DEF w
  <2> QED
    BY ONLY <1>2, <2>1, <2>2 DEF Response
<1> HIDE DEF w
<1>6. /\ \A n \in HeaderNames : r.headers[n] # "" => w.headers[n] = r.headers[n]
      /\ \A n \in HeaderNames \cap names : who # "" => w.headers[n] # ""
  BY <1>2, <1>4
<1> QED
  BY <1>4, <1>5, <1>6 DEF w

LEMMA WithLengthFacts ==
  ASSUME NEW r \in Response, NEW n \in Nat
  PROVE  LET w == WithLength(r, n)
         IN  /\ w \in Response
             /\ w.status = r.status /\ w.body = r.body /\ w.size = r.size
             /\ w.headers = r.headers /\ w.ended = r.ended /\ w.given = r.given
             /\ w.length # Absent
             /\ r.length # Absent => w.length = r.length
<1>1. r.length \in Sizes
  BY DEF Response
<1>2. /\ AddLength(r.length, n) \in Sizes /\ AddLength(r.length, n) # Absent
      /\ r.length # Absent => AddLength(r.length, n) = r.length
  BY <1>1, AddLengthFacts
<1> QED
  BY <1>2 DEF WithLength, Response

LEMMA GivenLengthFacts ==
  ASSUME NEW h \in Handler, NEW r \in Response
  PROVE  LET w == GivenLength(h, r)
         IN  /\ w \in Response
             /\ w.status = r.status /\ w.body = r.body /\ w.size = r.size
             /\ w.headers = r.headers /\ w.ended = r.ended
             /\ r.given => w.given
             /\ h.length = Absent => w.length = r.length
             /\ ~w.given => w.length = r.length
             /\ r.length # Absent => w.length # Absent
<1>1. h.length \in Sizes /\ h.assigns \in BOOLEAN
  BY DEF Handler
<1>2. Gives(h, r) \in BOOLEAN /\ (Gives(h, r) => h.length # Absent)
  BY DEF Gives
<1> DEFINE l == IF Gives(h, r) THEN h.length ELSE r.length
           g == r.given \/ Gives(h, r)
<1>3. r.length \in Sizes /\ r.given \in BOOLEAN /\ r.headers \in [HeaderNames -> Writers]
      /\ r.status \in Nat /\ r.body \in Bodies /\ r.size \in Nat /\ r.ended \in BOOLEAN
  BY DEF Response
<1>4. l \in Sizes /\ g \in BOOLEAN
  BY <1>1, <1>2, <1>3
<1>5. /\ r.given => g
      /\ h.length = Absent => l = r.length
      /\ ~g => l = r.length
      /\ r.length # Absent => l # Absent
  BY <1>2
<1> HIDE DEF l, g
<1> DEFINE w == GivenLength(h, r)
<1>6. w = [ status |-> r.status, body |-> r.body, size |-> r.size, length |-> l,
            given |-> g, headers |-> r.headers, ended |-> r.ended ]
  BY DEF GivenLength, l, g
<1> HIDE DEF w
<1>7. w \in Response
  BY ONLY <1>3, <1>4, <1>6 DEF Response
<1>8. /\ w.status = r.status /\ w.body = r.body /\ w.size = r.size /\ w.length = l
      /\ w.headers = r.headers /\ w.ended = r.ended /\ w.given = g
  BY ONLY <1>6
<1> QED BY <1>5, <1>7, <1>8 DEF w

\* What any middleware of the application has done to the response it was given.
LEMMA WroteFacts ==
  ASSUME NEW h \in Handler, NEW r \in Response
  PROVE  LET w == Wrote(h, r)
         IN  /\ w \in Response
             /\ h.status = Absent => w.status = r.status
             /\ h.status # Absent => w.status = h.status
             /\ h.body = Absent => w.body = r.body /\ w.size = r.size
             /\ h.body # Absent =>
                  /\ w.body = "handler" /\ w.length # Absent
                  /\ ~w.given /\ r.length = Absent => w.length = w.size \/ w.length >= UIntRange
             /\ h.body = Absent /\ h.length = Absent => w.length = r.length
             /\ r.given => w.given
             /\ ~w.given /\ (h.body = Absent \/ r.length # Absent) => w.length = r.length
             /\ r.length # Absent => w.length # Absent
             /\ \A n \in HeaderNames : r.headers[n] # "" => w.headers[n] = r.headers[n]
<1> DEFINE e == WithHeaders(r, h.headers, "handler")
           a == GivenLength(h, e)
           b == IF h.body = Absent THEN a ELSE SetBody(a, "handler", h.body)
           c == IF h.status = Absent THEN b ELSE WithStatus(b, h.status)
<1>1. /\ h.status # Absent => h.status \in Nat
      /\ h.body # Absent => h.body \in Nat
      /\ h.ends \in BOOLEAN
  BY DEF Handler
<1>2. /\ e \in Response /\ e.status = r.status /\ e.body = r.body /\ e.size = r.size
      /\ e.length = r.length /\ e.given = r.given
      /\ \A n \in HeaderNames : r.headers[n] # "" => e.headers[n] = r.headers[n]
  <2>1. "handler" \in Writers /\ h.headers \in SUBSET HeaderNames
    BY DEF Writers, Handler
  <2> QED
    BY <2>1, WithHeadersFacts
<1> HIDE DEF e
<1>2a. /\ a \in Response /\ a.status = e.status /\ a.body = e.body /\ a.size = e.size
       /\ a.headers = e.headers
       /\ e.given => a.given
       /\ h.length = Absent => a.length = e.length
       /\ ~a.given => a.length = e.length
       /\ e.length # Absent => a.length # Absent
  <2>1. e \in Response
    BY <1>2
  <2> QED BY ONLY <2>1, h \in Handler, GivenLengthFacts
<1>2b. /\ a \in Response /\ a.status = r.status /\ a.body = r.body /\ a.size = r.size
       /\ r.given => a.given
       /\ h.length = Absent => a.length = r.length
       /\ ~a.given => a.length = r.length
       /\ r.length # Absent => a.length # Absent
       /\ \A n \in HeaderNames : r.headers[n] # "" => a.headers[n] = r.headers[n]
  BY <1>2, <1>2a
<1> HIDE DEF a
<1>3. /\ b \in Response /\ b.status = r.status /\ b.given = a.given
      /\ h.body = Absent => b.body = r.body /\ b.size = r.size /\ b.length = a.length
      /\ h.body # Absent =>
           /\ b.body = "handler" /\ b.length # Absent
           /\ a.length = Absent => b.length = b.size \/ b.length >= UIntRange
      /\ a.length # Absent => b.length = a.length
      /\ \A n \in HeaderNames : r.headers[n] # "" => b.headers[n] = r.headers[n]
  <2>1. CASE h.body = Absent
    BY <2>1, <1>2b
  <2>2. CASE h.body # Absent
    <3> DEFINE s == SetBody(a, "handler", h.body)
    <3>1. /\ s \in Response
          /\ s.status = a.status /\ s.body = "handler"
          /\ s.length # Absent /\ s.given = a.given
          /\ a.length # Absent => s.length = a.length
          /\ a.length = Absent => s.length = s.size \/ s.length >= UIntRange
          /\ \A k \in HeaderNames : a.headers[k] # "" => s.headers[k] = a.headers[k]
      <4>1. "handler" \in Bodies /\ h.body \in Nat
        BY <2>2, <1>1 DEF Bodies
      <4>2. a \in Response
        BY <1>2b
      <4> QED
        BY ONLY <4>1, <4>2, SetBodyFacts, ZenonT(60)
    <3> HIDE DEF s
    <3>2. b = s
      BY <2>2 DEF s
    <3> HIDE DEF b
    <3> QED
      BY <3>1, <3>2, <1>2b, <2>2
  <2> QED
    BY <2>1, <2>2
<1> HIDE DEF b
<1>4. /\ c \in Response /\ c.body = b.body /\ c.size = b.size /\ c.length = b.length
      /\ c.headers = b.headers /\ c.given = b.given
      /\ h.status = Absent => c.status = b.status
      /\ h.status # Absent => c.status = h.status
  BY <1>1, <1>3, WithStatusFacts
<1> HIDE DEF c
<1>5. Wrote(h, r) = Ended(c, h.ends)
  BY DEF Wrote, a, b, c, e
<1> DEFINE w == Ended(c, h.ends)
<1>6. /\ w \in Response
      /\ w.status = c.status /\ w.body = c.body /\ w.size = c.size
      /\ w.length = c.length /\ w.headers = c.headers /\ w.given = c.given
  BY <1>1, <1>4 DEF Ended, Response
<1> HIDE DEF w
<1>7. Wrote(h, r) = w
  BY <1>5 DEF w
<1>8. /\ \A n \in HeaderNames : r.headers[n] # "" => w.headers[n] = r.headers[n]
      /\ h.status = Absent => w.status = r.status
      /\ h.status # Absent => w.status = h.status
  BY <1>3, <1>4, <1>6
<1>9. w.given = a.given /\ w.length = b.length /\ w.size = b.size /\ w.body = b.body
  BY <1>3, <1>4, <1>6
<1>10. /\ h.body = Absent => w.body = r.body /\ w.size = r.size
       /\ h.body # Absent =>
            /\ w.body = "handler" /\ w.length # Absent
            /\ ~w.given /\ r.length = Absent => w.length = w.size \/ w.length >= UIntRange
       /\ h.body = Absent /\ h.length = Absent => w.length = r.length
       /\ r.given => w.given
       /\ ~w.given /\ (h.body = Absent \/ r.length # Absent) => w.length = r.length
       /\ r.length # Absent => w.length # Absent
  BY <1>2b, <1>3, <1>9
<1> QED
  BY <1>6, <1>7, <1>8, <1>10

LEMMA CountedFacts ==
  ASSUME sets \in Nat, lost \in Nat, NEW n \in 0 .. 2, NEW d \in Nat, Counted(n, d)
  PROVE  /\ sets' \in Nat /\ lost' \in Nat
         /\ sets' = sets + n
         /\ n = 0 => lost' = lost + d
         /\ n = 1 /\ sets = 0 => lost' = lost + d
BY DEF Counted

\* A step that calls a middleware of the application.
LEMMA CallFacts ==
  ASSUME resp \in Response, sets \in Nat, lost \in Nat,
         NEW h \in Handler, NEW next, NEW p \in Nat \ {0}, Call(h, next, p)
  PROVE  /\ resp' \in Response /\ sets' \in Nat /\ lost' \in Nat /\ i' \in Nat \ {0}
         /\ pc' \in {next, "respond", "died"}
         /\ sets' \in {sets, sets + 1, sets + 2}
         /\ sets' = sets =>
              resp'.body = resp.body /\ resp'.size = resp.size /\ lost' = lost
         /\ sets' # sets => resp'.body \in {"handler", "error"} /\ resp'.length # Absent
         /\ ~resp'.given /\ resp.length = Absent /\ sets' = sets + 1 =>
              resp'.length = resp'.size \/ resp'.length >= UIntRange
         /\ sets = 0 /\ sets' = 1 => lost' = lost
         /\ resp.given => resp'.given
         /\ ~resp'.given /\ (sets' = sets \/ resp.length # Absent) => resp'.length = resp.length
         /\ resp.length # Absent => resp'.length # Absent
         /\ \A n \in HeaderNames : resp.headers[n] # "" => resp'.headers[n] = resp.headers[n]
         /\ \/ resp'.body = "error" /\ pc' = "respond"
            \/ pc' = "died"
            \/ /\ pc' = next /\ i' = p
               /\ resp'.status = IF h.status = Absent THEN resp.status ELSE h.status
<1> DEFINE w == Wrote(h, resp)
<1>1. /\ w \in Response
      /\ h.status = Absent => w.status = resp.status
      /\ h.status # Absent => w.status = h.status
      /\ h.body = Absent => w.body = resp.body /\ w.size = resp.size
      /\ h.body # Absent =>
           /\ w.body = "handler" /\ w.length # Absent
           /\ ~w.given /\ resp.length = Absent => w.length = w.size \/ w.length >= UIntRange
      /\ resp.given => w.given
      /\ ~w.given /\ (h.body = Absent \/ resp.length # Absent) => w.length = resp.length
      /\ resp.length # Absent => w.length # Absent
      /\ \A n \in HeaderNames : resp.headers[n] # "" => w.headers[n] = resp.headers[n]
  BY WroteFacts
<1> HIDE DEF w
<1>2. /\ BodiesOf(h) \in 0 .. 1
      /\ h.body = Absent <=> BodiesOf(h) = 0
  BY DEF BodiesOf
<1>3. CASE /\ resp' = w /\ Counted(BodiesOf(h), 0)
           /\ \/ Returns(h) /\ pc' = next /\ i' = p
              \/ pc' = "died" /\ i' = 1
  <2>1. /\ sets' \in Nat /\ lost' \in Nat
        /\ sets' = sets + BodiesOf(h)
        /\ BodiesOf(h) = 0 => lost' = lost
        /\ BodiesOf(h) = 1 /\ sets = 0 => lost' = lost
    BY <1>2, <1>3, CountedFacts
  <2>2. resp' = w
    BY <1>3
  <2>3. /\ resp' \in Response
        /\ \A n \in HeaderNames : resp.headers[n] # "" => resp'.headers[n] = resp.headers[n]
        /\ resp.given => resp'.given
        /\ resp.length # Absent => resp'.length # Absent
    BY <1>1, <2>2
  <2>4. /\ sets' \in {sets, sets + 1, sets + 2}
        /\ sets' = sets <=> h.body = Absent
        /\ sets' = sets => lost' = lost
        /\ sets = 0 /\ sets' = 1 => lost' = lost
    BY <1>2, <2>1
  <2>5. /\ sets' = sets =>
             resp'.body = resp.body /\ resp'.size = resp.size
        /\ sets' # sets => resp'.body \in {"handler", "error"} /\ resp'.length # Absent
        /\ ~resp'.given /\ sets' # sets /\ resp.length = Absent =>
             resp'.length = resp'.size \/ resp'.length >= UIntRange
        /\ ~resp'.given /\ (sets' = sets \/ resp.length # Absent) => resp'.length = resp.length
    <3>1. sets' = sets <=> h.body = Absent
      BY <2>4
    <3>2. CASE h.body = Absent
      BY ONLY <1>1, <2>2, <3>1, <3>2
    <3>3. CASE h.body # Absent
      BY ONLY <1>1, <2>2, <3>1, <3>3
    <3> QED
      BY ONLY <3>2, <3>3
  <2>6. resp'.status = IF h.status = Absent THEN resp.status ELSE h.status
    BY <1>1, <2>2
  <2>7. i' \in Nat \ {0} /\ pc' \in {next, "respond", "died"}
    BY <1>3
  <2>8. pc' = "died" \/ (pc' = next /\ i' = p)
    BY <1>3
  <2>9. sets' = sets + 1 => sets' # sets
    BY <2>1
  <2> HIDE DEF w
  <2> QED
    BY ONLY <2>1, <2>9, <2>3, <2>4, <2>5, <2>6, <2>7, <2>8
<1>4. CASE /\ \E s \in ExceptionStatuses(h) :
                resp' = WithStatus(SetBody(w, "error", ErrorSize), s)
           /\ Counted(BodiesOf(h) + 1, 0) /\ pc' = "respond" /\ i' = 1
  <2> DEFINE b == SetBody(w, "error", ErrorSize)
  <2>1. PICK s \in ExceptionStatuses(h) : resp' = WithStatus(b, s)
    BY <1>4
  <2>2. s \in Nat
    BY SizesAssumption DEF ExceptionStatuses
  <2>3. /\ b \in Response
        /\ b.body = "error" /\ b.length # Absent /\ b.given = w.given
        /\ w.length # Absent => b.length = w.length
        /\ w.length = Absent => b.length = b.size \/ b.length >= UIntRange
        /\ \A k \in HeaderNames : w.headers[k] # "" => b.headers[k] = w.headers[k]
    <3>1. "error" \in Bodies /\ ErrorSize \in Nat
      BY SizesAssumption DEF Bodies
    <3>2. w \in Response
      BY <1>1
    <3> QED
      BY ONLY <3>1, <3>2, SetBodyFacts, ZenonT(60)
  <2> HIDE DEF b
  <2>4. /\ resp' \in Response /\ resp'.body = "error" /\ resp'.size = b.size
        /\ resp'.length = b.length /\ resp'.headers = b.headers /\ resp'.given = b.given
    BY <2>1, <2>2, <2>3, WithStatusFacts, ZenonT(60)
  <2>5. /\ sets' \in Nat /\ lost' \in Nat
        /\ sets' = sets + BodiesOf(h) + 1
        /\ BodiesOf(h) = 0 /\ sets = 0 => lost' = lost
    <3>1. BodiesOf(h) + 1 \in 0 .. 2
      BY <1>2
    <3> QED
      BY <1>2, <1>4, <3>1, CountedFacts
  <2>6. \A n \in HeaderNames : resp.headers[n] # "" => resp'.headers[n] = resp.headers[n]
    BY <1>1, <2>3, <2>4
  <2>7. sets' \in {sets + 1, sets + 2} /\ (sets = 0 /\ sets' = 1 => lost' = lost)
    BY <1>2, <2>5
  <2>8. sets' = sets + 1 => h.body = Absent
    BY <1>2, <2>5
  <2>9. sets' # sets
    BY <2>7
  <2>10. ~resp'.given /\ resp.length = Absent /\ sets' = sets + 1 =>
           resp'.length = resp'.size \/ resp'.length >= UIntRange
    BY <1>1, <2>3, <2>4, <2>8
  <2>11. /\ resp.given => resp'.given
         /\ ~resp'.given /\ resp.length # Absent => resp'.length = resp.length
    BY <1>1, <2>3, <2>4
  <2>12. resp'.length # Absent
    BY <2>3, <2>4
  <2>13. resp' \in Response /\ resp'.body = "error" /\ pc' = "respond" /\ i' = 1
    BY <1>4, <2>4
  <2>14. sets' \in Nat /\ lost' \in Nat /\ i' \in Nat \ {0}
    BY <1>4, <2>5
  <2> QED
    BY ONLY <2>6, <2>7, <2>9, <2>10, <2>11, <2>12, <2>13, <2>14
<1> QED
  BY <1>3, <1>4 DEF Call, w
-------------------------------------------------------------------------------
(***************************************************************************)
(* What StaticFileServer makes of a response.                              *)
(***************************************************************************)
LEMMA StaticFacts ==
  ASSUME resp \in Response, FileTracked, files \in [Paths -> Nat \cup {Absent}]
  PROVE  /\ /\ StaticNotModified \in Response /\ StaticNotModified.status = 304
            /\ StaticNotModified.body = resp.body /\ StaticNotModified.size = resp.size
            /\ StaticNotModified.length = resp.length
            /\ StaticNotModified.given = resp.given
            /\ \A n \in HeaderNames :
                 resp.headers[n] # "" => StaticNotModified.headers[n] = resp.headers[n]
         /\ /\ StaticBody \in Response /\ StaticBody.status = resp.status
            /\ StaticBody.body = "file" /\ StaticBody.length # Absent
            /\ StaticBody.given = resp.given
            /\ resp.length # Absent => StaticBody.length = resp.length
            /\ resp.length = Absent =>
                 StaticBody.length = StaticBody.size \/ StaticBody.length >= UIntRange
            /\ \A n \in HeaderNames :
                 resp.headers[n] # "" => StaticBody.headers[n] = resp.headers[n]
         /\ /\ StaticNoBody \in Response /\ StaticNoBody.status = resp.status
            /\ StaticNoBody.body = resp.body /\ StaticNoBody.size = resp.size
            /\ StaticNoBody.length # Absent /\ StaticNoBody.given = resp.given
            /\ resp.length # Absent => StaticNoBody.length = resp.length
            /\ \A n \in HeaderNames :
                 resp.headers[n] # "" => StaticNoBody.headers[n] = resp.headers[n]
<1>1. files[request.url] \in Nat
  BY DEF FileTracked
<1>2. /\ "file" \in Writers /\ "file" \in Bodies
      /\ {"ContentType", "Etag"} \in SUBSET HeaderNames /\ {"CacheControl"} \in SUBSET HeaderNames
  BY DEF Writers, Bodies, HeaderNames
<1> DEFINE a == StaticHeaders
<1>3. /\ a \in Response /\ a.status = resp.status /\ a.body = resp.body /\ a.size = resp.size
      /\ a.length = resp.length /\ a.given = resp.given
      /\ \A n \in HeaderNames : resp.headers[n] # "" => a.headers[n] = resp.headers[n]
  BY <1>2, WithHeadersFacts, ZenonT(60) DEF StaticHeaders
<1> DEFINE f == SetBody(a, "file", files[request.url])
<1>4. /\ f \in Response /\ f.status = a.status /\ f.body = "file"
      /\ f.length # Absent /\ f.given = a.given
      /\ a.length # Absent => f.length = a.length
      /\ a.length = Absent => f.length = f.size \/ f.length >= UIntRange
      /\ \A k \in HeaderNames : a.headers[k] # "" => f.headers[k] = a.headers[k]
  <2>1. a \in Response
    BY <1>3
  <2> HIDE DEF a
  <2> QED
    BY ONLY <1>1, <1>2, <2>1, SetBodyFacts, ZenonT(60)
<1>5. ASSUME NEW r \in Response
      PROVE  /\ StaticCached(r) \in Response /\ StaticCached(r).status = r.status
             /\ StaticCached(r).body = r.body /\ StaticCached(r).size = r.size
             /\ StaticCached(r).length = r.length /\ StaticCached(r).given = r.given
             /\ \A n \in HeaderNames :
                  r.headers[n] # "" => StaticCached(r).headers[n] = r.headers[n]
  BY <1>2, WithHeadersFacts, ZenonT(60) DEF StaticCached
<1>6. /\ StaticNotModified \in Response /\ StaticNotModified.status = 304
      /\ StaticNotModified.body = resp.body /\ StaticNotModified.size = resp.size
      /\ StaticNotModified.length = resp.length /\ StaticNotModified.given = resp.given
      /\ \A n \in HeaderNames :
           resp.headers[n] # "" => StaticNotModified.headers[n] = resp.headers[n]
  <2> HIDE DEF a
  <2>1. StaticNotModified = WithStatus(StaticCached(a), 304)
    BY DEF StaticNotModified, a
  <2>2. /\ StaticCached(a) \in Response /\ StaticCached(a).body = a.body
        /\ StaticCached(a).size = a.size /\ StaticCached(a).length = a.length
        /\ StaticCached(a).given = a.given
        /\ \A n \in HeaderNames : a.headers[n] # "" => StaticCached(a).headers[n] = a.headers[n]
    BY <1>3, <1>5
  <2> DEFINE c == StaticCached(a)
  <2> HIDE DEF c
  <2>3. c \in Response
    BY <2>2 DEF c
  <2>4. StaticNotModified = WithStatus(c, 304)
    BY <2>1 DEF c
  <2>5. /\ StaticNotModified \in Response /\ StaticNotModified.status = 304
        /\ StaticNotModified.body = c.body /\ StaticNotModified.size = c.size
        /\ StaticNotModified.length = c.length /\ StaticNotModified.headers = c.headers
        /\ StaticNotModified.given = c.given
    BY ONLY <2>3, <2>4, WithStatusFacts
  <2>6. \A n \in HeaderNames :
          resp.headers[n] # "" => StaticNotModified.headers[n] = resp.headers[n]
    <3>1. \A n \in HeaderNames : a.headers[n] # "" => c.headers[n] = a.headers[n]
      BY <2>2 DEF c
    <3>2. StaticNotModified.headers = c.headers
      BY ONLY <2>5
    <3>3. \A n \in HeaderNames : resp.headers[n] # "" => a.headers[n] = resp.headers[n]
      BY <1>3
    <3> QED
      BY ONLY <3>1, <3>2, <3>3
  <2>7. /\ StaticNotModified.body = resp.body /\ StaticNotModified.size = resp.size
        /\ StaticNotModified.length = resp.length /\ StaticNotModified.given = resp.given
    BY <1>3, <2>2, <2>5 DEF c
  <2> QED
    BY ONLY <2>5, <2>6, <2>7
<1>7. /\ StaticBody \in Response /\ StaticBody.status = resp.status
      /\ StaticBody.body = "file" /\ StaticBody.size = f.size
      /\ StaticBody.length = f.length /\ StaticBody.given = resp.given
      /\ \A n \in HeaderNames :
           resp.headers[n] # "" => StaticBody.headers[n] = resp.headers[n]
  <2>1. StaticBody = WithLength(StaticCached(f), files[request.url])
    BY DEF StaticBody
  <2> HIDE DEF f, a
  <2>2. /\ StaticCached(f) \in Response /\ StaticCached(f).status = f.status
        /\ StaticCached(f).body = f.body
        /\ StaticCached(f).size = f.size /\ StaticCached(f).length = f.length
        /\ StaticCached(f).given = f.given
        /\ \A n \in HeaderNames : f.headers[n] # "" => StaticCached(f).headers[n] = f.headers[n]
    BY <1>4, <1>5
  <2>3. f.length # Absent
    BY <1>4
  <2> DEFINE c == StaticCached(f)
  <2> HIDE DEF c
  <2>4. c \in Response /\ StaticBody = WithLength(c, files[request.url])
    BY <2>1, <2>2 DEF c
  <2>5. /\ StaticBody \in Response
        /\ StaticBody.status = c.status /\ StaticBody.body = c.body
        /\ StaticBody.size = c.size /\ StaticBody.headers = c.headers
        /\ StaticBody.given = c.given
        /\ c.length # Absent => StaticBody.length = c.length
    BY ONLY <1>1, <2>4, WithLengthFacts
  <2> QED
    BY <1>3, <1>4, <2>2, <2>3, <2>5, ZenonT(60) DEF c
<1>8. /\ StaticNoBody \in Response /\ StaticNoBody.status = resp.status
      /\ StaticNoBody.body = resp.body /\ StaticNoBody.size = resp.size
      /\ StaticNoBody.length # Absent /\ StaticNoBody.given = resp.given
      /\ resp.length # Absent => StaticNoBody.length = resp.length
      /\ \A n \in HeaderNames :
           resp.headers[n] # "" => StaticNoBody.headers[n] = resp.headers[n]
  <2> HIDE DEF a
  <2>1. StaticNoBody = WithLength(a, files[request.url])
    BY DEF StaticNoBody, a
  <2>2. a \in Response
    BY <1>3
  <2>3. /\ StaticNoBody \in Response
        /\ StaticNoBody.status = a.status /\ StaticNoBody.body = a.body
        /\ StaticNoBody.size = a.size /\ StaticNoBody.headers = a.headers
        /\ StaticNoBody.given = a.given /\ StaticNoBody.length # Absent
        /\ a.length # Absent => StaticNoBody.length = a.length
    BY ONLY <1>1, <2>1, <2>2, WithLengthFacts
  <2>4. \A n \in HeaderNames : resp.headers[n] # "" => StaticNoBody.headers[n] = resp.headers[n]
    BY <1>3, <2>3
  <2> QED
    BY <1>3, <2>3, <2>4
<1>9. /\ resp.length # Absent => StaticBody.length = resp.length
      /\ StaticBody.length # Absent
      /\ resp.length = Absent =>
           StaticBody.length = StaticBody.size \/ StaticBody.length >= UIntRange
  <2> HIDE DEF f, a
  <2> QED
    BY <1>3, <1>4, <1>7
<1> QED
  BY ONLY <1>6, <1>7, <1>8, <1>9
-------------------------------------------------------------------------------
(***************************************************************************)
(* Type correctness                                                        *)
(***************************************************************************)
LEMMA InitTypes == Init => TypeOK
<1>1. NewResponse \in Response
  BY DEF NewResponse, Response, Bodies, Sizes, Writers
<1>2. \A n \in FileSizes \cup {Absent} : Tracked(n) \in Nat \cup {Absent}
  BY SizesAssumption DEF Tracked, Absent
<1> QED
  BY <1>1, <1>2 DEF Init, TypeOK

\* What TypeOK says of the application's middlewares.
LEMMA MiddlewareTypes ==
  ASSUME TypeOK
  PROVE  /\ \A k \in 1 .. Len(before) : before[k] \in Handler
         /\ \A k \in 1 .. Len(after) : after[k] \in Handler
         /\ target # NoHandler => target \in Handler
         /\ notFound # NoHandler => notFound \in Handler
         /\ Len(before) \in Nat /\ Len(after) \in Nat
<1>1. before \in Seq(Handlers) /\ after \in Seq(Handlers)
  BY PipelinesAssumption DEF TypeOK
<1> QED
  BY <1>1, HandlersAssumption, NotFoundsAssumption DEF TypeOK

\* The typed facts about Call, for the actions that use it.
LEMMA CallTypes ==
  ASSUME TypeOK, NEW h \in Handler, NEW next \in {"before", "after"}, NEW p \in Nat \ {0},
         Call(h, next, p), UNCHANGED <<config, disk, request, target>>
  PROVE  TypeOK'
<1>1. resp \in Response /\ sets \in Nat /\ lost \in Nat
  BY DEF TypeOK
<1>2. /\ resp' \in Response /\ sets' \in Nat /\ lost' \in Nat /\ i' \in Nat \ {0}
      /\ pc' \in {next, "respond", "died"}
  BY ONLY <1>1, h \in Handler, p \in Nat \ {0}, Call(h, next, p), CallFacts
<1>3. pc' \in {"idle", "before", "route", "notFound", "after", "respond", "died"}
  BY <1>2
<1> HIDE DEF Call
<1> QED
  BY <1>2, <1>3 DEF TypeOK, config

LEMMA StaticFileTypes ==
  ASSUME TypeOK, staticFile
  PROVE  resp' \in Response /\ sets' \in Nat /\ lost' \in Nat /\ i' \in Nat \ {0}
<1>1. resp \in Response /\ sets \in Nat /\ lost \in Nat /\ i \in Nat \ {0}
      /\ files \in [Paths -> Nat \cup {Absent}]
  BY DEF TypeOK
<1>2. i' \in Nat \ {0}
  BY <1>1 DEF staticFile
<1>3. CASE ~FileTracked
  BY <1>1, <1>2, <1>3 DEF staticFile
<1>4. CASE FileTracked
  <2>1. /\ StaticNotModified \in Response /\ StaticBody \in Response
        /\ StaticNoBody \in Response
    BY ONLY <1>1, <1>4, StaticFacts
  <2>2. resp' \in {resp, StaticNotModified, StaticBody, StaticNoBody}
    BY DEF staticFile
  <2>3. \/ UNCHANGED <<sets, lost>>
        \/ Counted(1, 0) \/ Counted(0, 1)
    BY DEF staticFile
  <2>4. sets' \in Nat /\ lost' \in Nat
    BY <1>1, <2>3 DEF Counted
  <2> QED
    BY ONLY <1>1, <1>2, <2>1, <2>2, <2>4
<1> QED
  BY <1>3, <1>4

LEMMA TypeInductive == TypeOK /\ [Next]_vars => TypeOK'
<1> SUFFICES ASSUME TypeOK, [Next]_vars PROVE TypeOK'
  OBVIOUS
<1> USE MiddlewareTypes
<1>1. ASSUME finishCurrentRequest PROVE TypeOK'
  BY <1>1 DEF finishCurrentRequest, TypeOK, config
<1>2. ASSUME feedBefore PROVE TypeOK'
  <2>1. before[i] \in Handler /\ i + 1 \in Nat \ {0}
    BY <1>2 DEF feedBefore, TypeOK
  <2> QED
    BY <1>2, <2>1, CallTypes DEF feedBefore
<1>3. ASSUME staticFile PROVE TypeOK'
  <2>1. resp' \in Response /\ sets' \in Nat /\ lost' \in Nat /\ i' \in Nat \ {0}
    BY <1>3, StaticFileTypes
  <2>2. pc' \in {"before", "died"} /\ UNCHANGED <<config, disk, request, target>>
    BY <1>3 DEF staticFile
  <2> QED
    BY <2>1, <2>2 DEF TypeOK, config
<1>4. ASSUME beforeDone PROVE TypeOK'
  BY <1>4 DEF beforeDone, TypeOK, config
<1>5. ASSUME routeFound PROVE TypeOK'
  <2>1. target \in Handler
    BY <1>5 DEF routeFound
  <2>2. CASE target.leaves # "notFound"
    BY <1>5, <2>1, <2>2, CallTypes DEF routeFound
  <2>3. CASE target.leaves = "notFound"
    <3>1. resp \in Response /\ sets \in Nat /\ lost \in Nat
      BY DEF TypeOK
    <3>2. Wrote(target, resp) \in Response
      BY ONLY <2>1, <3>1, WroteFacts
    <3>3. /\ resp' = Wrote(target, resp) /\ Counted(BodiesOf(target), 0)
          /\ pc' = "notFound" /\ UNCHANGED i
          /\ UNCHANGED <<config, disk, request, target>>
      BY <1>5, <2>3 DEF routeFound
    <3>4. sets' \in Nat /\ lost' \in Nat
      BY <3>1, <3>3 DEF Counted, BodiesOf
    <3>5. resp' \in Response
      BY <3>2, <3>3
    <3> QED
      BY <3>3, <3>4, <3>5 DEF TypeOK, config
  <2> QED
    BY <2>2, <2>3
<1>6. ASSUME routeMissing PROVE TypeOK'
  BY <1>6 DEF routeMissing, TypeOK, config
<1>7. ASSUME NotFoundHandler PROVE TypeOK'
  <2>1. resp \in Response /\ sets \in Nat /\ lost \in Nat
    BY DEF TypeOK
  <2> DEFINE b == SetBody(resp, "notFound", NotFoundSize)
  <2>2. b \in Response
    <3>1. "notFound" \in Bodies /\ NotFoundSize \in Nat
      BY SizesAssumption DEF Bodies
    <3> QED
      BY ONLY <2>1, <3>1, SetBodyFacts
  <2> HIDE DEF b
  <2>3. WithStatus(b, 404) \in Response
    BY ONLY <2>2, WithStatusFacts
  <2>4. resp' \in {resp, WithStatus(b, 404)}
    BY <1>7 DEF NotFoundHandler, b
  <2>5. UNCHANGED <<sets, lost>> \/ Counted(1, 0)
    BY <1>7 DEF NotFoundHandler
  <2>6. sets' \in Nat /\ lost' \in Nat
    BY <2>1, <2>5 DEF Counted
  <2>7. resp' \in Response
    BY ONLY <2>1, <2>3, <2>4
  <2> QED
    BY <1>7, <2>6, <2>7 DEF NotFoundHandler, TypeOK, config
<1>8. ASSUME userNotFoundHandler PROVE TypeOK'
  BY <1>8, CallTypes DEF userNotFoundHandler
<1>9. ASSUME feedAfter PROVE TypeOK'
  <2>1. after[i] \in Handler /\ i + 1 \in Nat \ {0}
    BY <1>9 DEF feedAfter, TypeOK
  <2> QED
    BY <1>9, <2>1, CallTypes DEF feedAfter
<1>10. ASSUME MergeDefaultCommonHeaders PROVE TypeOK'
  <2>1. resp \in Response
    BY DEF TypeOK
  <2>2. "default" \in Writers /\ DefaultHeaders \in SUBSET HeaderNames
    BY DEF Writers, DefaultHeaders, HeaderNames
  <2>3. WithHeaders(resp, DefaultHeaders, "default") \in Response
    BY ONLY <2>1, <2>2, WithHeadersFacts
  <2>4. resp' \in Response
    BY <1>10, <2>3 DEF MergeDefaultCommonHeaders
  <2> QED
    BY <1>10, <2>4 DEF MergeDefaultCommonHeaders, TypeOK, config
<1>11. ASSUME write_response PROVE TypeOK'
  <2>1. NewResponse \in Response
    BY DEF NewResponse, Response, Bodies, Sizes, Writers
  <2> QED
    BY <1>11, <2>1 DEF write_response, TypeOK, config
<1>12. ASSUME fileChanges PROVE TypeOK'
  BY <1>12 DEF fileChanges, TypeOK, config
<1>13. CASE UNCHANGED vars
  BY <1>13 DEF vars, TypeOK
<1> QED
  BY <1>1, <1>2, <1>3, <1>4, <1>5, <1>6, <1>7, <1>8, <1>9, <1>10, <1>11, <1>12, <1>13
     DEF Next, Processing

\* Every variable keeps its type, for every application.
THEOREM TypeCorrect == Spec => []TypeOK
BY InitTypes, TypeInductive, PTL DEF Spec
-------------------------------------------------------------------------------
(***************************************************************************)
(* The length, the lost buffers and the status, followed through the steps *)
(***************************************************************************)
Idle == pc = "idle" => resp = NewResponse /\ sets = 0 /\ lost = 0

\* StaticFileServer has not run yet.
BeforeStatic == pc = "before" /\ i <= Len(before) + 1

\* Without a body only StaticFileServer or a handler that gives one itself has set
\* a length, and only the buffer of an unreadable file is lost.
NoBodyYet ==
  sets = 0 =>
    /\ resp.body = "none" /\ resp.size = 0
    /\ resp.length # Absent => FileTracked \/ resp.given
    /\ BeforeStatic => resp.length = Absent \/ resp.given

OneBody ==
  sets = 1 =>
    /\ resp.length # Absent
    /\ \/ resp.length = resp.size
       \/ resp.length >= UIntRange
       \/ FileTracked /\ resp.body # "file"
       \/ resp.given

Lost ==
  /\ BeforeStatic => resp.body # "file" /\ (sets <= 1 => lost = 0)
  /\ sets <= 1 /\ lost > 0 =>
       FileTracked /\ request.method = "GET" /\ ~NotModified /\ resp.body # "file"

LengthInv == Idle /\ NoBodyYet /\ OneBody /\ Lost

\* What TypeOK says of a step's numbers, for the arithmetic.
LEMMA Numbers ==
  ASSUME TypeOK
  PROVE  /\ resp \in Response /\ sets \in Nat /\ lost \in Nat /\ i \in Nat \ {0}
         /\ resp.length \in Sizes /\ resp.size \in Nat
BY DEF TypeOK, Response

\* The steps that call a middleware of the application preserve LengthInv.
LEMMA CallLength ==
  ASSUME TypeOK, LengthInv, NEW h \in Handler, NEW next \in {"before", "after"},
         NEW p \in Nat \ {0}, Call(h, next, p), pc \in {"before", "route", "notFound", "after"},
         next = "before" => BeforeStatic,
         UNCHANGED <<config, disk, request, target>>
  PROVE  LengthInv'
<1>1. resp \in Response /\ sets \in Nat /\ lost \in Nat
  BY Numbers
<1>2. /\ resp' \in Response /\ sets' \in Nat /\ lost' \in Nat
      /\ pc' \in {next, "respond", "died"}
      /\ sets' \in {sets, sets + 1, sets + 2}
      /\ sets' = sets =>
           resp'.body = resp.body /\ resp'.size = resp.size /\ lost' = lost
      /\ sets' # sets => resp'.body \in {"handler", "error"} /\ resp'.length # Absent
      /\ ~resp'.given /\ resp.length = Absent /\ sets' = sets + 1 =>
           resp'.length = resp'.size \/ resp'.length >= UIntRange
      /\ sets = 0 /\ sets' = 1 => lost' = lost
      /\ resp.given => resp'.given
      /\ ~resp'.given /\ (sets' = sets \/ resp.length # Absent) =>
           resp'.length = resp.length
      /\ resp.length # Absent => resp'.length # Absent
  BY ONLY <1>1, h \in Handler, p \in Nat \ {0}, Call(h, next, p), CallFacts
<1> HIDE DEF Call
<1>3. /\ FileTracked' <=> FileTracked
      /\ NotModified' <=> NotModified
      /\ request' = request
  BY DEF FileTracked, NotModified, config
<1>4. pc' # "idle" /\ (BeforeStatic' => BeforeStatic)
  BY <1>2 DEF BeforeStatic
<1>5. Idle'
  BY <1>4 DEF Idle
<1>6. CASE sets' = sets
  <2>1. NoBodyYet'
    BY <1>2, <1>3, <1>4, <1>6 DEF LengthInv, NoBodyYet
  <2>2. OneBody'
    BY <1>2, <1>3, <1>6 DEF LengthInv, OneBody
  <2>3. Lost'
    BY <1>2, <1>3, <1>4, <1>6 DEF LengthInv, Lost
  <2> QED
    BY <1>5, <2>1, <2>2, <2>3 DEF LengthInv
<1>7. CASE sets' # sets /\ sets = 0 /\ sets' = 1
  <2>1. resp'.body \in {"handler", "error"} /\ resp'.length # Absent /\ lost' = lost
    BY <1>2, <1>7
  <2>2. OneBody'
    <3>1. resp'.length # Absent
      BY <2>1
    <3>2. CASE resp.length = Absent
      BY <1>2, <1>7, <3>1, <3>2 DEF OneBody
    <3>3. CASE resp.length # Absent
      BY <1>2, <1>3, <1>7, <2>1, <3>1, <3>3 DEF OneBody, LengthInv, NoBodyYet
    <3> QED
      BY <3>2, <3>3
  <2>3. Lost'
    BY <1>3, <1>4, <1>7, <2>1 DEF Lost, LengthInv
  <2> QED
    BY <1>5, <1>7, <2>2, <2>3 DEF LengthInv, NoBodyYet
<1>8. CASE sets' > 1 /\ sets' # sets
  BY <1>5, <1>2, <1>8 DEF LengthInv, NoBodyYet, OneBody, Lost
<1> QED
  BY <1>1, <1>2, <1>6, <1>7, <1>8

LEMMA StaticLength ==
  ASSUME TypeOK, LengthInv, staticFile
  PROVE  LengthInv'
<1>1. resp \in Response /\ sets \in Nat /\ lost \in Nat /\ i \in Nat \ {0}
      /\ files \in [Paths -> Nat \cup {Absent}] /\ Len(before) \in Nat
  BY MiddlewareTypes DEF TypeOK
<1>2. /\ FileTracked' <=> FileTracked
      /\ NotModified' <=> NotModified
      /\ request' = request /\ pc' # "idle" /\ BeforeStatic /\ ~BeforeStatic'
  BY <1>1 DEF FileTracked, NotModified, BeforeStatic, staticFile, config
<1>3. Idle'
  BY <1>2 DEF Idle
<1>4. CASE UNCHANGED <<resp, sets, lost>>
  BY <1>2, <1>3, <1>4 DEF LengthInv, NoBodyYet, OneBody, Lost
<1>5. CASE FileTracked /\ ~UNCHANGED <<resp, sets, lost>>
  <2>1. /\ /\ StaticNotModified.body = resp.body /\ StaticNotModified.size = resp.size
           /\ StaticNotModified.length = resp.length
           /\ StaticNotModified.given = resp.given
        /\ /\ StaticBody.body = "file" /\ StaticBody.length # Absent
           /\ StaticBody.given = resp.given
           /\ resp.length = Absent =>
                StaticBody.length = StaticBody.size \/ StaticBody.length >= UIntRange
        /\ /\ StaticNoBody.body = resp.body /\ StaticNoBody.size = resp.size
           /\ StaticNoBody.length # Absent /\ StaticNoBody.given = resp.given
           /\ resp.length # Absent => StaticNoBody.length = resp.length
    BY ONLY <1>1, <1>5, StaticFacts
  <2>2. CASE NotModified /\ resp' = StaticNotModified /\ UNCHANGED <<sets, lost>>
    BY <1>2, <1>3, <2>1, <2>2 DEF LengthInv, NoBodyYet, OneBody, Lost
  <2>3. CASE /\ request.method = "GET" /\ ~NotModified
             /\ resp' = StaticBody /\ Counted(1, 0)
    <3>1. sets' = sets + 1 /\ (sets = 0 => lost' = lost)
      BY <1>1, <2>3 DEF Counted
    <3>2. CASE sets = 0
      <4>1. (resp.length = Absent \/ resp.given) /\ lost = 0
        BY <1>1, <1>2, <3>2 DEF LengthInv, NoBodyYet, Lost
      <4>2. resp'.length # Absent
        BY <2>1, <2>3
      <4>3. resp'.length = resp'.size \/ resp'.length >= UIntRange \/ resp'.given
        BY <2>1, <2>3, <4>1
      <4>4. sets' = 1 /\ lost' = 0
        BY <3>1, <3>2, <4>1
      <4> QED
        BY <1>2, <1>3, <4>2, <4>3, <4>4 DEF LengthInv, NoBodyYet, OneBody, Lost
    <3>3. CASE sets # 0
      BY <1>1, <1>2, <1>3, <3>1, <3>3 DEF LengthInv, NoBodyYet, OneBody, Lost
    <3> QED
      BY <3>2, <3>3
  <2>4. CASE /\ resp' = StaticNoBody
             /\ \/ request.method = "GET" /\ ~NotModified /\ Counted(0, 1)
                \/ UNCHANGED <<sets, lost>>
    <3>1. sets' = sets
      BY <1>1, <2>4 DEF Counted
    <3>2. \/ lost' = lost
          \/ lost' = lost + 1 /\ request.method = "GET" /\ ~NotModified
      BY <1>1, <2>4 DEF Counted
    <3>3. NoBodyYet'
      BY <1>2, <1>5, <2>1, <2>4, <3>1 DEF NoBodyYet, LengthInv
    <3>4. OneBody'
      BY <1>2, <2>1, <2>4, <3>1 DEF OneBody, LengthInv
    <3>5. resp.body # "file" /\ (sets <= 1 => lost = 0)
      BY <1>2 DEF LengthInv, Lost
    <3>6. resp'.body # "file"
      BY <2>1, <2>4, <3>5
    <3>7. Lost'
      BY <1>2, <1>5, <3>1, <3>2, <3>5, <3>6 DEF Lost
    <3> QED
      BY <1>3, <3>3, <3>4, <3>7 DEF LengthInv
  <2> QED
    BY <1>5, <2>2, <2>3, <2>4 DEF staticFile
<1> QED
  BY <1>4, <1>5 DEF staticFile

LEMMA FreshLength ==
  /\ NewResponse.body = "none" /\ NewResponse.size = 0
  /\ NewResponse.length = Absent /\ ~NewResponse.given
BY DEF NewResponse

LEMMA LengthInductive == TypeOK /\ LengthInv /\ [Next]_vars => LengthInv'
<1> SUFFICES ASSUME TypeOK, LengthInv, [Next]_vars PROVE LengthInv'
  OBVIOUS
<1> USE MiddlewareTypes
<1>1. ASSUME finishCurrentRequest PROVE LengthInv'
  <2>1. resp' = NewResponse /\ sets' = 0 /\ lost' = 0 /\ pc' = "before"
    BY <1>1 DEF finishCurrentRequest, LengthInv, Idle
  <2> QED
    BY <2>1, FreshLength DEF LengthInv, Idle, NoBodyYet, OneBody, Lost
<1>2. ASSUME feedBefore PROVE LengthInv'
  <2>1. before[i] \in Handler /\ i + 1 \in Nat \ {0} /\ BeforeStatic
    BY <1>2 DEF feedBefore, TypeOK, BeforeStatic
  <2> QED
    BY <1>2, <2>1, CallLength DEF feedBefore
<1>3. ASSUME staticFile PROVE LengthInv'
  BY <1>3, StaticLength
<1>4. ASSUME UNCHANGED <<config, request, resp, sets, lost>>,
             pc' # "idle" \/ pc = "idle", BeforeStatic' => BeforeStatic
      PROVE  LengthInv'
  BY <1>4 DEF LengthInv, Idle, NoBodyYet, OneBody, Lost, FileTracked, NotModified, config
<1>5. ASSUME beforeDone PROVE LengthInv'
  BY <1>4, <1>5 DEF beforeDone, BeforeStatic
<1>6. ASSUME routeFound PROVE LengthInv'
  <2>1. target \in Handler
    BY <1>6 DEF routeFound
  <2>2. CASE target.leaves # "notFound"
    BY <1>6, <2>1, <2>2, CallLength DEF routeFound
  <2>3. CASE target.leaves = "notFound"
    \* As a call that returns, but for the step it leads to.
    <3>1. resp \in Response /\ sets \in Nat /\ lost \in Nat
      BY Numbers
    <3> DEFINE w == Wrote(target, resp)
    <3>2. /\ target.body = Absent => w.body = resp.body /\ w.size = resp.size
          /\ target.body # Absent =>
               /\ w.body = "handler" /\ w.length # Absent
               /\ ~w.given /\ resp.length = Absent =>
                    w.length = w.size \/ w.length >= UIntRange
          /\ resp.given => w.given
          /\ ~w.given /\ (target.body = Absent \/ resp.length # Absent) =>
               w.length = resp.length
          /\ resp.length # Absent => w.length # Absent
      BY ONLY <2>1, <3>1, WroteFacts
    <3> HIDE DEF w
    <3>3. /\ resp' = w /\ Counted(BodiesOf(target), 0)
          /\ pc' = "notFound" /\ UNCHANGED <<config, request>>
      BY <1>6, <2>3 DEF routeFound, w
    <3>4. /\ FileTracked' <=> FileTracked
          /\ NotModified' <=> NotModified
          /\ ~BeforeStatic' /\ Idle'
      BY <3>3 DEF FileTracked, NotModified, BeforeStatic, Idle, config
    <3>5. CASE target.body = Absent
      <4>1. sets' = sets /\ lost' = lost
        BY <3>1, <3>3, <3>5 DEF Counted, BodiesOf
      <4>2. /\ resp'.body = resp.body /\ resp'.size = resp.size
            /\ resp.given => resp'.given
            /\ ~resp'.given => resp'.length = resp.length
            /\ resp.length # Absent => resp'.length # Absent
        BY <3>2, <3>3, <3>5
      <4>3. NoBodyYet'
        BY <3>4, <4>1, <4>2 DEF LengthInv, NoBodyYet
      <4>4. OneBody'
        BY <3>4, <4>1, <4>2 DEF LengthInv, OneBody
      <4>5. Lost'
        BY <3>3, <3>4, <4>1, <4>2 DEF LengthInv, Lost
      <4> QED
        BY <3>4, <4>3, <4>4, <4>5 DEF LengthInv
    <3>6. CASE target.body # Absent
      <4>1. /\ sets' = sets + 1 /\ (sets = 0 => lost' = lost)
        BY <3>1, <3>3, <3>6 DEF Counted, BodiesOf
      <4>2. /\ resp'.body = "handler" /\ resp'.length # Absent
            /\ resp.length = Absent /\ ~resp'.given =>
                 resp'.length = resp'.size \/ resp'.length >= UIntRange
            /\ resp.given => resp'.given
        BY <3>2, <3>3, <3>6
      <4>3. sets = 0 /\ resp.length # Absent => FileTracked \/ resp.given
        BY DEF LengthInv, NoBodyYet
      <4>4. CASE sets = 0
        BY <3>3, <3>4, <4>1, <4>2, <4>3, <4>4 DEF LengthInv, NoBodyYet, OneBody, Lost
      <4>5. CASE sets # 0
        BY <3>1, <3>4, <4>1, <4>5 DEF LengthInv, NoBodyYet, OneBody, Lost
      <4> QED
        BY <4>4, <4>5
    <3> QED
      BY <3>5, <3>6
  <2> QED
    BY <2>2, <2>3
<1>7. ASSUME routeMissing PROVE LengthInv'
  BY <1>4, <1>7 DEF routeMissing, BeforeStatic
<1>8. ASSUME NotFoundHandler PROVE LengthInv'
  <2>1. CASE isBodySet(resp)
    BY <1>4, <1>8, <2>1 DEF NotFoundHandler, BeforeStatic
  <2>2. CASE ~isBodySet(resp)
    <3> DEFINE b == SetBody(resp, "notFound", NotFoundSize)
    <3>1. resp \in Response /\ sets \in Nat /\ lost \in Nat
      BY Numbers
    <3>2. /\ b \in Response /\ b.body = "notFound" /\ b.length # Absent
          /\ b.given = resp.given
          /\ resp.length # Absent => b.length = resp.length
          /\ resp.length = Absent => b.length = b.size \/ b.length >= UIntRange
      <4>1. "notFound" \in Bodies /\ NotFoundSize \in Nat
        BY SizesAssumption DEF Bodies
      <4> QED
        BY ONLY <3>1, <4>1, SetBodyFacts, ZenonT(60)
    <3> HIDE DEF b
    <3>3. /\ WithStatus(b, 404).body = b.body /\ WithStatus(b, 404).size = b.size
          /\ WithStatus(b, 404).length = b.length /\ WithStatus(b, 404).given = b.given
      BY ONLY <3>2, WithStatusFacts
    <3>4. /\ resp' = WithStatus(b, 404) /\ Counted(1, 0) /\ pc' = "after"
          /\ UNCHANGED <<config, request>>
      BY <1>8, <2>2 DEF NotFoundHandler, b
    <3>5. /\ sets' = sets + 1 /\ (sets = 0 => lost' = lost)
          /\ resp'.body = "notFound" /\ resp'.length # Absent
          /\ resp'.given = resp.given
          /\ resp.length = Absent => resp'.length = resp'.size \/ resp'.length >= UIntRange
      BY <3>1, <3>2, <3>3, <3>4 DEF Counted
    <3>6. /\ FileTracked' <=> FileTracked
          /\ NotModified' <=> NotModified
          /\ ~BeforeStatic' /\ Idle'
      BY <3>4 DEF FileTracked, NotModified, BeforeStatic, Idle, config
    <3>7. resp'.length # Absent
      BY <3>5
    <3>8. sets = 0 /\ resp.length # Absent => FileTracked \/ resp.given
      BY DEF LengthInv, NoBodyYet
    <3>9. CASE sets = 0
      BY <3>4, <3>5, <3>6, <3>7, <3>8, <3>9 DEF LengthInv, NoBodyYet, OneBody, Lost
    <3>10. CASE sets # 0
      BY <3>1, <3>5, <3>6, <3>10 DEF LengthInv, NoBodyYet, OneBody, Lost
    <3> QED
      BY <3>9, <3>10
  <2> QED
    BY <2>1, <2>2
<1>9. ASSUME userNotFoundHandler PROVE LengthInv'
  BY <1>9, CallLength DEF userNotFoundHandler
<1>10. ASSUME feedAfter PROVE LengthInv'
  <2>1. after[i] \in Handler /\ i + 1 \in Nat \ {0}
    BY <1>10 DEF feedAfter, TypeOK
  <2> QED
    BY <1>10, <2>1, CallLength DEF feedAfter
<1>11. ASSUME MergeDefaultCommonHeaders PROVE LengthInv'
  <2>1. /\ resp'.body = resp.body /\ resp'.size = resp.size
        /\ resp'.length = resp.length /\ resp'.given = resp.given
    BY <1>11 DEF MergeDefaultCommonHeaders, WithHeaders
  <2>2. UNCHANGED <<config, request, sets, lost>> /\ pc' = "respond"
    BY <1>11 DEF MergeDefaultCommonHeaders
  <2> QED
    BY <2>1, <2>2 DEF LengthInv, Idle, NoBodyYet, OneBody, Lost, BeforeStatic,
                      FileTracked, NotModified, config
<1>12. ASSUME write_response PROVE LengthInv'
  BY <1>12, FreshLength DEF write_response, LengthInv, Idle, NoBodyYet, OneBody, Lost
<1>13. ASSUME fileChanges PROVE LengthInv'
  BY <1>4, <1>13 DEF fileChanges, BeforeStatic, config
<1>14. CASE UNCHANGED vars
  BY <1>4, <1>14 DEF vars, BeforeStatic, config
<1> QED
  BY <1>1, <1>2, <1>3, <1>5, <1>6, <1>7, <1>8, <1>9, <1>10, <1>11, <1>12, <1>13, <1>14
     DEF Next, Processing

LEMMA LengthInvariant == Spec => [](TypeOK /\ LengthInv)
<1>1. Init => LengthInv
  BY FreshLength DEF Init, LengthInv, Idle, NoBodyYet, OneBody, Lost
<1> QED
  BY <1>1, InitTypes, TypeInductive, LengthInductive, PTL DEF Spec

\* The Content-Length sent is the length of the body sent, for every application
\* (those that give a length of their own among them) and every file, in all but
\* the cases LengthTrue names (entity.h:268-310, 389-404; static.cpp:229-292).
THEOREM LengthCorrect == Spec => []LengthTrue
<1>1. TypeOK /\ LengthInv => LengthTrue
  <2> SUFFICES ASSUME TypeOK, LengthInv, pc = "respond", SentLength(resp) # resp.size
               PROVE  \/ resp.given
                      \/ sets > 1
                      \/ resp.length >= UIntRange
                      \/ FileTracked /\ resp.body # "file"
    BY DEF LengthTrue
  <2>1. sets \in Nat
    BY Numbers
  <2>2. CASE sets = 0
    BY <2>2 DEF LengthInv, NoBodyYet, SentLength
  <2>3. CASE sets = 1
    BY <2>3 DEF LengthInv, OneBody, SentLength
  <2> QED
    BY <2>1, <2>2, <2>3
<1> QED
  BY <1>1, LengthInvariant, PTL

\* A body buffer is lost only to a second body or an unreadable file.
THEOREM LostCorrect == Spec => []LostOnlyIfReplaced
<1>1. TypeOK /\ LengthInv => LostOnlyIfReplaced
  BY Numbers DEF LengthInv, Lost, LostOnlyIfReplaced
<1> QED
  BY <1>1, LengthInvariant, PTL

-------------------------------------------------------------------------------
(***************************************************************************)
(* What ends the process: Call is the only way for an exception out of     *)
(* processing_request(), and only one that is no HttpException takes it.   *)
(***************************************************************************)

\* A call that dies was of a handler that throws something foreign.
LEMMA CallDeath ==
  ASSUME NEW h \in Handler, NEW next, NEW position, Call(h, next, position),
         next # "died", pc' = "died"
  PROVE  Foreign(h)
<1>1. h.leaves \in {"true", "false", "notFound", "http", "foreign"}
  BY DEF Handler
<1>2. ~Returns(h) /\ ~Caught(h)
  BY DEF Call
<1> QED
  BY <1>1, <1>2 DEF Returns, Caught, Foreign

LEMMA DeathInductive == TypeOK /\ DiesOnlyOfForeign /\ [Next]_vars => DiesOnlyOfForeign'
<1> SUFFICES ASSUME TypeOK, DiesOnlyOfForeign, [Next]_vars, pc' = "died"
             PROVE  MayDie'
  BY DEF DiesOnlyOfForeign
<1>1. CASE finishCurrentRequest
  BY <1>1 DEF finishCurrentRequest
<1>2. CASE feedBefore
  <2>1. i \in 1 .. Len(before) /\ before[i] \in Handler
    BY <1>2, HandlerTypes DEF feedBefore, TypeOK
  <2>2. Foreign(before[i])
    BY <1>2, <2>1, CallDeath DEF feedBefore
  <2>3. before' = before
    BY <1>2 DEF feedBefore, config
  <2> QED
    BY <2>1, <2>2, <2>3 DEF MayDie
<1>3. CASE staticFile
  <2>1. static /\ UrlTooShort
    BY <1>3 DEF staticFile
  <2>2. static' = static /\ request' = request
    BY <1>3 DEF staticFile, config
  <2> QED
    BY <2>1, <2>2 DEF MayDie, UrlTooShort
<1>4. CASE beforeDone
  BY <1>4 DEF beforeDone
<1>5. CASE routeFound
  <2>1. target \in Handler /\ target' = target
    BY <1>5, HandlerTypes DEF routeFound, TypeOK
  <2>2. Foreign(target)
    BY <1>5, <2>1, CallDeath DEF routeFound
  <2> QED
    BY <2>1, <2>2 DEF MayDie
<1>6. CASE routeMissing
  BY <1>6 DEF routeMissing
<1>7. CASE NotFoundHandler
  BY <1>7 DEF NotFoundHandler
<1>8. CASE userNotFoundHandler
  <2>1. notFound \in Handler /\ notFound' = notFound
    BY <1>8, HandlerTypes DEF userNotFoundHandler, TypeOK, config
  <2>2. Foreign(notFound)
    BY <1>8, <2>1, CallDeath DEF userNotFoundHandler
  <2> QED
    BY <2>1, <2>2 DEF MayDie
<1>9. CASE feedAfter
  <2>1. i \in 1 .. Len(after) /\ after[i] \in Handler
    BY <1>9, HandlerTypes DEF feedAfter, TypeOK
  <2>2. Foreign(after[i])
    BY <1>9, <2>1, CallDeath DEF feedAfter
  <2>3. after' = after
    BY <1>9 DEF feedAfter, config
  <2> QED
    BY <2>1, <2>2, <2>3 DEF MayDie
<1>10. CASE MergeDefaultCommonHeaders
  BY <1>10 DEF MergeDefaultCommonHeaders
<1>11. CASE write_response
  BY <1>11 DEF write_response
<1>12. CASE fileChanges \/ UNCHANGED vars
  <2>1. /\ before' = before /\ after' = after /\ static' = static /\ notFound' = notFound
        /\ target' = target /\ request' = request /\ pc' = pc
    BY <1>12 DEF fileChanges, vars, config
  <2>2. MayDie
    BY <2>1 DEF DiesOnlyOfForeign
  <2> QED
    BY <2>1, <2>2 DEF MayDie, UrlTooShort
<1> QED
  BY <1>1, <1>2, <1>3, <1>4, <1>5, <1>6, <1>7, <1>8, <1>9, <1>10, <1>11, <1>12
     DEF Next, Processing

\* The process survives every request but one that meets a handler that throws
\* no HttpException, or is shorter than the static prefix (whs.cpp:126-144).
THEOREM SurvivalCorrect == Spec => []DiesOnlyOfForeign
<1>1. Init => DiesOnlyOfForeign
  BY SMTT(60) DEF Init, DiesOnlyOfForeign
<1> QED
  BY <1>1, DeathInductive, TypeCorrect, PTL DEF Spec

-------------------------------------------------------------------------------
(***************************************************************************)
(* The status.  One is never taken back but by an HttpException or by a    *)
(* handler that calls status(0); so while it is 0 nobody the request has   *)
(* passed sets one, unless a handler resets it.                            *)
(***************************************************************************)
BeforeSilent == \A k \in 1 .. Len(before) : before[k].status = Absent
AfterSilent == \A k \in 1 .. Len(after) : after[k].status = Absent

NoRoute == target = NoHandler \/ target.leaves = "notFound"

\* Who answered, if anybody did, set no status.
Unanswered ==
  \/ resp.ended
  \/ target # NoHandler /\ target.leaves # "notFound" /\ target.status = Absent
  \/ notFound # NoHandler /\ notFound.status = Absent

StatusBefore ==
  pc = "before" /\ resp.status = 0 /\ ~ResetEarly =>
    /\ \A k \in 1 .. Len(before) : k < i => before[k].status = Absent
    /\ i > Len(before) + 1 => ~NotModified

StatusRouting ==
  pc \in {"route", "notFound"} /\ resp.status = 0 /\ ~ResetEarly =>
    BeforeSilent /\ ~NotModified

StatusAfter ==
  pc = "after" /\ resp.status = 0 /\ ~Reset =>
    /\ BeforeSilent /\ ~NotModified /\ Unanswered
    /\ \A k \in 1 .. Len(after) : k < i => after[k].status = Absent

StatusSent ==
  pc = "respond" /\ resp.status = 0 /\ resp.body # "error" /\ ~Reset =>
    BeforeSilent /\ ~NotModified /\ Unanswered /\ AfterSilent

NotFoundBody ==
  /\ pc = "notFound" => NoRoute
  /\ pc \in {"idle", "before", "route", "notFound"} => resp.body # "notFound"
  /\ resp.body = "notFound" =>
       NoRoute /\ (ResetEarly \/ (BeforeSilent /\ ~NotModified))

StatusInv == StatusBefore /\ StatusRouting /\ StatusAfter /\ StatusSent /\ NotFoundBody

\* end() is not taken back.
LEMMA WroteEnded ==
  ASSUME NEW h \in Handler, NEW r \in Response, r.ended
  PROVE  Wrote(h, r).ended
<1> DEFINE e == WithHeaders(r, h.headers, "handler")
           a == GivenLength(h, e)
           b == IF h.body = Absent THEN a ELSE SetBody(a, "handler", h.body)
           c == IF h.status = Absent THEN b ELSE WithStatus(b, h.status)
<1>1. a.ended
  BY DEF GivenLength, WithHeaders
<1> HIDE DEF e, a
<1>2. b.ended
  BY <1>1 DEF SetBody
<1> HIDE DEF b
<1>3. c.ended
  BY <1>2 DEF WithStatus
<1> HIDE DEF c
<1>4. Wrote(h, r) = Ended(c, h.ends)
  BY DEF Wrote, a, b, c, e
<1>5. Ended(c, h.ends).ended = (c.ended \/ h.ends)
  BY DEF Ended
<1> QED
  BY <1>3, <1>4, <1>5

LEMMA CallStatus ==
  ASSUME TypeOK, NEW h \in Handler, NEW next \in {"before", "after"}, NEW p \in Nat \ {0},
         Call(h, next, p)
  PROVE  /\ resp'.body \in {resp.body, "handler", "error"}
         /\ \/ pc' = "respond" /\ resp'.body = "error"
            \/ pc' = "died"
            \/ /\ pc' = next /\ i' = p
               /\ resp'.status = 0 => (resp.status = 0 /\ h.status = Absent) \/ h.status = 0
               /\ resp.ended => resp'.ended
<1>1. resp \in Response /\ sets \in Nat /\ lost \in Nat
  BY DEF TypeOK
<1>2. /\ sets' = sets => resp'.body = resp.body
      /\ sets' # sets => resp'.body \in {"handler", "error"}
      /\ \/ resp'.body = "error" /\ pc' = "respond"
         \/ pc' = "died"
         \/ /\ pc' = next /\ i' = p
            /\ resp'.status = IF h.status = Absent THEN resp.status ELSE h.status
  BY ONLY <1>1, h \in Handler, p \in Nat \ {0}, Call(h, next, p), CallFacts
<1>3. pc' = next => resp' = Wrote(h, resp)
  BY DEF Call
<1>4. pc' = next /\ resp.ended => resp'.ended
  BY <1>1, <1>3, WroteEnded
<1> QED
  BY <1>2, <1>4

\* The configuration and the request stay for all of a request's steps.
LEMMA StatusFrame ==
  ASSUME UNCHANGED <<config, request, target>>
  PROVE  /\ BeforeSilent' = BeforeSilent /\ AfterSilent' = AfterSilent
         /\ NotModified' = NotModified /\ NoRoute' = NoRoute
         /\ ResetEarly' = ResetEarly /\ Reset' = Reset
         /\ before' = before /\ after' = after /\ target' = target /\ notFound' = notFound
BY DEF BeforeSilent, AfterSilent, NotModified, FileTracked, NoRoute, ResetEarly, Reset, config

\* A handler that resets the status is one of those Reset names.
LEMMA Resetting ==
  /\ \A k \in 1 .. Len(before) : before[k].status = 0 => ResetEarly
  /\ target.status = 0 => ResetEarly
  /\ notFound.status = 0 => Reset
  /\ \A k \in 1 .. Len(after) : after[k].status = 0 => Reset
  /\ ResetEarly => Reset
BY DEF ResetEarly, Reset

LEMMA StatusInductive == TypeOK /\ Idle /\ StatusInv /\ [Next]_vars => StatusInv'
<1> SUFFICES ASSUME TypeOK, Idle, StatusInv, [Next]_vars PROVE StatusInv'
  OBVIOUS
<1> USE MiddlewareTypes
<1>0. i \in Nat \ {0} /\ resp \in Response
  BY DEF TypeOK
<1>1. CASE finishCurrentRequest
  <2>1. resp' = NewResponse /\ pc' = "before" /\ i' = 1 /\ before' = before
    BY <1>1 DEF finishCurrentRequest, Idle, config
  <2>2. resp'.body # "notFound"
    BY <2>1 DEF NewResponse
  <2> QED
    BY <2>1, <2>2 DEF StatusInv, StatusBefore, StatusRouting, StatusAfter, StatusSent,
                      NotFoundBody
<1>2. CASE feedBefore
  <2>1. before[i] \in Handler /\ i + 1 \in Nat \ {0} /\ i <= Len(before) /\ pc = "before"
    BY <1>0, <1>2 DEF feedBefore
  <2>2. /\ resp'.body \in {resp.body, "handler", "error"}
        /\ \/ pc' = "respond" /\ resp'.body = "error"
           \/ pc' = "died"
           \/ /\ pc' = "before" /\ i' = i + 1
              /\ resp'.status = 0 =>
                   (resp.status = 0 /\ before[i].status = Absent) \/ before[i].status = 0
    BY <1>2, <2>1, CallStatus DEF feedBefore
  <2>3. /\ before' = before /\ NotModified' = NotModified /\ ResetEarly' = ResetEarly
    BY <1>2, StatusFrame DEF feedBefore
  <2>4. resp'.body # "notFound"
    BY <2>1, <2>2 DEF StatusInv, NotFoundBody
  <2>5. StatusBefore'
    <3>1. before[i].status = 0 => ResetEarly
      BY <1>0, <2>1, Resetting
    <3> QED
      BY <1>0, <2>1, <2>2, <2>3, <3>1 DEF StatusInv, StatusBefore
  <2> QED
    BY <2>2, <2>4, <2>5 DEF StatusInv, StatusRouting, StatusAfter, StatusSent, NotFoundBody
<1>3. CASE staticFile
  <2>1. /\ pc = "before" /\ i = Len(before) + 1 /\ i' = i + 1 /\ pc' \in {"before", "died"}
        /\ UNCHANGED <<config, request, target>>
    BY <1>3 DEF staticFile
  <2>2. before' = before /\ NotModified' = NotModified /\ ResetEarly' = ResetEarly
    BY <2>1, StatusFrame
  <2>3. /\ resp'.body \in {resp.body, "file"}
        /\ resp'.status = 0 /\ pc' = "before" => resp.status = 0 /\ ~NotModified
    <3>1. CASE ~FileTracked
      BY <1>3, <3>1 DEF staticFile, NotModified
    <3>2. CASE FileTracked
      <4>1. files \in [Paths -> Nat \cup {Absent}]
        BY DEF TypeOK
      <4>2. /\ StaticNotModified.status = 304 /\ StaticNotModified.body = resp.body
            /\ StaticBody.status = resp.status /\ StaticBody.body = "file"
            /\ StaticNoBody.status = resp.status /\ StaticNoBody.body = resp.body
        BY ONLY <1>0, <3>2, <4>1, StaticFacts
      <4>3. \/ pc' = "died" /\ resp' = resp
            \/ NotModified /\ resp' = StaticNotModified
            \/ ~NotModified /\ resp' \in {StaticBody, StaticNoBody}
        BY <1>3, <3>2 DEF staticFile, NotModified
      <4> QED
        BY ONLY <4>2, <4>3
    <3> QED
      BY <3>1, <3>2
  <2>4. resp'.body # "notFound"
    BY <2>1, <2>3 DEF StatusInv, NotFoundBody
  <2>5. StatusBefore'
    BY <1>0, <2>1, <2>2, <2>3 DEF StatusInv, StatusBefore
  <2> QED
    BY <2>1, <2>4, <2>5 DEF StatusInv, StatusRouting, StatusAfter, StatusSent, NotFoundBody
<1>4. CASE beforeDone
  <2>1. /\ pc = "before" /\ i > Len(before) + (IF static THEN 1 ELSE 0) /\ i' = 1
        /\ pc' = IF resp.ended THEN "after" ELSE "route"
        /\ resp' = resp /\ UNCHANGED <<config, request, target>>
    BY <1>4 DEF beforeDone
  <2>2. i > Len(before) /\ (static => i > Len(before) + 1)
    BY <1>0, <2>1
  <2>3. resp.status = 0 /\ ~ResetEarly => BeforeSilent /\ ~NotModified
    <3>1. \A k \in 1..Len(before) : k < i
      BY <1>0, <2>2
    <3>2. StatusBefore
      BY DEF StatusInv
    <3>3. resp.status = 0 /\ ~ResetEarly => BeforeSilent
      BY <2>1, <3>1, <3>2 DEF StatusBefore, BeforeSilent
    <3>4. NotModified => static
      BY DEF NotModified, FileTracked
    <3>5. resp.status = 0 /\ ~ResetEarly => ~NotModified
      BY <2>1, <2>2, <3>2, <3>4 DEF StatusBefore
    <3> QED
      BY <3>3, <3>5
  <2>4. /\ BeforeSilent' = BeforeSilent /\ NotModified' = NotModified
        /\ ResetEarly' = ResetEarly /\ (ResetEarly => Reset) /\ Reset' = Reset
    BY <2>1, StatusFrame, Resetting
  <2>5. pc' = "after" => Unanswered'
    BY <2>1 DEF Unanswered
  <2> QED
    BY <2>1, <2>3, <2>4, <2>5 DEF StatusInv, StatusBefore, StatusRouting, StatusAfter,
                                  StatusSent, NotFoundBody
<1>5. CASE routeFound
  <2>1. target \in Handler /\ pc = "route" /\ target # NoHandler
        /\ UNCHANGED <<config, request, target>>
    BY <1>5 DEF routeFound
  <2>2. /\ BeforeSilent' = BeforeSilent /\ NotModified' = NotModified
        /\ NoRoute' = NoRoute /\ target' = target
        /\ ResetEarly' = ResetEarly /\ Reset' = Reset /\ (ResetEarly => Reset)
        /\ target.status = 0 => ResetEarly
    BY <2>1, StatusFrame, Resetting
  <2>3. CASE target.leaves # "notFound" /\ Call(target, "after", 1)
    <3>1. /\ resp'.body \in {resp.body, "handler", "error"}
          /\ \/ pc' = "respond" /\ resp'.body = "error"
             \/ pc' = "died"
             \/ /\ pc' = "after" /\ i' = 1
                /\ resp'.status = 0 =>
                     (resp.status = 0 /\ target.status = Absent) \/ target.status = 0
      BY <2>1, <2>3, CallStatus
    <3>2. resp'.body # "notFound"
      BY <2>1, <3>1 DEF StatusInv, NotFoundBody
    <3>3. StatusAfter'
      BY <2>1, <2>2, <2>3, <3>1 DEF StatusInv, StatusRouting, StatusAfter, Unanswered
    <3> QED
      BY <3>1, <3>2, <3>3 DEF StatusInv, StatusBefore, StatusRouting, StatusSent, NotFoundBody
  <2>4. CASE target.leaves = "notFound" /\ resp' = Wrote(target, resp) /\ pc' = "notFound"
    <3>1. /\ target.status # Absent => resp'.status = target.status
          /\ target.status = Absent => resp'.status = resp.status
          /\ resp'.body \in {resp.body, "handler"}
      BY <1>0, <2>1, <2>4, WroteFacts
    <3>2. resp'.body # "notFound"
      BY <2>1, <3>1 DEF StatusInv, NotFoundBody
    <3> QED
      BY <2>1, <2>2, <2>4, <3>1, <3>2
         DEF StatusInv, StatusBefore, StatusRouting, StatusAfter, StatusSent, NotFoundBody,
             NoRoute
  <2> QED
    BY <1>5, <2>3, <2>4 DEF routeFound
<1>6. CASE routeMissing
  <2>1. /\ pc = "route" /\ target = NoHandler /\ pc' = "notFound" /\ resp' = resp
        /\ UNCHANGED <<config, request, target>>
    BY <1>6 DEF routeMissing
  <2>2. /\ BeforeSilent' = BeforeSilent /\ NotModified' = NotModified
        /\ NoRoute' = NoRoute /\ ResetEarly' = ResetEarly
    BY <2>1, StatusFrame
  <2> QED
    BY <2>1, <2>2 DEF StatusInv, StatusBefore, StatusRouting, StatusAfter, StatusSent,
                      NotFoundBody, NoRoute
<1>7. CASE NotFoundHandler
  <2>1. /\ pc = "notFound" /\ pc' = "after" /\ i' = 1 /\ notFound = NoHandler
        /\ UNCHANGED <<config, request, target>>
    BY <1>7 DEF NotFoundHandler
  <2>2. /\ BeforeSilent' = BeforeSilent /\ NotModified' = NotModified
        /\ NoRoute' = NoRoute /\ ResetEarly' = ResetEarly
    BY <2>1, StatusFrame
  <2>3. NoRoute /\ resp.body # "notFound"
    BY <2>1 DEF StatusInv, NotFoundBody
  <2>4. CASE resp.status # 0
    <3>1. resp' = resp
      BY <1>7, <2>4 DEF NotFoundHandler, isBodySet
    <3> QED
      BY <2>1, <2>3, <2>4, <3>1
         DEF StatusInv, StatusBefore, StatusRouting, StatusAfter, StatusSent, NotFoundBody
  <2>5. CASE resp.status = 0
    <3>1. resp' = WithStatus(SetBody(resp, "notFound", NotFoundSize), 404)
      BY <1>7, <2>5 DEF NotFoundHandler, isBodySet
    <3>2. resp'.status # 0
      BY <3>1 DEF WithStatus
    <3>3. ResetEarly \/ (BeforeSilent /\ ~NotModified)
      BY <2>1, <2>5 DEF StatusInv, StatusRouting
    <3> QED
      BY <2>1, <2>2, <2>3, <3>2, <3>3
         DEF StatusInv, StatusBefore, StatusRouting, StatusAfter, StatusSent, NotFoundBody
  <2> QED
    BY <2>4, <2>5
<1>8. CASE userNotFoundHandler
  <2>1. notFound \in Handler /\ pc = "notFound" /\ notFound # NoHandler
        /\ UNCHANGED <<config, request, target>>
    BY <1>8 DEF userNotFoundHandler
  <2>2. /\ BeforeSilent' = BeforeSilent /\ NotModified' = NotModified
        /\ notFound' = notFound /\ Reset' = Reset /\ (ResetEarly => Reset)
        /\ notFound.status = 0 => Reset
    BY <2>1, StatusFrame, Resetting
  <2>3. /\ resp'.body \in {resp.body, "handler", "error"}
        /\ \/ pc' = "respond" /\ resp'.body = "error"
           \/ pc' = "died"
           \/ /\ pc' = "after" /\ i' = 1
              /\ resp'.status = 0 =>
                   (resp.status = 0 /\ notFound.status = Absent) \/ notFound.status = 0
    BY <1>8, <2>1, CallStatus DEF userNotFoundHandler
  <2>4. resp'.body # "notFound"
    BY <2>1, <2>3 DEF StatusInv, NotFoundBody
  <2>5. StatusAfter'
    BY <2>1, <2>2, <2>3 DEF StatusInv, StatusRouting, StatusAfter, Unanswered
  <2> QED
    BY <2>3, <2>4, <2>5 DEF StatusInv, StatusBefore, StatusRouting, StatusSent, NotFoundBody
<1>9. CASE feedAfter
  <2>1. after[i] \in Handler /\ i + 1 \in Nat \ {0} /\ i <= Len(after) /\ pc = "after"
        /\ UNCHANGED <<config, request, target>>
    BY <1>0, <1>9 DEF feedAfter
  <2>2. /\ BeforeSilent' = BeforeSilent /\ NotModified' = NotModified
        /\ NoRoute' = NoRoute /\ after' = after /\ target' = target /\ notFound' = notFound
        /\ ResetEarly' = ResetEarly /\ Reset' = Reset
    BY <2>1, StatusFrame
  <2>3. /\ resp'.body \in {resp.body, "handler", "error"}
        /\ \/ pc' = "respond" /\ resp'.body = "error"
           \/ pc' = "died"
           \/ /\ pc' = "after" /\ i' = i + 1
              /\ resp'.status = 0 =>
                   (resp.status = 0 /\ after[i].status = Absent) \/ after[i].status = 0
              /\ resp.ended => resp'.ended
    BY <1>9, <2>1, CallStatus DEF feedAfter
  <2>4. pc' = "after" /\ Unanswered => Unanswered'
    BY <2>2, <2>3 DEF Unanswered
  <2>5. StatusAfter'
    <3>1. after[i].status = 0 => Reset
      BY <1>0, <2>1, Resetting
    <3> QED
      BY <1>0, <2>1, <2>2, <2>3, <2>4, <3>1 DEF StatusInv, StatusAfter
  <2>6. NotFoundBody'
    BY <2>2, <2>3 DEF StatusInv, NotFoundBody
  <2> QED
    BY <2>3, <2>5, <2>6 DEF StatusInv, StatusBefore, StatusRouting, StatusSent
<1>10. CASE MergeDefaultCommonHeaders
  <2>1. /\ pc = "after" /\ i = Len(after) + 1 /\ pc' = "respond"
        /\ resp' = WithHeaders(resp, DefaultHeaders, "default")
        /\ UNCHANGED <<config, request, target>>
    BY <1>10 DEF MergeDefaultCommonHeaders
  <2>2. resp'.status = resp.status /\ resp'.body = resp.body /\ resp'.ended = resp.ended
    BY <2>1 DEF WithHeaders
  <2>3. /\ BeforeSilent' = BeforeSilent /\ NotModified' = NotModified /\ NoRoute' = NoRoute
        /\ AfterSilent' = AfterSilent /\ target' = target /\ notFound' = notFound
        /\ ResetEarly' = ResetEarly /\ Reset' = Reset
    BY <2>1, StatusFrame
  <2>4. Unanswered' = Unanswered
    BY <2>2, <2>3 DEF Unanswered
  <2>5. resp.status = 0 /\ ~Reset => AfterSilent
    BY <2>1 DEF StatusInv, StatusAfter, AfterSilent
  <2> QED
    BY <2>1, <2>2, <2>3, <2>4, <2>5
       DEF StatusInv, StatusBefore, StatusRouting, StatusAfter, StatusSent, NotFoundBody
<1>11. CASE write_response
  <2>1. pc' = "idle" /\ resp'.body # "notFound"
    BY <1>11 DEF write_response, NewResponse
  <2> QED
    BY <2>1 DEF StatusInv, StatusBefore, StatusRouting, StatusAfter, StatusSent, NotFoundBody
<1>12. CASE fileChanges \/ UNCHANGED vars
  <2>1. resp' = resp /\ pc' = pc /\ i' = i /\ UNCHANGED <<config, request, target>>
    BY <1>12 DEF fileChanges, vars, config
  <2>2. /\ BeforeSilent' = BeforeSilent /\ NotModified' = NotModified /\ NoRoute' = NoRoute
        /\ AfterSilent' = AfterSilent /\ target' = target /\ notFound' = notFound
        /\ ResetEarly' = ResetEarly /\ Reset' = Reset
        /\ before' = before /\ after' = after
    BY <2>1, StatusFrame
  <2>3. Unanswered' = Unanswered
    BY <2>1, <2>2 DEF Unanswered
  <2> QED
    BY <2>1, <2>2, <2>3
       DEF StatusInv, StatusBefore, StatusRouting, StatusAfter, StatusSent, NotFoundBody
<1> QED
  BY <1>1, <1>2, <1>3, <1>4, <1>5, <1>6, <1>7, <1>8, <1>9, <1>10, <1>11, <1>12
     DEF Next, Processing

LEMMA StatusInvariant == Spec => []StatusInv
<1>1. Init => StatusInv
  <2> SUFFICES ASSUME Init PROVE StatusInv
    OBVIOUS
  <2>1. pc = "idle" /\ resp = NewResponse
    BY DEF Init
  <2>2. resp.body # "notFound"
    BY <2>1 DEF NewResponse
  <2> QED
    BY <2>1, <2>2 DEF StatusInv, StatusBefore, StatusRouting, StatusAfter, StatusSent,
                      NotFoundBody
<1>2. TypeOK /\ LengthInv => Idle
  BY DEF LengthInv
<1> QED
  BY <1>1, <1>2, StatusInductive, LengthInvariant, PTL DEF Spec

\* A response goes out without a status only where nobody sets one, or a handler
\* calls status(0): the framework's own middlewares never leave one without
\* (whs.cpp:44-60).
THEOREM SilenceCorrect == Spec => []NoStatusNeedsSilence
<1>1. StatusInv => NoStatusNeedsSilence
  BY DEF StatusInv, StatusSent, NoStatusNeedsSilence, Unanswered, BeforeSilent, AfterSilent
<1> QED
  BY <1>1, StatusInvariant, PTL

\* "not found" is sent only to who asked for nothing there is (whs.cpp:44-60), for
\* every application that does not reset a status it has set.
THEOREM NotFoundCorrect == Spec => []NotFoundMeansNoAnswer
<1>1. StatusInv => NotFoundMeansNoAnswer
  BY DEF StatusInv, NotFoundBody, NotFoundMeansNoAnswer, BeforeSilent, NoRoute
<1> QED
  BY <1>1, StatusInvariant, PTL

-------------------------------------------------------------------------------
(***************************************************************************)
(* 304.  With no handler of the application that writes into it, the       *)
(* response stays empty to the end, and once StaticFileServer has run its  *)
(* status is 304: a status keeps NotFoundHandler away.                     *)
(***************************************************************************)
Quiet ==
  /\ NotModified /\ target = NoHandler /\ notFound = NoHandler
  /\ \A k \in 1 .. Len(before) : Silent(before[k])
  /\ \A k \in 1 .. Len(after) : Silent(after[k])

EmptyOf(r) == r.body = "none" /\ r.size = 0 /\ r.length = Absent

QuietInv ==
  Quiet =>
    /\ pc # "died" => EmptyOf(resp)
    /\ pc \in {"route", "notFound", "after", "respond"} => resp.status = 304
    /\ pc = "before" /\ i > Len(before) + 1 => resp.status = 304

\* A silent handler returns and writes at most headers.
LEMMA CallSilent ==
  ASSUME TypeOK, NEW h \in Handler, Silent(h), NEW next, NEW p, Call(h, next, p), EmptyOf(resp)
  PROVE  pc' = next /\ i' = p /\ EmptyOf(resp') /\ resp'.status = resp.status
<1>1. pc' = next /\ i' = p /\ resp' = Wrote(h, resp)
  BY DEF Call, Silent, Returns, Caught
<1>2. resp \in Response /\ h.status = Absent /\ h.body = Absent /\ h.length = Absent
  BY DEF TypeOK, Silent
<1>3. LET w == Wrote(h, resp)
      IN  w.status = resp.status /\ w.body = resp.body /\ w.size = resp.size
          /\ w.length = resp.length
  BY <1>2, WroteFacts
<1> QED
  BY ONLY <1>1, <1>3, EmptyOf(resp) DEF EmptyOf

LEMMA NewIsEmpty == EmptyOf(NewResponse)
BY DEF EmptyOf, NewResponse

LEMMA QuietFrame ==
  ASSUME UNCHANGED <<config, request, target>>
  PROVE  Quiet' = Quiet /\ before' = before
BY DEF Quiet, NotModified, FileTracked, config

LEMMA QuietInductive == TypeOK /\ Idle /\ QuietInv /\ [Next]_vars => QuietInv'
<1> SUFFICES ASSUME TypeOK, Idle, QuietInv, [Next]_vars, Quiet' PROVE QuietInv'
  BY DEF QuietInv
<1> USE MiddlewareTypes
<1>0. i \in Nat \ {0} /\ resp \in Response /\ files \in [Paths -> Nat \cup {Absent}]
  BY DEF TypeOK
<1>1. CASE finishCurrentRequest
  <2>1. resp' = NewResponse /\ pc' = "before" /\ i' = 1 /\ before' = before
    BY <1>1 DEF finishCurrentRequest, Idle, config
  <2>2. EmptyOf(resp')
    BY <2>1, NewIsEmpty
  <2>3. ~(i' > Len(before') + 1)
    BY <2>1
  <2> QED
    BY <2>1, <2>2, <2>3 DEF QuietInv
<1>2. CASE feedBefore
  <2>1. UNCHANGED <<config, request, target>> /\ pc = "before" /\ before[i] \in Handler
        /\ i <= Len(before) /\ Call(before[i], "before", i + 1)
    BY <1>0, <1>2 DEF feedBefore
  <2>2. Quiet /\ before' = before
    BY <2>1, QuietFrame
  <2>3. Silent(before[i]) /\ EmptyOf(resp)
    BY <1>0, <2>1, <2>2 DEF Quiet, QuietInv
  <2>4. pc' = "before" /\ i' = i + 1 /\ EmptyOf(resp')
    BY <2>1, <2>3, CallSilent
  <2>5. ~(i' > Len(before') + 1)
    BY <1>0, <2>1, <2>2, <2>4
  <2> QED
    BY <2>4, <2>5 DEF QuietInv
<1>3. CASE staticFile
  <2>1. UNCHANGED <<config, request, target>> /\ pc = "before"
    BY <1>3 DEF staticFile
  <2>2. Quiet
    BY <2>1, QuietFrame
  <2>3. NotModified /\ FileTracked /\ EmptyOf(resp)
    BY <2>1, <2>2 DEF Quiet, NotModified, QuietInv
  <2>4. pc' = "died" \/ (pc' = "before" /\ resp' = StaticNotModified)
    BY <1>3, <2>3 DEF staticFile, NotModified
  <2>5. /\ StaticNotModified.status = 304 /\ StaticNotModified.body = resp.body
        /\ StaticNotModified.size = resp.size /\ StaticNotModified.length = resp.length
    BY ONLY <1>0, <2>3, StaticFacts
  <2>6. EmptyOf(StaticNotModified)
    BY ONLY <2>3, <2>5 DEF EmptyOf
  <2> QED
    BY <2>4, <2>5, <2>6 DEF QuietInv
<1>4. CASE beforeDone
  <2>1. /\ UNCHANGED <<config, request, target>> /\ pc = "before" /\ resp' = resp
        /\ i > Len(before) + (IF static THEN 1 ELSE 0) /\ pc' \in {"after", "route"}
    BY <1>4 DEF beforeDone
  <2>2. Quiet
    BY <2>1, QuietFrame
  <2>3. static
    BY <2>2 DEF Quiet, NotModified, FileTracked
  <2>4. i > Len(before) + 1
    BY <2>1, <2>3
  <2> QED
    BY <2>1, <2>2, <2>4 DEF QuietInv
<1>5. CASE routeFound
  <2>1. target # NoHandler /\ target' = target
    BY <1>5 DEF routeFound
  <2> QED
    BY <2>1 DEF Quiet
<1>6. CASE routeMissing
  <2>1. UNCHANGED <<config, request, target>> /\ pc = "route" /\ pc' = "notFound" /\ resp' = resp
    BY <1>6 DEF routeMissing
  <2>2. Quiet
    BY <2>1, QuietFrame
  <2> QED
    BY <2>1, <2>2 DEF QuietInv
<1>7. CASE NotFoundHandler
  <2>1. UNCHANGED <<config, request, target>> /\ pc = "notFound" /\ pc' = "after"
    BY <1>7 DEF NotFoundHandler
  <2>2. Quiet
    BY <2>1, QuietFrame
  <2>3. EmptyOf(resp) /\ resp.status = 304
    BY <2>1, <2>2 DEF QuietInv
  <2>4. resp' = resp
    BY <1>7, <2>3 DEF NotFoundHandler, isBodySet
  <2> QED
    BY <2>1, <2>3, <2>4 DEF QuietInv
<1>8. CASE userNotFoundHandler
  <2>1. notFound # NoHandler /\ notFound' = notFound
    BY <1>8 DEF userNotFoundHandler, config
  <2> QED
    BY <2>1 DEF Quiet
<1>9. CASE feedAfter
  <2>1. UNCHANGED <<config, request, target>> /\ pc = "after" /\ after[i] \in Handler
        /\ i <= Len(after) /\ Call(after[i], "after", i + 1)
    BY <1>0, <1>9 DEF feedAfter
  <2>2. Quiet
    BY <2>1, QuietFrame
  <2>3. Silent(after[i]) /\ EmptyOf(resp) /\ resp.status = 304
    BY <1>0, <2>1, <2>2 DEF Quiet, QuietInv
  <2>4. pc' = "after" /\ EmptyOf(resp') /\ resp'.status = 304
    BY <2>1, <2>3, CallSilent
  <2> QED
    BY <2>4 DEF QuietInv
<1>10. CASE MergeDefaultCommonHeaders
  <2>1. /\ UNCHANGED <<config, request, target>> /\ pc = "after" /\ pc' = "respond"
        /\ resp' = WithHeaders(resp, DefaultHeaders, "default")
    BY <1>10 DEF MergeDefaultCommonHeaders
  <2>2. Quiet
    BY <2>1, QuietFrame
  <2>3. EmptyOf(resp) /\ resp.status = 304
    BY <2>1, <2>2 DEF QuietInv
  <2>4. /\ resp'.status = resp.status /\ resp'.body = resp.body /\ resp'.size = resp.size
        /\ resp'.length = resp.length
    BY <2>1 DEF WithHeaders
  <2> QED
    BY <2>1, <2>3, <2>4 DEF QuietInv, EmptyOf
<1>11. CASE write_response
  <2>1. pc' = "idle" /\ resp' = NewResponse
    BY <1>11 DEF write_response
  <2> QED
    BY <2>1, NewIsEmpty DEF QuietInv
<1>12. CASE fileChanges \/ UNCHANGED vars
  <2>1. resp' = resp /\ pc' = pc /\ i' = i /\ UNCHANGED <<config, request, target>>
    BY <1>12 DEF fileChanges, vars, config
  <2> QED
    BY <2>1, QuietFrame DEF QuietInv
<1> QED
  BY <1>1, <1>2, <1>3, <1>4, <1>5, <1>6, <1>7, <1>8, <1>9, <1>10, <1>11, <1>12
     DEF Next, Processing

\* 304 goes out empty, though the request goes on to the router and to
\* NotFoundHandler (static.cpp, operator(); whs.cpp:44-60, isBodySet).
THEOREM NotModifiedCorrect == Spec => []NotModifiedIsEmpty
<1>1. Init => QuietInv
  <2> SUFFICES ASSUME Init PROVE QuietInv
    OBVIOUS
  <2>1. pc = "idle" /\ resp = NewResponse
    BY DEF Init
  <2> QED
    BY <2>1, NewIsEmpty DEF QuietInv
<1>2. TypeOK /\ LengthInv => Idle
  BY DEF LengthInv
<1>3. QuietInv => NotModifiedIsEmpty
  BY DEF QuietInv, Quiet, EmptyOf, NotModifiedIsEmpty, SentLength
<1> QED
  BY <1>1, <1>2, <1>3, QuietInductive, LengthInvariant, PTL DEF Spec

-----------------------------------------------------------------------------
(* The response itself (module Response): the map of its headers.            *)

-----------------------------------------------------------------------------
(* Least numbers, and induction by a least counterexample.                   *)

LEMMA LeastNumber ==
  ASSUME NEW S \in SUBSET Nat, S # {}
  PROVE  \E m \in S : \A n \in S : m <= n
<1> DEFINE Below == {pair \in Nat \X Nat : pair[1] < pair[2]}
<1>1. IsWellFoundedOn(Below, Nat)
  BY NatLessThanWellFounded DEF OpToRel
<1>2. ASSUME NEW m \in Nat, NEW n \in Nat, n < m PROVE <<n, m>> \in Below
  BY <1>2
<1> HIDE DEF Below
<1>3. PICK m \in S : \A n \in S : <<n, m>> \notin Below
  BY <1>1, WFMin
<1>4. ASSUME NEW n \in S PROVE m <= n
  <2>1. ~(n < m)
    BY <1>2, <1>3
  <2> QED BY <2>1
<1> QED BY <1>4

LEMMA NumbersUpward ==
  ASSUME NEW S \in SUBSET Nat, 0 \in S, \A n \in S : n + 1 \in S
  PROVE  \A n \in Nat : n \in S
<1> SUFFICES ASSUME Nat \ S # {} PROVE FALSE
  OBVIOUS
<1>1. PICK m \in Nat \ S : \A n \in Nat \ S : m <= n
  BY LeastNumber
<1>2. m # 0 /\ m - 1 \in Nat /\ ~(m <= m - 1) /\ (m - 1) + 1 = m
  BY <1>1
<1> QED BY <1>1, <1>2

-----------------------------------------------------------------------------
(* A descent ends in the gap where the entries it goes left of begin.        *)

LEMMA LeastRank ==
  ASSUME MaxHeaders \in Nat, NEW h \in Seq(Entry), NEW lo \in 1 .. Len(h), NEW hi \in lo .. Len(h)
  PROVE  Root(h, lo, hi) \in lo .. hi
<1> DEFINE S == {h[p].rank : p \in lo .. hi}
<1>1. \A p \in lo .. hi : h[p].rank \in Nat
  <2>1. \A p \in lo .. hi : p \in 1 .. Len(h)
    OBVIOUS
  <2>2. \A p \in lo .. hi : h[p] \in Entry
    BY <2>1
  <2>3. \A e \in Entry : e.rank \in 1 .. MaxHeaders + 1
    BY DEF Entry
  <2>4. \A n \in 1 .. MaxHeaders + 1 : n \in Nat
    OBVIOUS
  <2> QED BY <2>2, <2>3, <2>4
<1>2. S \subseteq Nat /\ S # {}
  <2>1. lo \in lo .. hi
    OBVIOUS
  <2> QED BY <1>1, <2>1
<1> HIDE DEF S
<1>3. PICK m \in S : \A n \in S : m <= n
  BY <1>2, LeastNumber
<1>4. PICK r \in lo .. hi : h[r].rank = m
  BY <1>3 DEF S
<1>5. \A p \in lo .. hi : h[r].rank <= h[p].rank
  BY <1>3, <1>4 DEF S
<1> QED BY <1>5 DEF Root

\* The ranges of a descent, one for each number of turns.
Ranges(h, left, f) ==
  f = [turns \in 0 .. Len(h) |-> IF turns = 0 THEN [lo |-> 1, hi |-> Len(h)]
                                 ELSE Down(h, f[turns - 1], left)]

LEMMA RangesExist ==
  ASSUME NEW h, NEW left, Len(h) \in Nat
  PROVE  \E f : Ranges(h, left, f)
<1> DEFINE Start == [lo |-> 1, hi |-> Len(h)]
           Turn(f, t) == IF t = 0 THEN Start ELSE Down(h, f[t - 1], left)
           Solves(f, l) == f = [t \in 0 .. l |-> Turn(f, t)]
           S == {l \in Nat : \E f : Solves(f, l)}
<1>1. 0 \in S
  <2> DEFINE f == [t \in 0 .. 0 |-> Start]
  <2>1. \A t \in 0 .. 0 : t = 0
    OBVIOUS
  <2> HIDE DEF Start
  <2>2. Solves(f, 0)
    BY <2>1
  <2> QED BY <2>2
<1>2. ASSUME NEW l \in S PROVE l + 1 \in S
  <2>1. PICK g : Solves(g, l)
    OBVIOUS
  <2> DEFINE f == [t \in 0 .. l + 1 |-> Turn(g, t)]
  <2> HIDE DEF Start
  <2>2. ASSUME NEW t \in 0 .. l PROVE f[t] = g[t]
    BY <2>1
  <2>3. ASSUME NEW t \in 0 .. l + 1 PROVE f[t] = Turn(f, t)
    <3>1. CASE t = 0
      BY <3>1
    <3>2. CASE t # 0
      <4>1. t - 1 \in 0 .. l
        BY <3>2
      <4>2. f[t - 1] = g[t - 1]
        BY <2>2, <4>1
      <4> QED BY <3>2, <4>2
    <3> QED BY <3>1, <3>2
  <2>4. f = [t \in 0 .. l + 1 |-> f[t]]
    OBVIOUS
  <2> HIDE DEF f
  <2>5. Solves(f, l + 1)
    BY <2>3, <2>4
  <2>6. l + 1 \in Nat
    OBVIOUS
  <2> HIDE DEF Solves
  <2> QED BY <2>5, <2>6
<1>3. S \in SUBSET Nat
  OBVIOUS
<1> HIDE DEF S
<1>4. Len(h) \in S
  BY <1>1, <1>2, <1>3, NumbersUpward
<1> QED BY <1>4 DEF S, Ranges

\* The gap is one of the map, and if all entries behind one in `left' are in `left'
\* too, it is where `left' begins.
Closed(h, left) == \A p \in left, j \in 1 .. Len(h) : p < j => j \in left

LEMMA DescentFacts ==
  ASSUME MaxHeaders \in Nat, NEW h \in Seq(Entry), NEW left \in SUBSET (1 .. Len(h))
  PROVE  /\ Descent(h, left) \in 1 .. Len(h) + 1
         /\ Closed(h, left) =>
              \A p \in 1 .. Len(h) : p \in left <=> p >= Descent(h, left)
<1> DEFINE Path == CHOOSE f : Ranges(h, left, f)
<1>1. Ranges(h, left, Path)
  <2>1. Len(h) \in Nat
    OBVIOUS
  <2>2. \E f : Ranges(h, left, f)
    BY <2>1, RangesExist
  <2> QED BY <2>2
<1>2. Descent(h, left) = Path[Len(h)].lo
  BY DEF Descent, Ranges
<1> HIDE DEF Path
<1>3. /\ Path[0] = [lo |-> 1, hi |-> Len(h)]
      /\ \A t \in 1 .. Len(h) : Path[t] = Down(h, Path[t - 1], left)
  <2>1. 0 \in 0 .. Len(h) /\ \A t \in 1 .. Len(h) : t \in 0 .. Len(h) /\ t # 0
    OBVIOUS
  <2> QED BY <1>1, <2>1 DEF Ranges
<1> DEFINE Good(r, t) ==
      /\ r = [lo |-> r.lo, hi |-> r.hi]
      /\ r.lo \in 1 .. Len(h) + 1 /\ r.hi \in r.lo - 1 .. Len(h) /\ r.hi - r.lo + 1 <= Len(h) - t
      /\ Closed(h, left) => /\ \A p \in 1 .. Len(h) : p < r.lo => p \notin left
                            /\ \A p \in 1 .. Len(h) : p > r.hi => p \in left
<1>4. Good(Path[0], 0)
  BY <1>3
<1>5. ASSUME NEW t \in 0 .. Len(h) - 1, NEW q, Good(q, t)
      PROVE  Good(Down(h, q, left), t + 1)
  <2> DEFINE r == Root(h, q.lo, q.hi)
             d == Down(h, q, left)
  <2>1. CASE q.lo > q.hi
    <3>1. d = q
      BY <2>1 DEF Down
    <3> QED BY <1>5, <2>1, <3>1
  <2>2. CASE ~(q.lo > q.hi)
    <3>1. r \in q.lo .. q.hi
      <4>1. q.lo \in 1 .. Len(h) /\ q.hi \in q.lo .. Len(h)
        BY <1>5, <2>2
      <4> QED BY <4>1, LeastRank
    <3> HIDE DEF r
    <3>2. d = IF r \in left THEN [lo |-> q.lo, hi |-> r - 1] ELSE [lo |-> r + 1, hi |-> q.hi]
      BY <1>5, <2>2 DEF Down, r
    <3>3. r \in 1 .. Len(h)
      BY <1>5, <3>1
    <3>4. CASE r \in left
      <4>1. Closed(h, left) => \A p \in 1 .. Len(h) : p > r - 1 => p \in left
        BY <3>3, <3>4 DEF Closed
      <4> QED BY <1>5, <3>1, <3>2, <3>4, <4>1, SMTT(30)
    <3>5. CASE r \notin left
      <4>1. Closed(h, left) => \A p \in 1 .. Len(h) : p < r + 1 => p \notin left
        BY <3>3, <3>5 DEF Closed
      <4> QED BY <1>5, <3>1, <3>2, <3>5, <4>1, SMTT(30)
    <3> QED BY <3>4, <3>5
  <2> QED BY <2>1, <2>2
<1> HIDE DEF Good
<1> DEFINE S == {t \in Nat : t <= Len(h) => Good(Path[t], t)}
<1>6. 0 \in S
  BY <1>4
<1>7. ASSUME NEW t \in S PROVE t + 1 \in S
  <2> SUFFICES ASSUME t + 1 <= Len(h) PROVE Good(Path[t + 1], t + 1)
    OBVIOUS
  <2>1. Good(Path[t], t) /\ t \in 0 .. Len(h) - 1 /\ t + 1 \in 1 .. Len(h) /\ (t + 1) - 1 = t
    OBVIOUS
  <2> QED BY <1>3, <1>5, <2>1
<1>8. S \in SUBSET Nat
  OBVIOUS
<1>9. Good(Path[Len(h)], Len(h))
  <2> HIDE DEF S
  <2>1. Len(h) \in S
    BY <1>6, <1>7, <1>8, NumbersUpward
  <2> QED BY <2>1 DEF S
<1> QED BY <1>2, <1>9 DEF Good

-----------------------------------------------------------------------------
(* The map after one entry more.                                             *)

KeysOf(h) == {h[p].key : p \in 1 .. Len(h)}

\* h2 is h with n bytes under k before the p-th entry.
Spliced(h2, h, p, k, n) ==
  /\ h2 \in Seq(Entry) /\ Len(h2) = Len(h) + 1
  /\ h2[p].key = k /\ h2[p].length = n
  /\ \A j \in 1 .. p - 1 : h2[j].key = h[j].key /\ h2[j].length = h[j].length
  /\ \A j \in p .. Len(h) : h2[j + 1].key = h[j].key /\ h2[j + 1].length = h[j].length

LEMMA InsertAtFacts ==
  ASSUME NEW T, NEW h \in Seq(T), NEW p \in 1 .. Len(h) + 1, NEW e \in T
  PROVE  /\ InsertAt(h, p, e) \in Seq(T)
         /\ Len(InsertAt(h, p, e)) = Len(h) + 1
         /\ InsertAt(h, p, e)[p] = e
         /\ \A j \in 1 .. p - 1 : InsertAt(h, p, e)[j] = h[j]
         /\ \A j \in p .. Len(h) : InsertAt(h, p, e)[j + 1] = h[j]
<1> DEFINE a == SubSeq(h, 1, p - 1)
           c == SubSeq(h, p, Len(h))
           m == a \o <<e>>
<1>1. a \in Seq(T) /\ Len(a) = p - 1 /\ \A j \in 1 .. p - 1 : a[j] = h[j]
  OBVIOUS
<1>2. /\ c \in Seq(T) /\ Len(c) = Len(h) - p + 1
      /\ \A j \in 1 .. Len(h) - p + 1 : c[j] = h[p + j - 1]
  OBVIOUS
<1>3. InsertAt(h, p, e) = m \o c
  BY DEF InsertAt
<1> HIDE DEF a, c
<1>4. /\ m \in Seq(T) /\ Len(m) = p /\ m[p] = e
      /\ \A j \in 1 .. p - 1 : m[j] = h[j]
  BY <1>1, SMTT(30)
<1> HIDE DEF m
<1>5. /\ m \o c \in Seq(T) /\ Len(m \o c) = Len(h) + 1
      /\ \A j \in 1 .. p : (m \o c)[j] = m[j]
      /\ \A j \in p + 1 .. Len(h) + 1 : (m \o c)[j] = c[j - p]
  BY <1>2, <1>4, SMTT(30)
<1>6. ASSUME NEW j \in p .. Len(h) PROVE (m \o c)[j + 1] = h[j]
  <2>1. j + 1 \in p + 1 .. Len(h) + 1 /\ (j + 1) - p \in 1 .. Len(h) - p + 1
        /\ p + ((j + 1) - p) - 1 = j
    OBVIOUS
  <2> QED BY <1>2, <1>5, <2>1
<1> QED BY <1>3, <1>4, <1>5, <1>6

LEMMA RebalancedFacts ==
  ASSUME MaxHeaders \in Nat \ {0}, NEW h \in Seq(Entry)
  PROVE  /\ Rebalanced(h) \in Seq(Entry) /\ Len(Rebalanced(h)) = Len(h)
         /\ \A j \in 1 .. Len(h) : /\ Rebalanced(h)[j].key = h[j].key
                                   /\ Rebalanced(h)[j].length = h[j].length
<1> DEFINE e(j) == [h[j] EXCEPT !.rank = IF j = 2 THEN 1 ELSE 2]
<1>1. CASE Len(h) # 3
  BY <1>1 DEF Rebalanced
<1>2. CASE Len(h) = 3
  <2>1. \A x \in Entry, r \in 1 .. 2 :
          /\ [x EXCEPT !.rank = r] \in Entry
          /\ [x EXCEPT !.rank = r].key = x.key /\ [x EXCEPT !.rank = r].length = x.length
    BY SMTT(30) DEF Entry
  <2>2. \A j \in 1 .. 3 : h[j] \in Entry /\ (IF j = 2 THEN 1 ELSE 2) \in 1 .. 2
    <3>1. \A j \in 1 .. Len(h) : h[j] \in Entry
      OBVIOUS
    <3>2. \A j \in 1 .. 3 : (IF j = 2 THEN 1 ELSE 2) \in 1 .. 2
      OBVIOUS
    <3> QED BY <1>2, <3>1, <3>2, ZenonT(30)
  <2>3. \A j \in 1 .. 3 : e(j) \in Entry /\ e(j).key = h[j].key /\ e(j).length = h[j].length
    BY <2>1, <2>2, ZenonT(30)
  <2>4. Rebalanced(h) = [j \in 1 .. 3 |-> e(j)]
    BY <1>2 DEF Rebalanced
  <2> HIDE DEF e
  <2> QED BY <1>2, <2>3, <2>4
<1> QED BY <1>1, <1>2

LEMMA InsertedFacts ==
  ASSUME MaxHeaders \in Nat \ {0}, NEW h \in Seq(Entry), Len(h) <= MaxHeaders,
         NEW p \in 1 .. Len(h) + 1, NEW k \in HeaderName, NEW n \in Nat
  PROVE  Spliced(Inserted(h, p, k, n), h, p, k, n)
<1> DEFINE e == [key |-> k, length |-> n, rank |-> Len(h) + 1]
           g == InsertAt(h, p, e)
<1>1. e \in Entry /\ e.key = k /\ e.length = n
  BY DEF Entry
<1>2. Inserted(h, p, k, n) = Rebalanced(g)
  BY DEF Inserted
<1> HIDE DEF e
<1>3. /\ g \in Seq(Entry) /\ Len(g) = Len(h) + 1 /\ g[p] = e
      /\ \A j \in 1 .. p - 1 : g[j] = h[j]
      /\ \A j \in p .. Len(h) : g[j + 1] = h[j]
  BY <1>1, InsertAtFacts
<1> HIDE DEF g
<1>4. /\ Rebalanced(g) \in Seq(Entry) /\ Len(Rebalanced(g)) = Len(g)
      /\ \A j \in 1 .. Len(g) : /\ Rebalanced(g)[j].key = g[j].key
                                /\ Rebalanced(g)[j].length = g[j].length
  BY <1>3, RebalancedFacts
<1>5. p \in 1 .. Len(g) /\ (\A j \in 1 .. p - 1 : j \in 1 .. Len(g))
      /\ (\A j \in p .. Len(h) : j + 1 \in 1 .. Len(g))
  BY <1>3
<1> QED BY <1>1, <1>2, <1>3, <1>4, <1>5 DEF Spliced

\* Where the entries of h are in h2, and what is new.
LEMMA SplicedFacts ==
  ASSUME NEW h \in Seq(Entry), NEW p \in 1 .. Len(h) + 1, NEW k, NEW n, NEW h2,
         Spliced(h2, h, p, k, n)
  PROVE  /\ KeysOf(h2) = KeysOf(h) \cup {k}
         /\ Given(h) \subseteq Given(h2)
         /\ \E j \in 1 .. Len(h2) : h2[j].key = k
<1> DEFINE At(j) == IF j < p THEN j ELSE j + 1
<1>1. \A j \in 1 .. Len(h) : /\ At(j) \in 1 .. Len(h2)
                             /\ h2[At(j)].key = h[j].key /\ h2[At(j)].length = h[j].length
  BY DEF Spliced
<1>2. p \in 1 .. Len(h2) /\ h2[p].key = k
  BY DEF Spliced
<1>3. \A j \in 1 .. Len(h2) : j # p => \E l \in 1 .. Len(h) : j = At(l)
  <2> SUFFICES ASSUME NEW j \in 1 .. Len(h2), j # p PROVE \E l \in 1 .. Len(h) : j = At(l)
    OBVIOUS
  <2>1. CASE j < p
    <3>1. j \in 1 .. Len(h) /\ j = At(j)
      BY <2>1
    <3> QED BY <3>1
  <2>2. CASE j > p
    <3>1. j - 1 \in 1 .. Len(h) /\ j = At(j - 1)
      BY <2>2 DEF Spliced
    <3> QED BY <3>1
  <2>3. j \in Int /\ p \in Int
    BY DEF Spliced
  <2> QED BY <2>1, <2>2, <2>3
<1>4. DOMAIN h = 1 .. Len(h) /\ DOMAIN h2 = 1 .. Len(h2)
  BY DEF Spliced
<1> HIDE DEF At
<1>5. KeysOf(h2) = KeysOf(h) \cup {k}
  <2>1. KeysOf(h2) \subseteq KeysOf(h) \cup {k}
    <3>1. ASSUME NEW j \in 1 .. Len(h2), j # p PROVE h2[j].key \in KeysOf(h)
      <4>1. PICK l \in 1 .. Len(h) : j = At(l)
        BY <1>3, <3>1
      <4> QED BY <1>1, <4>1 DEF KeysOf
    <3> QED BY <1>2, <3>1 DEF KeysOf
  <2>2. KeysOf(h) \cup {k} \subseteq KeysOf(h2)
    BY <1>1, <1>2 DEF KeysOf
  <2> QED BY <2>1, <2>2
<1>6. Given(h) \subseteq Given(h2)
  <2> SUFFICES ASSUME NEW x \in Given(h) PROVE x \in Given(h2)
    OBVIOUS
  <2>1. PICK j \in DOMAIN h : h[j].length # 0 /\ x = <<h[j].key, h[j].length>>
    BY DEF Given
  <2>2. /\ At(j) \in DOMAIN h2 /\ h2[At(j)].length # 0
        /\ x = <<h2[At(j)].key, h2[At(j)].length>>
    BY <1>1, <1>4, <2>1
  <2> QED BY <2>2 DEF Given
<1> QED BY <1>2, <1>5, <1>6

-----------------------------------------------------------------------------
(* A numbering of the keys that Less agrees with is an order of the map.      *)

Numbering == [HeaderName -> Int]
AgreeOn(S, V) == \A k, l \in S : Less(k, l) <=> V[k] < V[l]
SortedBy(h, V) == \A p, j \in 1 .. Len(h) : p < j => V[h[p].key] < V[h[j].key]
Placed(h, V) == AgreeOn(KeysOf(h), V) => SortedBy(h, V)

LEMMA KeyTypes ==
  ASSUME NEW h \in Seq(Entry)
  PROVE  /\ KeysOf(h) \subseteq HeaderName
         /\ \A p \in 1 .. Len(h) : h[p].key \in KeysOf(h)
<1>1. \A p \in 1 .. Len(h) : h[p] \in Entry
  OBVIOUS
<1>2. \A e \in Entry : e.key \in HeaderName
  BY DEF Entry
<1> QED BY <1>1, <1>2 DEF KeysOf

LEMMA Gaps ==
  ASSUME MaxHeaders \in Nat, NEW h \in Seq(Entry), NEW k
  PROVE  UpperGap(h, k) \in 1 .. Len(h) + 1 /\ lower_bound(h, k) \in 1 .. Len(h) + 1
<1> DEFINE Above == {p \in 1 .. Len(h) : Less(k, h[p].key)}
           NotBelow == {p \in 1 .. Len(h) : ~Less(h[p].key, k)}
<1>1. Above \in SUBSET (1 .. Len(h)) /\ NotBelow \in SUBSET (1 .. Len(h))
  OBVIOUS
<1>2. UpperGap(h, k) = Descent(h, Above) /\ lower_bound(h, k) = Descent(h, NotBelow)
  BY DEF UpperGap, lower_bound
<1> HIDE DEF Above, NotBelow
<1> QED BY <1>1, <1>2, DescentFacts

LEMMA SortedGaps ==
  ASSUME MaxHeaders \in Nat, NEW V \in Numbering, NEW h \in Seq(Entry),
         NEW k \in HeaderName, AgreeOn(KeysOf(h) \cup {k}, V), SortedBy(h, V)
  PROVE  \A p \in 1 .. Len(h) : /\ V[k] < V[h[p].key] <=> p >= UpperGap(h, k)
                                /\ V[h[p].key] >= V[k] <=> p >= lower_bound(h, k)
<1> DEFINE Above == {p \in 1 .. Len(h) : Less(k, h[p].key)}
           NotBelow == {p \in 1 .. Len(h) : ~Less(h[p].key, k)}
<1>1. V[k] \in Int /\ \A p \in 1 .. Len(h) : V[h[p].key] \in Int
  BY KeyTypes DEF Numbering
<1>2. \A p \in 1 .. Len(h) : /\ Less(k, h[p].key) <=> V[k] < V[h[p].key]
                             /\ Less(h[p].key, k) <=> V[h[p].key] < V[k]
  BY KeyTypes DEF AgreeOn
<1>3. \A p \in 1 .. Len(h) : /\ p \in Above <=> V[k] < V[h[p].key]
                             /\ p \in NotBelow <=> V[h[p].key] >= V[k]
  BY <1>1, <1>2
<1>4. Above \in SUBSET (1 .. Len(h)) /\ NotBelow \in SUBSET (1 .. Len(h))
  OBVIOUS
<1>5. UpperGap(h, k) = Descent(h, Above) /\ lower_bound(h, k) = Descent(h, NotBelow)
  BY DEF UpperGap, lower_bound
<1> HIDE DEF Above, NotBelow
<1>6. Closed(h, Above) /\ Closed(h, NotBelow)
  <2>1. ASSUME NEW p \in 1 .. Len(h), NEW j \in 1 .. Len(h), p < j
        PROVE  (p \in Above => j \in Above) /\ (p \in NotBelow => j \in NotBelow)
    <3>1. V[h[p].key] < V[h[j].key]
      BY <2>1 DEF SortedBy
    <3>2. V[k] \in Int /\ V[h[p].key] \in Int /\ V[h[j].key] \in Int
      BY <1>1
    <3> QED BY <1>3, <3>1, <3>2
  <2> QED BY <1>4, <2>1 DEF Closed
<1>7. \A p \in 1 .. Len(h) : /\ p \in Above <=> p >= Descent(h, Above)
                             /\ p \in NotBelow <=> p >= Descent(h, NotBelow)
  BY <1>4, <1>6, DescentFacts
<1> QED BY <1>3, <1>5, <1>7

LEMMA SplicedSorted ==
  ASSUME NEW V \in Numbering, NEW h \in Seq(Entry), SortedBy(h, V),
         NEW p \in 1 .. Len(h) + 1, NEW k \in HeaderName, NEW n, NEW h2, Spliced(h2, h, p, k, n),
         \A j \in 1 .. p - 1 : V[h[j].key] < V[k], \A j \in p .. Len(h) : V[k] < V[h[j].key]
  PROVE  SortedBy(h2, V)
<1> DEFINE N(j) == V[h2[j].key]
           O(j) == V[h[j].key]
<1>1. V[k] \in Int /\ \A j \in 1 .. Len(h) : O(j) \in Int
  BY KeyTypes DEF Numbering
<1>2. /\ N(p) = V[k] /\ Len(h2) = Len(h) + 1
      /\ \A j \in 1 .. p - 1 : N(j) = O(j)
      /\ \A j \in p .. Len(h) : N(j + 1) = O(j)
  BY DEF Spliced
<1>3. \A j, l \in 1 .. Len(h) : j < l => O(j) < O(l)
  BY DEF SortedBy
<1>4. (\A j \in 1 .. p - 1 : O(j) < V[k]) /\ (\A j \in p .. Len(h) : V[k] < O(j))
  OBVIOUS
<1> HIDE DEF N, O
<1>5. ASSUME NEW j \in 1 .. Len(h2), NEW l \in 1 .. Len(h2), j < l PROVE N(j) < N(l)
  <2>1. CASE l < p
    BY <1>2, <1>3, <1>5, <2>1
  <2>2. CASE l = p
    BY <1>2, <1>4, <1>5, <2>2
  <2>3. CASE l > p
    <3>1. l - 1 \in p .. Len(h) /\ N(l) = O(l - 1)
      <4>1. l - 1 \in p .. Len(h) /\ (l - 1) + 1 = l
        BY <1>2, <2>3
      <4> QED BY <1>2, <4>1
    <3>2. CASE j < p
      <4>1. j \in 1 .. p - 1 /\ j \in 1 .. Len(h) /\ l - 1 \in 1 .. Len(h) /\ j < l - 1
        BY <2>3, <3>1, <3>2
      <4> QED BY <1>2, <1>3, <3>1, <4>1
    <3>3. CASE j = p
      BY <1>2, <1>4, <3>1, <3>3
    <3>4. CASE j > p
      <4>1. j - 1 \in p .. Len(h) /\ (j - 1) + 1 = j
        BY <1>2, <3>4
      <4>2. N(j) = O(j - 1)
        BY <1>2, <4>1
      <4> QED BY <1>3, <1>5, <3>1, <4>1, <4>2
    <3> QED BY <3>2, <3>3, <3>4
  <2> QED BY <2>1, <2>2, <2>3
<1> QED BY <1>5 DEF N, SortedBy

\* h2 is what building makes of h: m entries more at most.
Larger(h2, h, m) ==
  /\ h2 \in Seq(Entry) /\ Len(h2) <= Len(h) + m
  /\ KeysOf(h) \subseteq KeysOf(h2)
  /\ \A V \in Numbering : Placed(h, V) => Placed(h2, V)

LEMMA EmplaceFacts ==
  ASSUME MaxHeaders \in Nat \ {0}, NEW h \in Seq(Entry), Len(h) <= MaxHeaders,
         NEW k \in HeaderName, NEW n \in Nat
  PROVE  /\ Larger(emplace(h, k, n), h, 1)
         /\ Given(h) \subseteq Given(emplace(h, k, n))
         /\ ~Fresh(h, k) => emplace(h, k, n) = h
         /\ Fresh(h, k) => k \in KeysOf(emplace(h, k, n))
<1> DEFINE e == emplace(h, k, n)
           u == UpperGap(h, k)
<1>1. CASE ~Fresh(h, k)
  <2>1. e = h
    BY <1>1 DEF emplace
  <2>2. Larger(h, h, 1)
    BY DEF Larger
  <2> HIDE DEF e
  <2> QED BY <1>1, <2>1, <2>2 DEF e
<1>2. CASE Fresh(h, k)
  <2>1. u \in 1 .. Len(h) + 1
    BY Gaps
  <2>2. Spliced(e, h, u, k, n)
    BY <1>2, <2>1, InsertedFacts DEF emplace
  <2>3. KeysOf(e) = KeysOf(h) \cup {k} /\ Given(h) \subseteq Given(e)
    BY <2>1, <2>2, SplicedFacts
  <2>4. e \in Seq(Entry) /\ Len(e) = Len(h) + 1
    BY <2>2 DEF Spliced
  <2>5. u = 1 \/ Less(h[u - 1].key, k)
    BY <1>2 DEF Fresh
  <2> HIDE DEF e, u
  <2>6. ASSUME NEW V \in Numbering, Placed(h, V), AgreeOn(KeysOf(e), V) PROVE SortedBy(e, V)
    <3>1. AgreeOn(KeysOf(h) \cup {k}, V) /\ SortedBy(h, V)
      BY <2>3, <2>6 DEF Placed, AgreeOn
    <3>2. \A p \in 1 .. Len(h) : V[k] < V[h[p].key] <=> p >= u
      BY <3>1, SortedGaps DEF u
    <3>3. \A j \in u .. Len(h) : V[k] < V[h[j].key]
      BY <2>1, <3>2
    <3>4. ASSUME NEW j \in 1 .. u - 1 PROVE V[h[j].key] < V[k]
      <4>1. u - 1 \in 1 .. Len(h) /\ j \in 1 .. Len(h) /\ Less(h[u - 1].key, k)
        BY <2>1, <2>5
      <4>2. V[h[u - 1].key] < V[k]
        BY <3>1, <4>1, KeyTypes DEF AgreeOn
      <4>3. j = u - 1 \/ V[h[j].key] < V[h[u - 1].key]
        BY <2>1, <3>1, <4>1 DEF SortedBy
      <4>4. V[h[j].key] \in Int /\ V[h[u - 1].key] \in Int /\ V[k] \in Int
        BY <4>1, KeyTypes DEF Numbering
      <4> QED BY <4>2, <4>3, <4>4
    <3> QED BY <2>1, <2>2, <3>1, <3>3, <3>4, SplicedSorted
  <2>7. \A V \in Numbering : Placed(h, V) => Placed(e, V)
    BY <2>6 DEF Placed
  <2>8. Larger(e, h, 1)
    BY <2>3, <2>4, <2>7 DEF Larger
  <2> QED BY <1>2, <2>3, <2>8 DEF e
<1> QED BY <1>1, <1>2

\* The entry that operator[] refers to is in the map.
LEMMA ReferredFacts ==
  ASSUME MaxHeaders \in Nat, NEW h \in Seq(Entry), NEW k
  PROVE  /\ Referred(h, k) \in 0 .. Len(h)
         /\ Referred(h, k) = 0 => HintHolds(h, k) \/ Fresh(h, k)
<1> DEFINE l == lower_bound(h, k)
           u == UpperGap(h, k)
<1>1. l \in 1 .. Len(h) + 1 /\ u \in 1 .. Len(h) + 1
  BY Gaps
<1>2. Found(h, k) = IF l <= Len(h) /\ ~Less(k, h[l].key) THEN l ELSE 0
  BY DEF Found
<1>3. Fresh(h, k) <=> u = 1 \/ Less(h[u - 1].key, k)
  BY DEF Fresh
<1>4. Referred(h, k) = IF Found(h, k) # 0 THEN Found(h, k)
                            ELSE IF HintHolds(h, k) \/ Fresh(h, k) THEN 0 ELSE u - 1
  BY DEF Referred
<1> HIDE DEF l, u
<1>5. Found(h, k) \in 0 .. Len(h)
  BY <1>1, <1>2
<1>6. ~Fresh(h, k) => u - 1 \in 1 .. Len(h)
  BY <1>1, <1>3
<1> QED BY <1>4, <1>5, <1>6

\* It has the number of the key.
LEMMA ReferredSame ==
  ASSUME MaxHeaders \in Nat, NEW V \in Numbering, NEW h \in Seq(Entry),
         NEW k \in HeaderName, AgreeOn(KeysOf(h) \cup {k}, V), SortedBy(h, V),
         Referred(h, k) # 0
  PROVE  V[h[Referred(h, k)].key] = V[k]
<1> DEFINE l == lower_bound(h, k)
           u == UpperGap(h, k)
<1>1. l \in 1 .. Len(h) + 1 /\ u \in 1 .. Len(h) + 1
  BY Gaps
<1>2. \A p \in 1 .. Len(h) : /\ V[k] < V[h[p].key] <=> p >= u
                             /\ V[h[p].key] >= V[k] <=> p >= l
  BY SortedGaps
<1>3. Found(h, k) = IF l <= Len(h) /\ ~Less(k, h[l].key) THEN l ELSE 0
  BY DEF Found
<1>4. Fresh(h, k) <=> u = 1 \/ Less(h[u - 1].key, k)
  BY DEF Fresh
<1>5. Referred(h, k) = IF Found(h, k) # 0 THEN Found(h, k)
                            ELSE IF HintHolds(h, k) \/ Fresh(h, k) THEN 0 ELSE u - 1
  BY DEF Referred
<1>6. V[k] \in Int /\ \A p \in 1 .. Len(h) : V[h[p].key] \in Int
  BY KeyTypes DEF Numbering
<1>7. \A p \in 1 .. Len(h) : /\ Less(k, h[p].key) <=> V[k] < V[h[p].key]
                             /\ Less(h[p].key, k) <=> V[h[p].key] < V[k]
  BY KeyTypes DEF AgreeOn
<1> HIDE DEF l, u
<1>8. CASE Found(h, k) # 0
  <2>1. Referred(h, k) = l /\ l \in 1 .. Len(h) /\ ~Less(k, h[l].key)
    BY <1>1, <1>3, <1>5, <1>8
  <2>2. V[h[l].key] >= V[k] /\ ~(V[k] < V[h[l].key])
    BY <1>2, <1>7, <2>1
  <2> QED BY <1>6, <2>1, <2>2
<1>9. CASE Found(h, k) = 0
  <2>1. Referred(h, k) = u - 1 /\ ~Fresh(h, k)
    BY <1>5, <1>9
  <2>2. u - 1 \in 1 .. Len(h) /\ ~(u - 1 >= u) /\ ~Less(h[u - 1].key, k)
    BY <1>1, <1>4, <2>1
  <2>3. ~(V[k] < V[h[u - 1].key]) /\ ~(V[h[u - 1].key] < V[k])
    BY <1>2, <1>7, <2>2
  <2> QED BY <1>6, <2>1, <2>2, <2>3
<1> QED BY <1>8, <1>9

LEMMA ChangedFacts ==
  ASSUME NEW h \in Seq(Entry), NEW p \in 1 .. Len(h), NEW n \in Nat
  PROVE  /\ Larger([h EXCEPT ![p].length = n], h, 1)
         /\ h[p].length = 0 => Given(h) \subseteq Given([h EXCEPT ![p].length = n])
<1> DEFINE g == [h EXCEPT ![p].length = n]
<1>1. h[p] \in Entry /\ Len(h) \in Nat /\ DOMAIN h = 1 .. Len(h)
  OBVIOUS
<1>2. /\ [h[p] EXCEPT !.length = n] \in Entry
      /\ [h[p] EXCEPT !.length = n].key = h[p].key
  BY <1>1 DEF Entry
<1>3. g = [h EXCEPT ![p] = [h[p] EXCEPT !.length = n]]
  OBVIOUS
<1> HIDE DEF g
<1>4. /\ g \in Seq(Entry) /\ Len(g) = Len(h) /\ DOMAIN g = 1 .. Len(h)
      /\ \A j \in 1 .. Len(h) : g[j].key = h[j].key /\ (j # p => g[j].length = h[j].length)
  BY <1>1, <1>2, <1>3
<1>5. KeysOf(g) = KeysOf(h)
  BY <1>4 DEF KeysOf
<1>6. \A V \in Numbering : Placed(h, V) => Placed(g, V)
  <2> SUFFICES ASSUME NEW V \in Numbering, Placed(h, V), AgreeOn(KeysOf(g), V) PROVE SortedBy(g, V)
    BY DEF Placed
  <2>1. SortedBy(h, V)
    BY <1>5 DEF Placed
  <2> QED BY <1>4, <2>1 DEF SortedBy
<1>7. Larger(g, h, 1)
  BY <1>1, <1>4, <1>5, <1>6 DEF Larger
<1>8. ASSUME h[p].length = 0, NEW x \in Given(h) PROVE x \in Given(g)
  <2>1. PICK j \in 1 .. Len(h) : h[j].length # 0 /\ x = <<h[j].key, h[j].length>>
    BY <1>1 DEF Given
  <2>2. j # p /\ g[j].key = h[j].key /\ g[j].length = h[j].length
    BY <1>4, <1>8, <2>1
  <2> QED BY <1>4, <2>1, <2>2 DEF Given
<1> QED BY <1>7, <1>8 DEF g

LEMMA AssignedFacts ==
  ASSUME MaxHeaders \in Nat \ {0}, NEW h \in Seq(Entry), Len(h) <= MaxHeaders,
         NEW k \in HeaderName, NEW n \in Nat
  PROVE  /\ Larger(Assigned(h, k, n), h, 1)
         /\ Empty(h, k) => Given(h) \subseteq Given(Assigned(h, k, n))
         /\ Referred(h, k) = 0 => k \in KeysOf(Assigned(h, k, n))
<1> DEFINE a == Assigned(h, k, n)
           p == Referred(h, k)
           l == lower_bound(h, k)
<1>1. p \in 0 .. Len(h) /\ (p = 0 => HintHolds(h, k) \/ Fresh(h, k)) /\ l \in 1 .. Len(h) + 1
  BY Gaps, ReferredFacts
<1>2. a = IF p # 0 THEN [h EXCEPT ![p].length = n]
          ELSE IF HintHolds(h, k) THEN Inserted(h, l, k, n) ELSE emplace(h, k, n)
  BY DEF Assigned
<1>3. Empty(h, k) <=> p = 0 \/ h[p].length = 0
  BY DEF Empty
<1>4. HintHolds(h, k) <=> l = 1 \/ Less(h[l - 1].key, k)
  BY DEF HintHolds
<1>5. /\ Found(h, k) = IF l <= Len(h) /\ ~Less(k, h[l].key) THEN l ELSE 0
      /\ Found(h, k) # 0 => p = Found(h, k)
  BY DEF Found, Referred
<1> HIDE DEF a, p, l
<1>6. CASE p # 0
  <2>1. p \in 1 .. Len(h)
    BY <1>1, <1>6
  <2> QED BY <1>2, <1>3, <1>6, <2>1, ChangedFacts DEF a, p
<1>7. CASE p = 0 /\ HintHolds(h, k)
  <2>1. Spliced(a, h, l, k, n)
    BY <1>1, <1>2, <1>7, InsertedFacts
  <2>2. KeysOf(a) = KeysOf(h) \cup {k} /\ Given(h) \subseteq Given(a)
    BY <1>1, <2>1, SplicedFacts
  <2>3. a \in Seq(Entry) /\ Len(a) = Len(h) + 1
    BY <2>1 DEF Spliced
  <2>4. l <= Len(h) => Less(k, h[l].key)
    BY <1>1, <1>5, <1>7
  <2>5. ASSUME NEW V \in Numbering, Placed(h, V), AgreeOn(KeysOf(a), V) PROVE SortedBy(a, V)
    <3>1. AgreeOn(KeysOf(h) \cup {k}, V) /\ SortedBy(h, V)
      BY <2>2, <2>5 DEF Placed, AgreeOn
    <3>2. \A j \in 1 .. Len(h) : V[h[j].key] >= V[k] <=> j >= l
      BY <3>1, SortedGaps DEF l
    <3>3. V[k] \in Int /\ \A j \in 1 .. Len(h) : V[h[j].key] \in Int
      BY KeyTypes DEF Numbering
    <3>4. \A j \in 1 .. l - 1 : V[h[j].key] < V[k]
      BY <1>1, <3>2, <3>3
    <3>5. ASSUME NEW j \in l .. Len(h) PROVE V[k] < V[h[j].key]
      <4>1. l \in 1 .. Len(h) /\ j \in 1 .. Len(h)
        BY <1>1
      <4>2. V[k] < V[h[l].key]
        BY <2>4, <3>1, <4>1, KeyTypes DEF AgreeOn
      <4>3. j = l \/ V[h[l].key] < V[h[j].key]
        BY <3>1, <4>1 DEF SortedBy
      <4> QED BY <3>3, <4>1, <4>2, <4>3
    <3> QED BY <1>1, <2>1, <3>1, <3>4, <3>5, SplicedSorted
  <2>6. \A V \in Numbering : Placed(h, V) => Placed(a, V)
    BY <2>5 DEF Placed
  <2>7. Larger(a, h, 1)
    BY <2>2, <2>3, <2>6 DEF Larger
  <2>8. k \in KeysOf(a)
    BY <2>2
  <2> QED BY <2>2, <2>7, <2>8 DEF a
<1>8. CASE p = 0 /\ ~HintHolds(h, k)
  <2>1. a = emplace(h, k, n) /\ Fresh(h, k)
    BY <1>1, <1>2, <1>8
  <2>2. Larger(a, h, 1) /\ Given(h) \subseteq Given(a) /\ k \in KeysOf(a)
    BY <2>1, EmplaceFacts
  <2> QED BY <2>2 DEF a
<1> QED BY <1>6, <1>7, <1>8

-----------------------------------------------------------------------------
(* setBody and toBytes, which do several things to the map.                  *)

\* What the assumption on the constants says of the data.
DataOK ==
  /\ MaxHeaders \in Nat /\ MaxHeaders # 0
  /\ \A n \in BodySizes : n \in Nat /\ n % BodySizeRange \in Nat
  /\ \A n \in ValueLengths : n \in Nat
  /\ 0 \in Statuses
  /\ \A s \in Statuses : StatusText[s] \in Nat /\ StatusText[s] <= 31
  /\ \A c \in DOMAIN CommonHeader : Enum(c) \in HeaderName
  /\ Enum("Content-Type") \in HeaderName
  /\ Enum("Content-Length") \in HeaderName
  /\ \A k \in HeaderName : NameLength[k.name] \in Nat /\ TextRank[k.name] \in Nat
  /\ \A k \in HeaderName : k.kind = "ENUM" => CommonHeader[k.name] \in Nat

LEMMA DataFacts == DataOK
<1>1. MaxHeaders \in Nat /\ MaxHeaders # 0
  BY ResponseAssumption
<1>2. /\ \A n \in BodySizes : n \in Nat /\ n % BodySizeRange \in Nat
      /\ \A n \in ValueLengths : n \in Nat
  BY ResponseAssumption
<1>3. 0 \in Statuses /\ \A s \in Statuses : StatusText[s] \in Nat /\ StatusText[s] <= 31
  <2>1. 0 \in Statuses /\ \A s \in Statuses : StatusText[s] \in 0 .. 31
    BY ResponseAssumption
  <2> QED BY <2>1
<1>4. ASSUME NEW c \in DOMAIN CommonHeader PROVE Enum(c) \in HeaderName
  <2>1. Enum(c) = [kind |-> "ENUM", name |-> c]
    BY DEF Enum
  <2>2. Enum(c) \in [kind : {"ENUM"}, name : DOMAIN CommonHeader]
    BY <2>1
  <2> QED BY <2>2 DEF HeaderName
<1>5. "Content-Type" \in DOMAIN CommonHeader /\ "Content-Length" \in DOMAIN CommonHeader
  BY ResponseAssumption
<1>6. ASSUME NEW k \in HeaderName
      PROVE  k.name \in DOMAIN TextRank /\ (k.kind = "ENUM" => k.name \in DOMAIN CommonHeader)
  BY ResponseAssumption DEF HeaderName
<1>7. /\ \A n \in DOMAIN TextRank : NameLength[n] \in Nat /\ TextRank[n] \in Nat
      /\ \A n \in DOMAIN CommonHeader : CommonHeader[n] \in Nat
  BY ResponseAssumption
<1> QED BY <1>1, <1>2, <1>3, <1>4, <1>5, <1>6, <1>7 DEF DataOK

LEMMA LargerTwice ==
  ASSUME NEW h \in Seq(Entry), NEW h2, NEW h3, NEW m \in Nat, NEW m2 \in Nat,
         Larger(h2, h, m), Larger(h3, h2, m2)
  PROVE  Larger(h3, h, m + m2)
<1>1. /\ h2 \in Seq(Entry) /\ Len(h2) <= Len(h) + m /\ KeysOf(h) \subseteq KeysOf(h2)
      /\ h3 \in Seq(Entry) /\ Len(h3) <= Len(h2) + m2 /\ KeysOf(h2) \subseteq KeysOf(h3)
  BY DEF Larger
<1>2. Len(h3) <= Len(h) + (m + m2)
  BY <1>1
<1>3. \A V \in Numbering : Placed(h, V) => Placed(h3, V)
  BY DEF Larger
<1> QED BY <1>1, <1>2, <1>3 DEF Larger

LEMMA LargerSelf ==
  ASSUME NEW h \in Seq(Entry), NEW m \in Nat
  PROVE  Larger(h, h, m)
BY DEF Larger

\* An entry of the number of k is in the map, if the numbering is its order.
Has(h, k) == \A V \in Numbering :
  Placed(h, V) /\ AgreeOn(KeysOf(h) \cup {k}, V) => \E d \in KeysOf(h) : V[d] = V[k]

LEMMA HasMore ==
  ASSUME NEW h \in Seq(Entry), NEW h2, NEW m, NEW k, Larger(h2, h, m), Has(h, k),
         \A V \in Numbering : Placed(h, V)
  PROVE  Has(h2, k)
<1> SUFFICES ASSUME NEW V \in Numbering, AgreeOn(KeysOf(h2) \cup {k}, V)
             PROVE  \E d \in KeysOf(h2) : V[d] = V[k]
  BY DEF Has
<1>1. KeysOf(h) \subseteq KeysOf(h2)
  BY DEF Larger
<1>2. AgreeOn(KeysOf(h) \cup {k}, V)
  BY <1>1 DEF AgreeOn
<1>3. \E d \in KeysOf(h) : V[d] = V[k]
  BY <1>2 DEF Has
<1> QED BY <1>1, <1>3

LEMMA HasReferred ==
  ASSUME MaxHeaders \in Nat, NEW h \in Seq(Entry), NEW k \in HeaderName,
         Referred(h, k) # 0
  PROVE  Has(h, k)
<1> SUFFICES ASSUME NEW V \in Numbering, Placed(h, V), AgreeOn(KeysOf(h) \cup {k}, V)
             PROVE  \E d \in KeysOf(h) : V[d] = V[k]
  BY DEF Has
<1>1. SortedBy(h, V)
  BY DEF Placed, AgreeOn
<1>2. Referred(h, k) \in 1 .. Len(h)
  BY ReferredFacts
<1>3. V[h[Referred(h, k)].key] = V[k]
  BY <1>1, ReferredSame
<1> QED BY <1>2, <1>3, KeyTypes

LEMMA HasKey == ASSUME NEW h, NEW k \in KeysOf(h) PROVE Has(h, k)
BY DEF Has

\* What is in the map already is not emplaced.
LEMMA HasStale ==
  ASSUME MaxHeaders \in Nat \ {0}, NEW h \in Seq(Entry), Len(h) <= MaxHeaders,
         NEW k \in HeaderName, NEW n \in Nat, NEW V \in Numbering,
         Has(h, k), Placed(h, V), AgreeOn(KeysOf(emplace(h, k, n)), V)
  PROVE  emplace(h, k, n) = h
<1> SUFFICES ASSUME Fresh(h, k) PROVE FALSE
  BY EmplaceFacts
<1>1. KeysOf(h) \cup {k} \subseteq KeysOf(emplace(h, k, n))
  BY EmplaceFacts DEF Larger
<1>2. AgreeOn(KeysOf(h) \cup {k}, V) /\ SortedBy(h, V)
  BY <1>1 DEF AgreeOn, Placed
<1>3. PICK j \in 1 .. Len(h) : V[h[j].key] = V[k]
  BY <1>2 DEF Has, KeysOf
<1> DEFINE u == UpperGap(h, k)
<1>4. u \in 1 .. Len(h) + 1 /\ (u = 1 \/ Less(h[u - 1].key, k))
  BY Gaps DEF Fresh
<1>5. V[k] < V[h[j].key] <=> j >= u
  BY <1>2, SortedGaps
<1> HIDE DEF u
<1>6. V[k] \in Int /\ V[h[j].key] \in Int
  BY KeyTypes DEF Numbering
<1>7. j < u /\ u - 1 \in 1 .. Len(h)
  BY <1>3, <1>4, <1>5, <1>6
<1>8. V[h[u - 1].key] < V[k]
  BY <1>2, <1>4, <1>7, KeyTypes DEF AgreeOn
<1>9. j = u - 1 \/ V[h[j].key] < V[h[u - 1].key]
  <2>1. j < u - 1 => V[h[j].key] < V[h[u - 1].key]
    BY <1>2, <1>7 DEF SortedBy
  <2>2. j \in Int /\ u \in Int
    BY <1>4
  <2> QED BY <1>7, <2>1, <2>2
<1>10. V[h[u - 1].key] \in Int
  BY <1>7, KeyTypes DEF Numbering
<1> QED BY <1>3, <1>6, <1>8, <1>9, <1>10

LEMMA itoaNatural == ASSUME NEW v PROVE itoa(v) \in Nat
<1> DEFINE left == CHOOSE f : f = [d \in 0 .. 19 |-> IF d = 0 THEN v ELSE f[d - 1] \div 10]
           Digits == {d \in 1 .. 19 : left[d] > 0}
<1>1. itoa(v) = 1 + Cardinality(Digits)
  BY DEF itoa
<1>2. Digits \in SUBSET (1 .. 19)
  OBVIOUS
<1> HIDE DEF Digits
<1>3. IsFiniteSet(Digits)
  <2>1. IsFiniteSet(1 .. 19)
    <3>1. 1 \in Int /\ 19 \in Int
      OBVIOUS
    <3> QED BY <3>1, FS_Interval
  <2> QED BY <1>2, <2>1, FS_Subset
<1>4. Cardinality(Digits) \in Nat
  BY <1>3, FS_CardinalityType
<1> QED BY <1>1, <1>4

\* setBody leaves what was given, and a type.
LEMMA DeclaredFacts ==
  ASSUME DataOK, NEW h \in Seq(Entry), Len(h) + 2 <= MaxHeaders,
         NEW n \in BodySizes, \A V \in Numbering : Placed(h, V)
  PROVE  /\ Larger(Declared(h, n), h, 2)
         /\ Given(h) \subseteq Given(Declared(h, n))
         /\ Has(Declared(h, n), Enum("Content-Type"))
<1> DEFINE k == Enum("Content-Type")
           t == IF Empty(h, k) THEN Assigned(h, k, 10) ELSE h
           D == emplace(t, Enum("Content-Length"), itoa(n))
<1>1. /\ MaxHeaders \in Nat \ {0} /\ n \in Nat
      /\ k \in HeaderName /\ Enum("Content-Length") \in HeaderName
  BY DEF DataOK
<1>2. itoa(n) \in Nat
  BY itoaNatural
<1>3. Declared(h, n) = D
  BY DEF Declared
<1>4. Empty(h, k) <=> Referred(h, k) = 0 \/ h[Referred(h, k)].length = 0
  BY DEF Empty
<1>5. Len(h) \in Nat /\ Len(h) <= MaxHeaders /\ 10 \in Nat
  BY <1>1
<1> HIDE DEF k
<1>6. Larger(t, h, 1) /\ Given(h) \subseteq Given(t)
  <2>1. CASE Empty(h, k)
    <3>1. /\ Larger(Assigned(h, k, 10), h, 1)
          /\ Given(h) \subseteq Given(Assigned(h, k, 10))
      BY <1>1, <1>5, <2>1, AssignedFacts
    <3> QED BY <2>1, <3>1
  <2>2. CASE ~Empty(h, k)
    <3>1. Larger(h, h, 1)
      BY LargerSelf
    <3> QED BY <2>2, <3>1
  <2> QED BY <2>1, <2>2
<1>7. Has(t, k)
  <2>1. CASE Referred(h, k) = 0
    <3>1. t = Assigned(h, k, 10)
      BY <1>4, <2>1
    <3>2. k \in KeysOf(Assigned(h, k, 10))
      BY <1>1, <1>5, <2>1, AssignedFacts
    <3> HIDE DEF t
    <3> QED BY <3>1, <3>2, HasKey
  <2>2. CASE Referred(h, k) # 0
    <3>1. Has(h, k)
      BY <1>1, <2>2, HasReferred
    <3> HIDE DEF t
    <3> QED BY <1>6, <3>1, HasMore
  <2> QED BY <2>1, <2>2
<1> HIDE DEF t
<1>8. /\ t \in Seq(Entry) /\ Len(t) <= MaxHeaders
      /\ \A V \in Numbering : Placed(t, V)
  BY <1>1, <1>5, <1>6 DEF Larger
<1>9. Larger(D, t, 1) /\ Given(t) \subseteq Given(D)
  BY <1>1, <1>2, <1>8, EmplaceFacts
<1> HIDE DEF D
<1>10. Larger(D, h, 2)
  <2>1. 1 \in Nat /\ 1 + 1 = 2
    OBVIOUS
  <2>2. Larger(D, h, 1 + 1)
    BY <1>6, <1>9, <2>1, LargerTwice
  <2> QED BY <2>1, <2>2
<1>11. Has(D, k)
  BY <1>7, <1>8, <1>9, HasMore
<1> QED BY <1>3, <1>6, <1>9, <1>10, <1>11 DEF k

\* toBytes leaves what was given.
LEMMA LengthMadeFacts ==
  ASSUME DataOK, NEW h \in Seq(Entry), Len(h) <= MaxHeaders
  PROVE  /\ Larger(LengthMade(h), h, 1)
         /\ Given(h) \subseteq Given(LengthMade(h))
<1> DEFINE k == Enum("Content-Length")
<1>1. MaxHeaders \in Nat \ {0} /\ k \in HeaderName
  BY DEF DataOK
<1>2. Referred(h, k) = 0 => Empty(h, k)
  BY DEF Empty
<1>3. \/ LengthMade(h) = h
      \/ Empty(h, k) /\ \E n \in {0, 1} : LengthMade(h) = Assigned(h, k, n)
  BY <1>2 DEF LengthMade
<1> HIDE DEF k
<1>4. CASE LengthMade(h) = h
  <2>1. Larger(h, h, 1)
    BY LargerSelf
  <2> QED BY <1>4, <2>1
<1>5. ASSUME NEW n \in {0, 1}, LengthMade(h) = Assigned(h, k, n), Empty(h, k)
      PROVE  Larger(LengthMade(h), h, 1) /\ Given(h) \subseteq Given(LengthMade(h))
  BY <1>1, <1>5, AssignedFacts
<1> QED BY <1>3, <1>4, <1>5

-----------------------------------------------------------------------------
(* What holds of the map in every state.                                     *)

Shape(h) ==
  /\ h \in Seq(Entry) /\ Len(h) <= MaxHeaders + 1
  /\ \A V \in Numbering : Placed(h, V)

LEMMA LargerShape ==
  ASSUME MaxHeaders \in Nat, NEW h, Shape(h), NEW h2, NEW m \in Nat, Larger(h2, h, m),
         Len(h) + m <= MaxHeaders + 1
  PROVE  Shape(h2)
<1>1. h \in Seq(Entry) /\ h2 \in Seq(Entry) /\ Len(h2) <= Len(h) + m
  BY DEF Shape, Larger
<1>2. Len(h2) <= MaxHeaders + 1
  BY <1>1
<1>3. \A V \in Numbering : Placed(h2, V)
  BY DEF Shape, Larger
<1> QED BY <1>1, <1>2, <1>3 DEF Shape

\* What a step makes of the map: only operator[] and the end of the response take
\* from it what was given, and the type of a body is not used.
MapStep(h, h2) ==
  /\ Shape(h2)
  /\ \/ \E k \in HeaderName, n \in ValueLengths : assign(k, n)
     \/ written
     \/ Given(h) \subseteq Given(h2)

LEMMA EmplaceStep ==
  ASSUME DataOK, Shape(headers), Len(headers) < MaxHeaders,
         NEW k \in HeaderName, NEW n \in Nat
  PROVE  /\ Shape(emplace(headers, k, n))
         /\ Given(headers) \subseteq Given(emplace(headers, k, n))
<1>1. MaxHeaders \in Nat \ {0} /\ headers \in Seq(Entry) /\ Len(headers) \in Nat
  BY DEF DataOK, Shape
<1>2. Len(headers) <= MaxHeaders /\ Len(headers) + 1 <= MaxHeaders + 1 /\ 1 \in Nat
  BY <1>1
<1>3. /\ Larger(emplace(headers, k, n), headers, 1)
      /\ Given(headers) \subseteq Given(emplace(headers, k, n))
  BY <1>1, <1>2, EmplaceFacts
<1> QED BY <1>1, <1>2, <1>3, LargerShape

LEMMA MapSteps ==
  ASSUME DataOK, Shape(headers), [ResponseNext]_responseVars
  PROVE  MapStep(headers, headers')
<1>1. /\ MaxHeaders \in Nat \ {0} /\ headers \in Seq(Entry) /\ Len(headers) \in Nat
      /\ \A V \in Numbering : Placed(headers, V)
  BY DEF DataOK, Shape
<1>2. 1 \in Nat /\ 2 \in Nat /\ 3 \in Nat /\ 2 + 1 = 3 /\ 16 \in Nat
  OBVIOUS
<1>3. ASSUME NEW k \in HeaderName, NEW n \in ValueLengths, addHeader(k, n)
      PROVE  MapStep(headers, headers')
  <2>1. Len(headers) < MaxHeaders /\ headers' = emplace(headers, k, n) /\ n \in Nat
    BY <1>3 DEF addHeader, DataOK
  <2> QED BY <2>1, EmplaceStep DEF MapStep
<1>4. ASSUME NEW k \in HeaderName, NEW n \in ValueLengths, assign(k, n)
      PROVE  MapStep(headers, headers')
  <2>1. Len(headers) < MaxHeaders /\ headers' = Assigned(headers, k, n) /\ n \in Nat
    BY <1>4 DEF assign, DataOK
  <2>2. Len(headers) <= MaxHeaders /\ Len(headers) + 1 <= MaxHeaders + 1
    BY <1>1, <2>1
  <2>3. Larger(headers', headers, 1)
    BY <1>1, <2>1, <2>2, AssignedFacts
  <2>4. Shape(headers')
    BY <1>1, <1>2, <2>2, <2>3, LargerShape
  <2> QED BY <1>4, <2>4 DEF MapStep
<1>5. ASSUME NEW c \in DOMAIN CommonHeader, NEW n \in ValueLengths, addHeaderIfNotExists(c, n)
      PROVE  MapStep(headers, headers')
  <2>1. /\ Len(headers) < MaxHeaders /\ n \in Nat /\ Enum(c) \in HeaderName
        /\ headers' = headers \/ headers' = emplace(headers, Enum(c), n)
    BY <1>5 DEF addHeaderIfNotExists, DataOK
  <2> QED BY <2>1, EmplaceStep DEF MapStep
<1>6. ASSUME NEW s \in Statuses, setStatus(s) PROVE MapStep(headers, headers')
  BY <1>6 DEF setStatus, MapStep
<1>7. ASSUME NEW n \in BodySizes, setBody(n) PROVE MapStep(headers, headers')
  <2>1. Len(headers) + 2 <= MaxHeaders /\ headers' = Declared(headers, n)
    BY <1>7 DEF setBody
  <2>2. Larger(headers', headers, 2) /\ Given(headers) \subseteq Given(headers')
    BY <1>1, <2>1, DeclaredFacts
  <2>3. Len(headers) + 2 <= MaxHeaders + 1
    BY <1>1, <2>1
  <2>4. Shape(headers')
    BY <1>1, <1>2, <2>2, <2>3, LargerShape
  <2> QED BY <2>2, <2>4 DEF MapStep
<1>8. ASSUME NEW n \in BodySizes, setTypedBody(n) PROVE MapStep(headers, headers')
  <2> DEFINE D == Declared(headers, n)
             k == Enum("Content-Type")
  <2>1. Len(headers) + 3 <= MaxHeaders /\ headers' = emplace(D, k, 16)
    BY <1>8 DEF setTypedBody
  <2>2. Len(headers) + 2 <= MaxHeaders /\ Len(headers) + 3 <= MaxHeaders + 1 /\ k \in HeaderName
    BY <1>1, <2>1 DEF DataOK
  <2>3. Larger(D, headers, 2) /\ Given(headers) \subseteq Given(D)
    BY <1>1, <2>2, DeclaredFacts
  <2> HIDE DEF D, k
  <2>4. D \in Seq(Entry) /\ Len(D) <= MaxHeaders
    <3>1. D \in Seq(Entry) /\ Len(D) <= Len(headers) + 2
      BY <2>3 DEF Larger
    <3> QED BY <1>1, <2>2, <3>1
  <2>5. Larger(headers', D, 1) /\ Given(D) \subseteq Given(headers')
    BY <1>1, <1>2, <2>1, <2>2, <2>4, EmplaceFacts
  <2>6. Larger(headers', headers, 2 + 1)
    BY <1>1, <1>2, <2>3, <2>5, LargerTwice
  <2>7. Shape(headers')
    BY <1>1, <1>2, <2>2, <2>6, LargerShape
  <2> QED BY <2>3, <2>5, <2>7 DEF MapStep
<1>9. CASE toBytes
  <2>1. Len(headers) <= MaxHeaders /\ headers' = LengthMade(headers)
    BY <1>9 DEF toBytes
  <2>2. Larger(headers', headers, 1) /\ Given(headers) \subseteq Given(headers')
    BY <1>1, <2>1, LengthMadeFacts
  <2>3. Len(headers) + 1 <= MaxHeaders + 1
    BY <1>1, <2>1
  <2>4. Shape(headers')
    BY <1>1, <1>2, <2>2, <2>3, LargerShape
  <2> QED BY <2>2, <2>4 DEF MapStep
<1>10. CASE written
  <2>1. headers' = <<>>
    BY <1>10 DEF written
  <2>2. Shape(<<>>)
    BY <1>1 DEF Shape, Placed, SortedBy
  <2> QED BY <1>10, <2>1, <2>2 DEF MapStep
<1>11. CASE UNCHANGED responseVars
  BY <1>11 DEF responseVars, MapStep
<1> QED BY <1>3, <1>4, <1>5, <1>6, <1>7, <1>8, <1>9, <1>10, <1>11 DEF ResponseNext

LEMMA ShapeInvariant ==
  ResponseSpec => []Shape(headers)
<1>1. DataOK
  BY DataFacts
<1>2. ResponseInit => Shape(headers)
  <2>1. MaxHeaders + 1 >= 0 /\ <<>> \in Seq(Entry) /\ Len(<<>>) = 0
    BY <1>1 DEF DataOK
  <2>2. Shape(<<>>)
    BY <2>1 DEF Shape, Placed, SortedBy
  <2> QED BY <2>2 DEF ResponseInit
<1>3. Shape(headers) /\ [ResponseNext]_responseVars => Shape(headers)'
  BY <1>1, MapSteps DEF MapStep
<1> QED BY <1>2, <1>3, PTL DEF ResponseSpec

-----------------------------------------------------------------------------
(* Where Less is a strict weak ordering, a numbering agrees with it.         *)

LEMMA LessFacts ==
  ASSUME DataOK, NEW k \in HeaderName, NEW l \in HeaderName
  PROVE  /\ ~(Less(k, l) /\ Less(l, k))
         /\ k.name = l.name => ~Less(k, l)
<1>1. /\ TextRank[k.name] \in Nat /\ TextRank[l.name] \in Nat
      /\ k.kind = "ENUM" => CommonHeader[k.name] \in Nat
      /\ l.kind = "ENUM" => CommonHeader[l.name] \in Nat
  BY DEF DataOK
<1>2. CASE k.kind = "ENUM" /\ l.kind = "ENUM"
  BY <1>1, <1>2 DEF Less
<1>3. CASE ~(k.kind = "ENUM" /\ l.kind = "ENUM")
  BY <1>1, <1>3 DEF Less
<1> QED BY <1>2, <1>3

\* The number of a key: how many keys are less.
Smaller(S, k) == {l \in S : Less(l, k)}

LEMMA Numbered ==
  ASSUME DataOK, NEW S \in SUBSET HeaderName, IsFiniteSet(S), StrictWeak(S)
  PROVE  \E V \in Numbering : AgreeOn(S, V)
<1> DEFINE V == [k \in HeaderName |-> Cardinality(Smaller(S, k))]
<1>1. ASSUME NEW k PROVE IsFiniteSet(Smaller(S, k)) /\ Cardinality(Smaller(S, k)) \in Nat
  <2>1. Smaller(S, k) \in SUBSET S
    BY DEF Smaller
  <2>2. IsFiniteSet(Smaller(S, k))
    BY <2>1, FS_Subset
  <2> QED BY <2>2, FS_CardinalityType
<1>2. V \in Numbering
  BY <1>1 DEF Numbering
<1>3. ASSUME NEW k \in S, NEW l \in S, Less(k, l)
      PROVE  Cardinality(Smaller(S, k)) < Cardinality(Smaller(S, l))
  <2>1. ASSUME NEW m \in S, Less(m, k) PROVE Less(m, l)
    <3>1. Less(m, l) \/ Less(l, k)
      BY <2>1 DEF StrictWeak
    <3> QED BY <1>3, <3>1, LessFacts
  <2>2. Smaller(S, k) \in SUBSET Smaller(S, l)
    BY <2>1 DEF Smaller
  <2>3. k \in Smaller(S, l) /\ k \notin Smaller(S, k)
    BY <1>3, LessFacts DEF Smaller
  <2>4. /\ Cardinality(Smaller(S, k)) <= Cardinality(Smaller(S, l))
        /\ Cardinality(Smaller(S, l)) # Cardinality(Smaller(S, k))
    BY <1>1, <2>2, <2>3, FS_Subset
  <2> QED BY <1>1, <2>4
<1>4. ASSUME NEW k \in S, NEW l \in S, ~Less(k, l)
      PROVE  Cardinality(Smaller(S, l)) <= Cardinality(Smaller(S, k))
  <2>1. Smaller(S, l) \in SUBSET Smaller(S, k)
    BY <1>4 DEF Smaller, StrictWeak
  <2> QED BY <1>1, <2>1, FS_Subset
<1>5. ASSUME NEW k \in S, NEW l \in S PROVE Less(k, l) <=> V[k] < V[l]
  <2>1. V[k] = Cardinality(Smaller(S, k)) /\ V[l] = Cardinality(Smaller(S, l))
    OBVIOUS
  <2> HIDE DEF V
  <2> QED BY <1>1, <1>3, <1>4, <2>1
<1> HIDE DEF V
<1> QED BY <1>2, <1>5 DEF AgreeOn

LEMMA KeysFinite ==
  ASSUME NEW h \in Seq(Entry) PROVE IsFiniteSet(KeysOf(h))
<1> DEFINE f == [p \in 1 .. Len(h) |-> h[p].key]
<1>1. f \in Surjection(1 .. Len(h), KeysOf(h))
  BY DEF KeysOf, Surjection
<1>2. IsFiniteSet(1 .. Len(h))
  BY FS_Interval
<1> QED BY <1>1, <1>2, FS_Surjection

OneNumber(h, V) == \A k, l \in KeysOf(h) : k.name = l.name => V[k] = V[l]

LEMMA OneNumbered ==
  ASSUME DataOK, NEW h \in Seq(Entry), NEW V \in Numbering, AgreeOn(KeysOf(h), V)
  PROVE  OneNumber(h, V)
<1> SUFFICES ASSUME NEW k \in KeysOf(h), NEW l \in KeysOf(h), k.name = l.name
             PROVE  V[k] = V[l]
  BY DEF OneNumber
<1>1. k \in HeaderName /\ l \in HeaderName
  BY KeyTypes
<1>2. V[k] \in Int /\ V[l] \in Int
  BY <1>1 DEF Numbering
<1>3. ~Less(k, l) /\ ~Less(l, k)
  BY <1>1, LessFacts
<1>4. ~(V[k] < V[l]) /\ ~(V[l] < V[k])
  BY <1>3 DEF AgreeOn
<1> QED BY <1>2, <1>4

NameSet(h, S) == \A x : x \in S <=> \E p \in 1 .. Len(h) : x = h[p].key.name

LEMMA SortedDistinct ==
  ASSUME NEW h \in Seq(Entry), NEW V \in Numbering, SortedBy(h, V), OneNumber(h, V),
         NEW S, NameSet(h, S)
  PROVE  Cardinality(S) = Len(h)
<1> DEFINE f == [p \in 1 .. Len(h) |-> h[p].key.name]
<1>1. ASSUME NEW p \in 1 .. Len(h), NEW j \in 1 .. Len(h), p < j PROVE h[p].key.name # h[j].key.name
  <2>1. V[h[p].key] < V[h[j].key]
    BY <1>1 DEF SortedBy
  <2>2. V[h[p].key] \in Int /\ V[h[j].key] \in Int /\ h[p].key \in KeysOf(h) /\ h[j].key \in KeysOf(h)
    BY KeyTypes DEF Numbering
  <2> QED BY <2>1, <2>2 DEF OneNumber
<1>2. \A p, j \in 1 .. Len(h) : f[p] = f[j] => p = j
  BY <1>1
<1>3. f \in [1 .. Len(h) -> S] /\ \A x \in S : \E p \in 1 .. Len(h) : f[p] = x
  BY DEF NameSet
<1> HIDE DEF f
<1>4. f \in Bijection(1 .. Len(h), S)
  BY <1>2, <1>3 DEF Bijection, Injection, Surjection, IsInjective
<1>5. ExistsBijection(1 .. Len(h), S)
  BY <1>4 DEF ExistsBijection
<1>6. Len(h) \in Nat /\ 1 \in Int /\ Len(h) \in Int /\ (IF 1 > Len(h) THEN 0 ELSE Len(h) - 1 + 1) = Len(h)
  OBVIOUS
<1>7. IsFiniteSet(1 .. Len(h)) /\ Cardinality(1 .. Len(h)) = Len(h)
  BY <1>6, FS_Interval
<1>8. Cardinality(S) = Cardinality(1 .. Len(h))
  BY <1>5, <1>7, FS_Bijection
<1> QED BY <1>7, <1>8

\* As long as HeaderName's operator< is a strict weak ordering of the keys that
\* the map holds, of whichever kinds they are, a field is in the map once and the
\* fields are sent in that order.
THEOREM OnceCorrect == ResponseSpec => []OnceWhileOrdered
<1>1. DataOK
  BY DataFacts
<1>2. ASSUME Shape(headers), StrictWeak(Keys) PROVE FieldOnce /\ Sorted
  <2>1. headers \in Seq(Entry) /\ DOMAIN headers = 1 .. Len(headers)
    BY <1>2 DEF Shape
  <2>2. Keys = KeysOf(headers)
    BY <2>1 DEF Keys, KeysOf
  <2>3. NameSet(headers, Names)
    BY <2>1 DEF Names, NameSet
  <2>4. KeysOf(headers) \in SUBSET HeaderName /\ IsFiniteSet(KeysOf(headers))
    BY <2>1, KeyTypes, KeysFinite
  <2>5. PICK V \in Numbering : AgreeOn(KeysOf(headers), V)
    BY <1>1, <1>2, <2>2, <2>4, Numbered
  <2>6. SortedBy(headers, V)
    BY <1>2, <2>5 DEF Shape, Placed
  <2>7. FieldOnce
    <3>1. Cardinality(Names) = Len(headers)
      BY <1>1, <2>1, <2>3, <2>5, <2>6, OneNumbered, SortedDistinct
    <3> QED BY <3>1 DEF FieldOnce
  <2>8. Sorted
    <3> SUFFICES ASSUME NEW p \in 1 .. Len(headers), NEW j \in 1 .. Len(headers), p < j
                 PROVE  Less(headers[p].key, headers[j].key)
      BY <2>1 DEF Sorted
    <3>1. V[headers[p].key] < V[headers[j].key]
      BY <2>6 DEF SortedBy
    <3>2. headers[p].key \in KeysOf(headers) /\ headers[j].key \in KeysOf(headers)
      BY <2>1, KeyTypes
    <3> QED BY <2>5, <3>1, <3>2 DEF AgreeOn
  <2> QED BY <2>7, <2>8
<1>3. Shape(headers) => OnceWhileOrdered
  BY <1>2 DEF OnceWhileOrdered
<1> QED BY <1>3, ShapeInvariant, PTL

\* What a handler gave as the value of a header, a type or a length included, is
\* changed by nothing but operator[] until the response is sent.
THEOREM GivenCorrect == ResponseSpec => GivenValuesStay
<1> DEFINE Stays == \/ \E k \in HeaderName, n \in ValueLengths : assign(k, n)
                    \/ written
                    \/ Given(headers) \subseteq Given(headers')
<1>1. DataOK
  BY DataFacts
<1>2. Shape(headers) /\ [ResponseNext]_responseVars => [Stays]_responseVars
  BY <1>1, MapSteps DEF MapStep
<1> QED BY <1>2, ShapeInvariant, PTL DEF ResponseSpec, GivenValuesStay

\* The content type that a body names for itself is never the one of the response,
\* as long as operator< orders the keys of its map: setBody has given it another
\* when it is offered.
THEOREM TypeIgnored == ResponseSpec => OwnTypeIgnored
<1> DEFINE Ignored == \A n \in BodySizes :
      setTypedBody(n) /\ StrictWeak(Keys)' => headers' = Declared(headers, n)
<1>1. DataOK
  BY DataFacts
<1>2. ASSUME Shape(headers), [ResponseNext]_responseVars, NEW n \in BodySizes, setTypedBody(n),
             StrictWeak(Keys)'
      PROVE  headers' = Declared(headers, n)
  <2> DEFINE D == Declared(headers, n)
             k == Enum("Content-Type")
  <2>1. Len(headers) + 3 <= MaxHeaders /\ headers' = emplace(D, k, 16)
    BY <1>2 DEF setTypedBody
  <2>2. /\ MaxHeaders \in Nat \ {0} /\ headers \in Seq(Entry) /\ k \in HeaderName
        /\ \A V \in Numbering : Placed(headers, V)
    BY <1>1, <1>2 DEF Shape, DataOK
  <2>3. Len(headers) + 2 <= MaxHeaders /\ 16 \in Nat
    BY <2>1, <2>2
  <2>4. Larger(D, headers, 2) /\ Has(D, k)
    BY <1>1, <2>2, <2>3, DeclaredFacts
  <2> HIDE DEF D, k
  <2>5. D \in Seq(Entry) /\ Len(D) <= MaxHeaders
    <3>1. D \in Seq(Entry) /\ Len(D) <= Len(headers) + 2
      BY <2>4 DEF Larger
    <3> QED BY <2>2, <2>3, <3>1
  <2>6. headers' \in Seq(Entry)
    BY <1>1, <1>2, MapSteps DEF MapStep, Shape
  <2>7. StrictWeak(KeysOf(headers'))
    <3>1. Keys' = KeysOf(headers')
      BY <2>6 DEF Keys, KeysOf
    <3> QED BY <1>2, <3>1 DEF StrictWeak
  <2>8. PICK V \in Numbering : AgreeOn(KeysOf(headers'), V)
    <3>1. KeysOf(headers') \in SUBSET HeaderName /\ IsFiniteSet(KeysOf(headers'))
      BY <2>6, KeyTypes, KeysFinite
    <3> QED BY <1>1, <2>7, <3>1, Numbered
  <2>9. AgreeOn(KeysOf(emplace(D, k, 16)), V)
    BY <2>1, <2>8
  <2>10. emplace(D, k, 16) = D
    <3>1. /\ MaxHeaders \in Nat \ {0} /\ k \in HeaderName /\ 16 \in Nat
          /\ D \in Seq(Entry) /\ Len(D) <= MaxHeaders
          /\ Has(D, k) /\ Placed(D, V)
      BY <2>2, <2>3, <2>4, <2>5 DEF Larger
    <3> QED BY <2>8, <2>9, <3>1, HasStale, SMTT(60)
  <2> QED BY <2>1, <2>10 DEF D
<1>3. Shape(headers) /\ [ResponseNext]_responseVars => [Ignored]_responseVars
  BY <1>2
<1> QED BY <1>3, ShapeInvariant, PTL DEF ResponseSpec, OwnTypeIgnored

-----------------------------------------------------------------------------
(* What toBytes writes, and what it allocates.                               *)

LEMMA HeaderBytesNatural ==
  ASSUME DataOK, NEW h \in Seq(Entry)
  PROVE  HeaderBytes(h) \in Nat
<1> DEFINE Step(f, p) == IF p = 0 THEN 0 ELSE f[p - 1] + NameLength[h[p].key.name] + h[p].length + 4
           Sums(f, l) == f = [p \in 0 .. l |-> Step(f, p)]
           S == {l \in 0 .. Len(h) : \E f \in [0 .. l -> Nat] : Sums(f, l)}
           Sum == CHOOSE f : Sums(f, Len(h))
<1>1. \A p \in 1 .. Len(h) : NameLength[h[p].key.name] \in Nat /\ h[p].length \in Nat
  <2>1. \A p \in 1 .. Len(h) : h[p] \in Entry
    OBVIOUS
  <2>2. \A e \in Entry : e.key \in HeaderName /\ e.length \in Nat
    BY DEF Entry
  <2> QED BY <2>1, <2>2 DEF DataOK
<1> HIDE DEF S
<1>2. 0 \in S
  <2> DEFINE f == [p \in 0 .. 0 |-> 0]
  <2>1. f \in [0 .. 0 -> Nat] /\ Sums(f, 0) /\ 0 \in 0 .. Len(h)
    OBVIOUS
  <2> QED BY <2>1 DEF S
<1>3. ASSUME NEW l \in S, l < Len(h) PROVE l + 1 \in S
  <2>1. PICK g \in [0 .. l -> Nat] : Sums(g, l)
    BY DEF S
  <2>2. l \in 0 .. Len(h) /\ l + 1 \in 0 .. Len(h) /\ l + 1 \in 1 .. Len(h)
    BY <1>3 DEF S
  <2> DEFINE f == [p \in 0 .. l + 1 |-> Step(g, p)]
  <2>3. ASSUME NEW p \in 0 .. l PROVE f[p] = g[p]
    BY <2>1, <2>2
  <2>4. ASSUME NEW p \in 0 .. l + 1 PROVE f[p] = Step(f, p) /\ f[p] \in Nat
    <3>1. CASE p = 0
      BY <2>2, <3>1
    <3>2. CASE p # 0
      <4>1. p - 1 \in 0 .. l /\ p \in 1 .. Len(h)
        BY <2>2, <3>2
      <4>2. f[p - 1] = g[p - 1] /\ g[p - 1] \in Nat
        BY <2>1, <2>3, <4>1
      <4>3. f[p] = Step(g, p)
        OBVIOUS
      <4> QED BY <1>1, <3>2, <4>1, <4>2, <4>3
    <3> QED BY <3>1, <3>2
  <2>5. f = [p \in 0 .. l + 1 |-> f[p]]
    OBVIOUS
  <2> HIDE DEF f
  <2>6. Sums(f, l + 1)
    BY <2>4, <2>5
  <2>7. f \in [0 .. l + 1 -> Nat]
    BY <2>4, <2>5
  <2> HIDE DEF Sums
  <2> QED BY <2>2, <2>6, <2>7 DEF S
<1>4. Len(h) \in S
  <2> DEFINE T == {n \in Nat : n <= Len(h) => n \in S}
  <2>1. T \in SUBSET Nat
    OBVIOUS
  <2>2. 0 \in T
    BY <1>2
  <2>3. ASSUME NEW n \in T PROVE n + 1 \in T
    <3>1. n \in Nat /\ n + 1 \in Nat /\ Len(h) \in Nat
      OBVIOUS
    <3>2. n + 1 <= Len(h) => n < Len(h) /\ n \in S
      BY <3>1
    <3> QED BY <1>3, <3>1, <3>2
  <2> HIDE DEF T
  <2>4. Len(h) \in T
    BY <2>1, <2>2, <2>3, NumbersUpward
  <2> QED BY <2>4 DEF T
<1>5. PICK f \in [0 .. Len(h) -> Nat] : Sums(f, Len(h))
  BY <1>4 DEF S
<1>6. Sums(Sum, Len(h))
  BY <1>5
<1>7. HeaderBytes(h) = Sum[Len(h)]
  BY DEF HeaderBytes
<1> HIDE DEF Sum
<1>8. /\ Sum[0] = 0
      /\ \A p \in 1 .. Len(h) : Sum[p] = Sum[p - 1] + NameLength[h[p].key.name] + h[p].length + 4
  BY <1>6
<1> DEFINE N == {n \in Nat : n <= Len(h) => Sum[n] \in Nat}
<1>9. N \in SUBSET Nat /\ 0 \in N
  BY <1>8
<1>10. ASSUME NEW n \in N PROVE n + 1 \in N
  <2> SUFFICES ASSUME n + 1 <= Len(h) PROVE Sum[n + 1] \in Nat
    OBVIOUS
  <2>1. n + 1 \in 1 .. Len(h) /\ (n + 1) - 1 = n /\ Sum[n] \in Nat
    OBVIOUS
  <2>2. Sum[n + 1] = Sum[n] + NameLength[h[n + 1].key.name] + h[n + 1].length + 4
    BY <1>8, <2>1
  <2>3. NameLength[h[n + 1].key.name] \in Nat /\ h[n + 1].length \in Nat
    BY <1>1, <2>1
  <2> HIDE DEF N
  <2> QED BY <2>1, <2>2, <2>3, SMTT(30)
<1> HIDE DEF N
<1>11. Len(h) \in N
  BY <1>9, <1>10, NumbersUpward
<1> QED BY <1>7, <1>11 DEF N

\* All that holds of a response: the shape of its map, the types of the rest, and
\* that what was made fits.
Sound ==
  /\ Shape(headers)
  /\ status \in Statuses
  /\ body \in Nat
  /\ out \in [alloc : Nat, size : Nat, left : Nat]
  /\ FitsAllocation

\* 47 bytes are allocated for the status line and the empty line, and five to spare.
LEMMA BytesFit ==
  ASSUME DataOK, Sound, toBytes
  PROVE  out' \in [alloc : Nat, size : Nat, left : Nat] /\ FitsAllocation'
<1> DEFINE HB == HeaderBytes(headers')
           ST == StatusText[status]
<1>1. HB \in Nat
  BY MapSteps, HeaderBytesNatural DEF Sound, MapStep, Shape, ResponseNext
<1>2. ST \in Nat /\ ST <= 31 /\ body \in Nat
  BY DEF Sound, DataOK
<1>3. HeadBytes(headers') = 9 + 4 + ST + 2 + HB + 2
  BY DEF HeadBytes
<1>4. calcHttpResponseSize(headers', body) = 8 + 1 + 3 + 1 + 32 + 2 + HB + 2 + (IF body > 0 THEN body + 2 ELSE 0)
  BY DEF calcHttpResponseSize
<1> DEFINE alloc == calcHttpResponseSize(headers', body) + 5
           head == HeadBytes(headers')
<1>5. out' = [alloc |-> alloc, size |-> head + body, left |-> alloc - head] /\ body' = body
  BY DEF toBytes
<1> HIDE DEF HB, ST
<1>6. /\ alloc \in Nat /\ head \in Nat /\ alloc - head \in Nat
      /\ head + body <= alloc /\ alloc - head > body
  BY <1>1, <1>2, <1>3, <1>4
<1> HIDE DEF alloc, head
<1>7. out' \in [alloc : Nat, size : Nat, left : Nat]
  BY <1>2, <1>5, <1>6
<1>8. out'.size <= out'.alloc /\ out'.left > body'
  BY <1>5, <1>6
<1> QED BY <1>7, <1>8 DEF FitsAllocation

LEMMA SoundInvariant == ResponseSpec => []Sound
<1>1. DataOK
  BY DataFacts
<1>2. ResponseInit => status \in Statuses /\ body \in Nat
                   /\ out \in [alloc : Nat, size : Nat, left : Nat] /\ FitsAllocation
  BY <1>1 DEF ResponseInit, DataOK, None, FitsAllocation, Building
<1>3. ASSUME Sound, Shape(headers)', [ResponseNext]_responseVars PROVE Sound'
  <2>1. ASSUME status' = status \/ status' \in Statuses, body' = body \/ body' \in Nat,
               out' = out, Building
        PROVE  Sound'
    BY <1>3, <2>1 DEF Sound, FitsAllocation, Building
  <2>2. ASSUME NEW k \in HeaderName, NEW n \in ValueLengths, addHeader(k, n) \/ assign(k, n)
        PROVE  Sound'
    BY <2>1, <2>2 DEF addHeader, assign
  <2>3. ASSUME NEW c \in DOMAIN CommonHeader, NEW n \in ValueLengths, addHeaderIfNotExists(c, n)
        PROVE  Sound'
    BY <2>1, <2>3 DEF addHeaderIfNotExists
  <2>4. ASSUME NEW s \in Statuses, setStatus(s) PROVE Sound'
    BY <2>1, <2>4 DEF setStatus
  <2>5. ASSUME NEW n \in BodySizes, setBody(n) \/ setTypedBody(n) PROVE Sound'
    BY <1>1, <2>1, <2>5 DEF setBody, setTypedBody, DataOK
  <2>6. CASE toBytes
    <3>1. out' \in [alloc : Nat, size : Nat, left : Nat] /\ FitsAllocation'
      BY <1>1, <1>3, <2>6, BytesFit
    <3>2. status' = status /\ body' = body
      BY <2>6 DEF toBytes
    <3> QED BY <1>3, <3>1, <3>2 DEF Sound
  <2>7. CASE written
    <3>1. status' = 0 /\ body' = 0 /\ out' = None
      BY <2>7 DEF written
    <3>2. None \in [alloc : Nat, size : Nat, left : Nat] /\ 0 \in Statuses
      BY <1>1 DEF DataOK, None
    <3> QED BY <1>3, <3>1, <3>2 DEF Sound, FitsAllocation, Building
  <2>8. CASE UNCHANGED responseVars
    BY <1>3, <2>8 DEF responseVars, Sound, FitsAllocation, Building
  <2> QED BY <1>3, <2>2, <2>3, <2>4, <2>5, <2>6, <2>7, <2>8 DEF ResponseNext
<1>4. ResponseInit /\ Shape(headers) => Sound
  BY <1>2 DEF Sound
<1> QED BY <1>3, <1>4, ShapeInvariant, PTL DEF ResponseSpec

\* Types of the state of a response.
THEOREM ResponseTypes == ResponseSpec => []ResponseTypeOK
<1>1. Sound => ResponseTypeOK
  BY DEF Sound, Shape, ResponseTypeOK
<1> QED BY <1>1, SoundInvariant, PTL

\* A response is never longer than what toBytes allocates for it, and the assertion
\* before the body is copied holds.
THEOREM FitsCorrect == ResponseSpec => []FitsAllocation
<1>1. Sound => FitsAllocation
  BY DEF Sound
<1> QED BY <1>1, SoundInvariant, PTL

===============================================================================
