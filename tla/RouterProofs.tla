------------------------------ MODULE RouterProofs ------------------------------
(***************************************************************************)
(* Proofs about Router, for every set of routes and every URL: what a      *)
(* lookup finds, which of the routes that fit it takes, the parameters it  *)
(* leaves, and that adding a route takes no URL away.                      *)
(***************************************************************************)
EXTENDS Router, SequenceTheorems, WellFoundedInduction, TLAPS

-----------------------------------------------------------------------------
(* Least and greatest numbers, and induction by a least counterexample.      *)

LEMMA LeastFacts ==
  ASSUME NEW S \in SUBSET Nat, S # {}
  PROVE  Min(S) \in S /\ \A y \in S : Min(S) <= y
<1> DEFINE R == {p \in Nat \X Nat : p[1] < p[2]}
<1>1. IsWellFoundedOn(R, Nat)
  BY NatLessThanWellFounded DEF OpToRel
<1>2. ASSUME NEW i \in Nat, NEW j \in Nat, j < i PROVE <<j, i>> \in R
  BY <1>2
<1> HIDE DEF R
<1>3. PICK i \in S : \A j \in S : <<j, i>> \notin R
  BY <1>1, WFMin
<1>4. ASSUME NEW j \in S PROVE i <= j
  <2>1. i \in Nat /\ j \in Nat /\ <<j, i>> \notin R
    BY <1>3
  <2>2. ~(j < i)
    BY <1>2, <2>1
  <2> QED BY <2>1, <2>2
<1>5. \E x \in S : \A y \in S : x =< y
  BY <1>3, <1>4
<1>6. Min(S) \in S /\ \A y \in S : Min(S) =< y
  BY ONLY <1>5 DEF Min
<1> QED BY <1>6

LEMMA GreatestFacts ==
  ASSUME NEW N \in Nat, NEW S \in SUBSET (0 .. N), S # {}
  PROVE  Max(S) \in S /\ \A y \in S : y <= Max(S)
<1> DEFINE T == {N - x : x \in S}
<1>1. T \in SUBSET Nat /\ T # {}
  <2>1. \A x \in S : N - x \in Nat
    OBVIOUS
  <2> QED BY <2>1
<1>2. Min(T) \in T /\ \A y \in T : Min(T) <= y
  BY <1>1, LeastFacts
<1>3. PICK x \in S : Min(T) = N - x
  BY <1>2
<1>4. \A y \in S : N - y \in T
  OBVIOUS
<1> HIDE DEF T
<1>5. \A y \in S : N - x <= N - y
  BY <1>2, <1>3, <1>4
<1>6. \A y \in S : x >= y
  BY <1>5
<1>7. \E m \in S : \A y \in S : m >= y
  BY <1>6
<1>8. Max(S) \in S /\ \A y \in S : Max(S) >= y
  BY <1>7 DEF Max
<1> QED BY <1>8

LEMMA Upward ==
  ASSUME NEW S \in SUBSET Nat, 0 \in S, \A n \in S : n + 1 \in S
  PROVE  \A n \in Nat : n \in S
<1> SUFFICES ASSUME Nat \ S # {} PROVE FALSE
  OBVIOUS
<1>1. PICK i \in Nat \ S : \A j \in Nat \ S : i <= j
  BY LeastFacts
<1>2. i # 0 /\ i - 1 \in Nat /\ ~(i <= i - 1) /\ (i - 1) + 1 = i
  BY <1>1
<1> QED BY <1>1, <1>2

\* What holds of a node if it holds of the nodes behind it holds of all.
LEMMA Downward ==
  ASSUME NEW N \in Nat, NEW P \in SUBSET (1 .. N),
         \A n \in 1 .. N : (\A c \in 1 .. N : c > n => c \in P) => n \in P
  PROVE  \A n \in 1 .. N : n \in P
<1> SUFFICES ASSUME (1 .. N) \ P # {} PROVE FALSE
  OBVIOUS
<1>1. (1 .. N) \ P \in SUBSET (0 .. N)
  OBVIOUS
<1>2. PICK i \in (1 .. N) \ P : \A y \in (1 .. N) \ P : y <= i
  BY <1>1, GreatestFacts
<1>3. \A c \in 1 .. N : c > i => c \in P
  BY <1>2
<1> QED BY <1>2, <1>3

-----------------------------------------------------------------------------
(* The recursive functions are what their equations say.                     *)

LEMMA FirstFoundDepends ==
  ASSUME NEW nodes, NEW n, NEW i, NEW f, NEW g,
         \A c \in Children(nodes, n) : f[c][i] = g[c][i]
  PROVE  firstFound(nodes, n, f, i) = firstFound(nodes, n, g, i)
<1>1. [c \in Children(nodes, n) |-> f[c][i]] = [c \in Children(nodes, n) |-> g[c][i]]
  OBVIOUS
<1> QED BY <1>1 DEF firstFound

LEMMA AnswerDepends ==
  ASSUME NEW nodes, NEW n, NEW req, NEW i, NEW f, NEW g,
         \A c \in Children(nodes, n) : f[c][i + 1] = g[c][i + 1]
  PROVE  Answer(nodes, f, n, req, i) = Answer(nodes, g, n, req, i)
<1>1. firstFound(nodes, n, f, i + 1) = firstFound(nodes, n, g, i + 1)
  BY FirstFoundDepends
<1> QED BY <1>1 DEF Answer

\* Nodes are made after their parents.
Ordered(nodes) == Len(nodes) \in Nat /\ \A n \in 1 .. Len(nodes) : nodes[n].parent \in 0 .. n - 1

LEMMA ChildrenFacts ==
  ASSUME NEW nodes, Ordered(nodes), NEW n \in 0 .. Len(nodes), NEW c \in Children(nodes, n)
  PROVE  c \in 1 .. Len(nodes) /\ c > n /\ nodes[c].parent = n
BY DEF Children, Ordered

LEMMA getRouteFacts ==
  ASSUME NEW nodes, Ordered(nodes), NEW req
  PROVE  \A n \in 1 .. Len(nodes), i \in Nat :
           getRoute(nodes, req)[n][i] = Answer(nodes, getRoute(nodes, req), n, req, i)
<1>1. PICK N \in Nat : N = Len(nodes)
  BY DEF Ordered
<1> DEFINE Solves(f, k) ==
      f = [n \in (N - k) + 1 .. N |-> [i \in Nat |-> Answer(nodes, f, n, req, i)]]
           S == {k \in Nat : k <= N => \E f : Solves(f, k)}
<1>2. 0 \in S
  <2>1. (N - 0) + 1 .. N = {}
    BY <1>1
  <2>2. Solves([n \in {} |-> 0], 0)
    BY <2>1
  <2> QED BY <2>2
<1>3. ASSUME NEW k \in S PROVE k + 1 \in S
  <2> SUFFICES ASSUME k + 1 <= N PROVE \E h : Solves(h, k + 1)
    OBVIOUS
  <2>1. PICK g : Solves(g, k)
    BY <1>1
  <2>2. PICK m \in 1 .. N : m = N - k /\ (N - (k + 1)) + 1 = m /\ (N - k) + 1 = m + 1
    <3>1. N - k \in 1 .. N /\ (N - (k + 1)) + 1 = N - k
      BY <1>1
    <3> QED BY <3>1
  <2> DEFINE h == [n \in m .. N |->
                    IF n = m THEN [i \in Nat |-> Answer(nodes, g, n, req, i)] ELSE g[n]]
  <2>3. ASSUME NEW n \in m .. N, NEW c \in Children(nodes, n) PROVE h[c] = g[c]
    <3>1. c \in 1 .. N /\ c > n
      BY <1>1, ChildrenFacts
    <3> QED BY <3>1
  <2>4. \A n \in m .. N, i \in Nat : Answer(nodes, h, n, req, i) = Answer(nodes, g, n, req, i)
    <3> HIDE DEF h
    <3> QED BY <2>3, AnswerDepends
  <2>5. ASSUME NEW n \in m .. N PROVE h[n] = [i \in Nat |-> Answer(nodes, h, n, req, i)]
    <3>1. h[n] = [i \in Nat |-> Answer(nodes, g, n, req, i)]
      <4>1. CASE n = m
        BY <4>1
      <4>2. CASE n # m
        <5>1. n \in (N - k) + 1 .. N
          BY <2>2, <4>2
        <5>2. g[n] = [i \in Nat |-> Answer(nodes, g, n, req, i)]
          BY <2>1, <5>1
        <5> QED BY <4>2, <5>2
      <4> QED BY <4>1, <4>2
    <3> HIDE DEF h
    <3> QED BY <2>4, <3>1
  <2>6. h = [n \in m .. N |-> h[n]]
    OBVIOUS
  <2> HIDE DEF h
  <2>7. h = [n \in m .. N |-> [i \in Nat |-> Answer(nodes, h, n, req, i)]]
    BY <2>5, <2>6
  <2> QED BY <2>2, <2>7, SMTT(30)
<1> HIDE DEF S
<1>4. N \in S
  BY <1>2, <1>3, Upward DEF S
<1>5. PICK f : Solves(f, N)
  BY <1>4 DEF S
<1>6. (N - N) + 1 = 1
  OBVIOUS
<1>7. \E g : g = [n \in 1 .. Len(nodes) |-> [i \in Nat |-> Answer(nodes, g, n, req, i)]]
  BY <1>1, <1>5, <1>6
<1>8. getRoute(nodes, req) =
        [n \in 1 .. Len(nodes) |->
           [i \in Nat |-> Answer(nodes, getRoute(nodes, req), n, req, i)]]
  BY <1>7 DEF getRoute
<1> SUFFICES ASSUME NEW n \in 1 .. Len(nodes), NEW i \in Nat
             PROVE  getRoute(nodes, req)[n][i] = Answer(nodes, getRoute(nodes, req), n, req, i)
  OBVIOUS
<1>9. PICK g : g = getRoute(nodes, req)
  OBVIOUS
<1>10. g = [k \in 1 .. Len(nodes) |-> [j \in Nat |-> Answer(nodes, g, k, req, j)]]
  BY ONLY <1>8, <1>9
<1>11. g[n] = [j \in Nat |-> Answer(nodes, g, n, req, j)]
  BY ONLY <1>10, n \in 1 .. Len(nodes)
<1>12. g[n][i] = Answer(nodes, g, n, req, i)
  BY ONLY <1>11, i \in Nat
<1> QED BY ONLY <1>9, <1>12

LEMMA WalkFacts ==
  ASSUME NEW nodes, NEW path, Len(path) \in Nat
  PROVE  /\ Walk(nodes, path)[0] = [nodes |-> nodes, at |-> Root]
         /\ \A k \in 1 .. Len(path) :
              Walk(nodes, path)[k] = Descend(Walk(nodes, path)[k - 1], path[k])
<1> DEFINE Solves(f, l) ==
      f = [k \in 0 .. l |-> IF k = 0 THEN [nodes |-> nodes, at |-> Root]
                                     ELSE Descend(f[k - 1], path[k])]
           S == {l \in Nat : \E f : Solves(f, l)}
<1>1. 0 \in S
  <2> DEFINE f == [k \in 0 .. 0 |-> [nodes |-> nodes, at |-> Root]]
  <2>1. \A k \in 0 .. 0 : k = 0
    OBVIOUS
  <2>2. Solves(f, 0)
    BY <2>1
  <2> QED BY <2>2
<1>2. ASSUME NEW l \in S PROVE l + 1 \in S
  <2>1. PICK g : Solves(g, l)
    OBVIOUS
  <2> DEFINE step(f, k) == IF k = 0 THEN [nodes |-> nodes, at |-> Root]
                                    ELSE Descend(f[k - 1], path[k])
             h == [k \in 0 .. l + 1 |-> step(g, k)]
  <2>2. ASSUME NEW k \in 0 .. l PROVE h[k] = g[k]
    BY <2>1
  <2>3. ASSUME NEW k \in 0 .. l + 1 PROVE h[k] = step(h, k)
    <3>1. CASE k = 0
      BY <3>1
    <3>2. CASE k # 0
      <4>1. k - 1 \in 0 .. l
        BY <3>2
      <4>2. h[k - 1] = g[k - 1]
        BY <2>2, <4>1
      <4> QED BY <4>2
    <3> QED BY <3>1, <3>2
  <2>4. h = [k \in 0 .. l + 1 |-> h[k]]
    OBVIOUS
  <2> HIDE DEF h
  <2>5. h = [k \in 0 .. l + 1 |-> step(h, k)]
    BY <2>3, <2>4
  <2> QED BY <2>5
<1> HIDE DEF S
<1>3. Len(path) \in S
  BY <1>1, <1>2, Upward DEF S
<1>4. PICK f : Solves(f, Len(path))
  BY <1>3 DEF S
<1>5. Walk(nodes, path) =
        [k \in 0 .. Len(path) |-> IF k = 0 THEN [nodes |-> nodes, at |-> Root]
                                  ELSE Descend(Walk(nodes, path)[k - 1], path[k])]
  BY <1>4 DEF Walk
<1>6. 0 \in 0 .. Len(path) /\ \A k \in 1 .. Len(path) : k \in 0 .. Len(path) /\ k # 0
  OBVIOUS
<1> HIDE DEF Solves
<1> QED BY <1>5, <1>6
-----------------------------------------------------------------------------
(* The tree and the routes.                                                  *)

Node == [ parent : Nat, kind : {"string", "param", "end"}, name : STRING \cup {""},
          method : Methods \cup {NoMethod}, func : Nat ]

Route == [ method : Methods, path : Paths ]

Inner(nodes, n) == n = Root \/ nodes[n].kind # "end"

\* Node x, and the segments v on the way to it, below a node with the segments above.
Labelled(x, v, above, rs) ==
  \/ /\ x.kind = IF isParam(x.name) THEN "param" ELSE "string"
     /\ x.name \in STRING /\ v = Append(above, x.name)
  \/ /\ x.kind = "end" /\ x.func \in 1 .. Len(rs)
     /\ v = above /\ rs[x.func].path = v /\ rs[x.func].method = x.method

\* w[n] are the segments on the way to node n, and live are the nodes with no end
\* above them.  (A path with an empty segment can lead below an end.)
Labels(nodes, rs, w, live) ==
  /\ w \in [0 .. Len(nodes) -> Seq(STRING)] /\ w[Root] = <<>>
  /\ live \subseteq 0 .. Len(nodes) /\ Root \in live
  /\ \A n \in 1 .. Len(nodes) :
       n \in live <=> nodes[n].parent \in live /\ Inner(nodes, nodes[n].parent)
  /\ \A n \in 1 .. Len(nodes) :
       n \in live => Labelled(nodes[n], w[n], w[nodes[n].parent], rs)

TreeTypes(nodes, rs) ==
  /\ nodes \in Seq(Node) /\ Ordered(nodes) /\ rs \in Seq(Route)
  /\ \A n \in 1 .. Len(nodes) : nodes[n].func \in 0 .. Len(rs)

Begins(v, p) == Len(v) <= Len(p) /\ \A j \in 1 .. Len(v) : p[j] = v[j]

\* Where segment j of a path is in the URL, if i is that of the d-th but one.
Place(i, d, j) == i + (j - d) - 1

\* Route a begins with the segments v, and the others fit the URL from i on.
Reaches(rs, v, req, i, a) ==
  LET p == rs[a].path
      d == Len(v)
  IN /\ a \in 1 .. Len(rs) /\ rs[a].method = req.method
     /\ Begins(v, p)
     /\ \A j \in d + 1 .. Len(p) :
          /\ ~AtEnd(req.url, Place(i, d, j))
          /\ Fits(p[j], req.url[Place(i, d, j)])
     /\ AtEnd(req.url, Place(i, d, Len(p) + 1))

\* The parameters behind the first d segments that no later one hides.
LastNamed(p, d) ==
  {j \in d + 1 .. Len(p) :
     isParam(p[j]) /\ \A k \in j + 1 .. Len(p) :
                         isParam(p[k]) => ParamName[p[k]] # ParamName[p[j]]}

Leaves(rs, v, req, i, r) ==
  LET p == rs[r.func].path
  IN r.params = {<<ParamName[p[j]], req.url[Place(i, Len(v), j)]>> : j \in LastNamed(p, Len(v))}

LEMMA RouteFacts ==
  ASSUME NEW nodes, NEW rs, TreeTypes(nodes, rs), NEW a \in 1 .. Len(rs)
  PROVE  rs[a].path \in Seq(STRING) /\ Len(rs[a].path) \in Nat /\ rs[a].method \in Methods
<1>1. rs[a] \in Route
  BY DEF TreeTypes
<1>2. rs[a].path \in Seq(STRING)
  BY <1>1, RouterAssumption DEF Route
<1> QED BY <1>1, <1>2 DEF Route

LEMMA LabelFacts ==
  ASSUME NEW nodes, NEW rs, NEW w, NEW live, TreeTypes(nodes, rs), Labels(nodes, rs, w, live),
         NEW n \in 1 .. Len(nodes), n \in live
  PROVE  /\ nodes[n].parent \in 0 .. n - 1 /\ nodes[n].parent \in live
         /\ Inner(nodes, nodes[n].parent)
         /\ w[n] \in Seq(STRING) /\ w[nodes[n].parent] \in Seq(STRING)
         /\ Len(w[n]) \in Nat /\ Len(w[nodes[n].parent]) \in Nat
<1>1. nodes[n].parent \in 0 .. n - 1 /\ Len(nodes) \in Nat
  BY DEF TreeTypes, Ordered
<1>2. nodes[n].parent \in 0 .. Len(nodes) /\ n \in 0 .. Len(nodes)
  BY <1>1
<1>3. w[n] \in Seq(STRING) /\ w[nodes[n].parent] \in Seq(STRING)
  BY <1>2 DEF Labels
<1> QED BY <1>1, <1>3 DEF Labels

-----------------------------------------------------------------------------
(* What the loop over the children and the nodes answer.                     *)

\* The children that have a route, if the nodes answer as f says.
Routed(nodes, n, f, i) == {c \in Children(nodes, n) : f[c][i].func # 0}

LEMMA FirstFoundFacts ==
  ASSUME NEW nodes, Ordered(nodes), NEW n \in 0 .. Len(nodes), NEW f, NEW i
  PROVE  /\ Routed(nodes, n, f, i) = {} => firstFound(nodes, n, f, i) = NotFound
         /\ Routed(nodes, n, f, i) # {} =>
              \E c \in Routed(nodes, n, f, i) :
                /\ \A d \in Routed(nodes, n, f, i) : c <= d
                /\ firstFound(nodes, n, f, i) = f[c][i]
<1> DEFINE ok == Routed(nodes, n, f, i)
           children == [c \in Children(nodes, n) |-> f[c][i]]
<1>1. Successful(DOMAIN children, children) = ok
  BY DEF Successful, Routed
<1>2. ok \in SUBSET Nat
  BY DEF Children, Ordered, Routed
<1>3. ok # {} => Min(ok) \in ok /\ \A c \in ok : Min(ok) <= c
  BY <1>2, LeastFacts
<1>4. PICK S : S = ok
  OBVIOUS
<1> HIDE DEF ok
<1>5. firstFound(nodes, n, f, i) = IF S = {} THEN NotFound ELSE children[Min(S)]
  BY <1>1, <1>4 DEF firstFound
<1> USE DEF ok
<1>6. \A c \in ok : children[c] = f[c][i]
  BY DEF Routed
<1> QED BY <1>3, <1>4, <1>5, <1>6

LEMMA FitsFacts ==
  ASSUME NEW s, NEW t
  PROVE  /\ isParam(s) => (Fits(s, t) <=> match(s, t))
         /\ ~isParam(s) => (Fits(s, t) <=> s = t)
<1>1. ASSUME isParam(s) PROVE Fits(s, t) <=> match(s, t)
  <2>1. <<t, 1>> \in {<<u, MatchCode[s][u]>> : u \in DOMAIN MatchCode[s]}
          <=> t \in DOMAIN MatchCode[s] /\ MatchCode[s][t] = 1
    OBVIOUS
  <2> QED BY <1>1, <2>1 DEF Fits, match
<1> QED BY <1>1 DEF Fits

LEMMA AppendFacts ==
  ASSUME NEW v \in Seq(STRING), NEW x \in STRING
  PROVE  /\ Append(v, x) \in Seq(STRING) /\ Len(Append(v, x)) = Len(v) + 1
         /\ \A j \in 1 .. Len(v) : Append(v, x)[j] = v[j]
         /\ Append(v, x)[Len(v) + 1] = x
<1>1. PICK S : S = STRING
  OBVIOUS
<1>2. v \in Seq(S) /\ x \in S
  BY <1>1
<1>3. /\ Append(v, x) \in Seq(S) /\ Len(Append(v, x)) = Len(v) + 1
      /\ \A j \in 1 .. Len(v) : Append(v, x)[j] = v[j]
      /\ Append(v, x)[Len(v) + 1] = x
  BY ONLY <1>2, AppendProperties
<1> QED BY ONLY <1>1, <1>3

\* One segment more: what fits from i + 1 on fits from i on with the segment at i.
LEMMA ReachesBack ==
  ASSUME NEW nodes, NEW rs, TreeTypes(nodes, rs), NEW v \in Seq(STRING), NEW x \in STRING,
         NEW req, NEW i \in Nat, NEW a, Reaches(rs, Append(v, x), req, i + 1, a),
         ~AtEnd(req.url, i), Fits(x, req.url[i])
  PROVE  Reaches(rs, v, req, i, a) /\ Len(v) + 1 <= Len(rs[a].path) /\ rs[a].path[Len(v) + 1] = x
<1>1. a \in 1 .. Len(rs)
  BY DEF Reaches
<1>2. PICK p \in Seq(STRING) : p = rs[a].path
  BY <1>1, RouteFacts
<1>3. PICK d \in Nat : d = Len(v)
  OBVIOUS
<1>4. PICK u \in Seq(STRING) : u = Append(v, x) /\ Len(u) = d + 1 /\ u[d + 1] = x
                               /\ \A j \in 1 .. d : u[j] = v[j]
  BY <1>3, AppendFacts
<1>5. /\ rs[a].method = req.method
      /\ d + 1 <= Len(p) /\ \A j \in 1 .. d + 1 : p[j] = u[j]
      /\ \A j \in (d + 1) + 1 .. Len(p) :
           /\ ~AtEnd(req.url, Place(i + 1, d + 1, j))
           /\ Fits(p[j], req.url[Place(i + 1, d + 1, j)])
      /\ AtEnd(req.url, Place(i + 1, d + 1, Len(p) + 1))
  BY <1>2, <1>4 DEF Reaches, Begins
<1>6. Len(p) \in Nat /\ \A j \in Nat : Place(i + 1, d + 1, j) = Place(i, d, j)
  BY DEF Place
<1>7. Begins(v, p) /\ p[d + 1] = x
  <2>1. d + 1 \in 1 .. d + 1 /\ d <= Len(p) /\ \A j \in 1 .. d : j \in 1 .. d + 1
    BY <1>5, <1>6
  <2>2. p[d + 1] = x /\ \A j \in 1 .. d : p[j] = v[j]
    BY <1>4, <1>5, <2>1
  <2> QED BY <1>3, <2>1, <2>2 DEF Begins
<1>8. ASSUME NEW j \in d + 1 .. Len(p)
      PROVE  ~AtEnd(req.url, Place(i, d, j)) /\ Fits(p[j], req.url[Place(i, d, j)])
  <2>1. CASE j = d + 1
    <3>1. Place(i, d, j) = i
      BY <2>1 DEF Place
    <3> QED BY <1>7, <2>1, <3>1
  <2>2. CASE j # d + 1
    <3>1. j \in (d + 1) + 1 .. Len(p) /\ j \in Nat
      BY <1>6, <2>2
    <3>2. Place(i + 1, d + 1, j) = Place(i, d, j)
      BY <1>6, <3>1
    <3> QED BY <1>5, <3>1, <3>2
  <2> QED BY <2>1, <2>2
<1>9. AtEnd(req.url, Place(i, d, Len(p) + 1))
  <2>1. Place(i + 1, d + 1, Len(p) + 1) = Place(i, d, Len(p) + 1)
    BY <1>6
  <2> QED BY <1>5, <2>1
<1>10. Reaches(rs, v, req, i, a)
  BY <1>1, <1>2, <1>3, <1>5, <1>7, <1>8, <1>9 DEF Reaches
<1> QED BY <1>2, <1>3, <1>5, <1>7, <1>10

\* The parameters, with one segment more.
LEMMA LastNamedBack ==
  ASSUME NEW p \in Seq(STRING), NEW d \in Nat, d + 1 <= Len(p)
  PROVE  /\ ~isParam(p[d + 1]) => LastNamed(p, d) = LastNamed(p, d + 1)
         /\ isParam(p[d + 1]) =>
              LastNamed(p, d) =
                IF \E j \in LastNamed(p, d + 1) : ParamName[p[j]] = ParamName[p[d + 1]]
                THEN LastNamed(p, d + 1) ELSE LastNamed(p, d + 1) \cup {d + 1}
<1> DEFINE Last1(j) == isParam(p[j]) /\ \A k \in j + 1 .. Len(p) :
                          isParam(p[k]) => ParamName[p[k]] # ParamName[p[j]]
<1>1. /\ LastNamed(p, d) = {j \in d + 1 .. Len(p) : Last1(j)}
      /\ LastNamed(p, d + 1) = {j \in (d + 1) + 1 .. Len(p) : Last1(j)}
  BY DEF LastNamed
<1>2. Len(p) \in Nat /\ d + 1 .. Len(p) = {d + 1} \cup ((d + 1) + 1 .. Len(p))
  OBVIOUS
<1>3. LastNamed(p, d) = LastNamed(p, d + 1) \cup {j \in {d + 1} : Last1(j)}
  <2> HIDE DEF Last1
  <2> QED BY <1>1, <1>2
<1>4. ~isParam(p[d + 1]) => ~Last1(d + 1)
  OBVIOUS
<1>5. ASSUME isParam(p[d + 1])
      PROVE  Last1(d + 1) <=>
               ~\E j \in LastNamed(p, d + 1) : ParamName[p[j]] = ParamName[p[d + 1]]
  <2>1. ASSUME Last1(d + 1), NEW j \in LastNamed(p, d + 1), ParamName[p[j]] = ParamName[p[d + 1]]
        PROVE  FALSE
    <3>1. j \in (d + 1) + 1 .. Len(p) /\ isParam(p[j])
      BY <1>1
    <3> QED BY <2>1, <3>1
  <2>2. ASSUME ~Last1(d + 1)
        PROVE  \E j \in LastNamed(p, d + 1) : ParamName[p[j]] = ParamName[p[d + 1]]
    <3> DEFINE S == {k \in (d + 1) + 1 .. Len(p) :
                       isParam(p[k]) /\ ParamName[p[k]] = ParamName[p[d + 1]]}
    <3>1. S # {} /\ S \in SUBSET (0 .. Len(p))
      BY <1>5, <2>2
    <3>2. PICK j \in S : \A y \in S : y <= j
      BY <1>2, <3>1, GreatestFacts
    <3>3. Last1(j)
      <4> SUFFICES ASSUME NEW k \in j + 1 .. Len(p), isParam(p[k]),
                          ParamName[p[k]] = ParamName[p[j]]
                   PROVE  FALSE
        BY <3>2
      <4>1. k \in S /\ ~(k <= j)
        BY <1>2, <3>2
      <4> QED BY <3>2, <4>1
    <3> QED BY <1>1, <3>2, <3>3
  <2> QED BY <2>1, <2>2
<1> HIDE DEF Last1
<1> QED BY <1>3, <1>4, <1>5

-----------------------------------------------------------------------------
(* A lookup finds nothing but what fits.                                     *)

IsReply(r) == r = [func |-> r.func, params |-> r.params]

LEMMA RepliesAre ==
  ASSUME NEW nodes, Ordered(nodes), NEW req
  PROVE  \A n \in 1 .. Len(nodes), i \in Nat : IsReply(getRoute(nodes, req)[n][i])
<1> DEFINE f == getRoute(nodes, req)
           P == {n \in 1 .. Len(nodes) : \A i \in Nat : IsReply(f[n][i])}
<1>1. \A n \in 1 .. Len(nodes), i \in Nat : f[n][i] = Answer(nodes, f, n, req, i)
  BY getRouteFacts
<1> HIDE DEF f
<1>2. ASSUME NEW n \in 1 .. Len(nodes), \A c \in 1 .. Len(nodes) : c > n => c \in P, NEW i \in Nat
      PROVE  IsReply(f[n][i])
  <2>1. PICK b : b = firstFound(nodes, n, f, i + 1)
    OBVIOUS
  <2>2. IsReply(NotFound)
    BY DEF IsReply, NotFound
  <2>3. IsReply(b)
    <3>1. n \in 0 .. Len(nodes) /\ i + 1 \in Nat
      BY DEF Ordered
    <3>2. b = NotFound \/ \E c \in Children(nodes, n) : b = f[c][i + 1]
      <4>1. CASE Routed(nodes, n, f, i + 1) = {}
        BY <2>1, <3>1, <4>1, FirstFoundFacts
      <4>2. CASE Routed(nodes, n, f, i + 1) # {}
        <5>1. \E c \in Routed(nodes, n, f, i + 1) : firstFound(nodes, n, f, i + 1) = f[c][i + 1]
          BY <3>1, <4>2, FirstFoundFacts
        <5> QED BY <2>1, <5>1 DEF Routed
      <4> QED BY <4>1, <4>2
    <3>3. \A c \in Children(nodes, n) : c \in P
      BY <1>2, <3>1, ChildrenFacts
    <3> QED BY <2>2, <3>1, <3>2, <3>3
  <2>4. PICK a, s : b = [func |-> a, params |-> s]
    BY <2>3 DEF IsReply
  <2>5. \/ f[n][i] = [func |-> nodes[n].func, params |-> {}]
        \/ f[n][i] = b
        \/ f[n][i] = [b EXCEPT !.params = addParam(@, ParamName[nodes[n].name], req.url[i])]
        \/ f[n][i] = NotFound
    BY <1>1, <2>1 DEF Answer
  <2>6. [b EXCEPT !.params = addParam(@, ParamName[nodes[n].name], req.url[i])]
          = [func |-> a, params |-> addParam(s, ParamName[nodes[n].name], req.url[i])]
    BY <2>4
  <2> QED BY <2>2, <2>3, <2>5, <2>6 DEF IsReply
<1>3. \A n \in 1 .. Len(nodes) : n \in P
  <2>1. Len(nodes) \in Nat /\ P \in SUBSET (1 .. Len(nodes))
    BY DEF Ordered
  <2>2. \A n \in 1 .. Len(nodes) : (\A c \in 1 .. Len(nodes) : c > n => c \in P) => n \in P
    BY <1>2
  <2> HIDE DEF P
  <2> QED BY <2>1, <2>2, Downward
<1> QED BY <1>3 DEF f

\* What the first child with a route answers, all of them give.
LEMMA FirstIsAnswer ==
  ASSUME NEW nodes, Ordered(nodes), NEW n \in 0 .. Len(nodes), NEW f, NEW i,
         firstFound(nodes, n, f, i).func # 0
  PROVE  \E c \in Children(nodes, n) : f[c][i].func # 0 /\ firstFound(nodes, n, f, i) = f[c][i]
<1>1. NotFound.func = 0
  BY DEF NotFound
<1>2. Routed(nodes, n, f, i) # {}
  BY <1>1, FirstFoundFacts
<1>3. \E c \in Routed(nodes, n, f, i) : firstFound(nodes, n, f, i) = f[c][i]
  BY <1>2, FirstFoundFacts
<1> QED BY <1>3 DEF Routed

LEMMA SamePlace ==
  ASSUME NEW p \in Seq(STRING), NEW d \in Nat, NEW i \in Nat, NEW j \in LastNamed(p, d + 1)
  PROVE  Place(i + 1, d + 1, j) = Place(i, d, j)
<1>1. j \in (d + 1) + 1 .. Len(p) /\ Len(p) \in Nat
  BY DEF LastNamed
<1>2. j \in Int
  BY <1>1
<1> QED BY <1>2 DEF Place

LEMMA StringSound ==
  ASSUME NEW nodes, NEW rs, TreeTypes(nodes, rs), NEW v \in Seq(STRING), NEW x \in STRING,
         NEW req, NEW i \in Nat, NEW b, ~isParam(x), ~AtEnd(req.url, i), req.url[i] = x,
         Reaches(rs, Append(v, x), req, i + 1, b.func), Leaves(rs, Append(v, x), req, i + 1, b)
  PROVE  Reaches(rs, v, req, i, b.func) /\ Leaves(rs, v, req, i, b)
<1>1. Fits(x, req.url[i])
  BY FitsFacts
<1>2. /\ Reaches(rs, v, req, i, b.func) /\ Len(v) + 1 <= Len(rs[b.func].path)
      /\ rs[b.func].path[Len(v) + 1] = x
  BY <1>1, ReachesBack
<1>3. b.func \in 1 .. Len(rs)
  BY <1>2 DEF Reaches
<1>4. PICK p \in Seq(STRING) : p = rs[b.func].path
  BY <1>3, RouteFacts
<1>5. PICK d \in Nat : d = Len(v) /\ Len(Append(v, x)) = d + 1
  BY AppendFacts
<1>6. LastNamed(p, d) = LastNamed(p, d + 1)
  BY <1>2, <1>4, <1>5, LastNamedBack
<1>7. \A j \in LastNamed(p, d + 1) : Place(i + 1, d + 1, j) = Place(i, d, j)
  BY SamePlace
<1>8. b.params = {<<ParamName[p[j]], req.url[Place(i + 1, d + 1, j)]>> : j \in LastNamed(p, d + 1)}
  BY <1>4, <1>5 DEF Leaves
<1>9. b.params = {<<ParamName[p[j]], req.url[Place(i, d, j)]>> : j \in LastNamed(p, d)}
  BY <1>6, <1>7, <1>8
<1> QED BY <1>2, <1>4, <1>5, <1>9 DEF Leaves

LEMMA ParamSound ==
  ASSUME NEW nodes, NEW rs, TreeTypes(nodes, rs), NEW v \in Seq(STRING), NEW x \in STRING,
         NEW req, NEW i \in Nat, NEW b, isParam(x), ~AtEnd(req.url, i), match(x, req.url[i]),
         Reaches(rs, Append(v, x), req, i + 1, b.func), Leaves(rs, Append(v, x), req, i + 1, b),
         NEW r, r.func = b.func, r.params = addParam(b.params, ParamName[x], req.url[i])
  PROVE  Reaches(rs, v, req, i, r.func) /\ Leaves(rs, v, req, i, r)
<1>1. Fits(x, req.url[i])
  BY FitsFacts
<1>2. /\ Reaches(rs, v, req, i, b.func) /\ Len(v) + 1 <= Len(rs[b.func].path)
      /\ rs[b.func].path[Len(v) + 1] = x
  BY <1>1, ReachesBack
<1>3. b.func \in 1 .. Len(rs)
  BY <1>2 DEF Reaches
<1>4. PICK p \in Seq(STRING) : p = rs[b.func].path
  BY <1>3, RouteFacts
<1>5. PICK d \in Nat : d = Len(v) /\ Len(Append(v, x)) = d + 1
  BY AppendFacts
<1> DEFINE L == LastNamed(p, d + 1)
           hidden == \E j \in L : ParamName[p[j]] = ParamName[x]
           pair(j) == <<ParamName[p[j]], req.url[Place(i, d, j)]>>
<1>6. p[d + 1] = x /\ d + 1 <= Len(p)
  BY <1>2, <1>4, <1>5
<1>7. LastNamed(p, d) = IF hidden THEN L ELSE L \cup {d + 1}
  BY <1>6, LastNamedBack
<1>8. \A j \in L : Place(i + 1, d + 1, j) = Place(i, d, j)
  BY SamePlace
<1>9. b.params = {pair(j) : j \in L}
  <2>1. b.params = {<<ParamName[p[j]], req.url[Place(i + 1, d + 1, j)]>> : j \in L}
    BY <1>4, <1>5 DEF Leaves
  <2> HIDE DEF L
  <2> QED BY <1>8, <2>1
<1>10. pair(d + 1) = <<ParamName[x], req.url[i]>>
  <2>1. Place(i, d, d + 1) = i
    BY DEF Place
  <2> QED BY <1>6, <2>1
<1>11. (\E q \in b.params : q[1] = ParamName[x]) <=> hidden
  <2>1. \A j \in L : pair(j)[1] = ParamName[p[j]]
    OBVIOUS
  <2> HIDE DEF L, pair
  <2> QED BY <1>9, <2>1
<1>12. r.params = {pair(j) : j \in LastNamed(p, d)}
  <2>1. r.params = IF hidden THEN b.params ELSE b.params \cup {<<ParamName[x], req.url[i]>>}
    BY <1>11 DEF addParam
  <2> HIDE DEF L, hidden, pair
  <2>2. CASE hidden
    BY <1>7, <1>9, <2>1, <2>2
  <2>3. CASE ~hidden
    <3>1. {pair(j) : j \in L \cup {d + 1}} = {pair(j) : j \in L} \cup {pair(d + 1)}
      OBVIOUS
    <3> QED BY <1>7, <1>9, <1>10, <2>1, <2>3, <3>1
  <2> QED BY <2>2, <2>3
<1> QED BY <1>2, <1>4, <1>5, <1>12, ZenonT(60) DEF Leaves

\* An answer r of a node, in the three cases in which there is one; b is that
\* of the nodes below it.
Answers(node, req, i, r, b) ==
  \/ /\ node.kind = "end" /\ AtEnd(req.url, i) /\ node.method = req.method
     /\ r = [func |-> node.func, params |-> {}]
  \/ /\ node.kind = "string" /\ ~AtEnd(req.url, i) /\ req.url[i] = node.name
     /\ b.func # 0 /\ r = b
  \/ /\ node.kind = "param" /\ ~AtEnd(req.url, i) /\ match(node.name, req.url[i])
     /\ b.func # 0
     /\ r = [b EXCEPT !.params = addParam(@, ParamName[node.name], req.url[i])]

LEMMA AnswerFacts ==
  ASSUME NEW nodes, NEW f, NEW n, NEW req, NEW i, Answer(nodes, f, n, req, i).func # 0
  PROVE  Answers(nodes[n], req, i, Answer(nodes, f, n, req, i), firstFound(nodes, n, f, i + 1))
<1>1. NotFound.func = 0
  BY DEF NotFound
<1> QED BY <1>1 DEF Answer, EndsFor, Answers

LEMMA LookupSound ==
  ASSUME NEW nodes, NEW rs, NEW w, NEW live, TreeTypes(nodes, rs), Labels(nodes, rs, w, live),
         NEW req
  PROVE  \A n \in 1 .. Len(nodes), i \in Nat :
           LET r == getRoute(nodes, req)[n][i]
           IN n \in live /\ r.func # 0 =>
                /\ Reaches(rs, w[nodes[n].parent], req, i, r.func)
                /\ Leaves(rs, w[nodes[n].parent], req, i, r)
<1> DEFINE f == getRoute(nodes, req)
           Good(n, i) == n \in live /\ f[n][i].func # 0 =>
                           /\ Reaches(rs, w[nodes[n].parent], req, i, f[n][i].func)
                           /\ Leaves(rs, w[nodes[n].parent], req, i, f[n][i])
           P == {n \in 1 .. Len(nodes) : \A i \in Nat : Good(n, i)}
<1>a. Ordered(nodes) /\ Len(nodes) \in Nat
  BY DEF TreeTypes, Ordered
<1>1. \A n \in 1 .. Len(nodes), i \in Nat : f[n][i] = Answer(nodes, f, n, req, i)
  BY <1>a, getRouteFacts
<1>b. \A n \in 1 .. Len(nodes), i \in Nat : IsReply(f[n][i])
  BY <1>a, RepliesAre
<1> HIDE DEF f
<1>2. ASSUME NEW n \in 1 .. Len(nodes), \A c \in 1 .. Len(nodes) : c > n => c \in P, NEW i \in Nat
      PROVE  Good(n, i)
  <2> SUFFICES ASSUME n \in live, f[n][i].func # 0
               PROVE  /\ Reaches(rs, w[nodes[n].parent], req, i, f[n][i].func)
                      /\ Leaves(rs, w[nodes[n].parent], req, i, f[n][i])
    OBVIOUS
  <2>1. PICK v \in Seq(STRING) : v = w[nodes[n].parent]
    BY LabelFacts
  <2>2. PICK r : r = f[n][i]
    OBVIOUS
  <2>3. PICK b : b = firstFound(nodes, n, f, i + 1)
    OBVIOUS
  <2>4. PICK x : x = nodes[n].name
    OBVIOUS
  <2>5. \/ /\ nodes[n].kind = "end" /\ AtEnd(req.url, i) /\ nodes[n].method = req.method
           /\ r = [func |-> nodes[n].func, params |-> {}]
        \/ /\ nodes[n].kind = "string" /\ ~AtEnd(req.url, i) /\ req.url[i] = x
           /\ b.func # 0 /\ r = b
        \/ /\ nodes[n].kind = "param" /\ ~AtEnd(req.url, i) /\ match(x, req.url[i])
           /\ b.func # 0
           /\ r = [b EXCEPT !.params = addParam(@, ParamName[x], req.url[i])]
    <3>1. r = Answer(nodes, f, n, req, i) /\ r.func # 0
      BY <1>1, <2>2
    <3>2. Answers(nodes[n], req, i, r, b)
      BY <2>3, <3>1, AnswerFacts
    <3> QED BY ONLY <2>4, <3>2 DEF Answers
  <2>6. ASSUME nodes[n].kind # "end", b.func # 0
        PROVE  /\ x \in STRING /\ w[n] = Append(v, x)
               /\ nodes[n].kind = IF isParam(x) THEN "param" ELSE "string"
               /\ IsReply(b)
               /\ Reaches(rs, Append(v, x), req, i + 1, b.func)
               /\ Leaves(rs, Append(v, x), req, i + 1, b)
    <3>1. /\ x \in STRING /\ w[n] = Append(v, x)
          /\ nodes[n].kind = IF isParam(x) THEN "param" ELSE "string"
      BY <2>1, <2>4, <2>6 DEF Labels, Labelled
    <3>2. n \in 0 .. Len(nodes) /\ i + 1 \in Nat
      BY <1>a
    <3>3. PICK c \in Children(nodes, n) : f[c][i + 1].func # 0 /\ b = f[c][i + 1]
      BY <1>a, <2>3, <2>6, <3>2, FirstIsAnswer
    <3>4. c \in 1 .. Len(nodes) /\ c > n /\ nodes[c].parent = n
      BY <1>a, <3>2, ChildrenFacts
    <3>5. c \in live
      BY <2>6, <3>4 DEF Labels, Inner
    <3>6. Good(c, i + 1)
      BY <1>2, <3>2, <3>4
    <3>7. Reaches(rs, w[n], req, i + 1, b.func) /\ Leaves(rs, w[n], req, i + 1, b)
      BY <3>3, <3>4, <3>5, <3>6
    <3>8. IsReply(b)
      BY <1>b, <3>2, <3>3, <3>4
    <3> QED BY <3>1, <3>7, <3>8
  <2>7. CASE nodes[n].kind = "end"
    <3>1. /\ AtEnd(req.url, i) /\ nodes[n].method = req.method
          /\ r = [func |-> nodes[n].func, params |-> {}]
      BY <2>5, <2>7
    <3>2. /\ nodes[n].func \in 1 .. Len(rs) /\ rs[nodes[n].func].path = v
          /\ rs[nodes[n].func].method = req.method
      BY <2>1, <2>7, <3>1 DEF Labels, Labelled
    <3>3. Len(v) \in Nat /\ Len(v) + 1 .. Len(v) = {} /\ Place(i, Len(v), Len(v) + 1) = i
      BY DEF Place
    <3>4. Begins(v, v) /\ LastNamed(v, Len(v)) = {}
      BY <3>3 DEF Begins, LastNamed
    <3>5. Reaches(rs, v, req, i, r.func)
      BY <3>1, <3>2, <3>3, <3>4 DEF Reaches
    <3>6. Leaves(rs, v, req, i, r)
      BY <3>1, <3>2, <3>4 DEF Leaves
    <3> QED BY <2>1, <2>2, <3>5, <3>6
  <2>8. CASE nodes[n].kind = "string"
    <3>1. ~AtEnd(req.url, i) /\ req.url[i] = x /\ b.func # 0 /\ r = b /\ ~isParam(x)
      BY <2>5, <2>6, <2>8
    <3>2. Reaches(rs, v, req, i, b.func) /\ Leaves(rs, v, req, i, b)
      BY <2>6, <2>8, <3>1, StringSound
    <3> QED BY <2>1, <2>2, <3>1, <3>2
  <2>9. CASE nodes[n].kind = "param"
    <3>1. /\ ~AtEnd(req.url, i) /\ match(x, req.url[i]) /\ b.func # 0 /\ isParam(x)
          /\ r = [b EXCEPT !.params = addParam(@, ParamName[x], req.url[i])]
      BY <2>5, <2>6, <2>9
    <3>2. PICK a, s : b = [func |-> a, params |-> s]
      BY <2>6, <2>9, <3>1 DEF IsReply
    <3>3. r.func = b.func /\ r.params = addParam(b.params, ParamName[x], req.url[i])
      BY <3>1, <3>2
    <3>4. Reaches(rs, v, req, i, r.func) /\ Leaves(rs, v, req, i, r)
      BY <2>6, <2>9, <3>1, <3>3, ParamSound
    <3> QED BY <2>1, <2>2, <3>4
  <2> QED BY <2>5, <2>7, <2>8, <2>9
<1>3. \A n \in 1 .. Len(nodes) : n \in P
  <2>1. P \in SUBSET (1 .. Len(nodes))
    OBVIOUS
  <2>2. \A n \in 1 .. Len(nodes) : (\A c \in 1 .. Len(nodes) : c > n => c \in P) => n \in P
    BY <1>2
  <2> HIDE DEF P
  <2> QED BY <1>a, <2>1, <2>2, Downward
<1> QED BY <1>3 DEF f

-----------------------------------------------------------------------------
(* The root, and what the reference says of what it finds.                   *)

\* The segments behind the prefix are the places of the URL before AtEnd.
LEMMA RestFacts ==
  ASSUME prefix \in Seq(STRING), NEW url \in Seq(STRING), Len(url) > Len(prefix),
         NEW i, i = Len(prefix) + 1
  PROVE  /\ Len(Rest(url)) \in Nat
         /\ \A j \in 1 .. Len(Rest(url)) : Rest(url)[j] = url[Place(i, 0, j)]
         /\ \A j \in Nat : j >= 1 => (AtEnd(url, Place(i, 0, j)) <=> j > Len(Rest(url)))
<1>1. PICK S : S = STRING
  OBVIOUS
<1>2. PICK k \in Nat : k = Len(prefix) /\ i = k + 1
  BY ONLY <1>1, prefix \in Seq(STRING), i = Len(prefix) + 1
<1>3. PICK u \in Seq(S) : u = url /\ Len(u) > k
  BY ONLY <1>1, <1>2, url \in Seq(STRING), Len(url) > Len(prefix)
<1>4. PICK L \in Nat : L = Len(u) - k /\ L >= 1 /\ Len(u) = L + k
  <2>1. Len(u) \in Nat
    BY ONLY u \in Seq(S)
  <2>2. Len(u) - k \in Nat /\ Len(u) - k >= 1 /\ Len(u) = (Len(u) - k) + k
    BY ONLY <1>3, <2>1, k \in Nat
  <2> QED BY ONLY <2>2, Zenon
<1>5. PICK rest : rest = SubSeq(u, k + 1, Len(u))
  OBVIOUS
<1>6. rest \in Seq(S) /\ Len(rest) = L /\ \A j \in 1 .. L : rest[j] = u[k + j]
  <2>1. k + 1 \in Int /\ Len(u) \in Int /\ \A j \in k + 1 .. Len(u) : u[j] \in S
    BY ONLY u \in Seq(S), k \in Nat
  <2>2. /\ SubSeq(u, k + 1, Len(u)) \in Seq(S)
        /\ Len(SubSeq(u, k + 1, Len(u))) = IF k + 1 <= Len(u) THEN Len(u) - (k + 1) + 1 ELSE 0
        /\ \A j \in 1 .. Len(u) - (k + 1) + 1 :
             SubSeq(u, k + 1, Len(u))[j] = u[(k + 1) + j - 1]
    BY ONLY <2>1, SubSeqProperties
  <2>3. k + 1 <= Len(u) /\ Len(u) - (k + 1) + 1 = L
    BY ONLY <1>4, k \in Nat, L \in Nat
  <2>4. \A j \in 1 .. L : (k + 1) + j - 1 = k + j
    BY ONLY k \in Nat, L \in Nat
  <2> QED BY ONLY <1>5, <2>2, <2>3, <2>4
<1>7. PICK R : R = IF rest[L] = "" THEN SubSeq(rest, 1, L - 1) ELSE rest
  OBVIOUS
<1>8. Rest(url) = R
  BY ONLY <1>2, <1>3, <1>5, <1>6, <1>7 DEF Rest
<1>9. PICK N \in Nat : /\ N = IF rest[L] = "" THEN L - 1 ELSE L
                       /\ Len(R) = N /\ \A j \in 1 .. N : R[j] = u[k + j]
  <2>1. CASE rest[L] = ""
    <3>1. 1 \in Int /\ L - 1 \in Int /\ \A j \in 1 .. L - 1 : rest[j] \in S
      BY ONLY <1>6, L \in Nat
    <3>2. /\ Len(SubSeq(rest, 1, L - 1)) = IF 1 <= L - 1 THEN (L - 1) - 1 + 1 ELSE 0
          /\ \A j \in 1 .. (L - 1) - 1 + 1 : SubSeq(rest, 1, L - 1)[j] = rest[1 + j - 1]
      BY ONLY <3>1, SubSeqProperties
    <3>3. /\ (L - 1) - 1 + 1 = L - 1 /\ L - 1 \in Nat /\ (~(1 <= L - 1) => L - 1 = 0)
          /\ \A j \in 1 .. L - 1 : 1 + j - 1 = j /\ j \in 1 .. L
      BY ONLY <1>4, L \in Nat
    <3>4. Len(R) = L - 1 /\ \A j \in 1 .. L - 1 : R[j] = u[k + j]
      BY ONLY <1>6, <1>7, <2>1, <3>2, <3>3, ZenonT(30)
    <3> QED BY ONLY <2>1, <3>3, <3>4
  <2>2. CASE rest[L] # ""
    BY ONLY <1>6, <1>7, <2>2, L \in Nat
  <2> QED BY ONLY <2>1, <2>2
<1>10. \A j \in Nat : Place(i, 0, j) = k + j
  BY ONLY <1>2 DEF Place
<1>11. rest[L] = u[k + L]
  BY ONLY <1>4, <1>6, SMTT(30)
<1>12. ASSUME NEW j \in Nat, j >= 1 PROVE AtEnd(u, k + j) <=> j > N
  <2>1. (k + j > Len(u) <=> j > L) /\ (k + j = Len(u) <=> j = L)
    BY ONLY <1>4, k \in Nat, j \in Nat, L \in Nat
  <2>2. AtEnd(u, k + j) <=> j > L \/ (j = L /\ rest[L] = "")
    BY ONLY <1>11, <2>1 DEF AtEnd
  <2>3. CASE rest[L] = ""
    <3>1. N = L - 1
      BY ONLY <1>9, <2>3
    <3>2. j > L \/ j = L <=> j > N
      BY ONLY <3>1, L \in Nat, j \in Nat
    <3> QED BY ONLY <2>2, <2>3, <3>2
  <2>4. CASE rest[L] # ""
    <3>1. N = L
      BY ONLY <1>9, <2>4
    <3> QED BY ONLY <2>2, <2>4, <3>1
  <2> QED BY ONLY <2>3, <2>4
<1>13. \A j \in 1 .. N : j \in Nat
  OBVIOUS
<1> QED BY ONLY <1>3, <1>8, <1>9, <1>10, <1>12, <1>13, ZenonT(90)

\* The tree stands for the routes.
Stands(nodes, rs) == TreeTypes(nodes, rs) /\ \E w, live : Labels(nodes, rs, w, live)

LEMMA RootSound ==
  ASSUME NEW nodes, NEW rs, Stands(nodes, rs), NEW p \in Seq(STRING), NEW req,
         NEW r, r = GetRoute(nodes, p, req), r.func # 0
  PROVE  /\ Len(req.url) > Len(p) /\ IsPrefix(p, req.url)
         /\ Reaches(rs, <<>>, req, Len(p) + 1, r.func) /\ Leaves(rs, <<>>, req, Len(p) + 1, r)
<1>1. PICK w, live : Labels(nodes, rs, w, live)
  BY DEF Stands
<1>2. TreeTypes(nodes, rs) /\ Ordered(nodes) /\ Len(nodes) \in Nat
  BY DEF Stands, TreeTypes, Ordered
<1>3. PICK i \in Nat : i = Len(p) + 1
  OBVIOUS
<1>4. PICK f : f = getRoute(nodes, req)
  OBVIOUS
<1>5. NotFound.func = 0
  BY DEF NotFound
<1>6. /\ Len(req.url) > Len(p) /\ IsPrefix(p, req.url)
      /\ r = firstFound(nodes, Root, f, i)
  BY <1>3, <1>4, <1>5 DEF GetRoute
<1>7. Root \in 0 .. Len(nodes)
  BY <1>2 DEF Root
<1>8. PICK c \in Children(nodes, Root) : f[c][i].func # 0 /\ r = f[c][i]
  BY <1>2, <1>6, <1>7, FirstIsAnswer
<1>9. c \in 1 .. Len(nodes) /\ nodes[c].parent = Root
  BY <1>2, <1>7, ChildrenFacts
<1>10. c \in live /\ w[nodes[c].parent] = <<>>
  BY <1>1, <1>9 DEF Labels, Inner
<1>11. /\ Reaches(rs, w[nodes[c].parent], req, i, f[c][i].func)
       /\ Leaves(rs, w[nodes[c].parent], req, i, f[c][i])
  BY <1>1, <1>2, <1>4, <1>8, <1>9, <1>10, LookupSound
<1> QED BY <1>3, <1>6, <1>8, <1>10, <1>11

\* What the code finds is a route that matches, in the words of the reference.
LEMMA FoundMatches ==
  ASSUME NEW rs, routes = rs, NEW nodes, Stands(nodes, rs), prefix \in Seq(STRING),
         NEW req, req.url \in Seq(STRING),
         NEW r, r = GetRoute(nodes, prefix, req), r.func # 0
  PROVE  r.func \in Matching(req.method, req.url)
<1>1. PICK i \in Nat : i = Len(prefix) + 1
  OBVIOUS
<1>2. /\ Len(req.url) > Len(prefix) /\ IsPrefix(prefix, req.url)
      /\ Reaches(rs, <<>>, req, i, r.func)
  BY <1>1, RootSound
<1>3. PICK a \in 1 .. Len(rs) : a = r.func
  BY <1>2 DEF Reaches
<1>4. PICK p \in Seq(STRING) : p = rs[a].path
  BY RouteFacts DEF Stands
<1>5. PICK N \in Nat : N = Len(p)
  OBVIOUS
<1>6. PICK url : url = req.url
  OBVIOUS
<1>7. /\ rs[a].method = req.method
      /\ \A j \in 1 .. N : ~AtEnd(url, Place(i, 0, j)) /\ Fits(p[j], url[Place(i, 0, j)])
      /\ AtEnd(url, Place(i, 0, N + 1))
  <2>1. Len(<<>>) = 0 /\ 0 + 1 = 1
    OBVIOUS
  <2> QED BY <1>2, <1>3, <1>4, <1>5, <1>6, <2>1 DEF Reaches
<1>8. /\ Len(Rest(url)) \in Nat
      /\ \A j \in 1 .. Len(Rest(url)) : Rest(url)[j] = url[Place(i, 0, j)]
      /\ \A j \in Nat : j >= 1 => (AtEnd(url, Place(i, 0, j)) <=> j > Len(Rest(url)))
  BY <1>1, <1>2, <1>6, RestFacts
<1>9. PICK R : R = Rest(url)
  OBVIOUS
<1>10. N = Len(R)
  <2>1. N + 1 > Len(R)
    BY <1>7, <1>8, <1>9
  <2>2. N >= 1 => ~(N > Len(R))
    BY <1>7, <1>8, <1>9
  <2> QED BY <1>8, <1>9, <2>1, <2>2
<1>11. \A j \in 1 .. N : Fits(p[j], R[j])
  BY <1>7, <1>8, <1>9, <1>10
<1>12. Matches(rs[a], req.method, url)
  BY <1>2, <1>4, <1>5, <1>6, <1>7, <1>9, <1>10, <1>11 DEF Matches
<1> QED BY <1>3, <1>6, <1>12 DEF Matching

\* Of the parameters with one name, the last is the one that LastNamed keeps.
LEMMA LastIsMax ==
  ASSUME NEW p \in Seq(STRING), NEW D, D = {j \in 1 .. Len(p) : isParam(p[j])}
  PROVE  /\ \A j \in LastNamed(p, 0) :
              j \in D /\ Max({k \in D : ParamName[p[k]] = ParamName[p[j]]}) = j
         /\ \A k \in D : \E j \in LastNamed(p, 0) : ParamName[p[j]] = ParamName[p[k]]
<1> DEFINE S(x) == {k \in D : ParamName[p[k]] = ParamName[p[x]]}
<1>1. Len(p) \in Nat /\ 0 + 1 = 1
  OBVIOUS
<1>2. ASSUME NEW x \in D
      PROVE  /\ Max(S(x)) \in S(x) /\ \A y \in S(x) : y <= Max(S(x))
             /\ Max(S(x)) \in LastNamed(p, 0)
  <2>1. S(x) \in SUBSET (0 .. Len(p)) /\ S(x) # {}
    BY <1>1
  <2>2. Max(S(x)) \in S(x) /\ \A y \in S(x) : y <= Max(S(x))
    <3> HIDE DEF S
    <3> QED BY <1>1, <2>1, GreatestFacts
  <2>3. PICK m \in 1 .. Len(p) : m = Max(S(x)) /\ m \in D
    BY <2>2
  <2>4. ASSUME NEW k \in m + 1 .. Len(p), isParam(p[k]), ParamName[p[k]] = ParamName[p[m]]
        PROVE  FALSE
    <3>1. k \in 1 .. Len(p) /\ ~(k <= m)
      BY <1>1
    <3>2. k \in S(x)
      BY <2>2, <2>3, <2>4, <3>1
    <3> HIDE DEF S
    <3> QED BY <2>2, <2>3, <3>1, <3>2
  <2>5. m \in 0 + 1 .. Len(p) /\ isParam(p[m])
    BY <1>1, <2>3
  <2>6. m \in LastNamed(p, 0)
    BY <2>4, <2>5 DEF LastNamed
  <2> QED BY <2>2, <2>3, <2>6
<1>3. ASSUME NEW j \in LastNamed(p, 0) PROVE j \in D /\ Max(S(j)) = j
  <2>1. j \in D /\ j \in 1 .. Len(p)
    BY <1>1 DEF LastNamed
  <2>2. PICK m : m = Max(S(j))
    OBVIOUS
  <2>3. m \in 1 .. Len(p) /\ m \in D /\ ParamName[p[m]] = ParamName[p[j]] /\ j <= m
    BY <1>2, <2>1, <2>2
  <2>4. ~(m \in j + 1 .. Len(p))
    BY <2>3 DEF LastNamed
  <2>5. m = j
    BY <1>1, <2>1, <2>3, <2>4
  <2> QED BY <2>1, <2>2, <2>5
<1>4. ASSUME NEW k \in D PROVE \E j \in LastNamed(p, 0) : ParamName[p[j]] = ParamName[p[k]]
  BY <1>2, Zenon
<1> QED BY <1>3, <1>4

\* The state of reply after a lookup.
IsAnswer(method, url) ==
  reply = [ method |-> method, url |-> url,
            func |-> GetRoute(tree, prefix, [method |-> method, url |-> url]).func,
            params |-> GetRoute(tree, prefix, [method |-> method, url |-> url]).params ]

\* The parameters of a path, as the reference has them.
ParamsFor(path, rest) ==
  LET named == [i \in {j \in 1 .. Len(path) : isParam(path[j])} |-> ParamName[path[i]]]
  IN { <<name, rest[Max({i \in DOMAIN named : named[i] = name})]>> :
         name \in {named[i] : i \in DOMAIN named} }

LEMMA AnswerSound ==
  ASSUME Stands(tree, routes), prefix \in Seq(STRING),
         NEW method, NEW url \in Seq(STRING), IsAnswer(method, url)
  PROVE  RoutedSoundly /\ ParamsOfTheRoute
<1>1. PICK req : req = [method |-> method, url |-> url]
  OBVIOUS
<1>2. req.method = method /\ req.url = url
  BY <1>1
<1>3. PICK r : r = GetRoute(tree, prefix, req)
  OBVIOUS
<1>4. reply.func = r.func /\ reply.params = r.params /\ reply.method = method /\ reply.url = url
  BY <1>1, <1>3 DEF IsAnswer
<1>5. RoutedSoundly
  <2> SUFFICES ASSUME r.func # 0 PROVE r.func \in Matching(method, url)
    BY <1>4 DEF RoutedSoundly
  <2>1. r.func \in Matching(req.method, req.url)
    BY <1>2, <1>3, FoundMatches, SMTT(30)
  <2> QED BY <1>2, <2>1
<1>6. ASSUME r.func # 0 PROVE ParamsOfTheRoute
  <2>1. PICK i \in Nat : i = Len(prefix) + 1
    OBVIOUS
  <2>2. /\ Len(url) > Len(prefix) /\ Reaches(routes, <<>>, req, i, r.func)
        /\ Leaves(routes, <<>>, req, i, r)
    BY <1>2, <1>3, <1>6, <2>1, RootSound
  <2>3. PICK a \in 1 .. Len(routes) : a = r.func
    BY <2>2 DEF Reaches
  <2>4. PICK p \in Seq(STRING) : p = routes[a].path
    BY RouteFacts DEF Stands
  <2>5. r.params = {<<ParamName[p[j]], url[Place(i, 0, j)]>> : j \in LastNamed(p, 0)}
    <3>1. Len(<<>>) = 0
      OBVIOUS
    <3> QED BY <1>2, <2>2, <2>3, <2>4, <3>1 DEF Leaves
  <2>6. a \in Matching(method, url)
    BY <1>4, <1>5, <1>6, <2>3 DEF RoutedSoundly
  <2>7. PICK R : R = Rest(url)
    OBVIOUS
  <2>8. Len(p) = Len(R)
    BY <2>4, <2>6, <2>7 DEF Matching, Matches
  <2>9. \A j \in 1 .. Len(p) : R[j] = url[Place(i, 0, j)]
    BY <2>1, <2>2, <2>7, <2>8, RestFacts
  <2>10. \A j \in LastNamed(p, 0) : j \in 1 .. Len(p)
    BY DEF LastNamed
  <2> DEFINE D == {j \in 1 .. Len(p) : isParam(p[j])}
             named == [k \in D |-> ParamName[p[k]]]
             last(name) == <<name, R[Max({k \in D : ParamName[p[k]] = name})]>>
  <2>11. /\ \A j \in LastNamed(p, 0) :
              j \in D /\ Max({k \in D : ParamName[p[k]] = ParamName[p[j]]}) = j
         /\ \A k \in D : \E j \in LastNamed(p, 0) : ParamName[p[j]] = ParamName[p[k]]
    <3> HIDE DEF D
    <3> QED BY LastIsMax, ZenonT(60) DEF D
  <2> HIDE DEF D
  <2>12. \A j \in LastNamed(p, 0) :
           last(ParamName[p[j]]) = <<ParamName[p[j]], url[Place(i, 0, j)]>>
    BY <2>9, <2>10, <2>11
  <2>13. r.params = {last(ParamName[p[j]]) : j \in LastNamed(p, 0)}
    <3> HIDE DEF last
    <3> QED BY <2>5, <2>12
  <2>14. {ParamName[p[j]] : j \in LastNamed(p, 0)} = {ParamName[p[k]] : k \in D}
    BY <2>11
  <2>15. r.params = {last(name) : name \in {ParamName[p[k]] : k \in D}}
    <3> HIDE DEF last
    <3> QED BY <2>13, <2>14
  <2>16. \A name : {k \in D : ParamName[p[k]] = name} = {k \in DOMAIN named : named[k] = name}
    OBVIOUS
  <2>17. {ParamName[p[k]] : k \in D} = {named[k] : k \in DOMAIN named}
    OBVIOUS
  <2>18. r.params = ParamsFor(p, R)
    <3> DEFINE same(name) == <<name, R[Max({k \in DOMAIN named : named[k] = name})]>>
    <3>1. \A name : last(name) = same(name)
      <4> HIDE DEF named
      <4>1. ASSUME NEW name PROVE last(name) = same(name)
        BY ONLY <2>16 DEF last, same
      <4> QED BY <4>1
    <3>2. {last(name) : name \in {ParamName[p[k]] : k \in D}}
            = {same(name) : name \in {named[k] : k \in DOMAIN named}}
      <4> HIDE DEF named, last, same
      <4> QED BY <2>17, <3>1
    <3>3. r.params = {same(name) : name \in {named[k] : k \in DOMAIN named}}
      BY ONLY <2>15, <3>2
    <3> QED BY ONLY <3>3 DEF same, named, D, ParamsFor
  <2>19. reply.params = ParamsFor(routes[reply.func].path, Rest(reply.url))
    BY ONLY <1>4, <2>3, <2>4, <2>7, <2>18
  <2> QED BY ONLY <2>19 DEF ParamsFor, ParamsOfTheRoute
<1> QED BY <1>4, <1>5, <1>6, Zenon DEF ParamsOfTheRoute

-----------------------------------------------------------------------------
(* Adding a route keeps the tree in step with the routes.                    *)

LEMMA AppendTypes ==
  ASSUME NEW nodes, NEW rs, TreeTypes(nodes, rs), NEW x \in Node, x.parent \in 0 .. Len(nodes),
         x.func \in 0 .. Len(rs)
  PROVE  /\ TreeTypes(Append(nodes, x), rs)
         /\ Len(nodes) \in Nat /\ Len(Append(nodes, x)) = Len(nodes) + 1
         /\ \A n \in 1 .. Len(nodes) : Append(nodes, x)[n] = nodes[n]
         /\ Append(nodes, x)[Len(nodes) + 1] = x
<1>1. nodes \in Seq(Node) /\ rs \in Seq(Route) /\ Ordered(nodes) /\ Len(nodes) \in Nat
  BY DEF TreeTypes, Ordered
<1>2. PICK more : more = Append(nodes, x)
  OBVIOUS
<1>3. /\ more \in Seq(Node) /\ Len(more) = Len(nodes) + 1
      /\ \A n \in 1 .. Len(nodes) : more[n] = nodes[n]
      /\ more[Len(nodes) + 1] = x
  BY ONLY <1>1, <1>2, x \in Node, AppendProperties
<1>4. Ordered(more)
  <2>1. Len(more) \in Nat
    BY <1>1, <1>3
  <2>2. ASSUME NEW n \in 1 .. Len(more) PROVE more[n].parent \in 0 .. n - 1
    <3>1. CASE n = Len(nodes) + 1
      BY <1>1, <1>3, <3>1
    <3>2. CASE n # Len(nodes) + 1
      <4>1. n \in 1 .. Len(nodes)
        BY <1>1, <1>3, <3>2
      <4> QED BY <1>1, <1>3, <4>1 DEF Ordered
    <3> QED BY <3>1, <3>2
  <2> QED BY <2>1, <2>2 DEF Ordered
<1>5. \A n \in 1 .. Len(more) : more[n].func \in 0 .. Len(rs)
  <2>1. \A n \in 1 .. Len(more) : n = Len(nodes) + 1 \/ n \in 1 .. Len(nodes)
    BY <1>1, <1>3
  <2>2. \A n \in 1 .. Len(nodes) : more[n].func \in 0 .. Len(rs)
    BY <1>3 DEF TreeTypes
  <2>3. more[Len(nodes) + 1].func \in 0 .. Len(rs)
    BY <1>3
  <2> QED BY <2>1, <2>2, <2>3
<1> QED BY <1>1, <1>2, <1>3, <1>4, <1>5 DEF TreeTypes

\* One node more, and what is on the way to it.
With(nodes, w, v) == [n \in 0 .. Len(nodes) + 1 |-> IF n = Len(nodes) + 1 THEN v ELSE w[n]]

LEMMA AppendLabels ==
  ASSUME NEW nodes, NEW rs, TreeTypes(nodes, rs), NEW w, NEW live, Labels(nodes, rs, w, live),
         NEW x \in Node, x.parent \in 0 .. Len(nodes), x.func \in 0 .. Len(rs),
         NEW v \in Seq(STRING),
         NEW goes, goes = (x.parent \in live /\ Inner(nodes, x.parent)),
         goes => Labelled(x, v, w[x.parent], rs)
  PROVE  Labels(Append(nodes, x), rs, With(nodes, w, v),
                live \cup (IF goes THEN {Len(nodes) + 1} ELSE {}))
<1>1. PICK more : more = Append(nodes, x)
  OBVIOUS
<1>2. PICK N \in Nat : N = Len(nodes)
  BY DEF TreeTypes, Ordered
<1>3. Len(more) = N + 1 /\ more[N + 1] = x /\ \A n \in 1 .. N : more[n] = nodes[n]
  BY <1>1, <1>2, AppendTypes
<1>4. PICK y : y = With(nodes, w, v)
  OBVIOUS
<1>5. y = [n \in 0 .. N + 1 |-> IF n = N + 1 THEN v ELSE w[n]]
  BY <1>2, <1>4 DEF With
<1>6. PICK alive : alive = live \cup (IF goes THEN {N + 1} ELSE {})
  OBVIOUS
<1>7. w \in [0 .. N -> Seq(STRING)] /\ w[Root] = <<>> /\ live \subseteq 0 .. N /\ Root \in live
  BY <1>2 DEF Labels
<1>8. y[N + 1] = v /\ \A n \in 0 .. N : y[n] = w[n]
  BY <1>5
<1>9. y \in [0 .. N + 1 -> Seq(STRING)]
  BY <1>5, <1>7, SMTT(30)
<1>10. \A n \in 0 .. N : n \in alive <=> n \in live
  BY <1>6
<1>11. N + 1 \in alive <=> goes
  BY <1>6, <1>7, SMTT(30)
<1>12. \A n \in 0 .. N : Inner(more, n) <=> Inner(nodes, n)
  BY <1>3 DEF Inner, Root
<1>13. \A n \in 1 .. N : nodes[n].parent \in 0 .. N /\ n \in 0 .. N
  BY <1>2 DEF TreeTypes, Ordered
<1>14. y[Root] = <<>> /\ Root \in alive /\ alive \subseteq 0 .. N + 1
  <2>1. Root \in 0 .. N
    BY DEF Root
  <2> QED BY <1>6, <1>7, <1>8, <1>10, <2>1, SMTT(30)
<1>15. ASSUME NEW n \in 1 .. N + 1
       PROVE  /\ n \in alive <=> more[n].parent \in alive /\ Inner(more, more[n].parent)
              /\ n \in alive => Labelled(more[n], y[n], y[more[n].parent], rs)
  <2>1. CASE n = N + 1
    <3>1. more[n] = x /\ x.parent \in 0 .. N /\ y[n] = v /\ y[x.parent] = w[x.parent]
      BY <1>2, <1>3, <1>8, <2>1
    <3>2. goes <=> x.parent \in alive /\ Inner(more, x.parent)
      BY <1>10, <1>12, <3>1
    <3> QED BY <1>11, <2>1, <3>1, <3>2
  <2>2. CASE n # N + 1
    <3>1. n \in 1 .. N
      BY <2>2
    <3>2. /\ more[n] = nodes[n] /\ nodes[n].parent \in 0 .. N /\ n \in 0 .. N
          /\ y[n] = w[n] /\ y[nodes[n].parent] = w[nodes[n].parent]
      BY <1>3, <1>8, <1>13, <3>1
    <3>3. /\ n \in live <=> nodes[n].parent \in live /\ Inner(nodes, nodes[n].parent)
          /\ n \in live => Labelled(nodes[n], w[n], w[nodes[n].parent], rs)
      BY <1>2, <3>1 DEF Labels
    <3> QED BY <1>10, <1>12, <3>2, <3>3
  <2> QED BY <2>1, <2>2
<1>16. Labels(more, rs, y, alive)
  BY <1>3, <1>9, <1>14, <1>15 DEF Labels
<1> QED BY <1>1, <1>2, <1>4, <1>6, <1>16

Extends(nodes, more) == Len(nodes) <= Len(more) /\ \A n \in 1 .. Len(nodes) : more[n] = nodes[n]

LEMMA SegmentFacts ==
  ASSUME NEW q \in Nat, NEW s \in STRING
  PROVE  /\ Segment(q, s) \in Node /\ Segment(q, s).parent = q /\ Segment(q, s).name = s
         /\ Segment(q, s).kind = IF isParam(s) THEN "param" ELSE "string"
         /\ Segment(q, s).func = 0
BY DEF Segment, Node, NoMethod

LEMMA EndFacts ==
  ASSUME NEW q \in Nat, NEW m \in Methods, NEW a \in Nat
  PROVE  /\ End(q, m, a) \in Node /\ End(q, m, a).parent = q /\ End(q, m, a).kind = "end"
         /\ End(q, m, a).func = a /\ End(q, m, a).method = m
BY DEF End, Node

LEMMA DescendFacts ==
  ASSUME NEW nodes, Ordered(nodes), NEW q, NEW s
  PROVE  \/ \E c \in 1 .. Len(nodes) :
              /\ nodes[c].parent = q /\ nodes[c].name = s
              /\ Descend([nodes |-> nodes, at |-> q], s) = [nodes |-> nodes, at |-> c]
         \/ /\ \A c \in 1 .. Len(nodes) : ~(nodes[c].parent = q /\ nodes[c].name = s)
            /\ Descend([nodes |-> nodes, at |-> q], s)
                 = [nodes |-> Append(nodes, Segment(q, s)), at |-> Len(nodes) + 1]
<1> DEFINE pos == [nodes |-> nodes, at |-> q]
<1>1. PICK same : same = SameName(nodes, q, s)
  OBVIOUS
<1>2. same = {c \in 1 .. Len(nodes) : nodes[c].parent = q /\ nodes[c].name = s}
  BY <1>1 DEF SameName, Children
<1>3. pos.nodes = nodes /\ pos.at = q /\ \A c : [pos EXCEPT !.at = c] = [nodes |-> nodes, at |-> c]
  OBVIOUS
<1>4. Descend(pos, s) = IF same # {} THEN [nodes |-> nodes, at |-> Min(same)]
                        ELSE [nodes |-> Append(nodes, Segment(q, s)), at |-> Len(nodes) + 1]
  <2> HIDE DEF pos
  <2> QED BY <1>1, <1>3 DEF Descend
<1>5. same # {} => Min(same) \in same
  <2>1. same \in SUBSET Nat
    BY <1>2
  <2> QED BY <2>1, LeastFacts
<1> HIDE DEF pos
<1>6. CASE same # {}
  BY <1>2, <1>4, <1>5, <1>6 DEF pos
<1>7. CASE same = {}
  BY <1>2, <1>4, <1>7 DEF pos
<1> QED BY <1>6, <1>7

\* After k segments of the path: the place stands for them, if it is not below an end.
Stage(base, pos, rs, path, k) ==
  /\ pos = [nodes |-> pos.nodes, at |-> pos.at]
  /\ TreeTypes(pos.nodes, rs) /\ Extends(base, pos.nodes) /\ pos.at \in 0 .. Len(pos.nodes)
  /\ \E w, live :
       /\ Labels(pos.nodes, rs, w, live)
       /\ pos.at \in live /\ Inner(pos.nodes, pos.at) => Len(w[pos.at]) = k /\ Begins(w[pos.at], path)

\* One segment more of a path.
LEMMA BeginsAppend ==
  ASSUME NEW v \in Seq(STRING), NEW path \in Seq(STRING), NEW k \in Nat, k + 1 <= Len(path),
         Len(v) = k, Begins(v, path), NEW x \in STRING, x = path[k + 1]
  PROVE  Len(Append(v, x)) = k + 1 /\ Begins(Append(v, x), path)
<1>1. PICK u : u = Append(v, x)
  OBVIOUS
<1>2. Len(u) = k + 1 /\ u[k + 1] = x /\ \A j \in 1 .. k : u[j] = v[j]
  BY <1>1, AppendFacts
<1>3. \A j \in 1 .. k : path[j] = v[j]
  BY DEF Begins
<1>4. \A j \in 1 .. k + 1 : j = k + 1 \/ j \in 1 .. k
  OBVIOUS
<1>5. \A j \in 1 .. k + 1 : path[j] = u[j]
  BY <1>2, <1>3, <1>4
<1> QED BY <1>1, <1>2, <1>5 DEF Begins

LEMMA StageStep ==
  ASSUME NEW base, Len(base) \in Nat, NEW pos, NEW rs, NEW path \in Seq(STRING),
         NEW k \in Nat, k + 1 <= Len(path), Stage(base, pos, rs, path, k)
  PROVE  Stage(base, Descend(pos, path[k + 1]), rs, path, k + 1)
<1>1. PICK nodes, q : pos = [nodes |-> nodes, at |-> q] /\ nodes = pos.nodes /\ q = pos.at
  BY DEF Stage
<1>2. /\ TreeTypes(nodes, rs) /\ Extends(base, nodes) /\ q \in 0 .. Len(nodes)
      /\ Ordered(nodes) /\ Len(nodes) \in Nat
  BY <1>1 DEF Stage, TreeTypes, Ordered
<1>3. PICK w, live :
        /\ Labels(nodes, rs, w, live)
        /\ q \in live /\ Inner(nodes, q) => Len(w[q]) = k /\ Begins(w[q], path)
  BY <1>1 DEF Stage
<1>4. PICK s \in STRING : s = path[k + 1]
  <2>1. k + 1 \in 1 .. Len(path)
    OBVIOUS
  <2>2. PICK S : S = STRING
    OBVIOUS
  <2>3. path[k + 1] \in S
    BY ONLY <2>1, <2>2, path \in Seq(STRING)
  <2> QED BY <2>2, <2>3
<1>5. PICK v \in Seq(STRING) : v = w[q]
  BY <1>2, <1>3 DEF Labels
<1>6. q \in live /\ Inner(nodes, q) => Len(Append(v, s)) = k + 1 /\ Begins(Append(v, s), path)
  BY <1>3, <1>4, <1>5, BeginsAppend, ZenonT(60)
<1>7. Append(v, s) \in Seq(STRING)
  BY AppendFacts
<1>8. PICK next : next = Descend(pos, s)
  OBVIOUS
<1>9. ASSUME NEW c \in 1 .. Len(nodes), nodes[c].parent = q, nodes[c].name = s,
             next = [nodes |-> nodes, at |-> c]
      PROVE  Stage(base, next, rs, path, k + 1)
  <2>1. next.nodes = nodes /\ next.at = c /\ c \in 0 .. Len(nodes)
    BY <1>2, <1>9
  <2>2. ASSUME c \in live, Inner(nodes, c) PROVE Len(w[c]) = k + 1 /\ Begins(w[c], path)
    <3>1. q \in live /\ Inner(nodes, q) /\ Labelled(nodes[c], w[c], v, rs)
      BY <1>3, <1>5, <1>9, <2>2 DEF Labels
    <3>2. nodes[c].kind # "end"
      BY <1>2, <2>2 DEF Inner, Root
    <3>3. w[c] = Append(v, s)
      BY <1>9, <3>1, <3>2 DEF Labelled
    <3> QED BY <1>6, <3>1, <3>3
  <2> QED BY <1>2, <1>3, <1>9, <2>1, <2>2 DEF Stage
<1>10. ASSUME next = [nodes |-> Append(nodes, Segment(q, s)), at |-> Len(nodes) + 1]
       PROVE  Stage(base, next, rs, path, k + 1)
  <2>1. PICK x : x = Segment(q, s)
    OBVIOUS
  <2>2. /\ x \in Node /\ x.parent = q /\ x.name = s
        /\ x.kind = IF isParam(s) THEN "param" ELSE "string"
        /\ x.func \in 0 .. Len(rs)
    <3>1. 0 \in 0 .. Len(rs)
      BY <1>2 DEF TreeTypes
    <3> QED BY <1>2, <2>1, <3>1, SegmentFacts
  <2>3. PICK more : more = Append(nodes, x)
    OBVIOUS
  <2>4. PICK N \in Nat : N = Len(nodes)
    BY <1>2
  <2>5. /\ TreeTypes(more, rs) /\ Len(more) = N + 1
        /\ \A n \in 1 .. N : more[n] = nodes[n]
    BY <1>2, <2>2, <2>3, <2>4, AppendTypes
  <2>6. next.nodes = more /\ next.at = N + 1 /\ next = [nodes |-> next.nodes, at |-> next.at]
    BY <1>10, <2>1, <2>3, <2>4
  <2>7. Extends(base, more)
    BY <1>2, <2>4, <2>5 DEF Extends
  <2>8. PICK goes : goes = (x.parent \in live /\ Inner(nodes, x.parent))
    OBVIOUS
  <2>9. Labelled(x, Append(v, s), w[x.parent], rs)
    BY <1>5, <2>2 DEF Labelled
  <2>10. PICK y, alive : /\ y = With(nodes, w, Append(v, s))
                         /\ alive = live \cup (IF goes THEN {N + 1} ELSE {})
    OBVIOUS
  <2>11. Labels(more, rs, y, alive)
    <3>1. Labels(Append(nodes, x), rs, With(nodes, w, Append(v, s)),
                 live \cup (IF goes THEN {Len(nodes) + 1} ELSE {}))
      BY <1>2, <1>3, <1>7, <2>2, <2>8, <2>9, AppendLabels
    <3> QED BY <2>3, <2>4, <2>10, <3>1
  <2>12. y[N + 1] = Append(v, s)
    <3>1. y = [n \in 0 .. N + 1 |-> IF n = N + 1 THEN Append(v, s) ELSE w[n]]
      BY ONLY <2>4, <2>10 DEF With
    <3>2. N + 1 \in 0 .. N + 1
      OBVIOUS
    <3> QED BY ONLY <3>1, <3>2
  <2>13. N + 1 \in alive => goes
    <3>1. live \subseteq 0 .. N
      BY <1>3, <2>4 DEF Labels
    <3> QED BY <2>10, <3>1
  <2>14. N + 1 \in alive => Len(y[N + 1]) = k + 1 /\ Begins(y[N + 1], path)
    BY <1>6, <2>2, <2>8, <2>12, <2>13
  <2>15. N + 1 \in 0 .. Len(more)
    BY <2>5
  <2>16. \E z, al : /\ Labels(next.nodes, rs, z, al)
                    /\ next.at \in al /\ Inner(next.nodes, next.at) =>
                         Len(z[next.at]) = k + 1 /\ Begins(z[next.at], path)
    BY <2>6, <2>11, <2>14
  <2> QED BY <2>5, <2>6, <2>7, <2>15, <2>16 DEF Stage
<1>11. \/ \E c \in 1 .. Len(nodes) :
            nodes[c].parent = q /\ nodes[c].name = s /\ next = [nodes |-> nodes, at |-> c]
       \/ next = [nodes |-> Append(nodes, Segment(q, s)), at |-> Len(nodes) + 1]
  <2>1. \/ \E c \in 1 .. Len(nodes) :
             /\ nodes[c].parent = q /\ nodes[c].name = s
             /\ Descend([nodes |-> nodes, at |-> q], s) = [nodes |-> nodes, at |-> c]
        \/ Descend([nodes |-> nodes, at |-> q], s)
             = [nodes |-> Append(nodes, Segment(q, s)), at |-> Len(nodes) + 1]
    BY ONLY <1>2, DescendFacts, ZenonT(90)
  <2>2. next = Descend([nodes |-> nodes, at |-> q], s)
    BY ONLY <1>1, <1>8
  <2> QED BY ONLY <2>1, <2>2
<1>12. Stage(base, next, rs, path, k + 1)
  BY <1>9, <1>10, <1>11
<1> QED BY <1>4, <1>8, <1>12

LEMMA ReachedFacts ==
  ASSUME NEW nodes, NEW rs, Stands(nodes, rs), NEW path \in Seq(STRING)
  PROVE  Stage(nodes, Walk(nodes, path)[Len(path)], rs, path, Len(path))
<1> DEFINE S == {k \in Nat : k <= Len(path) => Stage(nodes, Walk(nodes, path)[k], rs, path, k)}
<1>1. Len(path) \in Nat /\ Len(nodes) \in Nat
  BY DEF Stands, TreeTypes, Ordered
<1>2. /\ Walk(nodes, path)[0] = [nodes |-> nodes, at |-> Root]
      /\ \A k \in 1 .. Len(path) : Walk(nodes, path)[k] = Descend(Walk(nodes, path)[k - 1], path[k])
  BY <1>1, WalkFacts
<1>3. 0 \in S
  <2>1. PICK pos : pos = Walk(nodes, path)[0]
    OBVIOUS
  <2>2. pos = [nodes |-> nodes, at |-> Root] /\ pos.nodes = nodes /\ pos.at = Root
    BY <1>2, <2>1
  <2>3. PICK w, live : Labels(nodes, rs, w, live)
    BY DEF Stands
  <2>4. Len(<<>>) = 0 /\ Begins(<<>>, path)
    BY <1>1 DEF Begins
  <2>5. Len(w[Root]) = 0 /\ Begins(w[Root], path)
    BY <2>3, <2>4 DEF Labels
  <2>6. Extends(nodes, nodes) /\ Root \in 0 .. Len(nodes) /\ TreeTypes(nodes, rs)
    BY <1>1 DEF Extends, Root, Stands
  <2>7. Stage(nodes, pos, rs, path, 0)
    BY <2>2, <2>3, <2>5, <2>6 DEF Stage
  <2> QED BY <2>1, <2>7
<1>4. ASSUME NEW k \in S PROVE k + 1 \in S
  <2> SUFFICES ASSUME k + 1 <= Len(path)
               PROVE  Stage(nodes, Walk(nodes, path)[k + 1], rs, path, k + 1)
    OBVIOUS
  <2>1. k \in Nat /\ Stage(nodes, Walk(nodes, path)[k], rs, path, k)
    BY <1>1
  <2>2. Stage(nodes, Descend(Walk(nodes, path)[k], path[k + 1]), rs, path, k + 1)
    BY <1>1, <2>1, StageStep
  <2>3. k + 1 \in 1 .. Len(path) /\ (k + 1) - 1 = k
    BY <1>1
  <2> QED BY <1>2, <2>2, <2>3
<1> HIDE DEF S
<1>5. Len(path) \in S
  BY <1>1, <1>3, <1>4, Upward DEF S
<1> QED BY <1>1, <1>5 DEF S

\* A route more leaves what is said of the others.
LEMMA MoreRoutes ==
  ASSUME NEW nodes, NEW rs, TreeTypes(nodes, rs), NEW r \in Route
  PROVE  /\ TreeTypes(nodes, Append(rs, r))
         /\ Len(rs) \in Nat /\ Len(Append(rs, r)) = Len(rs) + 1 /\ Append(rs, r)[Len(rs) + 1] = r
         /\ \A a \in 1 .. Len(rs) : Append(rs, r)[a] = rs[a]
         /\ \A w, live : Labels(nodes, rs, w, live) => Labels(nodes, Append(rs, r), w, live)
<1>1. rs \in Seq(Route) /\ Len(rs) \in Nat
  BY DEF TreeTypes
<1>2. PICK more : more = Append(rs, r)
  OBVIOUS
<1>3. /\ more \in Seq(Route) /\ Len(more) = Len(rs) + 1 /\ more[Len(rs) + 1] = r
      /\ \A a \in 1 .. Len(rs) : more[a] = rs[a]
  BY ONLY <1>1, <1>2, r \in Route, AppendProperties
<1>4. \A a \in 1 .. Len(rs) : a \in 1 .. Len(more)
  BY <1>1, <1>3
<1>5. \A x, v, above : Labelled(x, v, above, rs) => Labelled(x, v, above, more)
  BY <1>3, <1>4 DEF Labelled
<1>6. \A w, live : Labels(nodes, rs, w, live) => Labels(nodes, more, w, live)
  BY <1>5 DEF Labels
<1>7. \A n \in 1 .. Len(nodes) : nodes[n].func \in 0 .. Len(more)
  <2>1. \A a \in 0 .. Len(rs) : a \in 0 .. Len(more)
    BY <1>1, <1>3
  <2> QED BY <2>1 DEF TreeTypes
<1> QED BY <1>1, <1>2, <1>3, <1>6, <1>7 DEF TreeTypes

LEMMA BeginsAll ==
  ASSUME NEW v \in Seq(STRING), NEW path \in Seq(STRING), Len(v) = Len(path), Begins(v, path)
  PROVE  v = path
<1>1. PICK S : S = STRING
  OBVIOUS
<1>2. v \in Seq(S) /\ path \in Seq(S)
  BY <1>1
<1>3. \A j \in 1 .. Len(v) : path[j] = v[j]
  BY DEF Begins
<1> QED BY ONLY <1>2, <1>3, Len(v) = Len(path), SeqEqual

LEMMA InsertFacts ==
  ASSUME NEW nodes, NEW rs, Stands(nodes, rs), NEW r \in Route
  PROVE  /\ Stands(insertChild(nodes, r.path, r.method, Len(rs) + 1), Append(rs, r))
         /\ Extends(nodes, insertChild(nodes, r.path, r.method, Len(rs) + 1))
<1>1. PICK rest : rest = Append(rs, r)
  OBVIOUS
<1>2. PICK a \in Nat : a = Len(rs) + 1
  <2>1. Len(rs) \in Nat
    BY DEF Stands, TreeTypes
  <2> QED BY <2>1
<1>3. PICK path \in Seq(STRING) : path = r.path
  <2>1. r.path \in Seq(STRING)
    BY RouterAssumption DEF Route
  <2> QED BY <2>1
<1>4. TreeTypes(nodes, rs) /\ Len(nodes) \in Nat
  BY DEF Stands, TreeTypes, Ordered
<1>5. a \in 1 .. Len(rest) /\ rest[a] = r
  BY <1>1, <1>2, <1>4, MoreRoutes
<1>6. Stands(nodes, rest)
  BY <1>1, <1>4, MoreRoutes DEF Stands
<1>7. PICK pos : pos = Walk(nodes, path)[Len(path)]
  OBVIOUS
<1>8. Stage(nodes, pos, rest, path, Len(path))
  BY <1>6, <1>7, ReachedFacts
<1>9. PICK ns, q : ns = pos.nodes /\ q = pos.at
  OBVIOUS
<1>10. /\ TreeTypes(ns, rest) /\ Extends(nodes, ns) /\ q \in 0 .. Len(ns) /\ Len(ns) \in Nat
  BY <1>8, <1>9 DEF Stage, TreeTypes, Ordered
<1>11. PICK w, live :
         /\ Labels(ns, rest, w, live)
         /\ q \in live /\ Inner(ns, q) => Len(w[q]) = Len(path) /\ Begins(w[q], path)
  BY <1>8, <1>9 DEF Stage
<1>12. PICK x : x = End(q, r.method, a)
  OBVIOUS
<1>13. /\ x \in Node /\ x.parent = q /\ x.kind = "end" /\ x.func = a /\ x.method = r.method
  <2>1. q \in Nat /\ r.method \in Methods
    BY <1>10 DEF Route
  <2>2. PICK m \in Methods : m = r.method
    BY <2>1
  <2>3. /\ End(q, m, a) \in Node /\ End(q, m, a).parent = q /\ End(q, m, a).kind = "end"
        /\ End(q, m, a).func = a /\ End(q, m, a).method = m
    BY ONLY <2>1, m \in Methods, a \in Nat, EndFacts
  <2> QED BY <1>12, <2>2, <2>3
<1>a. a \in 0 .. Len(rest)
  BY <1>5
<1>14. PICK v \in Seq(STRING) : v = w[q]
  BY <1>10, <1>11 DEF Labels
<1>15. q \in live /\ Inner(ns, q) => v = path
  BY <1>11, <1>14, BeginsAll
<1>16. q \in live /\ Inner(ns, q) => Labelled(x, v, w[q], rest)
  BY <1>3, <1>5, <1>13, <1>14, <1>15 DEF Labelled
<1>17. PICK more : more = Append(ns, x)
  OBVIOUS
<1>18. /\ TreeTypes(more, rest) /\ Len(more) = Len(ns) + 1
       /\ \A n \in 1 .. Len(ns) : more[n] = ns[n]
  BY <1>10, <1>13, <1>a, <1>17, AppendTypes
<1>19. \E y, alive : Labels(more, rest, y, alive)
  <2>1. PICK goes : goes = (x.parent \in live /\ Inner(ns, x.parent))
    OBVIOUS
  <2>2. goes => Labelled(x, v, w[x.parent], rest)
    BY <1>13, <1>16, <2>1
  <2>3. Labels(Append(ns, x), rest, With(ns, w, v),
               live \cup (IF goes THEN {Len(ns) + 1} ELSE {}))
    BY <1>10, <1>11, <1>13, <1>a, <2>1, <2>2, AppendLabels
  <2> QED BY <1>17, <2>3
<1>20. Extends(nodes, more)
  BY <1>4, <1>10, <1>18 DEF Extends
<1>21. more = insertChild(nodes, r.path, r.method, Len(rs) + 1)
  BY <1>2, <1>3, <1>7, <1>9, <1>12, <1>17 DEF insertChild
<1> QED BY <1>1, <1>18, <1>19, <1>20, <1>21 DEF Stands

-----------------------------------------------------------------------------
(* What is found stays found when nodes are added.                           *)

LEMMA BelowIsReply ==
  ASSUME NEW nodes, Ordered(nodes), NEW req, NEW n \in 0 .. Len(nodes), NEW i \in Nat
  PROVE  IsReply(firstFound(nodes, n, getRoute(nodes, req), i))
<1>1. PICK f : f = getRoute(nodes, req)
  OBVIOUS
<1>2. \A c \in 1 .. Len(nodes), j \in Nat : IsReply(f[c][j])
  BY <1>1, RepliesAre
<1>3. IsReply(NotFound)
  BY DEF IsReply, NotFound
<1>4. CASE Routed(nodes, n, f, i) = {}
  BY <1>1, <1>3, <1>4, FirstFoundFacts
<1>5. CASE Routed(nodes, n, f, i) # {}
  <2>1. PICK c \in Routed(nodes, n, f, i) : firstFound(nodes, n, f, i) = f[c][i]
    BY <1>5, FirstFoundFacts
  <2>2. c \in 1 .. Len(nodes)
    BY <2>1 DEF Routed, Children
  <2> QED BY <1>1, <1>2, <2>1, <2>2
<1> QED BY <1>4, <1>5

LEMMA FoundWhen ==
  ASSUME NEW nodes, Ordered(nodes), NEW n \in 0 .. Len(nodes), NEW f, NEW i,
         NEW c \in Children(nodes, n), f[c][i].func # 0
  PROVE  firstFound(nodes, n, f, i).func # 0
<1>1. c \in Routed(nodes, n, f, i)
  BY DEF Routed
<1>2. PICK d \in Routed(nodes, n, f, i) : firstFound(nodes, n, f, i) = f[d][i]
  BY <1>1, FirstFoundFacts
<1> QED BY <1>2 DEF Routed

\* When a node answers, and with which handler: r, if those below it answer b.
Yields(node, req, i, r, b) ==
  /\ node.kind = "end" /\ AtEnd(req.url, i) /\ node.method = req.method => r.func = node.func
  /\ node.kind = "string" /\ ~AtEnd(req.url, i) /\ req.url[i] = node.name => r.func = b.func
  /\ node.kind = "param" /\ ~AtEnd(req.url, i) /\ match(node.name, req.url[i]) /\ b.func # 0 =>
       r.func = b.func

LEMMA AnswerWhen ==
  ASSUME NEW nodes, NEW f, NEW n, NEW req, NEW i, IsReply(firstFound(nodes, n, f, i + 1))
  PROVE  Yields(nodes[n], req, i, Answer(nodes, f, n, req, i), firstFound(nodes, n, f, i + 1))
<1> DEFINE b == firstFound(nodes, n, f, i + 1)
           r == Answer(nodes, f, n, req, i)
<1>1. ASSUME nodes[n].kind = "end", AtEnd(req.url, i), nodes[n].method = req.method
      PROVE  r.func = nodes[n].func
  <2>1. r = [func |-> nodes[n].func, params |-> {}]
    BY <1>1 DEF Answer, EndsFor
  <2> QED BY <2>1
<1>2. ASSUME nodes[n].kind = "string", ~AtEnd(req.url, i), req.url[i] = nodes[n].name
      PROVE  r.func = b.func
  BY <1>2 DEF Answer
<1>3. ASSUME nodes[n].kind = "param", ~AtEnd(req.url, i), match(nodes[n].name, req.url[i]),
             b.func # 0
      PROVE  r.func = b.func
  <2>1. r = [b EXCEPT !.params = addParam(@, ParamName[nodes[n].name], req.url[i])]
    BY <1>3 DEF Answer
  <2>2. PICK a, s : b = [func |-> a, params |-> s]
    BY DEF IsReply
  <2> HIDE DEF b, r
  <2> QED BY <2>1, <2>2
<1> HIDE DEF b, r
<1>4. Yields(nodes[n], req, i, r, b)
  BY <1>1, <1>2, <1>3 DEF Yields
<1> QED BY <1>4 DEF b, r

LEMMA StillFound ==
  ASSUME NEW nodes, NEW more, Ordered(nodes), Ordered(more), Extends(nodes, more), NEW req
  PROVE  \A n \in 0 .. Len(nodes), i \in Nat :
           firstFound(nodes, n, getRoute(nodes, req), i).func # 0 =>
             firstFound(more, n, getRoute(more, req), i).func # 0
<1>1. PICK f, g : f = getRoute(nodes, req) /\ g = getRoute(more, req)
  OBVIOUS
<1>2. /\ \A n \in 1 .. Len(nodes), i \in Nat : f[n][i] = Answer(nodes, f, n, req, i)
      /\ \A n \in 1 .. Len(more), i \in Nat : g[n][i] = Answer(more, g, n, req, i)
  BY <1>1, getRouteFacts
<1>3. /\ Len(nodes) \in Nat /\ Len(more) \in Nat /\ Len(nodes) <= Len(more)
      /\ \A n \in 1 .. Len(nodes) : more[n] = nodes[n]
  BY DEF Ordered, Extends
<1>4. ASSUME NEW n \in 0 .. Len(nodes), NEW c \in Children(nodes, n)
      PROVE  c \in Children(more, n) /\ c \in 1 .. Len(nodes) /\ c > n
  <2>1. c \in 1 .. Len(nodes) /\ nodes[c].parent = n /\ c > n
    BY ChildrenFacts
  <2>2. c \in 1 .. Len(more) /\ more[c].parent = n
    BY <1>3, <2>1
  <2> QED BY <2>1, <2>2 DEF Children
<1> DEFINE P == {n \in 1 .. Len(nodes) : \A i \in Nat : f[n][i].func # 0 => g[n][i].func # 0}
<1>5. ASSUME NEW n \in 0 .. Len(nodes), \A c \in 1 .. Len(nodes) : c > n => c \in P,
             NEW i \in Nat, firstFound(nodes, n, f, i).func # 0
      PROVE  firstFound(more, n, g, i).func # 0
  <2>1. PICK c \in Children(nodes, n) : f[c][i].func # 0
    BY <1>5, FirstIsAnswer
  <2>2. c \in Children(more, n) /\ g[c][i].func # 0
    BY <1>4, <1>5, <2>1
  <2>3. n \in 0 .. Len(more)
    BY <1>3
  <2> QED BY <2>2, <2>3, FoundWhen
<1>6. ASSUME NEW n \in 1 .. Len(nodes), \A c \in 1 .. Len(nodes) : c > n => c \in P,
             NEW i \in Nat, f[n][i].func # 0
      PROVE  g[n][i].func # 0
  <2>1. PICK b : b = firstFound(nodes, n, f, i + 1)
    OBVIOUS
  <2>2. PICK d : d = firstFound(more, n, g, i + 1)
    OBVIOUS
  <2>3. PICK r : r = f[n][i] /\ r = Answer(nodes, f, n, req, i)
    BY <1>2
  <2>4. n \in 1 .. Len(more) /\ n \in 0 .. Len(nodes) /\ n \in 0 .. Len(more) /\ i + 1 \in Nat
    BY <1>3
  <2>5. Answers(nodes[n], req, i, r, b)
    <3>1. Answer(nodes, f, n, req, i).func # 0
      BY <1>6, <2>3
    <3>2. Answers(nodes[n], req, i, Answer(nodes, f, n, req, i), firstFound(nodes, n, f, i + 1))
      BY ONLY <3>1, AnswerFacts
    <3> QED BY <2>1, <2>3, <3>2
  <2>6. IsReply(d)
    BY <1>1, <2>2, <2>4, BelowIsReply
  <2>7. PICK s : s = g[n][i] /\ s = Answer(more, g, n, req, i)
    BY <1>2, <2>4
  <2>8. Yields(nodes[n], req, i, s, d)
    <3>1. more[n] = nodes[n]
      BY <1>3
    <3>2. IsReply(firstFound(more, n, g, i + 1))
      BY <2>2, <2>6
    <3>3. Yields(more[n], req, i, Answer(more, g, n, req, i), firstFound(more, n, g, i + 1))
      BY ONLY <3>2, AnswerWhen
    <3> QED BY <2>2, <2>7, <3>1, <3>3
  <2>9. b.func # 0 => d.func # 0
    BY <1>5, <1>6, <2>1, <2>2, <2>4
  <2>10. CASE nodes[n].kind = "end"
    <3>1. AtEnd(req.url, i) /\ nodes[n].method = req.method /\ r.func = nodes[n].func
      BY <2>5, <2>10 DEF Answers
    <3> QED BY <1>6, <2>3, <2>7, <2>8, <2>10, <3>1 DEF Yields
  <2>11. CASE nodes[n].kind = "string"
    <3>1. ~AtEnd(req.url, i) /\ req.url[i] = nodes[n].name /\ b.func # 0
      BY <2>5, <2>11 DEF Answers
    <3> QED BY <2>7, <2>8, <2>9, <2>11, <3>1 DEF Yields
  <2>12. CASE nodes[n].kind = "param"
    <3>1. ~AtEnd(req.url, i) /\ match(nodes[n].name, req.url[i]) /\ b.func # 0
      BY <2>5, <2>12 DEF Answers
    <3> QED BY <2>7, <2>8, <2>9, <2>12, <3>1 DEF Yields
  <2> QED BY <2>5, <2>10, <2>11, <2>12 DEF Answers
<1>7. \A n \in 1 .. Len(nodes) : n \in P
  <2>1. P \in SUBSET (1 .. Len(nodes))
    OBVIOUS
  <2>2. \A n \in 1 .. Len(nodes) : (\A c \in 1 .. Len(nodes) : c > n => c \in P) => n \in P
    BY <1>6
  <2> HIDE DEF P
  <2> QED BY <1>3, <2>1, <2>2, Downward
<1>8. \A n \in 0 .. Len(nodes), i \in Nat :
        firstFound(nodes, n, f, i).func # 0 => firstFound(more, n, g, i).func # 0
  <2> HIDE DEF P
  <2> QED BY <1>5, <1>7
<1> QED BY <1>1, <1>8

-----------------------------------------------------------------------------
(* What holds in every state.                                                *)

TreeInv == Stands(tree, routes) /\ prefix \in URLPrefixes /\ frozen \in BOOLEAN

\* The last lookup was made in the tree as it is.
Replied ==
  \/ reply = NoReply
  \/ frozen /\ \E method \in Methods, url \in Urls : IsAnswer(method, url)

LEMMA InitStands == Stands(<<>>, <<>>)
<1> DEFINE w == [n \in 0 .. 0 |-> <<>>]
<1>1. <<>> \in Seq(Node) /\ <<>> \in Seq(Route) /\ Len(<<>>) = 0 /\ 1 .. 0 = {}
  OBVIOUS
<1>2. TreeTypes(<<>>, <<>>)
  BY <1>1 DEF TreeTypes, Ordered
<1>3. w \in [0 .. 0 -> Seq(STRING)] /\ w[Root] = <<>> /\ Root \in {Root} /\ {Root} \subseteq 0 .. 0
  BY DEF Root
<1> HIDE DEF w
<1>4. Labels(<<>>, <<>>, w, {Root})
  BY <1>1, <1>3 DEF Labels
<1> QED BY <1>2, <1>4 DEF Stands

LEMMA NoReplyFacts == NoReply.func = 0
BY DEF NoReply

LEMMA UseFacts ==
  ASSUME Stands(tree, routes), NEW method \in Methods, NEW path \in Paths, use(method, path)
  PROVE  /\ Stands(tree', routes') /\ Extends(tree, tree') /\ prefix' = prefix /\ reply' = reply
         /\ frozen' = frozen /\ ~frozen
<1>1. PICK r : r = [method |-> method, path |-> path]
  OBVIOUS
<1>2. r \in Route /\ r.method = method /\ r.path = path
  BY <1>1 DEF Route
<1>3. routes' = Append(routes, r) /\ tree' = insertChild(tree, path, method, Len(routes'))
  BY <1>1 DEF use
<1>4. Len(routes') = Len(routes) + 1
  BY <1>2, <1>3, MoreRoutes DEF Stands
<1>5. /\ Stands(insertChild(tree, r.path, r.method, Len(routes) + 1), Append(routes, r))
      /\ Extends(tree, insertChild(tree, r.path, r.method, Len(routes) + 1))
  BY <1>2, InsertFacts
<1> QED BY <1>2, <1>3, <1>4, <1>5 DEF use

LEMMA RoutingInit == Init => TreeInv /\ Replied
<1> SUFFICES ASSUME Init PROVE TreeInv /\ Replied
  OBVIOUS
<1>1. <<>> \in URLPrefixes
  BY RouterAssumption
<1> QED BY <1>1, InitStands DEF Init, TreeInv, Replied

LEMMA RoutingStep == TreeInv /\ Replied /\ [Next]_vars => (TreeInv /\ Replied)'
<1> SUFFICES ASSUME TreeInv, Replied, [Next]_vars PROVE (TreeInv /\ Replied)'
  OBVIOUS
<1>1. ~frozen => reply = NoReply
  BY DEF Replied
<1>2. ASSUME NEW method \in Methods, NEW path \in Paths, use(method, path)
      PROVE  (TreeInv /\ Replied)'
  <2>1. /\ Stands(tree', routes') /\ prefix' = prefix /\ reply' = reply
        /\ frozen' = frozen /\ ~frozen
    BY <1>2, UseFacts DEF TreeInv
  <2>2. NoReply' = NoReply
    BY DEF NoReply, NoMethod
  <2> QED BY <1>1, <2>1, <2>2 DEF TreeInv, Replied
<1>3. ASSUME NEW p \in URLPrefixes, withURLPrefix(p) PROVE (TreeInv /\ Replied)'
  BY <1>1, <1>3 DEF withURLPrefix, TreeInv, Replied
<1>4. CASE build
  BY <1>1, <1>4 DEF build, TreeInv, Replied
<1>5. ASSUME NEW method \in Methods, NEW url \in Urls, route(method, url)
      PROVE  (TreeInv /\ Replied)'
  <2>1. frozen /\ UNCHANGED <<tree, prefix, frozen, routes>>
    BY <1>5 DEF route
  <2>2. reply' = [ method |-> method, url |-> url,
                   func |-> GetRoute(tree, prefix, [method |-> method, url |-> url]).func,
                   params |-> GetRoute(tree, prefix, [method |-> method, url |-> url]).params ]
    BY <1>5 DEF route
  <2>3. IsAnswer(method, url)'
    BY <2>1, <2>2 DEF IsAnswer
  <2>4. TreeInv'
    BY <2>1 DEF TreeInv
  <2>5. Replied'
    BY <2>1, <2>3 DEF Replied
  <2> QED BY <2>4, <2>5
<1>6. CASE UNCHANGED vars
  BY <1>6 DEF vars, TreeInv, Replied, IsAnswer
<1> QED BY <1>2, <1>3, <1>4, <1>5, <1>6 DEF Next

LEMMA RoutingAlways == Spec => [](TreeInv /\ Replied)
BY RoutingInit, RoutingStep, PTL DEF Spec

LEMMA InTypes == \A p \in URLPrefixes : p \in Seq(STRING)
BY RouterAssumption

LEMMA UrlTypes == \A url \in Urls : url \in Seq(STRING)
BY RouterAssumption

\* HttpRouter::operator() calls no handler but that of a route which stands for
\* the request: its method, the prefix, as many segments, each of them accepted.
THEOREM RouterSound == Spec => []RoutedSoundly
<1>1. ASSUME TreeInv, Replied PROVE RoutedSoundly
  <2>1. CASE reply = NoReply
    BY <2>1, NoReplyFacts DEF RoutedSoundly
  <2>2. ASSUME NEW method \in Methods, NEW url \in Urls, IsAnswer(method, url) PROVE RoutedSoundly
    BY <1>1, <2>2, InTypes, UrlTypes, AnswerSound DEF TreeInv
  <2> QED BY <1>1, <2>1, <2>2 DEF Replied
<1> QED BY <1>1, RoutingAlways, PTL

\* The parameters a handler sees are those of its own route: nothing is left of
\* branches that were given up, and of two with one name the last has the name.
THEOREM ParamsSound == Spec => []ParamsOfTheRoute
<1>1. ASSUME TreeInv, Replied PROVE ParamsOfTheRoute
  <2>1. CASE reply = NoReply
    BY <2>1, NoReplyFacts DEF ParamsOfTheRoute
  <2>2. ASSUME NEW method \in Methods, NEW url \in Urls, IsAnswer(method, url)
        PROVE  ParamsOfTheRoute
    BY <1>1, <2>2, InTypes, UrlTypes, AnswerSound DEF TreeInv
  <2> QED BY <1>1, <2>1, <2>2 DEF Replied
<1> QED BY <1>1, RoutingAlways, PTL

\* The nodes, the routes and the reply have their types, and every handler that a
\* node or a reply names is that of a route.
THEOREM TypeCorrect == Spec => []TypeOK
<1>1. ASSUME TreeInv, Replied PROVE TypeOK
  <2>1. /\ TreeTypes(tree, routes) /\ tree \in Seq(Node) /\ routes \in Seq(Route)
        /\ Ordered(tree) /\ \A n \in 1 .. Len(tree) : tree[n].func \in 0 .. Len(routes)
    BY <1>1 DEF TreeInv, Stands, TreeTypes
  <2>2. \A n \in 1 .. Len(tree) : tree[n].kind \in {"string", "param", "end"}
    <3>1. \A n \in 1 .. Len(tree) : tree[n] \in Node
      BY <2>1
    <3>2. \A x \in Node : x.kind \in {"string", "param", "end"}
      BY DEF Node
    <3> QED BY <3>1, <3>2
  <2>3. \A n \in 1 .. Len(tree) : tree[n].parent \in 0 .. (n - 1)
    BY <2>1 DEF Ordered
  <2>4. reply.func \in 0 .. Len(routes)
    <3>1. 0 \in 0 .. Len(routes) /\ \A a \in 1 .. Len(routes) : a \in 0 .. Len(routes)
      BY <2>1
    <3>2. CASE reply = NoReply
      BY <3>1, <3>2, NoReplyFacts
    <3>3. ASSUME NEW method \in Methods, NEW url \in Urls, IsAnswer(method, url)
          PROVE  reply.func \in 0 .. Len(routes)
      <4>1. RoutedSoundly
        BY <1>1, <3>3, InTypes, UrlTypes, AnswerSound DEF TreeInv
      <4> QED BY <3>1, <4>1 DEF RoutedSoundly, Matching
    <3> QED BY <1>1, <3>2, <3>3 DEF Replied
  <2> QED BY <1>1, <2>1, <2>2, <2>3, <2>4 DEF TypeOK, TreeInv, Route
<1> QED BY <1>1, RoutingAlways, PTL

\* HttpRouteBuilder::use() leaves every URL a route that had one.
THEOREM RouterStays == Spec => RoutableStays
<1>1. ASSUME TreeInv, [Next]_vars, routes' # routes, NEW method \in Methods, NEW url \in Urls,
             NEW req, req = [method |-> method, url |-> url], GetRoute(tree, prefix, req).func # 0
      PROVE  GetRoute(tree', prefix, req).func # 0
  <2>1. PICK m \in Methods, path \in Paths : use(m, path)
    <3>1. ASSUME NEW p \in URLPrefixes, withURLPrefix(p) PROVE FALSE
      BY <1>1, <3>1 DEF withURLPrefix
    <3>2. CASE build
      BY <1>1, <3>2 DEF build
    <3>3. ASSUME NEW n \in Methods, NEW u \in Urls, route(n, u) PROVE FALSE
      BY <1>1, <3>3 DEF route
    <3>4. CASE UNCHANGED vars
      BY <1>1, <3>4 DEF vars
    <3> QED BY <1>1, <3>1, <3>2, <3>3, <3>4 DEF Next
  <2>2. Stands(tree', routes') /\ Extends(tree, tree')
    BY <1>1, <2>1, UseFacts DEF TreeInv
  <2>3. Ordered(tree) /\ Ordered(tree')
    BY <1>1, <2>2 DEF TreeInv, Stands, TreeTypes
  <2>4. PICK i \in Nat : i = Len(prefix) + 1
    <3>1. prefix \in Seq(STRING)
      BY <1>1, InTypes DEF TreeInv
    <3> QED BY <3>1
  <2>5. Root \in 0 .. Len(tree) /\ NotFound.func = 0
    BY <2>3 DEF Ordered, Root, NotFound
  <2>6. PICK more : more = tree'
    OBVIOUS
  <2>7. /\ Len(req.url) > Len(prefix) /\ IsPrefix(prefix, req.url)
        /\ firstFound(tree, Root, getRoute(tree, req), i).func # 0
    BY <1>1, <2>4, <2>5 DEF GetRoute
  <2>8. firstFound(more, Root, getRoute(more, req), i).func # 0
    BY <2>2, <2>3, <2>5, <2>6, <2>7, StillFound
  <2>9. GetRoute(more, prefix, req) = firstFound(more, Root, getRoute(more, req), i)
    BY <2>4, <2>7 DEF GetRoute
  <2> QED BY <2>6, <2>8, <2>9
<1>2. TreeInv /\ [Next]_vars =>
        (routes' # routes =>
           \A method \in Methods, url \in Urls :
             LET req == [method |-> method, url |-> url]
             IN GetRoute(tree, prefix, req).func # 0 => GetRoute(tree', prefix, req).func # 0)
  BY <1>1
<1>3. Spec => []TreeInv
  BY RoutingAlways, PTL
<1> QED BY <1>2, <1>3, PTL DEF Spec, RoutableStays

-----------------------------------------------------------------------------
(* The tree of routes without empty segments.                                *)

Blank == ""

LEMMA NotBlank ==
  ASSUME NEW path, ~Slashed(path), NEW k \in 1 .. Len(path)
  PROVE  path[k] # Blank
BY DEF Slashed, Blank

LEMMA EndName ==
  ASSUME NEW q, NEW m, NEW a
  PROVE  End(q, m, a).name = Blank
BY DEF End, Blank

\* No two nodes but ends stand for the same segments.
Unique(nodes, w) ==
  \A m, n \in 0 .. Len(nodes) : Inner(nodes, m) /\ Inner(nodes, n) /\ w[m] = w[n] => m = n

\* b[n] is the route that node n was made for, the first that passes it.
Births(nodes, rs, w, b) ==
  /\ b \in [0 .. Len(nodes) -> Nat] /\ b[Root] = 0
  /\ \A n \in 1 .. Len(nodes) : b[n] \in 1 .. Len(rs)
  /\ \A m, n \in 0 .. Len(nodes) : m <= n => b[m] <= b[n]
  /\ \A n \in 1 .. Len(nodes) :
       IF nodes[n].kind = "end" THEN nodes[n].name = Blank /\ b[n] = nodes[n].func
       ELSE /\ Begins(w[n], rs[b[n]].path)
            /\ \A a \in 1 .. Len(rs) : Begins(w[n], rs[a].path) => b[n] <= a

Grown(nodes, rs, w, b) ==
  /\ TreeTypes(nodes, rs) /\ Labels(nodes, rs, w, 0 .. Len(nodes))
  /\ Unique(nodes, w) /\ Births(nodes, rs, w, b)

HasPlace(nodes, w, path, l) ==
  \E n \in 0 .. Len(nodes) : Inner(nodes, n) /\ Len(w[n]) = l /\ Begins(w[n], path)

\* All of route a is in the tree.
Covered(nodes, rs, w, a) ==
  /\ \A l \in 0 .. Len(rs[a].path) : HasPlace(nodes, w, rs[a].path, l)
  /\ \E e \in 1 .. Len(nodes) : nodes[e].kind = "end" /\ nodes[e].func = a

Full(nodes, rs) ==
  \E w, b : Grown(nodes, rs, w, b) /\ \A a \in 1 .. Len(rs) : Covered(nodes, rs, w, a)

LEMMA WithFacts ==
  ASSUME NEW nodes, Len(nodes) \in Nat, NEW w, NEW v
  PROVE  /\ With(nodes, w, v)[Len(nodes) + 1] = v
         /\ \A n \in 0 .. Len(nodes) : With(nodes, w, v)[n] = w[n]
<1>1. PICK N \in Nat : N = Len(nodes)
  OBVIOUS
<1>2. With(nodes, w, v) = [n \in 0 .. N + 1 |-> IF n = N + 1 THEN v ELSE w[n]]
  BY ONLY <1>1 DEF With
<1>3. N + 1 \in 0 .. N + 1 /\ \A n \in 0 .. N : n \in 0 .. N + 1 /\ n # N + 1
  OBVIOUS
<1>4. PICK y : y = With(nodes, w, v)
  OBVIOUS
<1>5. y[N + 1] = v /\ \A n \in 0 .. N : y[n] = w[n]
  BY ONLY <1>2, <1>3, <1>4
<1> QED BY ONLY <1>1, <1>4, <1>5

\* What is covered stays covered.
LEMMA CoveredMore ==
  ASSUME NEW nodes, NEW rs, TreeTypes(nodes, rs), NEW w,
         NEW x \in Node, x.parent \in 0 .. Len(nodes), x.func \in 0 .. Len(rs), NEW v
  PROVE  /\ \A path, l : HasPlace(nodes, w, path, l) =>
              HasPlace(Append(nodes, x), With(nodes, w, v), path, l)
         /\ \A a : Covered(nodes, rs, w, a) => Covered(Append(nodes, x), rs, With(nodes, w, v), a)
<1>1. PICK more, y : more = Append(nodes, x) /\ y = With(nodes, w, v)
  OBVIOUS
<1>2. PICK N \in Nat : N = Len(nodes)
  BY DEF TreeTypes, Ordered
<1>3. Len(more) = N + 1 /\ \A n \in 1 .. N : more[n] = nodes[n]
  BY <1>1, <1>2, AppendTypes
<1>4. \A n \in 0 .. N : y[n] = w[n] /\ n \in 0 .. Len(more)
  BY <1>1, <1>2, <1>3, WithFacts
<1>5. \A n \in 0 .. N : Inner(nodes, n) => Inner(more, n)
  BY <1>3 DEF Inner, Root
<1>6. ASSUME NEW path, NEW l, HasPlace(nodes, w, path, l) PROVE HasPlace(more, y, path, l)
  BY <1>2, <1>4, <1>5, <1>6 DEF HasPlace
<1>7. ASSUME NEW a, Covered(nodes, rs, w, a) PROVE Covered(more, rs, y, a)
  <2>1. PICK e \in 1 .. N : nodes[e].kind = "end" /\ nodes[e].func = a
    BY <1>2, <1>7 DEF Covered
  <2>2. e \in 1 .. Len(more) /\ more[e].kind = "end" /\ more[e].func = a
    BY <1>3, <2>1
  <2> QED BY <1>6, <1>7, <2>2 DEF Covered
<1> QED BY <1>1, <1>6, <1>7

LEMMA AppendGrown ==
  ASSUME NEW nodes, NEW rs, NEW w, NEW b, Grown(nodes, rs, w, b), Len(rs) >= 1,
         NEW x \in Node, x.parent \in 0 .. Len(nodes), x.func \in 0 .. Len(rs),
         Inner(nodes, x.parent), NEW v \in Seq(STRING), Labelled(x, v, w[x.parent], rs),
         x.kind = "end" => x.name = Blank /\ x.func = Len(rs),
         x.kind # "end" => /\ Begins(v, rs[Len(rs)].path)
                           /\ \A a \in 1 .. Len(rs) : Begins(v, rs[a].path) => Len(rs) <= a
                           /\ \A n \in 0 .. Len(nodes) : Inner(nodes, n) => w[n] # v
  PROVE  Grown(Append(nodes, x), rs, With(nodes, w, v), With(nodes, b, Len(rs)))
<1>1. PICK more, y, g : /\ more = Append(nodes, x) /\ y = With(nodes, w, v)
                        /\ g = With(nodes, b, Len(rs))
  OBVIOUS
<1>2. PICK N \in Nat : N = Len(nodes)
  BY DEF Grown, TreeTypes, Ordered
<1>3. TreeTypes(nodes, rs) /\ Labels(nodes, rs, w, 0 .. N)
  BY <1>2 DEF Grown
<1>4. PICK R \in Nat : R = Len(rs) /\ R >= 1
  BY <1>3 DEF TreeTypes
<1>5. /\ TreeTypes(more, rs) /\ Len(more) = N + 1 /\ more[N + 1] = x
      /\ \A n \in 1 .. N : more[n] = nodes[n]
  BY <1>1, <1>2, <1>3, AppendTypes
<1>6. y[N + 1] = v /\ \A n \in 0 .. N : y[n] = w[n]
  BY <1>1, <1>2, WithFacts
<1>7. g[N + 1] = R /\ \A n \in 0 .. N : g[n] = b[n]
  BY <1>1, <1>2, <1>4, WithFacts
<1>8. Labels(more, rs, y, 0 .. Len(more))
  <2>1. PICK goes : goes = (x.parent \in 0 .. N /\ Inner(nodes, x.parent))
    OBVIOUS
  <2>2. goes
    BY <1>2, <2>1
  <2>3. Labels(Append(nodes, x), rs, With(nodes, w, v),
               (0 .. N) \cup (IF goes THEN {Len(nodes) + 1} ELSE {}))
    BY <1>3, <2>1, AppendLabels
  <2>4. (0 .. N) \cup (IF goes THEN {Len(nodes) + 1} ELSE {}) = 0 .. Len(more)
    BY <1>2, <1>5, <2>2
  <2> QED BY <1>1, <2>3, <2>4
<1>9. \A n \in 0 .. N : Inner(more, n) <=> Inner(nodes, n)
  BY <1>5 DEF Inner, Root
<1>10. Inner(more, N + 1) <=> x.kind # "end"
  BY <1>5 DEF Inner, Root
<1>11. \A n \in 0 .. N + 1 : n = N + 1 \/ n \in 0 .. N
  OBVIOUS
<1>12. Unique(more, y)
  <2>1. \A m, n \in 0 .. N : Inner(more, m) /\ Inner(more, n) /\ y[m] = y[n] => m = n
    BY <1>2, <1>6, <1>9 DEF Grown, Unique
  <2>2. Inner(more, N + 1) => \A n \in 0 .. N : Inner(more, n) => y[n] # y[N + 1]
    BY <1>2, <1>6, <1>9, <1>10
  <2> QED BY <1>5, <1>11, <2>1, <2>2 DEF Unique
<1>13. Births(more, rs, y, g)
  <2>1. /\ b \in [0 .. N -> Nat] /\ b[Root] = 0
        /\ \A n \in 1 .. N : b[n] \in 1 .. R
        /\ \A m, n \in 0 .. N : m <= n => b[m] <= b[n]
        /\ \A n \in 1 .. N :
             IF nodes[n].kind = "end" THEN nodes[n].name = Blank /\ b[n] = nodes[n].func
             ELSE /\ Begins(w[n], rs[b[n]].path)
                  /\ \A a \in 1 .. R : Begins(w[n], rs[a].path) => b[n] <= a
    BY <1>2, <1>4 DEF Grown, Births
  <2>2. g \in [0 .. N + 1 -> Nat] /\ g[Root] = 0
    <3>1. g = [n \in 0 .. N + 1 |-> IF n = N + 1 THEN R ELSE b[n]]
      BY ONLY <1>1, <1>2, <1>4 DEF With
    <3>2. Root \in 0 .. N
      BY DEF Root
    <3> QED BY <1>7, <2>1, <3>1, <3>2
  <2>3. \A n \in 0 .. N : b[n] \in Nat /\ b[n] <= R
    <3>1. \A n \in 0 .. N : n = Root \/ n \in 1 .. N
      BY DEF Root
    <3> QED BY <2>1, <3>1
  <2>4. \A m, n \in 0 .. N + 1 : m <= n => g[m] <= g[n]
    <3> SUFFICES ASSUME NEW m \in 0 .. N + 1, NEW n \in 0 .. N + 1, m <= n PROVE g[m] <= g[n]
      OBVIOUS
    <3>1. CASE n \in 0 .. N
      <4>1. m \in 0 .. N
        BY <3>1
      <4> QED BY <1>7, <2>1, <3>1, <4>1
    <3>2. CASE n = N + 1 /\ m = N + 1
      BY <1>7, <3>2
    <3>3. CASE n = N + 1 /\ m \in 0 .. N
      BY <1>7, <2>3, <3>3
    <3> QED BY <1>11, <3>1, <3>2, <3>3
  <2>5. ASSUME NEW n \in 1 .. N + 1
        PROVE  /\ g[n] \in 1 .. R
               /\ IF more[n].kind = "end" THEN more[n].name = Blank /\ g[n] = more[n].func
                  ELSE /\ Begins(y[n], rs[g[n]].path)
                       /\ \A a \in 1 .. R : Begins(y[n], rs[a].path) => g[n] <= a
    <3>1. CASE n = N + 1
      <4>1. more[n] = x /\ y[n] = v /\ g[n] = R /\ R \in 1 .. R
        BY <1>4, <1>5, <1>6, <1>7, <3>1
      <4> QED BY <1>4, <4>1
    <3>2. CASE n # N + 1
      <4>1. n \in 1 .. N /\ n \in 0 .. N
        BY <3>2
      <4>2. more[n] = nodes[n] /\ y[n] = w[n] /\ g[n] = b[n]
        BY <1>5, <1>6, <1>7, <4>1
      <4> QED BY <2>1, <4>1, <4>2
    <3> QED BY <3>1, <3>2
  <2> QED BY <1>4, <1>5, <2>2, <2>4, <2>5 DEF Births
<1>14. Grown(more, rs, y, g)
  BY <1>5, <1>8, <1>12, <1>13 DEF Grown
<1> QED BY <1>1, <1>14

\* Two beginnings of one path.
LEMMA BeginsSame ==
  ASSUME NEW u \in Seq(STRING), NEW v \in Seq(STRING), Len(u) = Len(v),
         NEW path, Begins(u, path), Begins(v, path)
  PROVE  u = v
<1>1. PICK S : S = STRING
  OBVIOUS
<1>2. u \in Seq(S) /\ v \in Seq(S)
  BY <1>1
<1>3. \A j \in 1 .. Len(u) : u[j] = v[j]
  BY DEF Begins
<1> QED BY ONLY <1>2, <1>3, Len(u) = Len(v), SeqEqual

\* After k segments of the last route.
GrownStage(pos, rs, path, k) ==
  /\ pos = [nodes |-> pos.nodes, at |-> pos.at] /\ pos.at \in 0 .. Len(pos.nodes)
  /\ Inner(pos.nodes, pos.at)
  /\ \E w, b :
       /\ Grown(pos.nodes, rs, w, b)
       /\ Len(w[pos.at]) = k /\ Begins(w[pos.at], path)
       /\ \A l \in 0 .. k : HasPlace(pos.nodes, w, path, l)
       /\ \A a \in 1 .. Len(rs) : a < Len(rs) => Covered(pos.nodes, rs, w, a)

\* A node for a new segment is the only one for the segments up to it, and none
\* of the routes before the last begins with them.
LEMMA NewSegment ==
  ASSUME NEW nodes, NEW rs, NEW w, NEW b, Grown(nodes, rs, w, b),
         NEW q \in 0 .. Len(nodes), Inner(nodes, q), NEW s \in STRING,
         \A c \in 1 .. Len(nodes) : ~(nodes[c].parent = q /\ nodes[c].name = s)
  PROVE  /\ \A n \in 0 .. Len(nodes) : Inner(nodes, n) => w[n] # Append(w[q], s)
         /\ \A a : Covered(nodes, rs, w, a) /\ rs[a].path \in Seq(STRING) =>
                     ~Begins(Append(w[q], s), rs[a].path)
<1>1. PICK v \in Seq(STRING) : v = w[q]
  BY DEF Grown, Labels
<1>2. PICK u \in Seq(STRING) : u = Append(v, s) /\ Len(u) = Len(v) + 1
  BY AppendFacts
<1>3. Labels(nodes, rs, w, 0 .. Len(nodes)) /\ TreeTypes(nodes, rs) /\ Len(nodes) \in Nat
  BY DEF Grown, TreeTypes, Ordered
<1>4. ASSUME NEW n \in 0 .. Len(nodes), Inner(nodes, n), w[n] = u PROVE FALSE
  <2>1. n # Root
    <3>1. w[Root] = <<>> /\ Len(<<>>) = 0 /\ Len(u) # 0
      BY <1>2, <1>3 DEF Labels
    <3> QED BY <1>4, <3>1
  <2>2. n \in 1 .. Len(nodes) /\ n \in 0 .. Len(nodes)
    BY <1>3, <2>1 DEF Root
  <2>3. PICK m \in 0 .. Len(nodes) : m = nodes[n].parent
    BY <1>3, <2>2 DEF TreeTypes, Ordered
  <2>4. Inner(nodes, m)
    BY <1>3, <2>2, <2>3 DEF Labels
  <2>5. Labelled(nodes[n], w[n], w[m], rs)
    BY <1>3, <2>2, <2>3 DEF Labels
  <2>6. nodes[n].name \in STRING /\ w[n] = Append(w[m], nodes[n].name)
    BY <1>4, <2>1, <2>5 DEF Labelled, Inner
  <2>7. PICK x \in Seq(STRING) : x = w[m]
    BY <1>3 DEF Labels
  <2>8. x = v /\ nodes[n].name = s
    <3>1. Append(x, nodes[n].name) = Append(v, s)
      BY <1>2, <1>4, <2>6, <2>7
    <3>2. PICK S : S = STRING
      OBVIOUS
    <3>3. x \in Seq(S) /\ v \in Seq(S) /\ nodes[n].name \in S /\ s \in S
      BY <2>6, <3>2
    <3> QED BY ONLY <3>1, <3>3, AppendInjective
  <2>9. m = q
    BY <1>1, <2>4, <2>7, <2>8 DEF Grown, Unique
  <2> QED BY <2>2, <2>3, <2>8, <2>9
<1>5. ASSUME NEW a, Covered(nodes, rs, w, a), rs[a].path \in Seq(STRING), Begins(u, rs[a].path)
      PROVE  FALSE
  <2>1. Len(u) \in 0 .. Len(rs[a].path)
    BY <1>5 DEF Begins
  <2>2. PICK n \in 0 .. Len(nodes) :
          Inner(nodes, n) /\ Len(w[n]) = Len(u) /\ Begins(w[n], rs[a].path)
    BY <1>5, <2>1 DEF Covered, HasPlace
  <2>3. w[n] \in Seq(STRING)
    BY <1>3 DEF Labels
  <2>4. w[n] = u
    BY <1>5, <2>2, <2>3, BeginsSame
  <2> QED BY <1>4, <2>2, <2>4
<1> QED BY <1>1, <1>2, <1>4, <1>5

LEMMA GrownStep ==
  ASSUME NEW pos, NEW rs, NEW path \in Seq(STRING), Len(rs) >= 1, rs[Len(rs)].path = path,
         ~Slashed(path), NEW k \in Nat, k + 1 <= Len(path), GrownStage(pos, rs, path, k)
  PROVE  GrownStage(Descend(pos, path[k + 1]), rs, path, k + 1)
<1>1. PICK nodes, q : pos = [nodes |-> nodes, at |-> q] /\ nodes = pos.nodes /\ q = pos.at
  BY DEF GrownStage
<1>2. PICK w, b :
        /\ Grown(nodes, rs, w, b) /\ Len(w[q]) = k /\ Begins(w[q], path)
        /\ \A l \in 0 .. k : HasPlace(nodes, w, path, l)
        /\ \A a \in 1 .. Len(rs) : a < Len(rs) => Covered(nodes, rs, w, a)
  BY <1>1 DEF GrownStage
<1>3. /\ q \in 0 .. Len(nodes) /\ Inner(nodes, q)
      /\ TreeTypes(nodes, rs) /\ Ordered(nodes) /\ Len(nodes) \in Nat
      /\ Labels(nodes, rs, w, 0 .. Len(nodes))
  BY <1>1, <1>2 DEF GrownStage, Grown, TreeTypes, Ordered
<1>4. PICK s \in STRING : s = path[k + 1] /\ s # Blank
  <2>1. k + 1 \in 1 .. Len(path)
    OBVIOUS
  <2>2. path[k + 1] # Blank
    BY <2>1, NotBlank
  <2>3. PICK S : S = STRING
    OBVIOUS
  <2>4. path[k + 1] \in S
    BY ONLY <2>1, <2>3, path \in Seq(STRING)
  <2> QED BY <2>2, <2>3, <2>4
<1>5. PICK v \in Seq(STRING) : v = w[q]
  BY <1>3 DEF Labels
<1>6. PICK u \in Seq(STRING) : u = Append(v, s) /\ Len(u) = k + 1 /\ Begins(u, path)
  <2>1. Append(v, s) \in Seq(STRING)
    BY AppendFacts
  <2>2. Len(Append(v, s)) = k + 1 /\ Begins(Append(v, s), path)
    BY <1>2, <1>4, <1>5, BeginsAppend
  <2> QED BY <2>1, <2>2
<1>7. PICK next : next = Descend(pos, s)
  OBVIOUS
<1>8. \A l \in 0 .. k + 1 : l = k + 1 \/ l \in 0 .. k
  OBVIOUS
<1>9. ASSUME NEW c \in 1 .. Len(nodes), nodes[c].parent = q, nodes[c].name = s,
             next = [nodes |-> nodes, at |-> c]
      PROVE  GrownStage(next, rs, path, k + 1)
  <2>1. next.nodes = nodes /\ next.at = c /\ c \in 0 .. Len(nodes)
    BY <1>3, <1>9
  <2>2. nodes[c].kind # "end"
    BY <1>2, <1>4, <1>9 DEF Grown, Births
  <2>3. w[c] = u
    <3>1. Labelled(nodes[c], w[c], v, rs)
      BY <1>3, <1>5, <1>9, <2>1 DEF Labels
    <3> QED BY <1>6, <1>9, <2>2, <3>1 DEF Labelled
  <2>4. Inner(nodes, c)
    BY <2>2 DEF Inner
  <2>5. \A l \in 0 .. k + 1 : HasPlace(nodes, w, path, l)
    <3>1. HasPlace(nodes, w, path, k + 1)
      BY <1>6, <2>1, <2>3, <2>4 DEF HasPlace
    <3> QED BY <1>2, <1>8, <3>1
  <2> QED BY <1>2, <1>6, <1>9, <2>1, <2>3, <2>4, <2>5 DEF GrownStage
<1>10. ASSUME \A c \in 1 .. Len(nodes) : ~(nodes[c].parent = q /\ nodes[c].name = s),
              next = [nodes |-> Append(nodes, Segment(q, s)), at |-> Len(nodes) + 1]
       PROVE  GrownStage(next, rs, path, k + 1)
  <2>1. PICK x : x = Segment(q, s)
    OBVIOUS
  <2>2. /\ x \in Node /\ x.parent = q /\ x.name = s /\ x.func \in 0 .. Len(rs)
        /\ x.kind = IF isParam(s) THEN "param" ELSE "string"
    <3>1. 0 \in 0 .. Len(rs)
      BY <1>3 DEF TreeTypes
    <3> QED BY <1>3, <2>1, <3>1, SegmentFacts
  <2>3. x.kind # "end"
    BY <2>2
  <2>4. PICK N \in Nat : N = Len(nodes)
    BY <1>3
  <2>5. PICK more, y, g : /\ more = Append(nodes, x) /\ y = With(nodes, w, u)
                          /\ g = With(nodes, b, Len(rs))
    OBVIOUS
  <2>6. Len(more) = N + 1 /\ more[N + 1] = x /\ \A n \in 1 .. N : more[n] = nodes[n]
    BY <1>3, <2>2, <2>4, <2>5, AppendTypes
  <2>7. next.nodes = more /\ next.at = N + 1 /\ next = [nodes |-> next.nodes, at |-> next.at]
    BY <1>10, <2>1, <2>4, <2>5
  <2>8. Labelled(x, u, w[x.parent], rs)
    BY <1>5, <1>6, <2>2 DEF Labelled
  <2>9. /\ \A n \in 0 .. Len(nodes) : Inner(nodes, n) => w[n] # u
        /\ \A a : Covered(nodes, rs, w, a) /\ rs[a].path \in Seq(STRING) => ~Begins(u, rs[a].path)
    <3>1. /\ \A n \in 0 .. Len(nodes) : Inner(nodes, n) => w[n] # Append(w[q], s)
          /\ \A a : Covered(nodes, rs, w, a) /\ rs[a].path \in Seq(STRING) =>
                      ~Begins(Append(w[q], s), rs[a].path)
      BY <1>2, <1>3, <1>10, NewSegment
    <3> QED BY <1>5, <1>6, <3>1
  <2>10. \A a \in 1 .. Len(rs) : Begins(u, rs[a].path) => Len(rs) <= a
    <3> SUFFICES ASSUME NEW a \in 1 .. Len(rs), Begins(u, rs[a].path), a < Len(rs) PROVE FALSE
      BY <1>3 DEF TreeTypes
    <3>1. rs[a].path \in Seq(STRING)
      BY <1>3, RouteFacts
    <3> QED BY <1>2, <2>9, <3>1
  <2>11. Grown(more, rs, y, g)
    <3>1. Grown(Append(nodes, x), rs, With(nodes, w, u), With(nodes, b, Len(rs)))
      BY <1>2, <1>3, <1>6, <2>2, <2>3, <2>8, <2>9, <2>10, AppendGrown
    <3> QED BY <2>5, <3>1
  <2>12. y[N + 1] = u
    BY <1>3, <2>4, <2>5, WithFacts
  <2>13. Inner(more, N + 1) /\ N + 1 \in 0 .. Len(more)
    BY <2>3, <2>6 DEF Inner
  <2>14. /\ \A l \in 0 .. k : HasPlace(more, y, path, l)
         /\ \A a \in 1 .. Len(rs) : a < Len(rs) => Covered(more, rs, y, a)
    <3>1. /\ \A p, l : HasPlace(nodes, w, p, l) =>
                HasPlace(Append(nodes, x), With(nodes, w, u), p, l)
          /\ \A a : Covered(nodes, rs, w, a) => Covered(Append(nodes, x), rs, With(nodes, w, u), a)
      BY <1>3, <2>2, CoveredMore
    <3> QED BY <1>2, <2>5, <3>1
  <2>15. \A l \in 0 .. k + 1 : HasPlace(more, y, path, l)
    <3>1. HasPlace(more, y, path, k + 1)
      BY <1>6, <2>12, <2>13 DEF HasPlace
    <3> QED BY <1>8, <2>14, <3>1
  <2> QED BY <1>6, <2>7, <2>11, <2>12, <2>13, <2>14, <2>15 DEF GrownStage
<1>11. \/ \E c \in 1 .. Len(nodes) :
            nodes[c].parent = q /\ nodes[c].name = s /\ next = [nodes |-> nodes, at |-> c]
       \/ /\ \A c \in 1 .. Len(nodes) : ~(nodes[c].parent = q /\ nodes[c].name = s)
          /\ next = [nodes |-> Append(nodes, Segment(q, s)), at |-> Len(nodes) + 1]
  <2>1. \/ \E c \in 1 .. Len(nodes) :
             /\ nodes[c].parent = q /\ nodes[c].name = s
             /\ Descend([nodes |-> nodes, at |-> q], s) = [nodes |-> nodes, at |-> c]
        \/ /\ \A c \in 1 .. Len(nodes) : ~(nodes[c].parent = q /\ nodes[c].name = s)
           /\ Descend([nodes |-> nodes, at |-> q], s)
                = [nodes |-> Append(nodes, Segment(q, s)), at |-> Len(nodes) + 1]
    BY ONLY <1>3, DescendFacts, ZenonT(60)
  <2>2. next = Descend([nodes |-> nodes, at |-> q], s)
    BY ONLY <1>1, <1>7
  <2> QED BY ONLY <2>1, <2>2
<1>12. GrownStage(next, rs, path, k + 1)
  BY <1>9, <1>10, <1>11
<1> QED BY <1>4, <1>7, <1>12

\* A route more, which is not in the tree yet.
LEMMA GrownMoreRoutes ==
  ASSUME NEW nodes, NEW rs, NEW w, NEW b, Grown(nodes, rs, w, b), NEW r \in Route
  PROVE  /\ Grown(nodes, Append(rs, r), w, b)
         /\ \A a \in 1 .. Len(rs) : Covered(nodes, rs, w, a) => Covered(nodes, Append(rs, r), w, a)
<1>1. PICK more : more = Append(rs, r)
  OBVIOUS
<1>2. TreeTypes(nodes, rs) /\ Len(nodes) \in Nat
  BY DEF Grown, TreeTypes, Ordered
<1>3. /\ TreeTypes(nodes, more) /\ Len(rs) \in Nat /\ Len(more) = Len(rs) + 1
      /\ \A a \in 1 .. Len(rs) : more[a] = rs[a]
  BY <1>1, <1>2, MoreRoutes
<1>4. Labels(nodes, more, w, 0 .. Len(nodes))
  BY <1>1, <1>2, MoreRoutes DEF Grown
<1>5. Births(nodes, more, w, b)
  <2>1. ASSUME NEW n \in 1 .. Len(nodes)
        PROVE  /\ b[n] \in 1 .. Len(more)
               /\ IF nodes[n].kind = "end" THEN nodes[n].name = Blank /\ b[n] = nodes[n].func
                  ELSE /\ Begins(w[n], more[b[n]].path)
                       /\ \A a \in 1 .. Len(more) : Begins(w[n], more[a].path) => b[n] <= a
    <3>1. /\ b[n] \in 1 .. Len(rs)
          /\ IF nodes[n].kind = "end" THEN nodes[n].name = Blank /\ b[n] = nodes[n].func
             ELSE /\ Begins(w[n], rs[b[n]].path)
                  /\ \A a \in 1 .. Len(rs) : Begins(w[n], rs[a].path) => b[n] <= a
      BY DEF Grown, Births
    <3>2. b[n] \in 1 .. Len(more) /\ b[n] <= Len(more)
      BY <1>3, <3>1
    <3>3. \A a \in 1 .. Len(more) : a = Len(more) \/ a \in 1 .. Len(rs)
      BY <1>3
    <3>4. ASSUME nodes[n].kind # "end", NEW a \in 1 .. Len(more), Begins(w[n], more[a].path)
          PROVE  b[n] <= a
      BY <1>3, <3>1, <3>2, <3>3, <3>4
    <3>5. nodes[n].kind # "end" => Begins(w[n], more[b[n]].path)
      BY <1>3, <3>1
    <3> QED BY <3>1, <3>2, <3>4, <3>5
  <2> QED BY <2>1 DEF Grown, Births
<1>6. ASSUME NEW a \in 1 .. Len(rs), Covered(nodes, rs, w, a) PROVE Covered(nodes, more, w, a)
  BY <1>3, <1>6 DEF Covered
<1>7. Grown(nodes, more, w, b)
  BY <1>3, <1>4, <1>5 DEF Grown
<1> QED BY <1>1, <1>6, <1>7

LEMMA GrownReached ==
  ASSUME NEW nodes, NEW rs, NEW w, NEW b, Grown(nodes, rs, w, b), Len(rs) >= 1,
         \A a \in 1 .. Len(rs) : a < Len(rs) => Covered(nodes, rs, w, a),
         NEW path \in Seq(STRING), rs[Len(rs)].path = path, ~Slashed(path)
  PROVE  GrownStage(Walk(nodes, path)[Len(path)], rs, path, Len(path))
<1> DEFINE S == {k \in Nat : k <= Len(path) => GrownStage(Walk(nodes, path)[k], rs, path, k)}
<1>1. Len(path) \in Nat /\ Len(nodes) \in Nat
  BY DEF Grown, TreeTypes, Ordered
<1>2. /\ Walk(nodes, path)[0] = [nodes |-> nodes, at |-> Root]
      /\ \A k \in 1 .. Len(path) : Walk(nodes, path)[k] = Descend(Walk(nodes, path)[k - 1], path[k])
  BY <1>1, WalkFacts
<1>3. 0 \in S
  <2>1. PICK pos : pos = Walk(nodes, path)[0]
    OBVIOUS
  <2>2. pos = [nodes |-> nodes, at |-> Root] /\ pos.nodes = nodes /\ pos.at = Root
    BY <1>2, <2>1
  <2>3. Len(<<>>) = 0 /\ Begins(<<>>, path)
    BY <1>1 DEF Begins
  <2>4. Len(w[Root]) = 0 /\ Begins(w[Root], path)
    BY <2>3 DEF Grown, Labels
  <2>5. Root \in 0 .. Len(nodes) /\ Inner(nodes, Root)
    BY <1>1 DEF Root, Inner
  <2>6. \A l \in 0 .. 0 : HasPlace(nodes, w, path, l)
    <3>1. \A l \in 0 .. 0 : l = 0
      OBVIOUS
    <3>2. HasPlace(nodes, w, path, 0)
      BY <2>4, <2>5 DEF HasPlace
    <3> QED BY <3>1, <3>2
  <2>7. GrownStage(pos, rs, path, 0)
    BY <2>2, <2>4, <2>5, <2>6 DEF GrownStage
  <2> QED BY <2>1, <2>7
<1>4. ASSUME NEW k \in S PROVE k + 1 \in S
  <2> SUFFICES ASSUME k + 1 <= Len(path)
               PROVE  GrownStage(Walk(nodes, path)[k + 1], rs, path, k + 1)
    OBVIOUS
  <2>1. k \in Nat /\ GrownStage(Walk(nodes, path)[k], rs, path, k)
    BY <1>1
  <2>2. GrownStage(Descend(Walk(nodes, path)[k], path[k + 1]), rs, path, k + 1)
    BY <2>1, GrownStep
  <2>3. k + 1 \in 1 .. Len(path) /\ (k + 1) - 1 = k
    BY <1>1
  <2> QED BY <1>2, <2>2, <2>3
<1> HIDE DEF S
<1>5. Len(path) \in S
  BY <1>1, <1>3, <1>4, Upward DEF S
<1> QED BY <1>1, <1>5 DEF S

LEMMA InsertFull ==
  ASSUME NEW nodes, NEW rs, Full(nodes, rs), NEW r \in Route, ~Slashed(r.path)
  PROVE  Full(insertChild(nodes, r.path, r.method, Len(rs) + 1), Append(rs, r))
<1>1. PICK rest : rest = Append(rs, r)
  OBVIOUS
<1>2. PICK w0, b0 : /\ Grown(nodes, rs, w0, b0)
                    /\ \A a \in 1 .. Len(rs) : Covered(nodes, rs, w0, a)
  BY DEF Full
<1>3. PICK a \in Nat : a = Len(rs) + 1 /\ a >= 1 /\ Len(rs) \in Nat
  <2>1. Len(rs) \in Nat
    BY <1>2 DEF Grown, TreeTypes
  <2> QED BY <2>1
<1>4. PICK path \in Seq(STRING) : path = r.path
  <2>1. r.path \in Seq(STRING)
    BY RouterAssumption DEF Route
  <2> QED BY <2>1
<1>5. TreeTypes(nodes, rs)
  BY <1>2 DEF Grown
<1>6. Len(rest) = a /\ rest[a] = r /\ a \in 1 .. Len(rest)
  BY <1>1, <1>3, <1>5, MoreRoutes
<1>7. /\ Grown(nodes, rest, w0, b0)
      /\ \A c \in 1 .. Len(rest) : c < Len(rest) => Covered(nodes, rest, w0, c)
  <2>1. \A c \in 1 .. Len(rest) : c < Len(rest) => c \in 1 .. Len(rs)
    BY <1>3, <1>6
  <2> QED BY <1>1, <1>2, <2>1, GrownMoreRoutes
<1>8. PICK pos : pos = Walk(nodes, path)[Len(path)]
  OBVIOUS
<1>9. GrownStage(pos, rest, path, Len(path))
  <2>1. Len(rest) >= 1 /\ rest[Len(rest)].path = path
    BY <1>3, <1>4, <1>6
  <2> QED BY <1>4, <1>7, <1>8, <2>1, GrownReached
<1>10. PICK ns, q : ns = pos.nodes /\ q = pos.at
  OBVIOUS
<1>11. PICK w, b :
         /\ Grown(ns, rest, w, b) /\ Len(w[q]) = Len(path) /\ Begins(w[q], path)
         /\ \A l \in 0 .. Len(path) : HasPlace(ns, w, path, l)
         /\ \A c \in 1 .. Len(rest) : c < Len(rest) => Covered(ns, rest, w, c)
  BY <1>9, <1>10 DEF GrownStage
<1>12. q \in 0 .. Len(ns) /\ Inner(ns, q) /\ TreeTypes(ns, rest) /\ Len(ns) \in Nat
  BY <1>9, <1>10, <1>11 DEF GrownStage, Grown, TreeTypes, Ordered
<1>13. PICK x : x = End(q, r.method, a)
  OBVIOUS
<1>14. /\ x \in Node /\ x.parent = q /\ x.kind = "end" /\ x.func = a /\ x.method = r.method
       /\ x.name = Blank
  <2>1. q \in Nat /\ r.method \in Methods
    BY <1>12 DEF Route
  <2>2. PICK m \in Methods : m = r.method
    BY <2>1
  <2>3. /\ End(q, m, a) \in Node /\ End(q, m, a).parent = q /\ End(q, m, a).kind = "end"
        /\ End(q, m, a).func = a /\ End(q, m, a).method = m
    BY <2>1, EndFacts
  <2>4. End(q, m, a).name = Blank
    BY EndName
  <2> QED BY <1>13, <2>2, <2>3, <2>4
<1>15. w[q] = path
  <2>1. w[q] \in Seq(STRING)
    BY <1>11, <1>12 DEF Grown, Labels
  <2> QED BY <1>11, <2>1, BeginsAll
<1>16. Labelled(x, path, w[x.parent], rest)
  BY <1>4, <1>6, <1>14, <1>15 DEF Labelled
<1>17. PICK more, y, g : /\ more = Append(ns, x) /\ y = With(ns, w, path)
                         /\ g = With(ns, b, Len(rest))
  OBVIOUS
<1>18. x.func \in 0 .. Len(rest) /\ x.func = Len(rest) /\ Len(rest) >= 1
  BY <1>3, <1>6, <1>14
<1>19. Grown(more, rest, y, g)
  <2>1. Grown(Append(ns, x), rest, With(ns, w, path), With(ns, b, Len(rest)))
    BY <1>11, <1>12, <1>14, <1>16, <1>18, AppendGrown
  <2> QED BY <1>17, <2>1
<1>20. /\ \A p, l : HasPlace(ns, w, p, l) => HasPlace(more, y, p, l)
       /\ \A c : Covered(ns, rest, w, c) => Covered(more, rest, y, c)
  <2>1. /\ \A p, l : HasPlace(ns, w, p, l) => HasPlace(Append(ns, x), With(ns, w, path), p, l)
        /\ \A c : Covered(ns, rest, w, c) => Covered(Append(ns, x), rest, With(ns, w, path), c)
    BY <1>12, <1>14, <1>18, CoveredMore
  <2> QED BY <1>17, <2>1
<1>21. Len(more) = Len(ns) + 1 /\ more[Len(ns) + 1] = x
  BY <1>12, <1>14, <1>17, <1>18, AppendTypes
<1>22. Covered(more, rest, y, a)
  <2>1. Len(ns) + 1 \in 1 .. Len(more)
    BY <1>12, <1>21
  <2>2. \E e \in 1 .. Len(more) : more[e].kind = "end" /\ more[e].func = a
    BY <1>14, <1>21, <2>1
  <2>3. \A l \in 0 .. Len(path) : HasPlace(more, y, path, l)
    BY <1>11, <1>20
  <2> QED BY <1>4, <1>6, <2>2, <2>3 DEF Covered
<1>23. \A c \in 1 .. Len(rest) : Covered(more, rest, y, c)
  <2>1. \A c \in 1 .. Len(rest) : c = a \/ c < Len(rest)
    BY <1>6
  <2> QED BY <1>11, <1>20, <1>22, <2>1
<1>24. more = insertChild(nodes, r.path, r.method, Len(rs) + 1)
  BY <1>3, <1>4, <1>8, <1>10, <1>13, <1>17 DEF insertChild
<1> QED BY <1>1, <1>19, <1>23, <1>24 DEF Full

-----------------------------------------------------------------------------
(* Of the routes that fit, the lookup takes the one that precedes the others. *)

LEMMA BirthIs ==
  ASSUME NEW nodes, NEW w, NEW b, Grown(nodes, routes, w, b),
         NEW n \in 1 .. Len(nodes), Inner(nodes, n)
  PROVE  \A a \in 1 .. Len(routes) : Begins(w[n], routes[a].path) => Birth(a, Len(w[n])) = b[n]
<1> SUFFICES ASSUME NEW a \in 1 .. Len(routes), Begins(w[n], routes[a].path)
             PROVE  Birth(a, Len(w[n])) = b[n]
  OBVIOUS
<1>1. /\ Len(nodes) \in Nat /\ Len(routes) \in Nat /\ n \in 0 .. Len(nodes)
      /\ TreeTypes(nodes, routes)
  BY DEF Grown, TreeTypes, Ordered
<1>2. PICK v \in Seq(STRING) : v = w[n]
  BY <1>1 DEF Grown, Labels
<1>3. PICK d \in Nat : d = Len(v)
  OBVIOUS
<1>4. nodes[n].kind # "end"
  BY DEF Inner, Root
<1>5. /\ b[n] \in 1 .. Len(routes) /\ Begins(v, routes[b[n]].path)
      /\ \A c \in 1 .. Len(routes) : Begins(v, routes[c].path) => b[n] <= c
  BY <1>2, <1>4 DEF Grown, Births
<1> DEFINE S == {m \in 1 .. Len(routes) : Len(routes[m].path) >= d /\
                   \A j \in 1 .. d : routes[m].path[j] = routes[a].path[j]}
<1>6. \A j \in 1 .. d : routes[a].path[j] = v[j]
  BY <1>2, <1>3 DEF Begins
<1>7. ASSUME NEW m \in 1 .. Len(routes) PROVE m \in S <=> Begins(v, routes[m].path)
  <2>1. Len(routes[m].path) \in Nat
    BY <1>1, RouteFacts
  <2>2. Len(routes[m].path) >= d <=> d <= Len(routes[m].path)
    BY <2>1
  <2> QED BY <1>3, <1>6, <2>2 DEF Begins
<1>8. b[n] \in S /\ \A c \in S : b[n] <= c
  <2>1. \A c \in S : c \in 1 .. Len(routes)
    OBVIOUS
  <2> HIDE DEF S
  <2> QED BY <1>5, <1>7, <2>1
<1>9. S \in SUBSET Nat
  OBVIOUS
<1>10. Birth(a, d) = Min(S)
  BY DEF Birth
<1> HIDE DEF S
<1>11. Min(S) \in S /\ \A c \in S : Min(S) <= c
  BY <1>8, <1>9, LeastFacts
<1>12. PICK x \in Nat : x = Min(S) /\ x \in S
  BY <1>9, <1>11
<1>13. PICK y \in Nat : y = b[n] /\ y \in S
  BY <1>8, <1>9
<1>14. x <= y /\ y <= x
  BY <1>8, <1>11, <1>12, <1>13
<1>15. x = y
  BY <1>14
<1> QED BY <1>2, <1>3, <1>10, <1>12, <1>13, <1>15

\* Route r precedes route a behind their first d segments.
Below(r, a, d) ==
  LET len == Len(routes[a].path)
  IN \/ \E i \in d + 1 .. len : /\ Birth(r, i) < Birth(a, i)
                                /\ \A j \in d + 1 .. i - 1 : Birth(r, j) = Birth(a, j)
     \/ /\ \A i \in d + 1 .. len : Birth(r, i) = Birth(a, i)
        /\ r <= a

LEMMA BelowBack ==
  ASSUME NEW r, NEW a, NEW d \in Nat, Len(routes[a].path) \in Nat,
         Below(r, a, d + 1), Birth(r, d + 1) = Birth(a, d + 1)
  PROVE  Below(r, a, d)
<1>1. PICK len \in Nat : len = Len(routes[a].path)
  OBVIOUS
<1>2. \A i \in d + 1 .. len : i = d + 1 \/ i \in (d + 1) + 1 .. len
  OBVIOUS
<1>3. CASE \E i \in (d + 1) + 1 .. len : /\ Birth(r, i) < Birth(a, i)
                                         /\ \A j \in (d + 1) + 1 .. i - 1 : Birth(r, j) = Birth(a, j)
  <2>1. PICK i \in (d + 1) + 1 .. len :
          /\ Birth(r, i) < Birth(a, i)
          /\ \A j \in (d + 1) + 1 .. i - 1 : Birth(r, j) = Birth(a, j)
    BY <1>3
  <2>2. i \in d + 1 .. len /\ \A j \in d + 1 .. i - 1 : j = d + 1 \/ j \in (d + 1) + 1 .. i - 1
    OBVIOUS
  <2>3. \A j \in d + 1 .. i - 1 : Birth(r, j) = Birth(a, j)
    BY <2>1, <2>2
  <2> QED BY <1>1, <2>1, <2>2, <2>3 DEF Below
<1>4. CASE /\ \A i \in (d + 1) + 1 .. len : Birth(r, i) = Birth(a, i)
           /\ r <= a
  BY <1>1, <1>2, <1>4 DEF Below
<1> QED BY <1>1, <1>3, <1>4 DEF Below

LEMMA BelowSound ==
  ASSUME NEW nodes, NEW rs, NEW w, TreeTypes(nodes, rs), Labels(nodes, rs, w, 0 .. Len(nodes)),
         NEW req, NEW n \in 0 .. Len(nodes), Inner(nodes, n), NEW i \in Nat,
         NEW r, r = firstFound(nodes, n, getRoute(nodes, req), i), r.func # 0
  PROVE  Reaches(rs, w[n], req, i, r.func)
<1>1. PICK f : f = getRoute(nodes, req)
  OBVIOUS
<1>2. Ordered(nodes) /\ Len(nodes) \in Nat
  BY DEF TreeTypes, Ordered
<1>3. PICK c \in Children(nodes, n) : f[c][i].func # 0 /\ r = f[c][i]
  BY <1>1, <1>2, FirstIsAnswer
<1>4. c \in 1 .. Len(nodes) /\ nodes[c].parent = n /\ c \in 0 .. Len(nodes)
  BY <1>2, <1>3, ChildrenFacts
<1>5. Reaches(rs, w[nodes[c].parent], req, i, f[c][i].func)
  BY <1>1, <1>3, <1>4, LookupSound
<1> QED BY <1>3, <1>4, <1>5

Best(nodes, w, req, n, i, a) ==
  /\ firstFound(nodes, n, getRoute(nodes, req), i).func # 0
  /\ Below(firstFound(nodes, n, getRoute(nodes, req), i).func, a, Len(w[n]))

\* The route ends at the node.
LEMMA BestEnd ==
  ASSUME NEW nodes, NEW w, NEW b, Grown(nodes, routes, w, b),
         \A a \in 1 .. Len(routes) : Covered(nodes, routes, w, a),
         NEW req, NEW n \in 0 .. Len(nodes), Inner(nodes, n), NEW i \in Nat,
         NEW a, Reaches(routes, w[n], req, i, a), Len(routes[a].path) = Len(w[n])
  PROVE  Best(nodes, w, req, n, i, a)
<1>1. PICK f : f = getRoute(nodes, req)
  OBVIOUS
<1>2. /\ TreeTypes(nodes, routes) /\ Labels(nodes, routes, w, 0 .. Len(nodes))
      /\ Ordered(nodes) /\ Len(nodes) \in Nat
  BY DEF Grown, TreeTypes, Ordered
<1>3. a \in 1 .. Len(routes) /\ routes[a].method = req.method
  BY DEF Reaches
<1>4. PICK v \in Seq(STRING) : v = w[n]
  BY <1>2 DEF Labels
<1>5. PICK d \in Nat : d = Len(v)
  OBVIOUS
<1>6. routes[a].path \in Seq(STRING)
  BY <1>2, <1>3, RouteFacts
<1>7. routes[a].path = v
  <2>1. Begins(v, routes[a].path)
    BY <1>4 DEF Reaches
  <2> QED BY <1>4, <1>6, <2>1, BeginsAll
<1>8. AtEnd(req.url, i)
  <2>1. AtEnd(req.url, Place(i, d, d + 1))
    BY <1>4, <1>5, <1>7 DEF Reaches
  <2>2. Place(i, d, d + 1) = i
    BY DEF Place
  <2> QED BY <2>1, <2>2
<1>9. PICK e \in 1 .. Len(nodes) : nodes[e].kind = "end" /\ nodes[e].func = a
  BY <1>3 DEF Covered
<1>10. PICK m \in 0 .. Len(nodes) : m = nodes[e].parent
  BY <1>2 DEF Ordered
<1>11. e \in 0 .. Len(nodes) /\ Inner(nodes, m) /\ Labelled(nodes[e], w[e], w[m], routes)
  <2>1. e \in 0 .. Len(nodes)
    BY <1>2
  <2> QED BY <1>2, <1>10, <2>1 DEF Labels
<1>12. w[m] = v /\ nodes[e].method = req.method
  BY <1>3, <1>7, <1>9, <1>11 DEF Labelled
<1>13. m = n
  BY <1>4, <1>11, <1>12 DEF Grown, Unique
<1>14. e \in Children(nodes, n)
  BY <1>10, <1>13 DEF Children
<1>15. f[e][i].func = a
  <2>1. i + 1 \in Nat
    OBVIOUS
  <2>2. IsReply(firstFound(nodes, e, f, i + 1))
    BY <1>1, <1>2, <1>11, <2>1, BelowIsReply
  <2>3. Yields(nodes[e], req, i, Answer(nodes, f, e, req, i), firstFound(nodes, e, f, i + 1))
    BY ONLY <2>2, AnswerWhen
  <2>4. f[e][i] = Answer(nodes, f, e, req, i)
    BY <1>1, <1>2, getRouteFacts
  <2> QED BY <1>8, <1>9, <1>12, <2>3, <2>4 DEF Yields
<1>16. e \in Routed(nodes, n, f, i)
  <2>1. a # 0
    BY <1>3
  <2> QED BY <1>14, <1>15, <2>1 DEF Routed
<1>17. PICK c \in Routed(nodes, n, f, i) : /\ \A x \in Routed(nodes, n, f, i) : c <= x
                                           /\ firstFound(nodes, n, f, i) = f[c][i]
  BY <1>2, <1>16, FirstFoundFacts
<1>18. c \in 1 .. Len(nodes) /\ c \in 0 .. Len(nodes) /\ c <= e /\ f[c][i].func # 0
  BY <1>2, <1>16, <1>17 DEF Routed, Children
<1>19. nodes[c].kind = "end" /\ f[c][i].func = nodes[c].func
  <2>1. f[c][i] = Answer(nodes, f, c, req, i)
    BY <1>1, <1>2, <1>18, getRouteFacts
  <2>2. Answer(nodes, f, c, req, i).func # 0
    BY <1>18, <2>1
  <2>3. Answers(nodes[c], req, i, Answer(nodes, f, c, req, i), firstFound(nodes, c, f, i + 1))
    BY ONLY <2>2, AnswerFacts
  <2> QED BY <1>8, <2>1, <2>3 DEF Answers
<1>20. nodes[c].func <= a
  <2>1. b[c] <= b[e] /\ b[c] = nodes[c].func /\ b[e] = nodes[e].func
    BY <1>9, <1>11, <1>18, <1>19 DEF Grown, Births
  <2> QED BY <1>9, <2>1
<1>21. d + 1 .. Len(routes[a].path) = {}
  BY <1>5, <1>7
<1>22. Below(nodes[c].func, a, d)
  BY <1>20, <1>21 DEF Below
<1> QED BY <1>1, <1>4, <1>5, <1>17, <1>18, <1>19, <1>22 DEF Best

\* What a node below n, and not an end, answers is what those below it answer.
LEMMA AnswerBelow ==
  ASSUME NEW nodes, Ordered(nodes), NEW req, NEW f, f = getRoute(nodes, req),
         NEW c \in 1 .. Len(nodes), NEW i \in Nat, ~AtEnd(req.url, i), f[c][i].func # 0
  PROVE  nodes[c].kind # "end" /\ f[c][i].func = firstFound(nodes, c, f, i + 1).func
<1>1. f[c][i] = Answer(nodes, f, c, req, i)
  BY getRouteFacts
<1>2. Answer(nodes, f, c, req, i).func # 0
  BY <1>1
<1>3. Answers(nodes[c], req, i, Answer(nodes, f, c, req, i), firstFound(nodes, c, f, i + 1))
  BY ONLY <1>2, AnswerFacts
<1>4. c \in 0 .. Len(nodes) /\ i + 1 \in Nat
  BY DEF Ordered
<1>5. IsReply(firstFound(nodes, c, f, i + 1))
  BY <1>4, BelowIsReply
<1>6. Yields(nodes[c], req, i, Answer(nodes, f, c, req, i), firstFound(nodes, c, f, i + 1))
  BY ONLY <1>5, AnswerWhen
<1> QED BY <1>1, <1>3, <1>6 DEF Answers, Yields

\* The node for one segment more of route a.
LEMMA NextNode ==
  ASSUME NEW nodes, NEW rs, NEW w, NEW b, Grown(nodes, rs, w, b),
         NEW n \in 0 .. Len(nodes), Inner(nodes, n), NEW p \in Seq(STRING), Begins(w[n], p),
         HasPlace(nodes, w, p, Len(w[n]) + 1)
  PROVE  \E m \in 1 .. Len(nodes) :
           /\ nodes[m].parent = n /\ Inner(nodes, m) /\ nodes[m].name = p[Len(w[n]) + 1]
           /\ Len(w[m]) = Len(w[n]) + 1 /\ Begins(w[m], p)
<1>1. Labels(nodes, rs, w, 0 .. Len(nodes)) /\ TreeTypes(nodes, rs) /\ Len(nodes) \in Nat
  BY DEF Grown, TreeTypes, Ordered
<1>a. PICK d \in Nat : d = Len(w[n])
  <2>1. w[n] \in Seq(STRING)
    BY <1>1 DEF Labels
  <2> QED BY <2>1
<1>2. PICK m \in 0 .. Len(nodes) : Inner(nodes, m) /\ Len(w[m]) = d + 1 /\ Begins(w[m], p)
  BY <1>a DEF HasPlace
<1>3. m # Root
  <2>1. w[Root] = <<>> /\ Len(<<>>) = 0
    BY <1>1 DEF Labels
  <2> QED BY <1>2, <2>1
<1>4. m \in 1 .. Len(nodes)
  BY <1>3 DEF Root
<1>5. PICK q \in 0 .. Len(nodes) : q = nodes[m].parent
  <2>1. nodes[m].parent \in 0 .. m - 1
    BY <1>1, <1>4 DEF TreeTypes, Ordered
  <2>2. nodes[m].parent \in 0 .. Len(nodes)
    BY <1>1, <1>4, <2>1
  <2> QED BY <2>2
<1>6. Inner(nodes, q) /\ Labelled(nodes[m], w[m], w[q], rs)
  BY <1>1, <1>4, <1>5 DEF Labels
<1>7. PICK x : x = nodes[m].name
  OBVIOUS
<1>8. PICK u \in Seq(STRING) : u = w[q]
  BY <1>1 DEF Labels
<1>9. x \in STRING /\ w[m] = Append(u, x)
  BY <1>2, <1>3, <1>6, <1>7, <1>8 DEF Labelled, Inner
<1>10. /\ Len(Append(u, x)) = Len(u) + 1 /\ Append(u, x)[Len(u) + 1] = x
       /\ \A j \in 1 .. Len(u) : Append(u, x)[j] = u[j]
  BY <1>9, AppendFacts
<1>11. Len(u) = d
  BY <1>2, <1>9, <1>10
<1>12. \A j \in 1 .. d + 1 : p[j] = Append(u, x)[j]
  BY <1>2, <1>9 DEF Begins
<1>13. p[d + 1] = x /\ \A j \in 1 .. d : p[j] = u[j]
  <2>1. d + 1 \in 1 .. d + 1 /\ \A j \in 1 .. d : j \in 1 .. d + 1
    OBVIOUS
  <2>2. PICK y : y = Append(u, x)
    OBVIOUS
  <2>3. y[d + 1] = x /\ \A j \in 1 .. d : y[j] = u[j]
    BY ONLY <1>10, <1>11, <2>2
  <2>4. \A j \in 1 .. d + 1 : p[j] = y[j]
    BY ONLY <1>12, <2>2
  <2>5. p[d + 1] = x
    BY ONLY <2>1, <2>3, <2>4
  <2>6. ASSUME NEW j \in 1 .. d PROVE p[j] = u[j]
    <3>1. p[j] = y[j]
      BY ONLY <2>1, <2>4, j \in 1 .. d
    <3>2. y[j] = u[j]
      BY ONLY <2>3, j \in 1 .. d
    <3> QED BY ONLY <3>1, <3>2
  <2> QED BY ONLY <2>5, <2>6
<1>14. Begins(u, p)
  <2>1. d + 1 <= Len(p)
    BY <1>2 DEF Begins
  <2>2. Len(u) <= Len(p)
    BY <1>11, <2>1
  <2> QED BY <1>11, <1>13, <2>2 DEF Begins
<1>15. w[n] \in Seq(STRING)
  BY <1>1 DEF Labels
<1>16. u = w[n]
  BY <1>a, <1>11, <1>14, <1>15, BeginsSame
<1>17. q = n
  BY <1>6, <1>8, <1>16 DEF Grown, Unique
<1> QED BY <1>a, <1>2, <1>4, <1>5, <1>7, <1>13, <1>17

\* The route goes on below the node.
LEMMA BestInner ==
  ASSUME NEW nodes, NEW w, NEW b, Grown(nodes, routes, w, b),
         \A a \in 1 .. Len(routes) : Covered(nodes, routes, w, a),
         NEW req, NEW n \in 0 .. Len(nodes), Inner(nodes, n), NEW i \in Nat,
         NEW a, Reaches(routes, w[n], req, i, a), Len(w[n]) < Len(routes[a].path),
         \A c \in 1 .. Len(nodes) : c > n /\ Inner(nodes, c) =>
            (Reaches(routes, w[c], req, i + 1, a) => Best(nodes, w, req, c, i + 1, a))
  PROVE  Best(nodes, w, req, n, i, a)
<1>1. PICK f : f = getRoute(nodes, req)
  OBVIOUS
<1>2. /\ TreeTypes(nodes, routes) /\ Labels(nodes, routes, w, 0 .. Len(nodes))
      /\ Ordered(nodes) /\ Len(nodes) \in Nat
  BY DEF Grown, TreeTypes, Ordered
<1>3. a \in 1 .. Len(routes) /\ routes[a].method = req.method
  BY DEF Reaches
<1>4. PICK p \in Seq(STRING) : p = routes[a].path
  BY <1>2, <1>3, RouteFacts
<1>5. PICK v \in Seq(STRING) : v = w[n]
  BY <1>2 DEF Labels
<1>6. PICK d \in Nat : d = Len(v) /\ d + 1 <= Len(p)
  BY <1>4, <1>5
<1>7. /\ Begins(v, p)
      /\ \A j \in d + 1 .. Len(p) :
           ~AtEnd(req.url, Place(i, d, j)) /\ Fits(p[j], req.url[Place(i, d, j)])
      /\ AtEnd(req.url, Place(i, d, Len(p) + 1))
  BY <1>4, <1>5, <1>6 DEF Reaches
<1>8. ~AtEnd(req.url, i) /\ Fits(p[d + 1], req.url[i])
  <2>1. d + 1 \in d + 1 .. Len(p) /\ Place(i, d, d + 1) = i
    BY <1>6 DEF Place
  <2> QED BY <1>7, <2>1
<1>9. PICK m \in 1 .. Len(nodes) :
        /\ nodes[m].parent = n /\ Inner(nodes, m) /\ nodes[m].name = p[d + 1]
        /\ Len(w[m]) = d + 1 /\ Begins(w[m], p)
  <2>1. Begins(w[n], p) /\ Len(w[n]) = d
    BY <1>5, <1>6, <1>7
  <2>2. HasPlace(nodes, w, p, Len(w[n]) + 1)
    <3>1. d + 1 \in 0 .. Len(p)
      BY <1>6
    <3> QED BY <1>3, <1>4, <2>1, <3>1 DEF Covered
  <2>3. \E m \in 1 .. Len(nodes) :
          /\ nodes[m].parent = n /\ Inner(nodes, m) /\ nodes[m].name = p[Len(w[n]) + 1]
          /\ Len(w[m]) = Len(w[n]) + 1 /\ Begins(w[m], p)
    BY <2>1, <2>2, NextNode, ZenonT(90)
  <2> QED BY <2>1, <2>3
<1>10. m \in Children(nodes, n) /\ m > n /\ m \in 0 .. Len(nodes)
  BY <1>2, <1>9 DEF Children, Ordered
<1>11. Reaches(routes, w[m], req, i + 1, a)
  <2>1. \A j \in Nat : Place(i + 1, d + 1, j) = Place(i, d, j)
    BY DEF Place
  <2>2. \A j \in (d + 1) + 1 .. Len(p) : j \in Nat /\ j \in d + 1 .. Len(p)
    OBVIOUS
  <2>3. \A j \in (d + 1) + 1 .. Len(p) :
          /\ ~AtEnd(req.url, Place(i + 1, d + 1, j))
          /\ Fits(p[j], req.url[Place(i + 1, d + 1, j)])
    BY <1>7, <2>1, <2>2
  <2>4. AtEnd(req.url, Place(i + 1, d + 1, Len(p) + 1))
    BY <1>7, <2>1
  <2> QED BY <1>3, <1>4, <1>9, <2>3, <2>4 DEF Reaches
<1>12. PICK s : s = firstFound(nodes, m, f, i + 1).func
  OBVIOUS
<1>13. s # 0 /\ Below(s, a, d + 1)
  <2>1. Best(nodes, w, req, m, i + 1, a)
    BY <1>9, <1>10, <1>11
  <2> QED BY <1>1, <1>9, <1>12, <2>1 DEF Best
<1>14. f[m][i].func = s
  <2>1. IsReply(firstFound(nodes, m, f, i + 1))
    <3>1. i + 1 \in Nat
      OBVIOUS
    <3> QED BY <1>1, <1>2, <1>10, <3>1, BelowIsReply
  <2>2. Yields(nodes[m], req, i, Answer(nodes, f, m, req, i), firstFound(nodes, m, f, i + 1))
    BY ONLY <2>1, AnswerWhen
  <2>3. f[m][i] = Answer(nodes, f, m, req, i)
    BY <1>1, <1>2, getRouteFacts
  <2>4. Labelled(nodes[m], w[m], w[nodes[m].parent], routes) /\ nodes[m].kind # "end"
    BY <1>2, <1>9, <1>10 DEF Labels, Inner, Root
  <2>5. nodes[m].kind = IF isParam(nodes[m].name) THEN "param" ELSE "string"
    BY <2>4 DEF Labelled
  <2>6. CASE isParam(nodes[m].name)
    <3>1. match(nodes[m].name, req.url[i])
      BY <1>8, <1>9, <2>6, FitsFacts
    <3> QED BY <1>8, <1>12, <1>13, <2>2, <2>3, <2>5, <2>6, <3>1 DEF Yields
  <2>7. CASE ~isParam(nodes[m].name)
    <3>1. nodes[m].name = req.url[i]
      BY <1>8, <1>9, <2>7, FitsFacts
    <3> QED BY <1>8, <1>12, <2>2, <2>3, <2>5, <2>7, <3>1 DEF Yields
  <2> QED BY <2>6, <2>7
<1>15. m \in Routed(nodes, n, f, i)
  BY <1>10, <1>13, <1>14 DEF Routed
<1>16. PICK c \in Routed(nodes, n, f, i) : /\ \A x \in Routed(nodes, n, f, i) : c <= x
                                           /\ firstFound(nodes, n, f, i) = f[c][i]
  BY <1>2, <1>15, FirstFoundFacts
<1>17. /\ c \in 1 .. Len(nodes) /\ c \in 0 .. Len(nodes) /\ nodes[c].parent = n /\ c <= m
       /\ f[c][i].func # 0
  BY <1>2, <1>15, <1>16 DEF Routed, Children
<1>18. PICK r : r = firstFound(nodes, c, f, i + 1)
  OBVIOUS
<1>19. nodes[c].kind # "end" /\ f[c][i].func = r.func /\ r.func # 0 /\ Inner(nodes, c)
  BY <1>1, <1>2, <1>8, <1>17, <1>18, AnswerBelow DEF Inner
<1>20. Reaches(routes, w[c], req, i + 1, r.func)
  <2>1. i + 1 \in Nat
    OBVIOUS
  <2> QED BY <1>1, <1>2, <1>17, <1>18, <1>19, <2>1, BelowSound
<1>21. PICK e \in 1 .. Len(routes) : e = r.func /\ Begins(w[c], routes[e].path)
  BY <1>20 DEF Reaches
<1>22. Len(w[c]) = d + 1
  <2>1. Labelled(nodes[c], w[c], v, routes)
    BY <1>2, <1>5, <1>17 DEF Labels
  <2>2. nodes[c].name \in STRING /\ w[c] = Append(v, nodes[c].name)
    BY <1>19, <2>1 DEF Labelled
  <2> QED BY <1>6, <2>2, AppendFacts
<1>23. Birth(e, d + 1) = b[c] /\ Birth(a, d + 1) = b[m]
  <2>1. Birth(e, Len(w[c])) = b[c]
    <3>1. \A z \in 1 .. Len(routes) : Begins(w[c], routes[z].path) => Birth(z, Len(w[c])) = b[c]
      BY <1>17, <1>19, BirthIs
    <3> QED BY <1>21, <3>1
  <2>2. Birth(a, Len(w[m])) = b[m]
    <3>1. \A z \in 1 .. Len(routes) : Begins(w[m], routes[z].path) => Birth(z, Len(w[m])) = b[m]
      BY <1>9, BirthIs
    <3> QED BY <1>3, <1>4, <1>9, <3>1
  <2> QED BY <1>9, <1>22, <2>1, <2>2
<1>24. Below(e, a, d)
  <2>1. Len(p) \in Nat
    OBVIOUS
  <2>2. CASE c = m
    <3>1. e = s
      BY <1>12, <1>18, <1>21, <2>2
    <3>2. Birth(e, d + 1) = Birth(a, d + 1)
      BY <1>23, <2>2
    <3> QED BY <1>4, <1>13, <2>1, <3>1, <3>2, BelowBack
  <2>3. CASE c # m
    <3>1. b[c] <= b[m] /\ b[c] \in 1 .. Len(routes) /\ b[m] \in 1 .. Len(routes)
      BY <1>9, <1>10, <1>17 DEF Grown, Births
    <3>2. b[c] # b[m]
      <4> SUFFICES ASSUME b[c] = b[m] PROVE FALSE
        OBVIOUS
      <4>1. Begins(w[c], routes[b[m]].path) /\ Begins(w[m], routes[b[m]].path)
        <5>1. nodes[m].kind # "end"
          BY <1>9 DEF Inner, Root
        <5> QED BY <1>9, <1>17, <1>19, <5>1 DEF Grown, Births
      <4>2. w[c] \in Seq(STRING) /\ w[m] \in Seq(STRING)
        BY <1>2, <1>10, <1>17 DEF Labels
      <4>3. w[c] = w[m]
        BY <1>9, <1>22, <4>1, <4>2, BeginsSame
      <4> QED BY <1>9, <1>10, <1>17, <1>19, <2>3, <4>3 DEF Grown, Unique
    <3>3. Birth(e, d + 1) < Birth(a, d + 1)
      <4>1. b[c] < b[m]
        BY <3>1, <3>2
      <4> QED BY <1>23, <4>1
    <3>4. d + 1 \in d + 1 .. Len(p) /\ d + 1 .. (d + 1) - 1 = {}
      BY <1>6
    <3> QED BY <1>4, <3>3, <3>4 DEF Below
  <2> QED BY <2>2, <2>3
<1> QED BY <1>1, <1>5, <1>6, <1>16, <1>19, <1>21, <1>24 DEF Best

LEMMA BestEverywhere ==
  ASSUME NEW nodes, NEW w, NEW b, Grown(nodes, routes, w, b),
         \A a \in 1 .. Len(routes) : Covered(nodes, routes, w, a), NEW req
  PROVE  \A n \in 0 .. Len(nodes), i \in Nat :
           Inner(nodes, n) => \A a \in 1 .. Len(routes) :
              Reaches(routes, w[n], req, i, a) => Best(nodes, w, req, n, i, a)
<1>1. /\ TreeTypes(nodes, routes) /\ Len(nodes) \in Nat
      /\ Labels(nodes, routes, w, 0 .. Len(nodes))
  BY DEF Grown, TreeTypes, Ordered
<1> DEFINE Good(n) == \A i \in Nat : Inner(nodes, n) => \A a \in 1 .. Len(routes) :
                         Reaches(routes, w[n], req, i, a) => Best(nodes, w, req, n, i, a)
           P == {n \in 1 .. Len(nodes) : Good(n)}
<1>2. ASSUME NEW n \in 0 .. Len(nodes), \A c \in 1 .. Len(nodes) : c > n => c \in P,
             NEW i \in Nat, Inner(nodes, n), NEW a \in 1 .. Len(routes),
             Reaches(routes, w[n], req, i, a)
      PROVE  Best(nodes, w, req, n, i, a)
  <2>1. PICK d \in Nat : d = Len(w[n])
    <3>1. w[n] \in Seq(STRING)
      BY <1>1 DEF Labels
    <3> QED BY <3>1
  <2>2. Len(routes[a].path) \in Nat
    BY <1>1, RouteFacts
  <2>3. d <= Len(routes[a].path)
    BY <1>2, <2>1 DEF Reaches, Begins
  <2>4. CASE d = Len(routes[a].path)
    BY <1>2, <2>1, <2>4, BestEnd
  <2>5. CASE d # Len(routes[a].path)
    <3>1. Len(w[n]) < Len(routes[a].path)
      BY <2>1, <2>2, <2>3, <2>5
    <3>2. \A c \in 1 .. Len(nodes) : c > n /\ Inner(nodes, c) =>
            (Reaches(routes, w[c], req, i + 1, a) => Best(nodes, w, req, c, i + 1, a))
      <4>1. i + 1 \in Nat
        OBVIOUS
      <4> QED BY <1>2, <4>1
    <3> QED BY <1>2, <3>1, <3>2, BestInner
  <2> QED BY <2>4, <2>5
<1>3. \A n \in 1 .. Len(nodes) : n \in P
  <2>1. P \in SUBSET (1 .. Len(nodes))
    OBVIOUS
  <2>2. \A n \in 1 .. Len(nodes) : (\A c \in 1 .. Len(nodes) : c > n => c \in P) => n \in P
    <3>1. \A n \in 1 .. Len(nodes) : n \in 0 .. Len(nodes)
      OBVIOUS
    <3> QED BY <1>2, <3>1
  <2> HIDE DEF P
  <2> QED BY <1>1, <2>1, <2>2, Downward
<1> HIDE DEF P
<1> QED BY <1>2, <1>3

\* A route that matches, in the words of the reference, is reached from the root.
LEMMA MatchReaches ==
  ASSUME prefix \in Seq(STRING), NEW req, req.url \in Seq(STRING),
         NEW a \in Matching(req.method, req.url), routes[a].path \in Seq(STRING)
  PROVE  /\ Len(req.url) > Len(prefix) /\ IsPrefix(prefix, req.url)
         /\ Reaches(routes, <<>>, req, Len(prefix) + 1, a)
<1>1. PICK url : url = req.url
  OBVIOUS
<1>2. a \in 1 .. Len(routes) /\ Matches(routes[a], req.method, url)
  BY <1>1 DEF Matching
<1>3. PICK p \in Seq(STRING) : p = routes[a].path
  OBVIOUS
<1>4. PICK R : R = Rest(url)
  OBVIOUS
<1>5. /\ routes[a].method = req.method /\ Len(url) > Len(prefix) /\ IsPrefix(prefix, url)
      /\ Len(p) = Len(R) /\ \A j \in 1 .. Len(p) : Fits(p[j], R[j])
  BY <1>2, <1>3, <1>4 DEF Matches
<1>6. PICK i \in Nat : i = Len(prefix) + 1
  OBVIOUS
<1>7. PICK N \in Nat : N = Len(p)
  OBVIOUS
<1>8. /\ \A j \in 1 .. N : R[j] = url[Place(i, 0, j)]
      /\ \A j \in Nat : j >= 1 => (AtEnd(url, Place(i, 0, j)) <=> j > N)
  <2>1. /\ \A j \in 1 .. Len(Rest(url)) : Rest(url)[j] = url[Place(i, 0, j)]
        /\ \A j \in Nat : j >= 1 => (AtEnd(url, Place(i, 0, j)) <=> j > Len(Rest(url)))
    BY <1>1, <1>5, <1>6, RestFacts
  <2> QED BY <1>4, <1>5, <1>7, <2>1
<1>9. \A j \in 1 .. N : ~AtEnd(url, Place(i, 0, j)) /\ Fits(p[j], url[Place(i, 0, j)])
  <2>1. \A j \in 1 .. N : j \in Nat /\ j >= 1 /\ ~(j > N)
    OBVIOUS
  <2> QED BY <1>5, <1>7, <1>8, <2>1
<1>10. AtEnd(url, Place(i, 0, N + 1))
  <2>1. N + 1 \in Nat /\ N + 1 >= 1 /\ N + 1 > N
    OBVIOUS
  <2> QED BY <1>8, <2>1
<1>11. Len(<<>>) = 0 /\ 0 + 1 = 1 /\ 0 <= Len(p) /\ 1 .. 0 = {}
  BY <1>7
<1>12. Begins(<<>>, p)
  BY <1>11 DEF Begins
<1>13. Reaches(routes, <<>>, req, i, a)
  BY <1>1, <1>2, <1>3, <1>5, <1>7, <1>9, <1>10, <1>11, <1>12 DEF Reaches
<1> QED BY <1>1, <1>5, <1>6, <1>13

LEMMA AnswerBest ==
  ASSUME Full(tree, routes), Stands(tree, routes), prefix \in Seq(STRING),
         NEW method, NEW url \in Seq(STRING), IsAnswer(method, url)
  PROVE  RoutedByPrecedence
<1>1. PICK req : req = [method |-> method, url |-> url]
  OBVIOUS
<1>2. req.method = method /\ req.url = url
  BY <1>1
<1>3. PICK r : r = GetRoute(tree, prefix, req)
  OBVIOUS
<1>4. reply.func = r.func /\ reply.method = method /\ reply.url = url
  BY <1>1, <1>3 DEF IsAnswer
<1>5. PICK w, b : /\ Grown(tree, routes, w, b)
                  /\ \A a \in 1 .. Len(routes) : Covered(tree, routes, w, a)
  BY DEF Full
<1>6. PICK i \in Nat : i = Len(prefix) + 1
  OBVIOUS
<1>7. /\ TreeTypes(tree, routes) /\ Root \in 0 .. Len(tree) /\ Inner(tree, Root)
      /\ w[Root] = <<>> /\ Len(<<>>) = 0
  BY <1>5 DEF Grown, TreeTypes, Ordered, Labels, Root, Inner
<1>8. ASSUME NEW a \in Matching(method, url) PROVE r.func # 0 /\ Precedes(r.func, a)
  <2>1. a \in 1 .. Len(routes)
    BY DEF Matching
  <2>2. routes[a].path \in Seq(STRING)
    BY <1>7, <2>1, RouteFacts
  <2>3. /\ Len(url) > Len(prefix) /\ IsPrefix(prefix, url)
        /\ Reaches(routes, <<>>, req, i, a)
    BY <1>2, <1>6, <2>2, MatchReaches
  <2>4. Best(tree, w, req, Root, i, a)
    BY <1>5, <1>7, <2>1, <2>3, BestEverywhere
  <2>5. r = firstFound(tree, Root, getRoute(tree, req), i)
    BY <1>2, <1>3, <1>6, <2>3 DEF GetRoute
  <2>6. r.func # 0 /\ Below(r.func, a, 0)
    BY <1>7, <2>4, <2>5 DEF Best
  <2>7. Precedes(r.func, a)
    <3>1. 0 + 1 = 1
      OBVIOUS
    <3> QED BY <2>6, <3>1 DEF Below, Precedes
  <2> QED BY <2>6, <2>7
<1>9. r.func # 0 => r.func \in Matching(method, url)
  BY <1>2, <1>3, FoundMatches
<1> QED BY <1>4, <1>8, <1>9 DEF RoutedByPrecedence

-----------------------------------------------------------------------------
(* Precedence in every state.                                                *)

NoSlashes(rs) == \A n \in 1 .. Len(rs) : ~Slashed(rs[n].path)

FullInv == NoSlashes(routes) => Full(tree, routes)

LEMMA FullInit == Init => FullInv
<1> SUFFICES Full(<<>>, <<>>)
  BY DEF Init, FullInv
<1> DEFINE w == [n \in 0 .. 0 |-> <<>>]
           b == [n \in 0 .. 0 |-> 0]
<1>1. <<>> \in Seq(Node) /\ <<>> \in Seq(Route) /\ Len(<<>>) = 0 /\ 1 .. 0 = {} /\ 0 .. 0 = {0}
  OBVIOUS
<1>2. TreeTypes(<<>>, <<>>)
  BY <1>1 DEF TreeTypes, Ordered
<1>3. w \in [0 .. 0 -> Seq(STRING)] /\ w[Root] = <<>> /\ Root \in 0 .. 0
  BY DEF Root
<1>4. b \in [0 .. 0 -> Nat] /\ b[Root] = 0 /\ \A m, n \in 0 .. 0 : m <= n => b[m] <= b[n]
  BY DEF Root
<1> HIDE DEF w, b
<1>5. Labels(<<>>, <<>>, w, 0 .. Len(<<>>))
  BY <1>1, <1>3 DEF Labels
<1>6. Unique(<<>>, w)
  BY <1>1 DEF Unique
<1>7. Births(<<>>, <<>>, w, b)
  BY <1>1, <1>4 DEF Births
<1>8. Grown(<<>>, <<>>, w, b)
  BY <1>2, <1>5, <1>6, <1>7 DEF Grown
<1> QED BY <1>1, <1>8 DEF Full

LEMMA FullStep == TreeInv /\ FullInv /\ [Next]_vars => FullInv'
<1> SUFFICES ASSUME TreeInv, FullInv, [Next]_vars PROVE FullInv'
  OBVIOUS
<1>1. ASSUME UNCHANGED <<tree, routes>> PROVE FullInv'
  BY <1>1 DEF FullInv
<1>2. ASSUME NEW method \in Methods, NEW path \in Paths, use(method, path) PROVE FullInv'
  <2>1. PICK r : r = [method |-> method, path |-> path]
    OBVIOUS
  <2>2. r \in Route /\ r.method = method /\ r.path = path
    BY <2>1 DEF Route
  <2>3. routes' = Append(routes, r) /\ tree' = insertChild(tree, path, method, Len(routes'))
    BY <1>2, <2>1 DEF use
  <2>4. /\ Len(routes) \in Nat /\ Len(routes') = Len(routes) + 1
        /\ routes'[Len(routes) + 1] = r
        /\ \A a \in 1 .. Len(routes) : routes'[a] = routes[a]
    <3>1. TreeTypes(tree, routes)
      BY DEF TreeInv, Stands
    <3> QED BY <2>2, <2>3, <3>1, MoreRoutes
  <2>5. ASSUME NoSlashes(routes') PROVE Full(tree', routes')
    <3>1. \A a \in 1 .. Len(routes) : ~Slashed(routes[a].path)
      <4>1. \A a \in 1 .. Len(routes) : a \in 1 .. Len(routes')
        BY <2>4
      <4> QED BY <2>4, <2>5, <4>1 DEF NoSlashes
    <3>2. ~Slashed(r.path)
      <4>1. Len(routes) + 1 \in 1 .. Len(routes')
        BY <2>4
      <4> QED BY <2>4, <2>5, <4>1 DEF NoSlashes
    <3>3. Full(tree, routes)
      BY <3>1 DEF FullInv, NoSlashes
    <3>4. Full(insertChild(tree, r.path, r.method, Len(routes) + 1), Append(routes, r))
      BY <2>2, <3>2, <3>3, InsertFull
    <3> QED BY <2>2, <2>3, <2>4, <3>4
  <2> QED BY <2>5 DEF FullInv
<1>3. ASSUME NEW p \in URLPrefixes, withURLPrefix(p) PROVE FullInv'
  BY <1>1, <1>3 DEF withURLPrefix
<1>4. CASE build
  BY <1>1, <1>4 DEF build
<1>5. ASSUME NEW method \in Methods, NEW url \in Urls, route(method, url) PROVE FullInv'
  BY <1>1, <1>5 DEF route
<1>6. CASE UNCHANGED vars
  BY <1>1, <1>6 DEF vars
<1> QED BY <1>2, <1>3, <1>4, <1>5, <1>6 DEF Next

\* Without empty segments in the routes backtracking misses none: the lookup
\* takes, of all the routes that match, the one whose branches were begun first.
THEOREM RouterPrecedence == Spec => []RoutedByPrecedence
<1>1. ASSUME TreeInv, Replied, FullInv PROVE RoutedByPrecedence
  <2>1. CASE reply = NoReply
    <3>1. reply.url = <<>> /\ Len(<<>>) = 0
      BY <2>1 DEF NoReply
    <3>2. Len(prefix) \in Nat
      BY <1>1, InTypes DEF TreeInv
    <3>3. ~(Len(reply.url) > Len(prefix))
      BY <3>1, <3>2
    <3>4. Matching(reply.method, reply.url) = {}
      BY <3>3 DEF Matching, Matches
    <3> QED BY <3>4 DEF RoutedByPrecedence
  <2>2. ASSUME NEW method \in Methods, NEW url \in Urls, IsAnswer(method, url)
        PROVE  RoutedByPrecedence
    <3>1. CASE NoSlashes(routes)
      BY <1>1, <2>2, <3>1, InTypes, UrlTypes, AnswerBest DEF TreeInv, FullInv
    <3>2. CASE ~NoSlashes(routes)
      BY <3>2 DEF NoSlashes, RoutedByPrecedence
    <3> QED BY <3>1, <3>2
  <2> QED BY <1>1, <2>1, <2>2 DEF Replied
<1>2. Spec => []FullInv
  <2>1. Spec => []TreeInv
    BY RoutingAlways, PTL
  <2> QED BY <2>1, FullInit, FullStep, PTL DEF Spec
<1> QED BY <1>1, <1>2, RoutingAlways, PTL
===============================================================================
