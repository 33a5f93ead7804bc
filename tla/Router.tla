-------------------------------- MODULE Router --------------------------------
(***************************************************************************)
(* HttpRouteBuilder and HttpRouter (src/src/router.cpp): routes are added  *)
(* to a tree of URL segments, the tree is frozen, and requests are looked  *)
(* up in it depth first, with backtracking.                                *)
(*                                                                         *)
(* A path or a URL is the sequence of what stands behind its slashes       *)
(* (utils::splitURL): "/a/b" is <<"a", "b">>, "/a/" is <<"a", "">>; "/" is *)
(* <<>> as a path and <<"">> as a URL.  The text of a segment is one       *)
(* value; the pointer `current' of the code is the index of a segment.     *)
(***************************************************************************)
EXTENDS Integers, Sequences, FiniteSets, SequencesExt

CONSTANTS
  Methods,
  Paths,         (* paths routes are added with                             *)
  Urls,          (* base URLs of requests, each with a leading slash        *)
  URLPrefixes,      (* arguments of withURLPrefix()                            *)
  ParamName,     (* the name in each segment isParam() holds for            *)
  MatchCode,     (* what pcre2_match returns for the regex of each such     *)
                 (* segment, for the texts that it matches                  *)
  MaxRoutes      (* bound: routes added                                     *)

ASSUME RouterAssumption ==
  /\ Paths \subseteq Seq(STRING) /\ Urls \subseteq Seq(STRING) \ {<<>>}
  /\ <<>> \in URLPrefixes /\ URLPrefixes \subseteq Seq(STRING)
  /\ DOMAIN ParamName = DOMAIN MatchCode /\ MaxRoutes \in Nat

VARIABLES
  tree,      (* the nodes in the order of their creation; 0 is the root     *)
  prefix,    (* _myNodeName of the root                                     *)
  frozen,    (* the HttpRouter has been built                               *)
  routes,    (* the routes as they were added: handler n is the n-th        *)
  reply      (* the last lookup                                             *)

vars == <<tree, prefix, frozen, routes, reply>>

isParam(segment) == segment \in DOMAIN ParamName

Root == 0
NoMethod == ""
NotFound == [func |-> 0, params |-> {}]
NoReply == [method |-> NoMethod, url |-> <<>>, func |-> 0, params |-> {}]

\* TreeNode, and the HttpRouteNode build() makes of it.  A node that ends a
\* route has the empty name, like the segment behind a trailing slash.
Segment(parent, segment) ==
  [parent |-> parent, kind |-> IF isParam(segment) THEN "param" ELSE "string",
   name |-> segment, method |-> NoMethod, func |-> 0]

End(parent, method, func) ==
  [parent |-> parent, kind |-> "end", name |-> "", method |-> method, func |-> func]

Children(nodes, n) == {c \in 1..Len(nodes) : nodes[c].parent = n}

-----------------------------------------------------------------------------
(* Building.                                                                *)

SameName(nodes, n, segment) == {c \in Children(nodes, n) : nodes[c].name = segment}

\* One level of insertChild(): [nodes, at] with `at' moved to the child called
\* `segment', which is appended unless there is one.
Descend(position, segment) ==
  LET same == SameName(position.nodes, position.at, segment)
  IN IF same # {} THEN [position EXCEPT !.at = Min(same)]
     ELSE [nodes |-> Append(position.nodes, Segment(position.at, segment)),
           at |-> Len(position.nodes) + 1]

\* The nodes, and the place among them, after each number of segments.
Walk(nodes, path) ==
  LET walk[k \in 0..Len(path)] ==
        IF k = 0 THEN [nodes |-> nodes, at |-> Root] ELSE Descend(walk[k - 1], path[k])
  IN walk

insertChild(nodes, path, method, func) ==
  LET reached == Walk(nodes, path)[Len(path)]
  IN Append(reached.nodes, End(reached.at, method, func))

\* HttpRouteBuilder::use()
use(method, path) ==
  /\ ~frozen /\ Len(routes) < MaxRoutes
  /\ routes' = Append(routes, [method |-> method, path |-> path])
  /\ tree' = insertChild(tree, path, method, Len(routes'))
  /\ UNCHANGED <<prefix, frozen, reply>>

withURLPrefix(p) ==
  /\ ~frozen
  /\ prefix' = p
  /\ UNCHANGED <<tree, frozen, routes, reply>>

\* HttpRouter(HttpRouteBuilder &&), build(): the tree is copied node by node.
build ==
  /\ ~frozen
  /\ frozen' = TRUE
  /\ UNCHANGED <<tree, prefix, routes, reply>>

-----------------------------------------------------------------------------
(* Looking up.                                                              *)

\* current >= end: behind the last segment, or at an empty last segment.
AtEnd(url, i) == i > Len(url) \/ (i = Len(url) /\ url[i] = "")

\* MUTANT: the value next to the root wins.
addParamLast(params, name, value) ==
  {p \in params : p[1] # name} \cup {<<name, value>>}

\* RestfulHttpRequest::addParam: a name that is there keeps its value.
addParam(params, name, value) ==
  IF \E p \in params : p[1] = name THEN params ELSE params \cup {<<name, value>>}

\* MUTANT: the first child settles the lookup.
FirstAsked(asked, found) == asked

\* MUTANT: the loop does not end at the first child that has a route.
LastAsked(asked, found) == IF asked = {} THEN {} ELSE {Max(asked)}

\* The children that have a route for the rest of the URL: those before the
\* first of them gave emptyMiddleware, those behind it are not asked.
Successful(asked, found) == {c \in asked : found[c].func # 0}

EndsFor(node, method) == node.method = method

\* MUTANT: every match counts.
matchAny(segment, text) == text \in DOMAIN MatchCode[segment]

\* regex::match: the code is 1 when no capture group of the regex took part.
match(segment, text) ==
  text \in DOMAIN MatchCode[segment] /\ MatchCode[segment][text] = 1

\* The loop over the children of a node, whose answers are in found.
firstFound(nodes, n, found, i) ==
  LET children == [c \in Children(nodes, n) |-> found[c][i]]
      ok == Successful(DOMAIN children, children)
  IN IF ok = {} THEN NotFound ELSE children[Min(ok)]

\* getRoute() of the three kinds of nodes.  A parameter is added on the way
\* back from a successful lookup only.
Answer(nodes, found, n, req, i) ==
  LET node == nodes[n]
      below == firstFound(nodes, n, found, i + 1)
  IN CASE node.kind = "end" /\ AtEnd(req.url, i) /\ EndsFor(node, req.method) ->
            [func |-> node.func, params |-> {}]
       [] node.kind = "string" /\ ~AtEnd(req.url, i) /\ req.url[i] = node.name -> below
       [] /\ node.kind = "param" /\ ~AtEnd(req.url, i)
          /\ match(node.name, req.url[i]) /\ below.func # 0 ->
            [below EXCEPT !.params = addParam(@, ParamName[node.name], req.url[i])]
       [] OTHER -> NotFound

\* For each node, and each segment of the URL it is asked for.
getRoute(nodes, req) ==
  LET found[n \in 1..Len(nodes)] == [i \in Nat |-> Answer(nodes, found, n, req, i)]
  IN found

\* HttpRouteRootNode::getRoute: behind the prefix there must be a slash.
GetRoute(nodes, p, req) ==
  IF Len(req.url) > Len(p) /\ IsPrefix(p, req.url)
  THEN firstFound(nodes, Root, getRoute(nodes, req), Len(p) + 1) ELSE NotFound

\* HttpRouter::operator(): what is not found is a NotFoundException.
route(method, url) ==
  LET found == GetRoute(tree, prefix, [method |-> method, url |-> url])
  IN /\ frozen
     /\ reply' = [method |-> method, url |-> url, func |-> found.func, params |-> found.params]
     /\ UNCHANGED <<tree, prefix, frozen, routes>>

Init ==
  /\ tree = <<>> /\ prefix = <<>> /\ frozen = FALSE
  /\ routes = <<>> /\ reply = NoReply

Next ==
  \/ \E method \in Methods, path \in Paths : use(method, path)
  \/ \E p \in URLPrefixes : withURLPrefix(p)
  \/ build
  \/ \E method \in Methods, url \in Urls : route(method, url)

Spec == Init /\ [][Next]_vars

-----------------------------------------------------------------------------
(* The reference: what routing means, without a tree.                       *)

\* What the URL asks for behind the prefix: one trailing slash is free.
Rest(url) ==
  LET rest == SubSeq(url, Len(prefix) + 1, Len(url))
  IN IF rest[Len(rest)] = "" THEN SubSeq(rest, 1, Len(rest) - 1) ELSE rest

\* A regex accepts what it matches without the help of a capture group.
Fits(segment, text) ==
  IF isParam(segment) THEN <<text, 1>> \in {<<t, MatchCode[segment][t]>> : t \in DOMAIN MatchCode[segment]}
  ELSE segment = text

Matches(r, method, url) ==
  /\ r.method = method
  /\ Len(url) > Len(prefix) /\ IsPrefix(prefix, url)
  /\ Len(r.path) = Len(Rest(url))
  /\ \A i \in 1..Len(r.path) : Fits(r.path[i], Rest(url)[i])

Matching(method, url) == {n \in 1..Len(routes) : Matches(routes[n], method, url)}

\* Paths that end with a slash, or have two in a row.
Slashed(path) == \E i \in 1..Len(path) : path[i] = ""

\* The first route that begins with the same i segments as route n.
Birth(n, i) ==
  Min({m \in 1..Len(routes) : Len(routes[m].path) >= i /\
           \A j \in 1..i : routes[m].path[j] = routes[n].path[j]})

\* Segment by segment the branch that was begun first has precedence; of two
\* routes with the same path, the one added first.
Precedes(m, n) ==
  LET len == Len(routes[n].path)
  IN \/ \E i \in 1..len : /\ Birth(m, i) < Birth(n, i)
                          /\ \A j \in 1..(i - 1) : Birth(m, j) = Birth(n, j)
     \/ /\ \A i \in 1..len : Birth(m, i) = Birth(n, i)
        /\ m <= n

-----------------------------------------------------------------------------
(* Properties.                                                              *)

TypeOK ==
  /\ \A n \in 1..Len(tree) :
       /\ tree[n].parent \in 0..(n - 1)
       /\ tree[n].kind \in {"string", "param", "end"}
       /\ tree[n].func \in 0..Len(routes)
  /\ prefix \in URLPrefixes /\ frozen \in BOOLEAN
  /\ routes \in Seq([method : Methods, path : Paths])
  /\ reply.func \in 0..Len(routes)

\* A handler is called only for a request its route stands for: its method,
\* the prefix, as many segments, and each text equal to the segment or
\* accepted by its regex (a match in which a capture group takes part is not
\* an acceptance).
RoutedSoundly ==
  reply.func # 0 => reply.func \in Matching(reply.method, reply.url)

\* When no path is slashed, backtracking misses nothing: NotFoundException
\* means that no route matches, and of those that match the one is taken whose
\* first differing segment was added first (not the one that was added first).
RoutedByPrecedence ==
  LET ms == Matching(reply.method, reply.url)
  IN (\A n \in 1..Len(routes) : ~Slashed(routes[n].path)) /\ ms # {} =>
       reply.func \in ms /\ \A n \in ms : Precedes(reply.func, n)

\* The parameters are those of the route taken, nothing is left of branches
\* that were given up, and a name used twice has the text of the last segment.
ParamsOfTheRoute ==
  LET path == routes[reply.func].path
      named == [i \in {j \in 1..Len(path) : isParam(path[j])} |-> ParamName[path[i]]]
  IN reply.func # 0 =>
       reply.params =
         { <<name, Rest(reply.url)[Max({i \in DOMAIN named : named[i] = name})]>> :
             name \in {named[i] : i \in DOMAIN named} }

\* Adding a route never makes a URL unroutable that had a route before,
\* although it may give the URL to another handler.
RoutableStays ==
  [][ routes' # routes =>
        \A method \in Methods, url \in Urls :
          LET req == [method |-> method, url |-> url]
          IN GetRoute(tree, prefix, req).func # 0 => GetRoute(tree', prefix, req).func # 0
    ]_vars
===============================================================================
