----------------------------- MODULE WhsLifecycle -----------------------------
(***************************************************************************)
(* Class Whs (src/src/whs.cpp) as its user sees it: builders are filled,   *)
(* setup(), enable_static_file(), setNotFoundHandler() and start() are     *)
(* called, requests come in, the object is destroyed.  The calls come in   *)
(* any order the compiler accepts.                                         *)
(*                                                                         *)
(* What is followed is who holds a pointer to which middleware: a builder  *)
(* and the Pipeline made from it hold the same pointers, and ~Pipeline     *)
(* deletes what it holds.  A middleware is its number in the order of      *)
(* construction, a router likewise.                                        *)
(***************************************************************************)
EXTENDS Naturals, Sequences, SequencesExt

CONSTANTS
  Builders,     (* the PipelineBuilders of the application                  *)
  Raw,          (* a RawWhs, whose in() brings requests at any time; a      *)
                (* LibuvWhs brings them while start() runs                  *)
  MaxMade,      (* bound: middlewares constructed                           *)
  MaxGiven      (* bound: how often one builder is given to setup()         *)

ASSUME LifecycleAssumption == Raw \in BOOLEAN /\ {MaxMade, MaxGiven} \subseteq Nat

VARIABLES
  made,         (* the kind of each middleware constructed                  *)
  deleted,      (* those that have been deleted                             *)
  content,      (* PipelineBuilder::_wares                                  *)
  given,        (* for each time a builder was given to setup(), how many   *)
                (* middlewares it had                                       *)
  before, after,                        (* the pipelines                    *)
  route,        (* there is a router                                        *)
  notFound, systemError, staticFile,    (* a middleware, or None            *)
  starts,       (* calls of start()                                         *)
  outcome       (* "alive", "destroyed", or what the process died of        *)

objects == <<made, deleted, content, given>>
members == <<before, after, route, notFound, systemError, staticFile>>
vars == <<made, deleted, content, given, before, after, route, notFound,
          systemError, staticFile, starts, outcome>>

None == 0
Kinds == {"user", "notFound", "systemError", "static", "defaults"}
Made == 1..Len(made)

Deaths == {"deletedTwice", "usedDeleted", "nullPointer"}

Init ==
  /\ made = <<>> /\ deleted = {}
  /\ content = [b \in Builders |-> <<>>] /\ given = [b \in Builders |-> <<>>]
  /\ before = <<>> /\ after = <<>> /\ route = FALSE
  /\ notFound = None /\ systemError = None /\ staticFile = None
  /\ starts = 0 /\ outcome = "alive"

\* new: one middleware of each kind in ks, numbered from Len(made) + 1.
New(ks) == Len(made) + Len(ks) <= MaxMade /\ made' = made \o ks
Fresh(k) == Len(made) + k

\* delete of the pointers in s, one after the other.
Delete(s) ==
  /\ deleted' = deleted \cup ToSet(s)
  /\ outcome' = IF IsInjective(s) /\ ToSet(s) \cap deleted = {}
                THEN outcome ELSE "deletedTwice"

\* PipelineBuilder::addMiddleware()
addToBuilder(b) ==
  /\ outcome = "alive" /\ New(<<"user">>)
  /\ content' = [content EXCEPT ![b] = Append(@, Fresh(1))]
  /\ UNCHANGED <<deleted, given, members, starts, outcome>>

\* MUTANT: the pipeline that is replaced is not deleted; both are deleted.
ReplacedKept(bef, aft) == <<>>
ReplacedBoth(bef, aft) == after \o before

\* The middlewares ~Pipeline deletes: of `after', then of `before'.
Replaced(bef, aft) ==
  (IF aft = {} THEN <<>> ELSE after) \o (IF bef = {} THEN <<>> ELSE before)

Times(b, arg) == IF b \in arg THEN <<Len(content[b])>> ELSE <<>>

\* Whs::setup(bef, r, aft), each of them a builder or nullptr (the empty set);
\* a router that is there is neither kept nor deleted.
setup(bef, r, aft) ==
  /\ outcome = "alive"
  /\ Delete(Replaced(bef, aft))
  /\ after' = IF aft = {} THEN after ELSE content[CHOOSE b \in aft : TRUE]
  /\ before' = IF bef = {} THEN before ELSE content[CHOOSE b \in bef : TRUE]
  /\ route' = (route \/ r)
  /\ given' = [b \in Builders |-> given[b] \o Times(b, aft) \o Times(b, bef)]
  /\ \A b \in Builders : Len(given'[b]) <= MaxGiven
  /\ UNCHANGED <<made, content, notFound, systemError, staticFile, starts>>

\* Whs::enable_static_file(): takes effect in start(); an earlier one is lost.
enable_static_file ==
  /\ outcome = "alive" /\ New(<<"static">>)
  /\ staticFile' = Fresh(1)
  /\ UNCHANGED <<deleted, content, given, before, after, route, notFound, systemError,
                 starts, outcome>>

\* Whs::setNotFoundHandler()
setNotFoundHandler ==
  /\ outcome = "alive" /\ New(<<"user">>)
  /\ Delete(IF notFound = None THEN <<>> ELSE <<notFound>>)
  /\ notFound' = Fresh(1)
  /\ UNCHANGED <<content, given, before, after, route, systemError, staticFile,
                 starts>>

\* MUTANT: start() relies on setNotFoundHandler().
NeedsNotFoundNever == FALSE

NeedsNotFound == notFound = None

WithDefaults(s, m) == Append(s, m)

\* Whs::start(): completes the pipelines and runs _start().
start ==
  /\ outcome = "alive"
  /\ IF NeedsNotFound
     THEN /\ New(<<"defaults", "systemError", "notFound">>)
          /\ notFound' = Fresh(3)
     ELSE New(<<"defaults", "systemError">>) /\ UNCHANGED notFound
  /\ after' = WithDefaults(after, Fresh(1))
  /\ systemError' = Fresh(2)
  /\ before' = IF staticFile = None THEN before ELSE Append(before, staticFile)
  /\ route' = TRUE
  /\ starts' = starts + 1
  /\ UNCHANGED <<deleted, content, given, staticFile, outcome>>

\* Whs::processing_request(), of a request that `ends' in the first pipeline or
\* not and has a route (`routed') or not: every pointer it follows.
processing_request(ends, routed) ==
  /\ outcome = "alive" /\ (Raw \/ starts > 0)
  /\ outcome' = IF ToSet(before) \cap deleted # {} THEN "usedDeleted"
                ELSE IF ~ends /\ (~route \/ (~routed /\ notFound = None)) THEN "nullPointer"
                ELSE IF ToSet(after) \cap deleted # {} THEN "usedDeleted"
                ELSE outcome
  /\ UNCHANGED <<objects, members, starts>>

Single(m) == IF m = None THEN <<>> ELSE <<m>>

\* Whs::~Whs(): both pipelines, notFound and systemError.
destroy ==
  LET all == before \o after \o Single(notFound) \o Single(systemError)
  IN /\ outcome = "alive"
     /\ deleted' = deleted \cup ToSet(all)
     /\ outcome' = IF IsInjective(all) /\ ToSet(all) \cap deleted = {}
                   THEN "destroyed" ELSE "deletedTwice"
     /\ UNCHANGED <<made, content, given, members, starts>>

OneOrNone == {{}} \cup {{b} : b \in Builders}

Next ==
  \/ \E b \in Builders : addToBuilder(b)
  \/ \E bef, aft \in OneOrNone, r \in BOOLEAN : setup(bef, r, aft)
  \/ enable_static_file \/ setNotFoundHandler \/ start
  \/ \E ends, routed \in BOOLEAN : processing_request(ends, routed)
  \/ destroy

Spec == Init /\ [][Next]_vars

-----------------------------------------------------------------------------
(* Properties.                                                              *)

TypeOK ==
  /\ made \in Seq(Kinds) /\ deleted \subseteq Made
  /\ \A b \in Builders : ToSet(content[b]) \subseteq Made
  /\ given \in [Builders -> Seq(Nat)] /\ starts \in Nat
  /\ ToSet(before) \cup ToSet(after) \subseteq Made
  /\ {notFound, systemError, staticFile} \subseteq Made \cup {None}
  /\ route \in BOOLEAN
  /\ outcome \in {"alive", "destroyed"} \cup Deaths

\* The same middlewares came into a pipeline twice: their builder was given to
\* setup() more than once, or start() added the static file server again.
Shared ==
  \/ \E b \in Builders : \E i, j \in 1..Len(given[b]) : i < j /\ given[b][i] > 0 /\ given[b][j] > 0
  \/ starts > 1 /\ staticFile # None

\* No middleware is deleted twice or used when it has been deleted, in whatever
\* order the configuration calls come and however often setup() replaces the
\* pipelines, as long as no middleware is shared.
DeletedOnce == outcome \in {"deletedTwice", "usedDeleted"} => Shared

\* A missing route or handler is met only before start() has supplied them.
CompleteOnceStarted == outcome = "nullPointer" => starts = 0

\* Whatever was set up before or after the one start(), as long as no middleware
\* is shared, the destructor leaves nothing but what the server never got: the
\* middlewares of a builder it was not given, and a static file server that was
\* enabled too late or replaced.
NeverHanded(m) ==
  \E b \in Builders : \E i \in 1..Len(content[b]) :
    content[b][i] = m /\ \A k \in 1..Len(given[b]) : given[b][k] < i

NothingLeft ==
  outcome = "destroyed" /\ ~Shared /\ starts <= 1 =>
    \A m \in Made \ deleted :
      NeverHanded(m) \/ (made[m] = "static" /\ m \notin ToSet(before))
===============================================================================
