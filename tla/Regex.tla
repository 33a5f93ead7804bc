-------------------------------- MODULE Regex --------------------------------
(***************************************************************************)
(* utils::regex over PCRE2 (src/src/internal.cpp): the objects that own a  *)
(* compiled pattern, the loop of execute() that collects every match in a  *)
(* subject, and parseQueryString() (src/src/utils.cpp), which reads the    *)
(* arguments of a URL out of the matches.                                  *)
(*                                                                         *)
(* PCRE2 itself is external.  What a pattern does on one subject is two    *)
(* offsets for every offset i of the subject: where the match starting at  *)
(* i ends that the pattern prefers, and where the one ends that it prefers *)
(* among those that are not empty; None for no such match.  Any pattern    *)
(* without \K and \G is such a function.                                   *)
(***************************************************************************)
EXTENDS Integers, Sequences, FiniteSets

CONSTANTS
  Objects,    (* regex objects                                              *)
  MaxCodes,   (* bound: patterns compiled                                   *)
  Subjects,   (* bound: the subjects of execute(): bytes, and whether the   *)
              (* pattern is UTF and knows CRLF as a newline                 *)
  Queries     (* bound: the arguments of parseQueryString()                 *)

ASSUME RegexAssumption ==
  /\ MaxCodes \in Nat
  /\ \A s \in Subjects : s.bytes \in Seq(STRING) /\ {s.utf, s.crlf} \subseteq BOOLEAN
  \* Any other UTF subject PCRE2 refuses before it runs the pattern.
  /\ \A s \in Subjects : s.utf =>
       \A n \in DOMAIN s.bytes :
         s.bytes[n] = "continuation" => n > 1 /\ s.bytes[n - 1] \notin {"CR", "LF"}
  \* onURL gives the URL from its first '?' on; "end" is no byte.
  /\ \A q \in Queries : /\ q \in Seq(STRING) /\ q # <<>> /\ q[1] = "?"
                         /\ \A n \in DOMAIN q : q[n] # "end"

VARIABLES
  obj,        (* the regex in each object                                   *)
  codes,      (* patterns compiled so far                                   *)
  frees,      (* calls of pcre2_code_free for each of them                  *)
  lost,       (* patterns whose only pointer was overwritten                *)
  touched,    (* objects made by a move, or swapped, since their compile()  *)
  pc,         (* where execute() is                                         *)
  isQuery,    (* it was called by parseQueryString()                        *)
  subject, pattern,
  ov,         (* ovector[0] and ovector[1]                                  *)
  group,      (* the matches collected                                      *)
  status,
  failed      (* PCRE2 gave up on a match (its match limit)                 *)

objectVars == <<obj, codes, frees, lost, touched>>
callVars == <<pc, isQuery, subject, pattern, ov, group, status, failed>>
vars == <<objectVars, callVars>>

None == -1
Junk == -1     (* a member the constructor leaves as it finds it            *)

\* No object, and one that nothing points to any more.
Absent == [re |-> -1, table |-> 0, count |-> 0]
Leaked == [re |-> -2, table |-> 0, count |-> 0]

-----------------------------------------------------------------------------
(* Objects.  A pattern is a number; name_table points into its memory, and  *)
(* namecount, name_entry_size, ob and nl describe it.                       *)

Held(o) == obj[o] \notin {Absent, Leaked}

Compiled(n) == [re |-> n, table |-> n, count |-> n]

\* MUTANT: the tables are read once, when an object has none.
FirstTables(o, n) == [re |-> n,
                      table |-> IF obj[o].table = 0 THEN n ELSE obj[o].table,
                      count |-> IF obj[o].count = 0 THEN n ELSE obj[o].count]

\* re.re = ret; re.init_pcre2();
init_pcre2(o, n) == Compiled(n)

\* MUTANT: the object moved from keeps its pattern.
MovedFromKeeps(o) == obj[o]

\* other.re = nullptr, and nothing else of it.
MovedFrom(o) == [obj[o] EXCEPT !.re = 0]

\* regex(): all zero.
regex(o) ==
  /\ pc = "idle" /\ obj[o] = Absent
  /\ obj' = [obj EXCEPT ![o] = [re |-> 0, table |-> 0, count |-> 0]]
  /\ touched' = touched \ {o}
  /\ UNCHANGED <<codes, frees, lost, callVars>>

\* compile(pattern, re): what `re' held before is not freed.  A pattern that
\* does not compile changes nothing.
compile(o, valid) ==
  /\ pc = "idle" /\ Held(o)
  /\ valid => codes < MaxCodes
  /\ IF valid
     THEN /\ codes' = codes + 1
          /\ obj' = [obj EXCEPT ![o] = init_pcre2(o, codes')]
          /\ lost' = lost \cup ({obj[o].re} \ {0})
          /\ touched' = touched \ {o}
     ELSE UNCHANGED <<obj, codes, lost, touched>>
  /\ UNCHANGED <<frees, callVars>>

\* compile(pattern): a new object, which nobody deletes when the pattern does
\* not compile.
compileNew(o, valid) ==
  /\ pc = "idle" /\ obj[o] = Absent
  /\ valid => codes < MaxCodes
  /\ codes' = codes + (IF valid THEN 1 ELSE 0)
  /\ obj' = [obj EXCEPT ![o] = IF valid THEN Compiled(codes') ELSE Leaked]
  /\ touched' = touched \ {o}
  /\ UNCHANGED <<frees, lost, callVars>>

\* regex(regex&&): takes the pattern alone.
move(from, to) ==
  /\ pc = "idle" /\ Held(from) /\ obj[to] = Absent
  /\ obj' = [obj EXCEPT ![to] = [re |-> obj[from].re, table |-> Junk, count |-> Junk],
                        ![from] = MovedFrom(from)]
  /\ touched' = touched \cup {to}
  /\ UNCHANGED <<codes, frees, lost, callVars>>

\* swap: namecount is swapped with itself.
swap(o, p) ==
  /\ pc = "idle" /\ o # p /\ Held(o) /\ Held(p)
  /\ obj' = [obj EXCEPT ![o] = [obj[p] EXCEPT !.count = obj[o].count],
                        ![p] = [obj[o] EXCEPT !.count = obj[p].count]]
  /\ touched' = touched \cup {o, p}
  /\ UNCHANGED <<codes, frees, lost, callVars>>

\* ~regex(): pcre2_code_free does nothing with a null pointer.
destroy(o) ==
  /\ pc = "idle" /\ Held(o)
  /\ frees' = [n \in DOMAIN frees |-> frees[n] + (IF obj[o].re = n THEN 1 ELSE 0)]
  /\ obj' = [obj EXCEPT ![o] = Absent]
  /\ touched' = touched \ {o}
  /\ UNCHANGED <<codes, lost, callVars>>

-----------------------------------------------------------------------------
(* External: PCRE2.                                                         *)

Length(s) == Len(s.bytes)

Byte(s, i) == IF i < Length(s) THEN s.bytes[i + 1] ELSE "end"

\* A character of a UTF subject starts at i.
Boundary(s, i) == s.utf => Byte(s, i) # "continuation"

Attempts(s, i) ==
  LET ends == {e \in i + 1 .. Length(s) : Boundary(s, e)}
      none == [first |-> None, nonempty |-> None]
  IN IF ~Boundary(s, i) THEN {none}
     ELSE {none} \cup {[first |-> e, nonempty |-> e] : e \in ends}
                 \cup {[first |-> i, nonempty |-> e] : e \in ends \cup {None}}

Patterns(s) == {p \in [0 .. Length(s) -> UNION {Attempts(s, i) : i \in 0 .. Length(s)}] :
                  \A i \in 0 .. Length(s) : p[i] \in Attempts(s, i)}

\* The end of the match at i, with PCRE2_NOTEMPTY_ATSTART or without.
End(i, notEmpty) == IF notEmpty THEN pattern[i].nonempty ELSE pattern[i].first

\* pcre2_match: `retry' is PCRE2_NOTEMPTY_ATSTART | PCRE2_ANCHORED.
Starts(offset, retry) ==
  {i \in IF retry THEN {offset} ELSE offset .. Length(subject) : End(i, retry) # None}

Earliest(S) == CHOOSE i \in S : \A j \in S : i <= j

pcre2_match(offset, retry) ==
  LET i == Earliest(Starts(offset, retry)) IN <<i, End(i, retry)>>

-----------------------------------------------------------------------------
(* execute(): the first match, and then one turn of for (;;) at a time.     *)

Begin(s, p, query) ==
  /\ pc' = "first" /\ isQuery' = query
  /\ subject' = s /\ pattern' = p
  /\ UNCHANGED <<ov, group, status, failed>>

\* Bound: a pattern is run only while it is the first and in the one object.
InBounds(o) ==
  /\ pc = "idle" /\ obj[o] = Compiled(1)
  /\ \A p \in Objects \ {o} : obj[p] = Absent

execute(o, s, p) ==
  /\ pc = "idle" /\ Held(o) /\ obj[o].re # 0
  /\ Begin(s, p, FALSE)
  /\ UNCHANGED objectVars

\* pcre2_match_data_create_from_pattern reads the null pointer of an EMPTY
\* regex.
executeEmpty(o) ==
  /\ pc = "idle" /\ Held(o) /\ obj[o].re = 0
  /\ pc' = "died"
  /\ UNCHANGED <<objectVars, isQuery, subject, pattern, ov, group, status, failed>>

Collect(match) ==
  /\ ov' = match /\ group' = Append(group, match)
  /\ status' = TRUE /\ pc' = "again"
  /\ UNCHANGED failed

Finish(ok, error) ==
  /\ pc' = "done" /\ status' = ok /\ failed' = error
  /\ UNCHANGED <<ov, group>>

firstMatch ==
  /\ pc = "first"
  /\ \/ Starts(0, FALSE) # {} /\ Collect(pcre2_match(0, FALSE))
     \/ Starts(0, FALSE) = {} /\ Finish(FALSE, FALSE)
  /\ UNCHANGED <<objectVars, isQuery, subject, pattern>>

Empty == ov[1] = ov[2]

\* MUTANT: the offset is not moved.
NotBeyond(offset) == offset

\* The next offset to try behind an empty match: behind a CRLF, or at the
\* next character.
Beyond(offset) ==
  IF /\ subject.crlf /\ offset < Length(subject) - 1
     /\ Byte(subject, offset) = "CR" /\ Byte(subject, offset + 1) = "LF"
  THEN offset + 2
  ELSE Earliest({i \in offset + 1 .. Length(subject) : Boundary(subject, i)})

\* MUTANT: the loop ends at the first match that is not found.
NoMatchEnds == Finish(TRUE, FALSE)

\* PCRE2_ERROR_NOMATCH.  ov[0] stays, so that Empty is false in the next turn.
NoMatch ==
  IF ~Empty THEN Finish(TRUE, FALSE)
  ELSE /\ ov' = <<ov[1], Beyond(ov[2])>>
       /\ UNCHANGED <<pc, group, status, failed>>

\* options: behind an empty match, one that is not empty at the same offset.
Retries == Empty

\* An offset inside a character is PCRE2_ERROR_BADUTFOFFSET.
again ==
  /\ pc = "again"
  /\ IF Empty /\ ov[1] = Length(subject) THEN Finish(TRUE, FALSE)
     ELSE \/ /\ Boundary(subject, ov[2]) /\ Starts(ov[2], Retries) # {}
             /\ Collect(pcre2_match(ov[2], Retries))
          \/ Boundary(subject, ov[2]) /\ Starts(ov[2], Retries) = {} /\ NoMatch
          \/ ~Boundary(subject, ov[2]) /\ Finish(FALSE, FALSE)
  /\ UNCHANGED <<objectVars, isQuery, subject, pattern>>

\* PCRE2 gives up on a match (rc < 0): the loop ends with status = false, and
\* the matches collected stay in group.
giveUp ==
  /\ pc \in {"first", "again"}
  /\ pc = "again" => ~(Empty /\ ov[1] = Length(subject))
  /\ Finish(FALSE, TRUE)
  /\ UNCHANGED <<objectVars, isQuery, subject, pattern>>

NoSubject == [bytes |-> <<>>, utf |-> FALSE, crlf |-> FALSE]
NoPattern == [i \in {} |-> 0]

return ==
  /\ pc = "done"
  /\ pc' = "idle" /\ isQuery' = FALSE /\ subject' = NoSubject /\ pattern' = NoPattern
  /\ ov' = <<0, 0>> /\ group' = <<>> /\ status' = FALSE /\ failed' = FALSE
  /\ UNCHANGED objectVars

-----------------------------------------------------------------------------
(* parseQueryString().                                                      *)

\* "(\?|\&)(?<name>[^=]+)\=(?<value>[^&]*)": where the name that starts behind
\* offset i ends, and where the value behind that.
NameEnd(s, i) == {e \in i + 2 .. Length(s) - 1 :
                    Byte(s, e) = "=" /\ \A k \in i + 1 .. e - 1 : Byte(s, k) # "="}
ValueEnd(s, e) == Earliest({v \in e + 1 .. Length(s) : Byte(s, v) \in {"&", "end"}})

QueryAttempt(s, i) ==
  IF Byte(s, i) \in {"?", "&"} /\ NameEnd(s, i) # {}
  THEN LET v == ValueEnd(s, Earliest(NameEnd(s, i))) IN [first |-> v, nonempty |-> v]
  ELSE [first |-> None, nonempty |-> None]

QueryRegex(s) == [i \in 0 .. Length(s) |-> QueryAttempt(s, i)]

\* Bound: before any other object is made; the regex is the function's own.
parseQueryString(q) ==
  LET s == [bytes |-> q, utf |-> FALSE, crlf |-> FALSE]
  IN /\ pc = "idle" /\ codes = 0 /\ \A o \in Objects : obj[o] = Absent
     /\ Begin(s, QueryRegex(s), TRUE)
     /\ UNCHANGED objectVars

\* The named groups of the k-th match.
Name(k) == LET i == group[k][1]
           IN SubSeq(subject.bytes, i + 2, Earliest(NameEnd(subject, i)))
Value(k) == LET i == group[k][1]
            IN SubSeq(subject.bytes, Earliest(NameEnd(subject, i)) + 2, group[k][2])

\* MUTANT: a later value replaces an earlier one.
LastNamed(S) == CHOOSE i \in S : \A j \in S : i >= j

\* std::map::emplace.
Emplaced(S) == Earliest(S)

\* dict.emplace for each match, if status.
dict ==
  IF ~status THEN [n \in {} |-> <<>>]
  ELSE [n \in {Name(k) : k \in DOMAIN group} |->
          Value(Emplaced({k \in DOMAIN group : Name(k) = n}))]

-----------------------------------------------------------------------------
Init ==
  /\ obj = [o \in Objects |-> Absent]
  /\ codes = 0 /\ frees = [n \in 1..MaxCodes |-> 0] /\ lost = {} /\ touched = {}
  /\ pc = "idle" /\ isQuery = FALSE /\ subject = NoSubject /\ pattern = NoPattern
  /\ ov = <<0, 0>> /\ group = <<>> /\ status = FALSE /\ failed = FALSE

ObjectNext ==
  \E o \in Objects :
    \/ regex(o)
    \/ \E valid \in BOOLEAN : compile(o, valid)
    \/ \E valid \in BOOLEAN : compileNew(o, valid)
    \/ \E p \in Objects : move(o, p) \/ swap(o, p)
    \/ destroy(o)

Call ==
  \/ \E o \in Objects, s \in Subjects :
       InBounds(o) /\ \E p \in Patterns(s) : execute(o, s, p)
  \/ \E o \in Objects : executeEmpty(o)
  \/ \E q \in Queries : parseQueryString(q)

Next == ObjectNext \/ Call \/ firstMatch \/ again \/ giveUp \/ return

Spec == Init /\ [][Next]_vars

\* The thread that called execute() runs on, and not because PCRE2 gives up.
FairSpec == Spec /\ WF_vars(firstMatch \/ again)

-----------------------------------------------------------------------------
(* Properties.                                                              *)

TypeOK ==
  /\ codes \in 0..MaxCodes /\ frees \in [1..MaxCodes -> Nat]
  /\ lost \subseteq 1..MaxCodes /\ touched \subseteq Objects
  /\ \A o \in Objects : Held(o) => obj[o] \in [re : 0..MaxCodes, table : -1..MaxCodes,
                                              count : -1..MaxCodes]
  /\ pc \in {"idle", "first", "again", "done", "died"}
  /\ group \in Seq((0 .. Length(subject)) \X (0 .. Length(subject)))
  /\ {isQuery, status, failed} \subseteq BOOLEAN

PreviousEnd(k) == IF k = 1 THEN 0 ELSE group[k - 1][2]

\* The end of a match at i that may be the k-th: a match behind an empty one
\* at the same offset is not empty.
Eligible(k, i) ==
  End(i, k > 1 /\ group[k - 1][1] = group[k - 1][2] /\ i = PreviousEnd(k))

\* Between the CR and the LF behind an empty match nothing is tried.
InsideCRLF(i) == subject.crlf /\ i > 0 /\ Byte(subject, i - 1) = "CR" /\ Byte(subject, i) = "LF"

NoneBetween(k, i, j) == \A x \in i .. j : Eligible(k, x) = None \/ InsideCRLF(x)

\* execute() collects the successive matches of a pattern (the loop is a
\* program of its own: empty matches, characters of several bytes, CRLF): each
\* starts where the last ended or later, is the one its pattern prefers there,
\* none that may come between two is missing, and at the end none is left;
\* and only PCRE2 giving up makes a call fail that has matched.
MatchesAreSuccessive ==
  pc \in {"again", "done"} =>
    /\ \A k \in DOMAIN group :
         /\ group[k][1] >= PreviousEnd(k)
         /\ group[k][2] = Eligible(k, group[k][1])
         /\ NoneBetween(k, PreviousEnd(k), group[k][1] - 1)
    /\ pc = "done" /\ ~failed =>
         /\ status = (group # <<>>)
         /\ NoneBetween(Len(group) + 1, PreviousEnd(Len(group) + 1), Length(subject))

\* for (;;) ends for every pattern and subject.
ExecuteEnds == (pc = "first") ~> (pc = "done")

\* The pieces of "?piece&piece...", by the number of '&' before them.
PieceOf(n) == {i \in 2 .. Length(subject) :
                 /\ subject.bytes[i] # "&"
                 /\ Cardinality({j \in 2 .. i : subject.bytes[j] = "&"}) = n}
Equals(n) == {i \in PieceOf(n) : subject.bytes[i] = "="}
Pieces == 0 .. Cardinality({j \in 2 .. Length(subject) : subject.bytes[j] = "&"})

\* name=value, with a name.
WellFormed(n) == Equals(n) # {} /\ Earliest(Equals(n)) # Earliest(PieceOf(n))
PieceName(n) == SubSeq(subject.bytes, Earliest(PieceOf(n)), Earliest(Equals(n)) - 1)
PieceValue(n) == SubSeq(subject.bytes, Earliest(Equals(n)) + 1,
                        CHOOSE i \in PieceOf(n) : \A j \in PieceOf(n) : j <= i)

\* Up to the first piece that is not name=value (which the regex glues to what
\* follows), parseQueryString finds every argument, with the value of the first
\* of its name, and no other; and when there is such a piece it succeeds, so
\* that onURL does not refuse the request.
QueryParsed ==
  pc = "done" /\ isQuery /\ ~failed =>
    LET sound == {n \in Pieces : \A m \in 0 .. n : WellFormed(m)}
        firstOf(n) == Earliest({m \in sound : PieceName(m) = PieceName(n)})
    IN /\ sound # {} => status
       /\ \A n \in sound : /\ PieceName(n) \in DOMAIN dict
                           /\ dict[PieceName(n)] = PieceValue(firstOf(n))
       /\ sound = Pieces => DOMAIN dict = {PieceName(n) : n \in sound}

\* Whatever is moved, swapped and compiled, every compiled pattern has exactly
\* one owner, was freed once, or was lost by a compile() into an object that
\* held it: none is freed twice or run after it was freed.
PatternsOwnedOnce ==
  \A n \in 1 .. codes :
    LET owners == {o \in Objects : Held(o) /\ obj[o].re = n}
    IN Cardinality(owners) + frees[n] + (IF n \in lost THEN 1 ELSE 0) = 1

\* The named groups execute() reports are read through name_table, namecount
\* and name_entry_size: they are those of the pattern that matched in every
\* object nothing was moved or swapped into, and the table that is read is
\* never another pattern's, which may have been freed.
NamesOfOwnPattern ==
  \A o \in Objects : Held(o) /\ obj[o].re # 0 =>
    /\ obj[o].table \in {obj[o].re, Junk}
    /\ o \notin touched => obj[o] = Compiled(obj[o].re)

===============================================================================
