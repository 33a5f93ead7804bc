----------------------------- MODULE RegexProofs -----------------------------
(***************************************************************************)
(* Proofs about Regex, for any objects, patterns and subjects: who owns a  *)
(* compiled pattern, whose names execute() reports, and what its loop      *)
(* collects.                                                               *)
(***************************************************************************)
EXTENDS Regex, FiniteSetTheorems, WellFoundedInduction, TLAPS

-----------------------------------------------------------------------------
(* Objects.                                                                  *)

Shape == [re : Int, table : Int, count : Int]

ObjectTypes ==
  /\ obj \in [Objects -> Shape]
  /\ codes \in 0 .. MaxCodes /\ frees \in [1 .. MaxCodes -> Nat]
  /\ lost \subseteq 1 .. codes /\ touched \subseteq Objects
  /\ \A o \in Objects : \/ obj[o] = Absent \/ obj[o] = Leaked
                        \/ obj[o].re \in 0 .. codes

\* What becomes of a pattern: one object has it, or it was freed or lost.
Owned(n) == \E o \in Objects : obj[o].re = n

OwnInv ==
  /\ \A o, p \in Objects : obj[o].re = obj[p].re /\ obj[o].re > 0 => o = p
  /\ \A n \in 1 .. codes :
       \/ Owned(n) /\ frees[n] = 0 /\ n \notin lost
       \/ ~Owned(n) /\ frees[n] = 1 /\ n \notin lost
       \/ ~Owned(n) /\ frees[n] = 0 /\ n \in lost
  /\ \A n \in 1 .. MaxCodes : n > codes => frees[n] = 0

\* The objects as records: those that hold a regex are told by its number.
LEMMA HeldFacts ==
  ASSUME ObjectTypes, NEW o \in Objects
  PROVE  /\ obj[o] \in Shape /\ obj[o].re \in Int
         /\ Held(o) <=> obj[o].re >= 0
         /\ Held(o) => obj[o].re \in 0 .. codes
         /\ obj[o] = Absent => obj[o].re = -1
         /\ obj[o].re <= codes
<1>1. obj[o] \in Shape
  BY DEF ObjectTypes
<1>2. obj[o].re \in Int
  BY <1>1 DEF Shape
<1>3. Absent.re = -1 /\ Leaked.re = -2
  BY DEF Absent, Leaked
<1>4. \/ obj[o] = Absent \/ obj[o] = Leaked \/ obj[o].re \in 0 .. codes
  BY DEF ObjectTypes
<1>5. codes \in Nat
  BY RegexAssumption DEF ObjectTypes
<1> QED BY <1>1, <1>2, <1>3, <1>4, <1>5 DEF Held

\* The same in one formula.
LEMMA HeldTypes ==
  ObjectTypes => \A o \in Objects : obj[o].re \in Int /\ (Held(o) <=> obj[o].re >= 0)
  BY HeldFacts

\* Each operation, by the numbers of the patterns: which object gets which.
LEMMA RegexFacts ==
  ASSUME ObjectTypes, NEW o \in Objects, regex(o)
  PROVE  /\ obj' \in [Objects -> Shape]
         /\ obj[o].re = -1 /\ obj'[o].re = 0
         /\ \A p \in Objects \ {o} : obj'[p] = obj[p]
         /\ touched' = touched \ {o} /\ UNCHANGED <<codes, frees, lost>>
<1>1. [re |-> 0, table |-> 0, count |-> 0] \in Shape
      /\ [re |-> 0, table |-> 0, count |-> 0].re = 0
  BY DEF Shape
<1>2. obj' = [obj EXCEPT ![o] = [re |-> 0, table |-> 0, count |-> 0]]
  BY DEF regex
<1>3. obj \in [Objects -> Shape]
  BY DEF ObjectTypes
<1>4. obj[o].re = -1
  BY HeldFacts DEF regex
<1>5. touched' = touched \ {o} /\ UNCHANGED <<codes, frees, lost>>
  BY DEF regex
<1> QED BY <1>1, <1>2, <1>3, <1>4, <1>5

LEMMA CompiledFacts ==
  ASSUME NEW n \in Int
  PROVE  Compiled(n) \in Shape /\ Compiled(n).re = n /\ Compiled(n).table = n
  BY DEF Compiled, Shape

LEMMA CompileFacts ==
  ASSUME ObjectTypes, NEW o \in Objects, compile(o, TRUE)
  PROVE  /\ obj' \in [Objects -> Shape]
         /\ codes < MaxCodes /\ codes' = codes + 1
         /\ obj[o].re \in 0 .. codes /\ obj'[o] = Compiled(codes')
         /\ \A p \in Objects \ {o} : obj'[p] = obj[p]
         /\ lost' = lost \cup ({obj[o].re} \ {0})
         /\ touched' = touched \ {o} /\ frees' = frees
<1>1. /\ codes' = codes + 1 /\ codes < MaxCodes /\ Held(o)
      /\ obj' = [obj EXCEPT ![o] = Compiled(codes')]
      /\ lost' = lost \cup ({obj[o].re} \ {0})
      /\ touched' = touched \ {o} /\ frees' = frees
  BY DEF compile, init_pcre2
<1>2. obj \in [Objects -> Shape] /\ codes' \in Int
  BY <1>1, RegexAssumption DEF ObjectTypes
<1>3. Compiled(codes') \in Shape
  BY <1>2, CompiledFacts
<1>4. obj[o].re \in 0 .. codes
  BY <1>1, HeldFacts
<1> QED BY <1>1, <1>2, <1>3, <1>4

LEMMA CompileNewFacts ==
  ASSUME ObjectTypes, NEW o \in Objects, NEW valid \in BOOLEAN, compileNew(o, valid)
  PROVE  /\ obj' \in [Objects -> Shape] /\ obj[o].re = -1
         /\ \/ codes < MaxCodes /\ codes' = codes + 1 /\ obj'[o] = Compiled(codes')
            \/ codes' = codes /\ obj'[o] = Leaked /\ obj'[o].re = -2
         /\ \A p \in Objects \ {o} : obj'[p] = obj[p]
         /\ touched' = touched \ {o} /\ UNCHANGED <<frees, lost>>
<1>1. /\ obj[o] = Absent /\ (valid => codes < MaxCodes)
      /\ codes' = codes + (IF valid THEN 1 ELSE 0)
      /\ obj' = [obj EXCEPT ![o] = IF valid THEN Compiled(codes') ELSE Leaked]
      /\ touched' = touched \ {o} /\ UNCHANGED <<frees, lost>>
  BY DEF compileNew
<1>2. obj \in [Objects -> Shape] /\ codes \in Int
  BY RegexAssumption DEF ObjectTypes
<1>3. Leaked \in Shape /\ Leaked.re = -2
  BY DEF Leaked, Shape
<1>4. obj[o].re = -1
  BY <1>1, HeldFacts
<1>5. CASE valid
  <2>1. codes' = codes + 1 /\ obj' = [obj EXCEPT ![o] = Compiled(codes')]
    BY <1>1, <1>5
  <2>2. Compiled(codes') \in Shape
    BY <1>2, <2>1, CompiledFacts
  <2> QED BY <1>1, <1>2, <1>4, <1>5, <2>1, <2>2
<1>6. CASE ~valid
  <2>1. codes' = codes /\ obj' = [obj EXCEPT ![o] = Leaked]
    BY <1>1, <1>2, <1>6
  <2> QED BY <1>1, <1>2, <1>3, <1>4, <2>1
<1> QED BY <1>5, <1>6

LEMMA MoveFacts ==
  ASSUME ObjectTypes, NEW from \in Objects, NEW to \in Objects, move(from, to)
  PROVE  /\ obj' \in [Objects -> Shape] /\ from # to
         /\ obj[from].re \in 0 .. codes /\ obj[to].re = -1
         /\ obj'[to].re = obj[from].re /\ obj'[to].table = Junk
         /\ obj'[from].re = 0
         /\ \A p \in Objects \ {from, to} : obj'[p] = obj[p]
         /\ touched' = touched \cup {to} /\ UNCHANGED <<codes, frees, lost>>
<1> DEFINE a == [re |-> obj[from].re, table |-> Junk, count |-> Junk]
           b == MovedFrom(from)
<1>1. /\ Held(from) /\ obj[to] = Absent
      /\ obj' = [obj EXCEPT ![to] = a, ![from] = b]
      /\ touched' = touched \cup {to} /\ UNCHANGED <<codes, frees, lost>>
  BY DEF move
<1>2. obj[from].re \in 0 .. codes /\ obj[to].re = -1 /\ obj[from] \in Shape
  BY <1>1, HeldFacts
<1>3. a \in Shape /\ a.re = obj[from].re /\ a.table = Junk
  BY <1>2 DEF Shape, Junk
<1>4. b \in Shape /\ b.re = 0
  BY <1>2 DEF Shape, MovedFrom
<1>5. from # to /\ obj \in [Objects -> Shape]
  BY <1>1 DEF Held, ObjectTypes
<1> HIDE DEF a, b
<1>6. obj'[to] = a /\ obj'[from] = b /\ \A p \in Objects \ {from, to} : obj'[p] = obj[p]
  BY <1>1, <1>5
<1>7. obj' \in [Objects -> Shape]
  BY <1>1, <1>3, <1>4, <1>5
<1> QED BY <1>1, <1>2, <1>3, <1>4, <1>5, <1>6, <1>7

LEMMA SwapFacts ==
  ASSUME ObjectTypes, NEW o \in Objects, NEW p \in Objects, swap(o, p)
  PROVE  /\ obj' \in [Objects -> Shape] /\ o # p
         /\ obj[o].re \in 0 .. codes /\ obj[p].re \in 0 .. codes
         /\ obj'[o].re = obj[p].re /\ obj'[o].table = obj[p].table
         /\ obj'[p].re = obj[o].re /\ obj'[p].table = obj[o].table
         /\ \A q \in Objects \ {o, p} : obj'[q] = obj[q]
         /\ touched' = touched \cup {o, p} /\ UNCHANGED <<codes, frees, lost>>
<1> DEFINE a == [obj[p] EXCEPT !.count = obj[o].count]
           b == [obj[o] EXCEPT !.count = obj[p].count]
<1>1. /\ Held(o) /\ Held(p) /\ o # p
      /\ obj' = [obj EXCEPT ![o] = a, ![p] = b]
      /\ touched' = touched \cup {o, p} /\ UNCHANGED <<codes, frees, lost>>
  BY DEF swap
<1>2. /\ obj[o].re \in 0 .. codes /\ obj[o] \in Shape
      /\ obj[p].re \in 0 .. codes /\ obj[p] \in Shape
  BY <1>1, HeldFacts
<1>3. a \in Shape /\ a.re = obj[p].re /\ a.table = obj[p].table
  BY <1>2 DEF Shape
<1>4. b \in Shape /\ b.re = obj[o].re /\ b.table = obj[o].table
  BY <1>2 DEF Shape
<1>5. obj \in [Objects -> Shape]
  BY DEF ObjectTypes
<1> HIDE DEF a, b
<1>6. obj'[o] = a /\ obj'[p] = b /\ \A q \in Objects \ {o, p} : obj'[q] = obj[q]
  BY <1>1, <1>5
<1>7. obj' \in [Objects -> Shape]
  BY <1>1, <1>3, <1>4, <1>5
<1> QED BY <1>1, <1>2, <1>3, <1>4, <1>6, <1>7

LEMMA DestroyFacts ==
  ASSUME ObjectTypes, NEW o \in Objects, destroy(o)
  PROVE  /\ obj' \in [Objects -> Shape]
         /\ obj[o].re \in 0 .. codes /\ obj'[o] = Absent /\ obj'[o].re = -1
         /\ \A p \in Objects \ {o} : obj'[p] = obj[p]
         /\ frees' \in [1 .. MaxCodes -> Nat]
         /\ \A n \in 1 .. MaxCodes :
              frees'[n] = frees[n] + (IF obj[o].re = n THEN 1 ELSE 0)
         /\ touched' = touched \ {o} /\ UNCHANGED <<codes, lost>>
<1>1. /\ Held(o)
      /\ frees' = [n \in DOMAIN frees |-> frees[n] + (IF obj[o].re = n THEN 1 ELSE 0)]
      /\ obj' = [obj EXCEPT ![o] = Absent]
      /\ touched' = touched \ {o} /\ UNCHANGED <<codes, lost>>
  BY DEF destroy
<1>2. obj \in [Objects -> Shape] /\ frees \in [1 .. MaxCodes -> Nat]
  BY DEF ObjectTypes
<1>3. Absent \in Shape /\ Absent.re = -1
  BY DEF Absent, Shape
<1>4. obj[o].re \in 0 .. codes
  BY <1>1, HeldFacts
<1>5. /\ frees' \in [1 .. MaxCodes -> Nat]
      /\ \A n \in 1 .. MaxCodes : frees'[n] = frees[n] + (IF obj[o].re = n THEN 1 ELSE 0)
  BY <1>1, <1>2
<1> QED BY <1>1, <1>2, <1>3, <1>4, <1>5

\* A step runs one operation of an object, or leaves the objects alone.
LEMMA ObjectSteps ==
  ASSUME [Next]_vars
  PROVE  \/ \E o \in Objects : regex(o) \/ compile(o, TRUE) \/ destroy(o)
         \/ \E o \in Objects, valid \in BOOLEAN : compileNew(o, valid)
         \/ \E o, p \in Objects : move(o, p) \/ swap(o, p)
         \/ UNCHANGED objectVars
<1>1. \A o \in Objects : compile(o, FALSE) => UNCHANGED objectVars
  BY DEF compile, objectVars
<1>2. ObjectNext => \/ \E o \in Objects : regex(o) \/ compile(o, TRUE) \/ destroy(o)
                    \/ \E o \in Objects, valid \in BOOLEAN : compileNew(o, valid)
                    \/ \E o, p \in Objects : move(o, p) \/ swap(o, p)
                    \/ UNCHANGED objectVars
  BY <1>1 DEF ObjectNext
<1>3. Call => UNCHANGED objectVars
  BY DEF Call, execute, executeEmpty, parseQueryString
<1>4. firstMatch \/ again \/ giveUp \/ return \/ UNCHANGED vars => UNCHANGED objectVars
  BY DEF firstMatch, again, giveUp, return, vars
<1> QED BY <1>2, <1>3, <1>4 DEF Next

\* Every operation keeps the types of the objects,
LEMMA ObjectTypesInductive == ObjectTypes /\ [Next]_vars => ObjectTypes'
<1> SUFFICES ASSUME ObjectTypes, [Next]_vars PROVE ObjectTypes'
  OBVIOUS
<1>0. /\ obj \in [Objects -> Shape] /\ MaxCodes \in Nat /\ codes \in 0 .. MaxCodes
      /\ frees \in [1 .. MaxCodes -> Nat]
      /\ lost \subseteq 1 .. codes /\ touched \subseteq Objects
      /\ \A o \in Objects : obj[o] = Absent \/ obj[o] = Leaked \/ obj[o].re \in 0 .. codes
  BY RegexAssumption DEF ObjectTypes
<1>1. ASSUME NEW o \in Objects, regex(o) PROVE ObjectTypes'
  <2>1. /\ obj' \in [Objects -> Shape] /\ obj'[o].re \in 0 .. codes
        /\ \A p \in Objects \ {o} : obj'[p] = obj[p]
        /\ touched' \subseteq Objects /\ UNCHANGED <<codes, frees, lost>>
    <3>1. 0 \in 0 .. codes
      BY <1>0
    <3> QED BY <1>0, <1>1, <3>1, RegexFacts
  <2>2. \A p \in Objects : obj'[p] = Absent \/ obj'[p] = Leaked \/ obj'[p].re \in 0 .. codes
    BY <1>0, <2>1
  <2> QED BY <1>0, <2>1, <2>2 DEF ObjectTypes
<1>2. ASSUME NEW o \in Objects, compile(o, TRUE) PROVE ObjectTypes'
  <2>1. /\ codes < MaxCodes /\ codes' = codes + 1 /\ frees' = frees
        /\ obj' \in [Objects -> Shape]
        /\ obj[o].re \in 0 .. codes /\ obj'[o].re = codes'
        /\ \A p \in Objects \ {o} : obj'[p] = obj[p]
        /\ lost' = lost \cup ({obj[o].re} \ {0})
        /\ touched' = touched \ {o}
    <3>1. /\ codes < MaxCodes /\ codes' = codes + 1 /\ frees' = frees
          /\ obj' \in [Objects -> Shape]
          /\ obj[o].re \in 0 .. codes /\ obj'[o] = Compiled(codes')
          /\ \A p \in Objects \ {o} : obj'[p] = obj[p]
          /\ lost' = lost \cup ({obj[o].re} \ {0})
          /\ touched' = touched \ {o}
      BY <1>2, CompileFacts
    <3>2. codes' \in Int
      BY <1>0, <3>1
    <3>3. obj'[o].re = codes'
      BY <3>1, <3>2, CompiledFacts
    <3> QED BY <3>1, <3>3
  <2>2. ASSUME NEW n \in lost' PROVE n \in 1 .. codes'
    <3>1. n \in lost \/ (n = obj[o].re /\ n # 0)
      BY <2>1, <2>2
    <3>2. n \in 1 .. codes
      BY <1>0, <2>1, <3>1
    <3> QED BY <1>0, <2>1, <3>2
  <2>3. \A p \in Objects : obj'[p] = Absent \/ obj'[p] = Leaked \/ obj'[p].re \in 0 .. codes'
    BY <1>0, <2>1
  <2>4. lost' \subseteq 1 .. codes'
    BY <2>2
  <2>5. codes' \in 0 .. MaxCodes /\ frees' \in [1 .. MaxCodes -> Nat] /\ touched' \subseteq Objects
    BY <1>0, <2>1
  <2> QED BY <2>1, <2>3, <2>4, <2>5 DEF ObjectTypes
<1>3. ASSUME NEW o \in Objects, destroy(o) PROVE ObjectTypes'
  BY <1>0, <1>3, DestroyFacts DEF ObjectTypes
<1>4. ASSUME NEW o \in Objects, NEW valid \in BOOLEAN, compileNew(o, valid) PROVE ObjectTypes'
  <2>1. /\ obj' \in [Objects -> Shape]
        /\ \/ codes < MaxCodes /\ codes' = codes + 1 /\ obj'[o].re = codes'
           \/ codes' = codes /\ obj'[o] = Leaked
        /\ \A p \in Objects \ {o} : obj'[p] = obj[p]
        /\ touched' = touched \ {o} /\ UNCHANGED <<frees, lost>>
    <3>1. codes' \in Int
      BY <1>0, <1>4, CompileNewFacts
    <3> QED BY <1>4, <3>1, CompileNewFacts, CompiledFacts
  <2>2. \A p \in Objects : obj'[p] = Absent \/ obj'[p] = Leaked \/ obj'[p].re \in 0 .. codes'
    BY <1>0, <2>1
  <2>3. codes' \in 0 .. MaxCodes /\ lost' \subseteq 1 .. codes'
    BY <1>0, <2>1
  <2> QED BY <1>0, <2>1, <2>2, <2>3 DEF ObjectTypes
<1>5. ASSUME NEW o \in Objects, NEW p \in Objects, move(o, p) PROVE ObjectTypes'
  <2>1. /\ obj' \in [Objects -> Shape]
        /\ obj'[p].re \in 0 .. codes /\ obj'[o].re \in 0 .. codes
        /\ \A q \in Objects \ {o, p} : obj'[q] = obj[q]
        /\ touched' = touched \cup {p} /\ UNCHANGED <<codes, frees, lost>>
    BY <1>0, <1>5, MoveFacts
  <2> QED BY <1>0, <2>1 DEF ObjectTypes
<1>6. ASSUME NEW o \in Objects, NEW p \in Objects, swap(o, p) PROVE ObjectTypes'
  <2>1. /\ obj' \in [Objects -> Shape]
        /\ obj'[p].re \in 0 .. codes /\ obj'[o].re \in 0 .. codes
        /\ \A q \in Objects \ {o, p} : obj'[q] = obj[q]
        /\ touched' = touched \cup {o, p} /\ UNCHANGED <<codes, frees, lost>>
    BY <1>0, <1>6, SwapFacts
  <2> QED BY <1>0, <2>1 DEF ObjectTypes
<1>7. CASE UNCHANGED objectVars
  BY <1>0, <1>7 DEF objectVars, ObjectTypes
<1> QED BY <1>1, <1>2, <1>3, <1>4, <1>5, <1>6, <1>7, ObjectSteps

\* and every pattern with one owner, or freed once, or lost.
LEMMA OwnInductive == ObjectTypes /\ OwnInv /\ [Next]_vars => OwnInv'
<1> SUFFICES ASSUME ObjectTypes, OwnInv, [Next]_vars PROVE OwnInv'
  OBVIOUS
<1>0. /\ codes \in Nat /\ MaxCodes \in Nat /\ codes <= MaxCodes
      /\ \A n \in 1 .. MaxCodes : frees[n] \in Nat
      /\ lost \subseteq 1 .. codes
      /\ \A o \in Objects : obj[o].re \in Int /\ obj[o].re <= codes
  BY RegexAssumption, HeldFacts DEF ObjectTypes
<1>i. /\ \A o, p \in Objects : obj[o].re = obj[p].re /\ obj[o].re > 0 => o = p
      /\ \A n \in 1 .. codes :
           \/ Owned(n) /\ frees[n] = 0 /\ n \notin lost
           \/ ~Owned(n) /\ frees[n] = 1 /\ n \notin lost
           \/ ~Owned(n) /\ frees[n] = 0 /\ n \in lost
      /\ \A n \in 1 .. MaxCodes : n > codes => frees[n] = 0
  BY DEF OwnInv
\* Patterns that change hands at most.
<1>a. ASSUME UNCHANGED <<codes, frees, lost>>,
             \A n \in 1 .. codes : Owned(n)' <=> Owned(n),
             \A o, p \in Objects : obj'[o].re = obj'[p].re /\ obj'[o].re > 0 => o = p
      PROVE  OwnInv'
  BY <1>0, <1>a DEF OwnInv
\* A new one in object o, which may have had one that is lost then.
<1>b. ASSUME NEW o \in Objects, codes' = codes + 1, codes < MaxCodes, frees' = frees,
             obj'[o].re = codes', \A p \in Objects \ {o} : obj'[p] = obj[p],
             lost' = lost \cup ({obj[o].re} \ {0, -1})
      PROVE  OwnInv'
  <2>1. \A p, q \in Objects : obj'[p].re = obj'[q].re /\ obj'[p].re > 0 => p = q
    BY <1>0, <1>i, <1>b
  <2>2. ASSUME NEW n \in 1 .. codes'
        PROVE  \/ Owned(n)' /\ frees'[n] = 0 /\ n \notin lost'
               \/ ~Owned(n)' /\ frees'[n] = 1 /\ n \notin lost'
               \/ ~Owned(n)' /\ frees'[n] = 0 /\ n \in lost'
    <3>1. CASE n = codes'
      <4>1. Owned(n)'
        BY <1>b, <3>1 DEF Owned
      <4>2. n \in 1 .. MaxCodes /\ n > codes /\ n # obj[o].re /\ n \notin lost
        BY <1>0, <1>b, <3>1
      <4>3. frees'[n] = 0 /\ n \notin lost'
        BY <1>i, <1>b, <4>2
      <4> QED BY <4>1, <4>3
    <3>2. CASE n # codes' /\ n = obj[o].re
      <4>1. n \in 1 .. codes /\ n > 0 /\ n # -1 /\ n # 0
        BY <1>0, <1>b, <3>2
      <4>2. Owned(n) /\ frees[n] = 0
        BY <1>i, <3>2, <4>1 DEF Owned
      <4>3. \A p \in Objects : obj'[p].re # n
        BY <1>i, <1>b, <3>2, <4>1
      <4>4. n \in lost'
        BY <1>b, <3>2, <4>1
      <4> QED BY <1>b, <4>2, <4>3, <4>4 DEF Owned
    <3>3. CASE n # codes' /\ n # obj[o].re
      <4>1. n \in 1 .. codes
        BY <1>0, <1>b, <3>3
      <4>2. Owned(n)' <=> Owned(n)
        BY <1>b, <3>3 DEF Owned
      <4>3. n \in lost' <=> n \in lost
        BY <1>b, <3>3
      <4> QED BY <1>i, <1>b, <4>1, <4>2, <4>3
    <3> QED BY <3>1, <3>2, <3>3
  <2>3. \A n \in 1 .. MaxCodes : n > codes' => frees'[n] = 0
    BY <1>0, <1>i, <1>b
  <2> QED BY <2>1, <2>2, <2>3 DEF OwnInv
<1>1. ASSUME NEW o \in Objects, regex(o) PROVE OwnInv'
  <2>1. /\ obj[o].re = -1 /\ obj'[o].re = 0
        /\ \A p \in Objects \ {o} : obj'[p] = obj[p]
        /\ UNCHANGED <<codes, frees, lost>>
    BY <1>1, RegexFacts
  <2>2. \A n \in 1 .. codes : Owned(n)' <=> Owned(n)
    BY <1>0, <2>1 DEF Owned
  <2>3. \A p, q \in Objects : obj'[p].re = obj'[q].re /\ obj'[p].re > 0 => p = q
    BY <1>0, <1>i, <2>1
  <2> QED BY <1>a, <2>1, <2>2, <2>3
<1>2. ASSUME NEW o \in Objects, compile(o, TRUE) PROVE OwnInv'
  <2>1. /\ codes < MaxCodes /\ codes' = codes + 1 /\ frees' = frees
        /\ obj[o].re \in 0 .. codes /\ obj'[o] = Compiled(codes')
        /\ \A p \in Objects \ {o} : obj'[p] = obj[p]
        /\ lost' = lost \cup ({obj[o].re} \ {0})
    BY <1>2, CompileFacts
  <2>2. codes' \in Int
    BY <1>0, <2>1
  <2>3. obj'[o].re = codes'
    BY <2>1, <2>2, CompiledFacts
  <2>4. {obj[o].re} \ {0} = {obj[o].re} \ {0, -1}
    BY <1>0, <2>1
  <2> QED BY <1>b, <2>1, <2>3, <2>4
<1>3. ASSUME NEW o \in Objects, destroy(o) PROVE OwnInv'
  <2>1. /\ obj[o].re \in 0 .. codes /\ obj'[o].re = -1
        /\ \A p \in Objects \ {o} : obj'[p] = obj[p]
        /\ \A n \in 1 .. MaxCodes :
             frees'[n] = frees[n] + (IF obj[o].re = n THEN 1 ELSE 0)
        /\ UNCHANGED <<codes, lost>>
    BY <1>3, DestroyFacts
  <2>2. \A p, q \in Objects : obj'[p].re = obj'[q].re /\ obj'[p].re > 0 => p = q
    BY <1>0, <1>i, <2>1
  <2>3. ASSUME NEW n \in 1 .. codes
        PROVE  \/ Owned(n)' /\ frees'[n] = 0 /\ n \notin lost
               \/ ~Owned(n)' /\ frees'[n] = 1 /\ n \notin lost
               \/ ~Owned(n)' /\ frees'[n] = 0 /\ n \in lost
    <3>0. n \in 1 .. MaxCodes /\ n > 0 /\ n # -1 /\ frees[n] \in Nat
      BY <1>0
    <3>1. CASE n = obj[o].re
      <4>1. Owned(n)
        BY <3>1 DEF Owned
      <4>2. ~Owned(n)'
        BY <1>0, <1>i, <2>1, <3>0, <3>1 DEF Owned
      <4>3. frees[n] = 0 /\ n \notin lost
        BY <1>i, <4>1
      <4>4. frees'[n] = 1
        BY <2>1, <3>0, <3>1, <4>3
      <4> QED BY <4>2, <4>3, <4>4
    <3>2. CASE n # obj[o].re
      <4>1. Owned(n)' <=> Owned(n)
        BY <1>0, <2>1, <3>0, <3>2 DEF Owned
      <4>2. frees'[n] = frees[n]
        BY <2>1, <3>0, <3>2
      <4> QED BY <1>i, <4>1, <4>2
    <3> QED BY <3>1, <3>2
  <2>4. \A n \in 1 .. MaxCodes : n > codes => frees'[n] = 0
    BY <1>0, <1>i, <2>1
  <2> QED BY <2>1, <2>2, <2>3, <2>4 DEF OwnInv
<1>4. ASSUME NEW o \in Objects, NEW valid \in BOOLEAN, compileNew(o, valid) PROVE OwnInv'
  <2>1. /\ obj[o].re = -1 /\ \A p \in Objects \ {o} : obj'[p] = obj[p]
        /\ UNCHANGED <<frees, lost>>
        /\ \/ codes < MaxCodes /\ codes' = codes + 1 /\ obj'[o] = Compiled(codes')
           \/ codes' = codes /\ obj'[o].re = -2
    BY <1>4, CompileNewFacts
  <2>2. CASE codes < MaxCodes /\ codes' = codes + 1 /\ obj'[o] = Compiled(codes')
    <3>1. codes' \in Int
      BY <1>0, <2>2
    <3>2. obj'[o].re = codes'
      BY <2>2, <3>1, CompiledFacts
    <3>3. lost' = lost \cup ({obj[o].re} \ {0, -1})
      BY <2>1
    <3> QED BY <1>b, <2>1, <2>2, <3>2, <3>3
  <2>3. CASE codes' = codes /\ obj'[o].re = -2
    <3>1. \A n \in 1 .. codes : Owned(n)' <=> Owned(n)
      BY <1>0, <2>1, <2>3 DEF Owned
    <3>2. \A p, q \in Objects : obj'[p].re = obj'[q].re /\ obj'[p].re > 0 => p = q
      BY <1>0, <1>i, <2>1, <2>3
    <3> QED BY <1>a, <2>1, <2>3, <3>1, <3>2
  <2> QED BY <2>1, <2>2, <2>3
<1>5. ASSUME NEW o \in Objects, NEW p \in Objects, move(o, p) PROVE OwnInv'
  <2>1. /\ o # p /\ obj[o].re \in 0 .. codes /\ obj[p].re = -1
        /\ obj'[p].re = obj[o].re /\ obj'[o].re = 0
        /\ \A q \in Objects \ {o, p} : obj'[q] = obj[q]
        /\ UNCHANGED <<codes, frees, lost>>
    BY <1>5, MoveFacts
  <2>2. ASSUME NEW n \in 1 .. codes PROVE Owned(n)' <=> Owned(n)
    <3>1. n > 0 /\ n # -1 /\ n # 0
      BY <1>0
    <3>2. ASSUME Owned(n) PROVE Owned(n)'
      <4>1. PICK q \in Objects : obj[q].re = n
        BY <3>2 DEF Owned
      <4>2. obj'[IF q = o THEN p ELSE q].re = n
        BY <2>1, <3>1, <4>1
      <4> QED BY <4>2 DEF Owned
    <3>3. ASSUME Owned(n)' PROVE Owned(n)
      <4>1. PICK q \in Objects : obj'[q].re = n
        BY <3>3 DEF Owned
      <4>2. obj[IF q = p THEN o ELSE q].re = n
        BY <2>1, <3>1, <4>1
      <4> QED BY <4>2 DEF Owned
    <3> QED BY <3>2, <3>3
  <2>3. \A q, r \in Objects : obj'[q].re = obj'[r].re /\ obj'[q].re > 0 => q = r
    BY <1>0, <1>i, <2>1
  <2> QED BY <1>a, <2>1, <2>2, <2>3
<1>6. ASSUME NEW o \in Objects, NEW p \in Objects, swap(o, p) PROVE OwnInv'
  <2>1. /\ o # p
        /\ obj'[p].re = obj[o].re /\ obj'[o].re = obj[p].re
        /\ \A q \in Objects \ {o, p} : obj'[q] = obj[q]
        /\ UNCHANGED <<codes, frees, lost>>
    BY <1>6, SwapFacts
  <2>2. ASSUME NEW n \in 1 .. codes PROVE Owned(n)' <=> Owned(n)
    BY <2>1 DEF Owned
  <2>3. \A q, r \in Objects : obj'[q].re = obj'[r].re /\ obj'[q].re > 0 => q = r
    BY <1>0, <1>i, <2>1
  <2> QED BY <1>a, <2>1, <2>2, <2>3
<1>7. CASE UNCHANGED objectVars
  <2>1. \A n \in 1 .. codes : Owned(n)' <=> Owned(n)
    BY <1>7 DEF objectVars, Owned
  <2>2. UNCHANGED <<obj, codes, frees, lost>>
    BY <1>7 DEF objectVars
  <2> QED BY <1>a, <1>i, <2>1, <2>2
<1> QED BY <1>1, <1>2, <1>3, <1>4, <1>5, <1>6, <1>7, ObjectSteps

\* Objects keep the tables of their own pattern, or junk.
LEMMA NamesInductive == ObjectTypes /\ NamesOfOwnPattern /\ [Next]_vars => NamesOfOwnPattern'
<1> SUFFICES ASSUME ObjectTypes, NamesOfOwnPattern, [Next]_vars,
                    NEW q \in Objects, Held(q)', obj'[q].re # 0
             PROVE  /\ obj'[q].table \in {obj'[q].re, Junk}
                    /\ q \notin touched' => obj'[q] = Compiled(obj'[q].re)
  BY DEF NamesOfOwnPattern
<1>0. obj'[q].re > 0
  <2>1. ObjectTypes'
    BY ObjectTypesInductive
  <2>2. (\A o \in Objects : obj[o].re \in Int /\ (Held(o) <=> obj[o].re >= 0))'
    BY <2>1, HeldTypes, PTL
  <2>3. (Held(q)' <=> obj'[q].re >= 0) /\ obj'[q].re \in Int
    BY <2>2
  <2> QED BY <2>3
\* What the object was.
<1>i. ASSUME NEW o \in Objects, obj[o].re > 0
      PROVE  /\ obj[o].table \in {obj[o].re, Junk}
             /\ o \notin touched => obj[o] = Compiled(obj[o].re)
  <2>1. Held(o) /\ obj[o].re # 0
    BY <1>i, HeldFacts
  <2> QED BY <2>1 DEF NamesOfOwnPattern
<1>a. ASSUME obj'[q] = obj[q], q \in touched => q \in touched'
      PROVE  /\ obj'[q].table \in {obj'[q].re, Junk}
             /\ q \notin touched' => obj'[q] = Compiled(obj'[q].re)
  BY <1>0, <1>i, <1>a
<1>b. ASSUME obj'[q] = Compiled(codes'), codes' \in Int
      PROVE  /\ obj'[q].table \in {obj'[q].re, Junk}
             /\ q \notin touched' => obj'[q] = Compiled(obj'[q].re)
  BY <1>b, CompiledFacts
<1>c. codes \in Int
  BY RegexAssumption DEF ObjectTypes
<1>1. ASSUME NEW o \in Objects, regex(o)
      PROVE  /\ obj'[q].table \in {obj'[q].re, Junk}
             /\ q \notin touched' => obj'[q] = Compiled(obj'[q].re)
  <2>1. obj'[o].re = 0 /\ (\A p \in Objects \ {o} : obj'[p] = obj[p]) /\ touched' = touched \ {o}
    BY <1>1, RegexFacts
  <2> QED BY <1>0, <1>a, <2>1
<1>2. ASSUME NEW o \in Objects, compile(o, TRUE)
      PROVE  /\ obj'[q].table \in {obj'[q].re, Junk}
             /\ q \notin touched' => obj'[q] = Compiled(obj'[q].re)
  <2>1. /\ obj'[o] = Compiled(codes') /\ codes' = codes + 1
        /\ (\A p \in Objects \ {o} : obj'[p] = obj[p]) /\ touched' = touched \ {o}
    BY <1>2, CompileFacts
  <2>2. codes' \in Int
    BY <1>c, <2>1
  <2> QED BY <1>a, <1>b, <2>1, <2>2
<1>3. ASSUME NEW o \in Objects, destroy(o)
      PROVE  /\ obj'[q].table \in {obj'[q].re, Junk}
             /\ q \notin touched' => obj'[q] = Compiled(obj'[q].re)
  <2>1. obj'[o].re = -1 /\ (\A p \in Objects \ {o} : obj'[p] = obj[p]) /\ touched' = touched \ {o}
    BY <1>3, DestroyFacts
  <2> QED BY <1>0, <1>a, <2>1
<1>4. ASSUME NEW o \in Objects, NEW valid \in BOOLEAN, compileNew(o, valid)
      PROVE  /\ obj'[q].table \in {obj'[q].re, Junk}
             /\ q \notin touched' => obj'[q] = Compiled(obj'[q].re)
  <2>1. /\ (\A p \in Objects \ {o} : obj'[p] = obj[p]) /\ touched' = touched \ {o}
        /\ \/ codes' = codes + 1 /\ obj'[o] = Compiled(codes')
           \/ obj'[o].re = -2
    BY <1>4, CompileNewFacts
  <2>2. codes' = codes + 1 => codes' \in Int
    BY <1>c
  <2> QED BY <1>0, <1>a, <1>b, <2>1, <2>2
<1>5. ASSUME NEW o \in Objects, NEW p \in Objects, move(o, p)
      PROVE  /\ obj'[q].table \in {obj'[q].re, Junk}
             /\ q \notin touched' => obj'[q] = Compiled(obj'[q].re)
  <2>1. /\ obj'[p].table = Junk /\ obj'[o].re = 0
        /\ (\A r \in Objects \ {o, p} : obj'[r] = obj[r]) /\ touched' = touched \cup {p}
    BY <1>5, MoveFacts
  <2> QED BY <1>0, <1>a, <2>1
<1>6. ASSUME NEW o \in Objects, NEW p \in Objects, swap(o, p)
      PROVE  /\ obj'[q].table \in {obj'[q].re, Junk}
             /\ q \notin touched' => obj'[q] = Compiled(obj'[q].re)
  <2>1. /\ obj'[o].re = obj[p].re /\ obj'[o].table = obj[p].table
        /\ obj'[p].re = obj[o].re /\ obj'[p].table = obj[o].table
        /\ (\A r \in Objects \ {o, p} : obj'[r] = obj[r]) /\ touched' = touched \cup {o, p}
    BY <1>6, SwapFacts
  <2>2. CASE q = o
    BY <1>0, <1>i, <2>1, <2>2
  <2>3. CASE q = p
    BY <1>0, <1>i, <2>1, <2>3
  <2>4. CASE q \notin {o, p}
    BY <1>a, <2>1, <2>4
  <2> QED BY <2>2, <2>3, <2>4
<1>7. CASE UNCHANGED objectVars
  BY <1>7, <1>a DEF objectVars
<1> QED BY <1>1, <1>2, <1>3, <1>4, <1>5, <1>6, <1>7, ObjectSteps

LEMMA ObjectsInvariant == Spec => []ObjectTypes
<1>1. Init => ObjectTypes
  <2> SUFFICES ASSUME Init PROVE ObjectTypes
    OBVIOUS
  <2>1. Absent \in Shape
    BY DEF Absent, Shape
  <2>2. /\ obj = [o \in Objects |-> Absent]
        /\ codes = 0 /\ frees = [n \in 1..MaxCodes |-> 0] /\ lost = {} /\ touched = {}
    BY DEF Init
  <2> QED BY <2>1, <2>2, RegexAssumption DEF ObjectTypes
<1> QED BY <1>1, ObjectTypesInductive, PTL DEF Spec

\* Every pattern that was compiled is owned by one object, was freed once or was
\* lost, for any number of objects and any sequence of moves, swaps and compiles.
THEOREM OwnedCorrect == Spec => []PatternsOwnedOnce
<1>1. Init => OwnInv
  <2> SUFFICES ASSUME Init PROVE OwnInv
    OBVIOUS
  <2>1. /\ obj = [o \in Objects |-> Absent]
        /\ codes = 0 /\ frees = [n \in 1..MaxCodes |-> 0]
    BY DEF Init
  <2>2. \A o \in Objects : obj[o].re = -1
    BY <2>1 DEF Absent
  <2> QED BY <2>1, <2>2 DEF OwnInv
<1>2. ObjectTypes /\ OwnInv => PatternsOwnedOnce
  <2> SUFFICES ASSUME ObjectTypes, OwnInv, NEW n \in 1 .. codes
               PROVE  Cardinality({o \in Objects : Held(o) /\ obj[o].re = n}) + frees[n]
                        + (IF n \in lost THEN 1 ELSE 0) = 1
    BY DEF PatternsOwnedOnce
  <2> DEFINE owners == {o \in Objects : Held(o) /\ obj[o].re = n}
  <2>1. n > 0 /\ n >= 0
    BY RegexAssumption DEF ObjectTypes
  <2>2. CASE Owned(n) /\ frees[n] = 0 /\ n \notin lost
    <3>1. PICK o \in Objects : obj[o].re = n
      BY <2>2 DEF Owned
    <3>2. owners = {o}
      <4>1. Held(o)
        BY <2>1, <3>1, HeldFacts
      <4>2. \A p \in Objects : obj[p].re = n => p = o
        BY <2>1, <3>1 DEF OwnInv
      <4> QED BY <3>1, <4>1, <4>2
    <3>3. Cardinality(owners) = 1
      BY <3>2, FS_Singleton
    <3> QED BY <2>2, <3>3
  <2>3. CASE ~Owned(n)
    <3>1. owners = {}
      BY <2>3 DEF Owned
    <3>2. Cardinality(owners) = 0
      BY <3>1, FS_EmptySet
    <3>3. \/ frees[n] = 1 /\ n \notin lost
          \/ frees[n] = 0 /\ n \in lost
      BY <2>3 DEF OwnInv
    <3> QED BY <3>2, <3>3
  <2> QED BY <2>2, <2>3 DEF OwnInv
<1> QED BY <1>1, <1>2, ObjectsInvariant, OwnInductive, PTL DEF Spec

\* The named groups are read through the tables of the pattern itself in every
\* object nothing was moved or swapped into, and never through another pattern's.
THEOREM NamesCorrect == Spec => []NamesOfOwnPattern
<1>1. Init => NamesOfOwnPattern
  BY DEF Init, NamesOfOwnPattern, Held
<1> QED BY <1>1, ObjectsInvariant, NamesInductive, PTL DEF Spec
-----------------------------------------------------------------------------
(* Least elements, which Earliest chooses.                                   *)

LEMMA LeastNatural ==
  ASSUME NEW S \in SUBSET Nat, S # {}
  PROVE  \E i \in S : \A j \in S : i <= j
<1> DEFINE R == {p \in Nat \X Nat : p[1] < p[2]}
<1>1. IsWellFoundedOn(R, Nat)
  BY NatLessThanWellFounded DEF OpToRel
<1>2. ASSUME NEW i \in Nat, NEW j \in Nat, j < i PROVE <<j, i>> \in R
  BY <1>2
<1> HIDE DEF R
<1>3. PICK i \in S : \A j \in S : <<j, i>> \notin R
  BY <1>1, WFMin
<1>4. ASSUME NEW j \in S PROVE i <= j
  <2>1. ~(j < i)
    BY <1>2, <1>3
  <2> QED BY <2>1
<1> QED BY <1>4

LEMMA EarliestFacts ==
  ASSUME NEW S \in SUBSET Nat, S # {}
  PROVE  Earliest(S) \in S /\ \A j \in S : Earliest(S) <= j
<1>1. \E i \in S : \A j \in S : i <= j
  BY LeastNatural
<1> QED BY <1>1 DEF Earliest

-----------------------------------------------------------------------------
(* Subjects and patterns.                                                    *)

SubjectOK(s) ==
  /\ s.bytes \in Seq(STRING)
  /\ s.utf => \A n \in DOMAIN s.bytes :
                s.bytes[n] = "continuation" => n > 1 /\ s.bytes[n - 1] \notin {"CR", "LF"}

\* What a pattern does at offset i: its matches end in the subject, where a
\* character starts, and start where one does.
AttemptOK(s, i, a) ==
  /\ a.first # None => a.first \in i .. Length(s) /\ Boundary(s, a.first)
  /\ a.nonempty # None => a.nonempty \in i + 1 .. Length(s) /\ Boundary(s, a.nonempty)
  /\ ~Boundary(s, i) => a.first = None /\ a.nonempty = None

PatternOK(s, p) == \A i \in 0 .. Length(s) : AttemptOK(s, i, p[i])

\* Any pattern.
LEMMA PatternsOK ==
  ASSUME NEW s, s.bytes \in Seq(STRING), NEW p \in Patterns(s)
  PROVE  PatternOK(s, p)
<1> SUFFICES ASSUME NEW i \in 0 .. Length(s) PROVE AttemptOK(s, i, p[i])
  BY DEF PatternOK
<1>1. p[i] \in Attempts(s, i)
  BY DEF Patterns
<1> DEFINE ends == {e \in i + 1 .. Length(s) : Boundary(s, e)}
           none == [first |-> None, nonempty |-> None]
<1>2. Length(s) \in Nat
  BY DEF Length
<1>3. CASE p[i] = none
  BY <1>3 DEF AttemptOK
<1>4. CASE Boundary(s, i) /\ p[i] # none
  <2>1. \/ \E e \in ends : p[i] = [first |-> e, nonempty |-> e]
        \/ \E e \in ends \cup {None} : p[i] = [first |-> i, nonempty |-> e]
    BY <1>1, <1>4 DEF Attempts
  <2>2. ASSUME NEW e \in ends, p[i] = [first |-> e, nonempty |-> e] PROVE AttemptOK(s, i, p[i])
    <3>1. p[i].first = e /\ p[i].nonempty = e /\ e \in i .. Length(s) /\ e \in i + 1 .. Length(s)
      BY <1>2, <2>2
    <3> QED BY <1>4, <3>1 DEF AttemptOK
  <2>3. ASSUME NEW e \in ends \cup {None}, p[i] = [first |-> i, nonempty |-> e]
        PROVE  AttemptOK(s, i, p[i])
    <3>1. p[i].first = i /\ p[i].nonempty = e /\ i \in i .. Length(s)
          /\ (e # None => e \in i + 1 .. Length(s) /\ Boundary(s, e))
      BY <1>2, <2>3
    <3> QED BY <1>4, <3>1 DEF AttemptOK
  <2> QED BY <2>1, <2>2, <2>3
<1>5. CASE ~Boundary(s, i)
  BY <1>1, <1>3, <1>5 DEF Attempts
<1> QED BY <1>3, <1>4, <1>5

\* And the one of parseQueryString().
LEMMA QueryOK ==
  ASSUME NEW q \in Seq(STRING), NEW s, s = [bytes |-> q, utf |-> FALSE, crlf |-> FALSE]
  PROVE  SubjectOK(s) /\ PatternOK(s, QueryRegex(s))
<1>1. s.bytes = q /\ ~s.utf
  OBVIOUS
<1>2. SubjectOK(s)
  BY <1>1 DEF SubjectOK
<1>3. ASSUME NEW i \in 0 .. Length(s) PROVE AttemptOK(s, i, QueryAttempt(s, i))
  <2>1. Length(s) \in Nat /\ \A x : Boundary(s, x)
    BY <1>1 DEF Length, Boundary
  <2>2. CASE Byte(s, i) \in {"?", "&"} /\ NameEnd(s, i) # {}
    <3>1. NameEnd(s, i) \subseteq i + 2 .. Length(s) - 1 /\ NameEnd(s, i) \in SUBSET Nat
      BY <2>1 DEF NameEnd
    <3>2. PICK e \in NameEnd(s, i) : e = Earliest(NameEnd(s, i))
      BY <2>2, <3>1, EarliestFacts
    <3>3. e \in i + 2 .. Length(s) - 1
      BY <3>1
    <3> DEFINE V == {v \in e + 1 .. Length(s) : Byte(s, v) \in {"&", "end"}}
    <3>4. Length(s) \in V
      <4>1. ~(Length(s) < Length(s))
        BY <2>1
      <4>2. Byte(s, Length(s)) = "end"
        BY <4>1 DEF Byte
      <4> QED BY <2>1, <3>3, <4>2
    <3>5. V \in SUBSET Nat
      BY <2>1, <3>3
    <3>6. ValueEnd(s, e) \in V
      BY <3>4, <3>5, EarliestFacts DEF ValueEnd
    <3>7. ValueEnd(s, e) \in i + 1 .. Length(s) /\ ValueEnd(s, e) \in i .. Length(s)
      BY <2>1, <3>3, <3>6
    <3>8. QueryAttempt(s, i) = [first |-> ValueEnd(s, e), nonempty |-> ValueEnd(s, e)]
      BY <2>2, <3>2 DEF QueryAttempt
    <3> HIDE DEF V
    <3>9. PICK v \in i + 1 .. Length(s) : v = ValueEnd(s, e)
      BY <3>7
    <3>10. QueryAttempt(s, i).first = v /\ QueryAttempt(s, i).nonempty = v
           /\ v \in i .. Length(s)
      BY <3>7, <3>8, <3>9
    <3> QED BY <2>1, <3>10 DEF AttemptOK
  <2>3. CASE ~(Byte(s, i) \in {"?", "&"} /\ NameEnd(s, i) # {})
    <3>1. QueryAttempt(s, i) = [first |-> None, nonempty |-> None]
      BY <2>3 DEF QueryAttempt
    <3> QED BY <3>1 DEF AttemptOK
  <2> QED BY <2>2, <2>3
<1>4. \A i \in 0 .. Length(s) : QueryRegex(s)[i] = QueryAttempt(s, i)
  BY DEF QueryRegex
<1> QED BY <1>2, <1>3, <1>4 DEF PatternOK

\* Behind an empty match the loop goes to where a character starts, and passes
\* nothing but the inside of characters and of a CRLF.
LEMMA BeyondFacts ==
  ASSUME SubjectOK(subject), NEW o \in Nat, o < Length(subject)
  PROVE  /\ Beyond(o) \in o + 1 .. Length(subject) /\ Boundary(subject, Beyond(o))
         /\ \A x \in o + 1 .. Beyond(o) - 1 : ~Boundary(subject, x) \/ InsideCRLF(x)
<1>0. Length(subject) \in Nat /\ subject.bytes \in Seq(STRING)
      /\ Length(subject) = Len(subject.bytes)
  BY DEF SubjectOK, Length
<1>e. Boundary(subject, Length(subject))
  <2>1. ~(Length(subject) < Length(subject))
    BY <1>0
  <2>2. Byte(subject, Length(subject)) = "end"
    BY <2>1 DEF Byte
  <2> QED BY <2>2 DEF Boundary
<1>1. CASE /\ subject.crlf /\ o < Length(subject) - 1
           /\ Byte(subject, o) = "CR" /\ Byte(subject, o + 1) = "LF"
  <2>1. Beyond(o) = o + 2
    BY <1>1 DEF Beyond
  <2>2. o + 2 \in o + 1 .. Length(subject)
    BY <1>0, <1>1
  <2>3. InsideCRLF(o + 1)
    <3>1. o + 1 > 0 /\ (o + 1) - 1 = o
      OBVIOUS
    <3> QED BY <1>1, <3>1 DEF InsideCRLF
  <2>4. \A x \in o + 1 .. (o + 2) - 1 : x = o + 1
    OBVIOUS
  <2>5. Boundary(subject, o + 2)
    <3>1. CASE o + 2 = Length(subject)
      BY <1>e, <3>1
    <3>2. CASE o + 2 < Length(subject) /\ subject.utf
      <4>1. o + 1 < Length(subject) /\ (o + 2) + 1 \in DOMAIN subject.bytes
            /\ ((o + 2) + 1) - 1 = (o + 1) + 1
        BY <1>0, <3>2
      <4>2. subject.bytes[(o + 1) + 1] = "LF"
        BY <1>1, <4>1 DEF Byte
      <4>3. subject.bytes[(o + 2) + 1] # "continuation"
        BY <3>2, <4>1, <4>2 DEF SubjectOK
      <4> QED BY <3>2, <4>3 DEF Boundary, Byte
    <3>3. CASE ~subject.utf
      BY <3>3 DEF Boundary
    <3> QED BY <1>0, <2>2, <3>1, <3>2, <3>3
  <2> QED BY <2>1, <2>2, <2>3, <2>4, <2>5
<1>2. CASE ~(/\ subject.crlf /\ o < Length(subject) - 1
             /\ Byte(subject, o) = "CR" /\ Byte(subject, o + 1) = "LF")
  <2> DEFINE S == {i \in o + 1 .. Length(subject) : Boundary(subject, i)}
  <2>1. Beyond(o) = Earliest(S)
    BY <1>2 DEF Beyond
  <2>2. S \in SUBSET Nat /\ Length(subject) \in S
    BY <1>0, <1>e
  <2>3. Earliest(S) \in S /\ \A j \in S : Earliest(S) <= j
    BY <2>2, EarliestFacts
  <2>4. ASSUME NEW x \in o + 1 .. Earliest(S) - 1 PROVE ~Boundary(subject, x)
    <3>1. Earliest(S) \in o + 1 .. Length(subject)
      BY <2>3
    <3>2. x \in o + 1 .. Length(subject) /\ ~(Earliest(S) <= x)
      BY <1>0, <2>4, <3>1
    <3> QED BY <2>3, <3>2
  <2> QED BY <2>1, <2>3, <2>4
<1> QED BY <1>1, <1>2

-----------------------------------------------------------------------------
(* execute().                                                                *)

Spans == Nat \X Nat

\* The k-th match collected is the next one of its pattern.
Successive(k) ==
  /\ group[k][1] >= PreviousEnd(k)
  /\ group[k][2] = Eligible(k, group[k][1])
  /\ NoneBetween(k, PreviousEnd(k), group[k][1] - 1)

Chained == \A k \in DOMAIN group : Successive(k)

\* A call that runs.
RunInv ==
  /\ group \in Seq(Spans) /\ Chained
  /\ pc \in {"first", "again"} => SubjectOK(subject) /\ PatternOK(subject, pattern)
  /\ pc \in {"idle", "first"} => group = <<>> /\ ~status /\ ~failed

\* In the loop: the last match, and an offset behind it when it was empty,
\* with nothing in between.
LoopInv ==
  pc = "again" =>
    LET n == Len(group)
        m == group[n]
    IN /\ n > 0 /\ status /\ ~failed
       /\ m[2] \in m[1] .. Length(subject)
       /\ ov \in Spans /\ ov[1] = m[1] /\ ov[2] \in m[2] .. Length(subject)
       /\ Boundary(subject, ov[2])
       /\ ov[2] > m[2] => m[1] = m[2]
       /\ NoneBetween(n + 1, m[2], ov[2] - 1)

\* What execute() has when it ends.
DoneInv ==
  pc = "done" /\ ~failed =>
    /\ status = (group # <<>>)
    /\ NoneBetween(Len(group) + 1, PreviousEnd(Len(group) + 1), Length(subject))

\* A match collected leaves those before it as they were.
LEMMA CollectFacts ==
  ASSUME group \in Seq(Spans), NEW n \in Nat, n = Len(group),
         NEW m \in Spans, group' = Append(group, m), UNCHANGED <<subject, pattern>>
  PROVE  /\ group' \in Seq(Spans) /\ Len(group') = n + 1
         /\ group'[n + 1] = m
         /\ PreviousEnd(n + 1)' = PreviousEnd(n + 1)
         /\ \A x : Eligible(n + 1, x)' = Eligible(n + 1, x)
         /\ Chained => \A k \in 1 .. n : Successive(k)'
         /\ PreviousEnd(n + 2)' = m[2]
         /\ \A x : Eligible(n + 2, x)' = End(x, m[1] = m[2] /\ x = m[2])
<1>1. /\ group' \in Seq(Spans) /\ Len(group') = n + 1
      /\ group'[n + 1] = m
      /\ \A k \in 1 .. n : group'[k] = group[k]
  OBVIOUS
<1>2. ASSUME NEW k \in 1 .. n + 1
      PROVE  /\ PreviousEnd(k)' = PreviousEnd(k)
             /\ \A x : Eligible(k, x)' = Eligible(k, x)
  <2>1. k # 1 => k - 1 \in 1 .. n /\ k > 1
    BY <1>1
  <2>2. PreviousEnd(k)' = PreviousEnd(k)
    BY <1>1, <2>1 DEF PreviousEnd
  <2>3. k > 1 => group'[k - 1] = group[k - 1]
    BY <1>1
  <2>4. \A x, y : End(x, y)' = End(x, y)
    BY DEF End
  <2> QED BY <2>2, <2>3, <2>4 DEF Eligible
<1>3. ASSUME Chained, NEW k \in 1 .. n PROVE Successive(k)'
  <2>1. k \in 1 .. n + 1 /\ group'[k] = group[k] /\ k \in DOMAIN group
    BY <1>1
  <2>2. Successive(k)
    BY <1>3, <2>1 DEF Chained
  <2>3. \A x : InsideCRLF(x)' = InsideCRLF(x)
    BY DEF InsideCRLF, Byte, Length
  <2> QED BY <1>2, <2>1, <2>2, <2>3 DEF Successive, NoneBetween
<1>4. n + 1 \in 1 .. n + 1
  BY <1>1
<1>5. /\ n + 2 > 1 /\ n + 2 # 1 /\ (n + 2) - 1 = n + 1
  BY <1>1
<1>6. PreviousEnd(n + 2)' = m[2]
  BY <1>1, <1>5 DEF PreviousEnd
<1>7. ASSUME NEW x PROVE Eligible(n + 2, x)' = End(x, m[1] = m[2] /\ x = m[2])
  <2>1. (/\ n + 2 > 1 /\ group'[(n + 2) - 1][1] = group'[(n + 2) - 1][2]
         /\ x = PreviousEnd(n + 2)') <=> (m[1] = m[2] /\ x = m[2])
    BY <1>1, <1>5, <1>6
  <2> QED BY <2>1 DEF Eligible, End
<1>8. \A x : Eligible(n + 2, x)' = End(x, m[1] = m[2] /\ x = m[2])
  BY <1>7
<1> QED BY <1>1, <1>2, <1>3, <1>4, <1>6, <1>8

\* What pcre2_match returns.
LEMMA MatchFacts ==
  ASSUME SubjectOK(subject), PatternOK(subject, pattern),
         NEW o \in 0 .. Length(subject), NEW retry \in BOOLEAN, Starts(o, retry) # {}
  PROVE  \E i \in o .. Length(subject) : \E e \in i .. Length(subject) :
           /\ pcre2_match(o, retry) = <<i, e>> /\ e = End(i, retry)
           /\ Boundary(subject, e)
           /\ retry => i = o
           /\ ~retry => \A x \in o .. i - 1 : End(x, FALSE) = None
<1>1. Length(subject) \in Nat
  BY DEF SubjectOK, Length
<1>2. Starts(o, retry) \subseteq o .. Length(subject) /\ Starts(o, retry) \in SUBSET Nat
  BY <1>1 DEF Starts
<1>3. PICK i \in Starts(o, retry) : i = Earliest(Starts(o, retry)) /\ \A j \in Starts(o, retry) : i <= j
  BY <1>2, EarliestFacts
<1>4. i \in o .. Length(subject) /\ i \in 0 .. Length(subject)
  BY <1>1, <1>2
<1>5. End(i, retry) # None /\ (retry => i = o)
  BY <1>3 DEF Starts
<1>6. AttemptOK(subject, i, pattern[i])
  BY <1>4 DEF PatternOK
<1>7. End(i, retry) \in i .. Length(subject) /\ Boundary(subject, End(i, retry))
  <2>1. CASE retry
    <3>1. End(i, retry) = pattern[i].nonempty
      BY <2>1 DEF End
    <3>2. End(i, retry) \in i + 1 .. Length(subject) /\ Boundary(subject, End(i, retry))
      BY <1>5, <1>6, <3>1 DEF AttemptOK
    <3> QED BY <1>1, <1>4, <3>2
  <2>2. CASE ~retry
    <3>1. End(i, retry) = pattern[i].first
      BY <2>2 DEF End
    <3> QED BY <1>5, <1>6, <3>1 DEF AttemptOK
  <2> QED BY <2>1, <2>2
<1>8. ASSUME ~retry, NEW x \in o .. i - 1 PROVE End(x, FALSE) = None
  <2>1. x \in o .. Length(subject) /\ ~(i <= x)
    BY <1>1, <1>4
  <2>2. x \notin Starts(o, retry)
    BY <1>3, <2>1
  <2> QED BY <1>8, <2>1, <2>2 DEF Starts
<1>9. pcre2_match(o, retry) = <<i, End(i, retry)>>
  BY <1>3 DEF pcre2_match
<1> QED BY <1>4, <1>5, <1>7, <1>8, <1>9

\* A match that is the next one is collected.
LEMMA CollectStep ==
  ASSUME RunInv, SubjectOK(subject), PatternOK(subject, pattern),
         NEW n \in Nat, n = Len(group),
         NEW i \in 0 .. Length(subject), NEW e \in i .. Length(subject),
         Boundary(subject, e),
         i >= PreviousEnd(n + 1), e = Eligible(n + 1, i),
         NoneBetween(n + 1, PreviousEnd(n + 1), i - 1),
         ~failed, Collect(<<i, e>>), UNCHANGED <<subject, pattern>>
  PROVE  RunInv' /\ LoopInv' /\ DoneInv'
<1>1. PICK m \in Spans : m = <<i, e>>
  <2>1. Length(subject) \in Nat
    BY DEF SubjectOK, Length
  <2> QED BY <2>1 DEF Spans
<1>2. /\ ov' = m /\ group' = Append(group, m) /\ status' = TRUE /\ pc' = "again"
      /\ failed' = failed
  BY <1>1 DEF Collect
<1>3. /\ m[1] = i /\ m[2] = e /\ Length(subject)' = Length(subject) /\ Length(subject) \in Nat
  BY <1>1 DEF Length, SubjectOK
<1>4. /\ group' \in Seq(Spans) /\ Len(group') = n + 1
      /\ group'[n + 1] = m
      /\ PreviousEnd(n + 1)' = PreviousEnd(n + 1)
      /\ \A x : Eligible(n + 1, x)' = Eligible(n + 1, x)
      /\ Chained => \A k \in 1 .. n : Successive(k)'
  BY <1>2, CollectFacts DEF RunInv
<1>5. \A x : InsideCRLF(x)' = InsideCRLF(x)
  BY DEF InsideCRLF, Byte, Length
<1>6. Successive(n + 1)'
  BY <1>3, <1>4, <1>5 DEF Successive, NoneBetween
<1>7. Chained'
  <2>1. DOMAIN group' = 1 .. n + 1
    BY <1>4
  <2>2. \A k \in 1 .. n + 1 : k \in 1 .. n \/ k = n + 1
    OBVIOUS
  <2>3. ASSUME NEW k \in DOMAIN group' PROVE Successive(k)'
    BY <1>4, <1>6, <2>1, <2>2 DEF RunInv
  <2> QED BY <2>3 DEF Chained
<1>8. SubjectOK(subject)' /\ PatternOK(subject, pattern)' /\ Boundary(subject, e)'
  BY DEF SubjectOK, PatternOK, AttemptOK, Boundary, Byte, Length
<1>9. RunInv'
  BY <1>2, <1>4, <1>7, <1>8 DEF RunInv
<1>10. NoneBetween((n + 1) + 1, e, e - 1)'
  <2>1. \A x \in e .. e - 1 : FALSE
    BY <1>3
  <2> QED BY <2>1 DEF NoneBetween
<1>11. LoopInv'
  <2>1. /\ n + 1 > 0 /\ m[2] \in m[1] .. Length(subject) /\ m[2] \in m[2] .. Length(subject)
        /\ ~(m[2] > m[2])
    BY <1>3
  <2> QED BY <1>2, <1>3, <1>4, <1>8, <1>10, <2>1 DEF LoopInv
<1>12. DoneInv'
  BY <1>2 DEF DoneInv
<1> QED BY <1>9, <1>11, <1>12

\* What is left between two matches depends on the matches and the subject.
LEMMA NoneStays ==
  ASSUME UNCHANGED <<group, subject, pattern>>
  PROVE  /\ Length(subject)' = Length(subject) /\ Len(group)' = Len(group)
         /\ \A k : PreviousEnd(k)' = PreviousEnd(k)
         /\ \A k, i, j : NoneBetween(k, i, j)' <=> NoneBetween(k, i, j)
         /\ \A k : Successive(k)' <=> Successive(k)
<1>1. Length(subject)' = Length(subject) /\ Len(group)' = Len(group)
  BY DEF Length
<1>2. \A k : PreviousEnd(k)' = PreviousEnd(k)
  BY DEF PreviousEnd
<1>3. \A x, y : End(x, y)' = End(x, y)
  BY DEF End
<1>4. ASSUME NEW k, NEW x PROVE Eligible(k, x)' = Eligible(k, x)
  BY <1>2, <1>3 DEF Eligible
<1>5. \A x : InsideCRLF(x)' <=> InsideCRLF(x)
  BY DEF InsideCRLF, Byte, Length
<1>6. ASSUME NEW k, NEW i, NEW j PROVE NoneBetween(k, i, j)' <=> NoneBetween(k, i, j)
  BY <1>4, <1>5 DEF NoneBetween
<1>7. ASSUME NEW k PROVE Successive(k)' <=> Successive(k)
  BY <1>2, <1>4, <1>6 DEF Successive
<1> QED BY <1>1, <1>2, <1>6, <1>7

\* The first match: the first of all offsets where there is one.
LEMMA FirstStep ==
  ASSUME RunInv, firstMatch
  PROVE  RunInv' /\ LoopInv' /\ DoneInv'
<1>1. /\ pc = "first" /\ group = <<>> /\ ~status /\ ~failed
      /\ SubjectOK(subject) /\ PatternOK(subject, pattern) /\ UNCHANGED <<subject, pattern>>
  BY DEF firstMatch, RunInv
<1>2. Length(subject) \in Nat /\ 0 \in 0 .. Length(subject)
  BY <1>1 DEF SubjectOK, Length
<1>3. PICK n \in Nat : n = 0 /\ n = Len(group)
  BY <1>1
<1>4. PreviousEnd(n + 1) = 0 /\ \A x : Eligible(n + 1, x) = End(x, FALSE)
  BY <1>3 DEF PreviousEnd, Eligible, End
<1>5. CASE Starts(0, FALSE) # {} /\ Collect(pcre2_match(0, FALSE))
  <2>1. PICK i \in 0 .. Length(subject) : \E e \in i .. Length(subject) :
          /\ pcre2_match(0, FALSE) = <<i, e>> /\ e = End(i, FALSE)
          /\ Boundary(subject, e) /\ \A x \in 0 .. i - 1 : End(x, FALSE) = None
    BY <1>1, <1>2, <1>5, MatchFacts
  <2>2. PICK e \in i .. Length(subject) :
          /\ pcre2_match(0, FALSE) = <<i, e>> /\ e = End(i, FALSE)
          /\ Boundary(subject, e) /\ \A x \in 0 .. i - 1 : End(x, FALSE) = None
    BY <2>1
  <2>3. \A x \in 0 .. i - 1 : Eligible(n + 1, x) = None
    BY <1>4, <2>2
  <2>4. NoneBetween(n + 1, 0, i - 1)
    BY <2>3 DEF NoneBetween
  <2>5. /\ i >= PreviousEnd(n + 1) /\ e = Eligible(n + 1, i)
        /\ NoneBetween(n + 1, PreviousEnd(n + 1), i - 1)
    <3>1. i >= PreviousEnd(n + 1)
      <4>1. i >= 0
        BY <1>2
      <4> QED BY <1>4, <4>1
    <3>2. e = Eligible(n + 1, i)
      BY <1>4, <2>2
    <3>3. NoneBetween(n + 1, PreviousEnd(n + 1), i - 1)
      BY <1>4, <2>4
    <3> QED BY <3>1, <3>2, <3>3
  <2>6. Collect(<<i, e>>)
    BY <1>5, <2>2
  <2> QED BY <1>1, <1>3, <2>2, <2>5, <2>6, CollectStep
<1>6. CASE Starts(0, FALSE) = {} /\ Finish(FALSE, FALSE)
  <2>1. pc' = "done" /\ status' = FALSE /\ failed' = FALSE /\ UNCHANGED <<ov, group>>
    BY <1>6 DEF Finish
  <2>2. Chained' /\ group' \in Seq(Spans)
    BY <1>1, <2>1 DEF Chained
  <2>3. RunInv' /\ LoopInv'
    BY <2>1, <2>2 DEF RunInv, LoopInv
  <2>4. \A x \in 0 .. Length(subject) : Eligible(n + 1, x) = None
    BY <1>4, <1>6 DEF Starts
  <2>5. NoneBetween(n + 1, PreviousEnd(n + 1), Length(subject))
    BY <1>4, <2>4 DEF NoneBetween
  <2>6. NoneBetween(Len(group) + 1, PreviousEnd(Len(group) + 1), Length(subject))'
    BY <1>1, <1>3, <2>1, <2>5, NoneStays
  <2> QED BY <1>1, <2>1, <2>3, <2>6 DEF DoneInv
<1> QED BY <1>5, <1>6 DEF firstMatch

\* What is eligible behind the last match, where a character starts or not.
LEMMA LastFacts ==
  ASSUME NEW n \in Nat, n > 0, group \in Seq(Spans), n = Len(group)
  PROVE  /\ PreviousEnd(n + 1) = group[n][2]
         /\ \A x : Eligible(n + 1, x) = End(x, group[n][1] = group[n][2] /\ x = group[n][2])
<1>1. n + 1 # 1 /\ n + 1 > 1 /\ (n + 1) - 1 = n
  OBVIOUS
<1>2. PreviousEnd(n + 1) = group[n][2]
  BY <1>1 DEF PreviousEnd
<1>3. ASSUME NEW x
      PROVE  Eligible(n + 1, x) = End(x, group[n][1] = group[n][2] /\ x = group[n][2])
  BY <1>1, <1>2 DEF Eligible, End
<1> QED BY <1>2, <1>3

\* A turn of the loop.
LEMMA AgainStep ==
  ASSUME RunInv, LoopInv, again
  PROVE  RunInv' /\ LoopInv' /\ DoneInv'
<1>1. /\ pc = "again" /\ SubjectOK(subject) /\ PatternOK(subject, pattern)
      /\ UNCHANGED <<subject, pattern>> /\ group \in Seq(Spans) /\ Chained
  BY DEF again, RunInv
<1>2. PICK n \in Nat : n = Len(group)
  BY <1>1
<1> DEFINE m == group[n]
           L == Length(subject)
<1>3. /\ n > 0 /\ status /\ ~failed
      /\ m[2] \in m[1] .. L
      /\ ov \in Spans /\ ov[1] = m[1] /\ ov[2] \in m[2] .. L
      /\ Boundary(subject, ov[2])
      /\ ov[2] > m[2] => m[1] = m[2]
      /\ NoneBetween(n + 1, m[2], ov[2] - 1)
  BY <1>1, <1>2 DEF LoopInv
<1>4. /\ PreviousEnd(n + 1) = m[2]
      /\ \A x : Eligible(n + 1, x) = End(x, m[1] = m[2] /\ x = m[2])
  BY <1>1, <1>2, <1>3, LastFacts
<1>5. m \in Spans /\ m[1] \in Nat /\ m[2] \in Nat /\ L \in Nat /\ ov[1] \in Nat /\ ov[2] \in Nat
  <2>1. m \in Spans
    BY <1>1, <1>2, <1>3
  <2> QED BY <1>1, <1>3, <2>1, SMTT(60) DEF Spans, SubjectOK, Length
<1> HIDE DEF m, L
<1>6. L = Length(subject) /\ L' = L /\ m = group[n]
  BY <1>1 DEF L, Length, m
\* An offset behind the last match: no match behind it may be empty only at it.
<1>7. Empty => ov[2] = m[2] /\ m[1] = m[2]
  BY <1>3, <1>5 DEF Empty
<1>8. \A x \in ov[2] .. L : ~Empty => Eligible(n + 1, x) = End(x, FALSE)
  <2> SUFFICES ASSUME NEW x \in ov[2] .. L, ~Empty PROVE Eligible(n + 1, x) = End(x, FALSE)
    OBVIOUS
  <2>1. ~(m[1] = m[2] /\ x = m[2])
    BY <1>3, <1>5 DEF Empty
  <2> QED BY <1>4, <2>1 DEF End
<1>9. Empty => Eligible(n + 1, ov[2]) = End(ov[2], TRUE)
  BY <1>4, <1>7 DEF End
\* Ended with the loop's status, when nothing is left.
<1>d. ASSUME Finish(TRUE, FALSE), NoneBetween(n + 1, m[2], L) PROVE RunInv' /\ LoopInv' /\ DoneInv'
  <2>1. pc' = "done" /\ status' = TRUE /\ failed' = FALSE /\ UNCHANGED <<ov, group>>
    BY <1>d DEF Finish
  <2>2. RunInv' /\ LoopInv'
    BY <1>1, <2>1, NoneStays DEF RunInv, LoopInv, Chained
  <2>3. NoneBetween(Len(group) + 1, PreviousEnd(Len(group) + 1), Length(subject))
    BY <1>2, <1>4, <1>6, <1>d
  <2>4. NoneBetween(Len(group) + 1, PreviousEnd(Len(group) + 1), Length(subject))'
    BY <1>1, <2>1, <2>3, NoneStays
  <2>5. group' # <<>>
    BY <1>2, <1>3, <2>1
  <2> QED BY <2>1, <2>2, <2>4, <2>5 DEF DoneInv
<1>10. CASE Empty /\ ov[1] = Length(subject)
  <2>1. Finish(TRUE, FALSE)
    BY <1>10 DEF again
  <2>2. m[2] = L /\ Eligible(n + 1, L) = pattern[L].nonempty
    BY <1>3, <1>6, <1>7, <1>9, <1>10 DEF End
  <2>3. pattern[L].nonempty = None
    <3>1. AttemptOK(subject, L, pattern[L])
      BY <1>1, <1>5, <1>6 DEF PatternOK
    <3>2. \A x \in L + 1 .. L : FALSE
      BY <1>5
    <3> QED BY <1>6, <3>1, <3>2 DEF AttemptOK
  <2>4. \A x \in m[2] .. L : x = L
    BY <1>5, <2>2
  <2>5. NoneBetween(n + 1, m[2], L)
    BY <2>2, <2>3, <2>4 DEF NoneBetween
  <2> QED BY <1>d, <2>1, <2>5
<1>11. CASE /\ ~(Empty /\ ov[1] = Length(subject))
            /\ Starts(ov[2], Retries) # {} /\ Collect(pcre2_match(ov[2], Retries))
  <2>1. Retries = Empty /\ Retries \in BOOLEAN /\ ov[2] \in 0 .. Length(subject)
    BY <1>3, <1>5, <1>6 DEF Retries, Empty
  <2>2. PICK i \in ov[2] .. Length(subject) : \E e \in i .. Length(subject) :
          /\ pcre2_match(ov[2], Retries) = <<i, e>> /\ e = End(i, Retries)
          /\ Boundary(subject, e)
          /\ Retries => i = ov[2]
          /\ ~Retries => \A x \in ov[2] .. i - 1 : End(x, FALSE) = None
    BY <1>1, <1>11, <2>1, MatchFacts
  <2>3. PICK e \in i .. Length(subject) :
          /\ pcre2_match(ov[2], Retries) = <<i, e>> /\ e = End(i, Retries)
          /\ Boundary(subject, e)
          /\ Retries => i = ov[2]
          /\ ~Retries => \A x \in ov[2] .. i - 1 : End(x, FALSE) = None
    BY <2>2
  <2>4. i \in 0 .. Length(subject) /\ i >= PreviousEnd(n + 1) /\ i \in ov[2] .. L
    BY <1>3, <1>4, <1>5, <1>6
  <2>5. e = Eligible(n + 1, i)
    <3>1. CASE Empty
      BY <1>9, <2>1, <2>3, <3>1 DEF End
    <3>2. CASE ~Empty
      BY <1>8, <2>1, <2>3, <2>4, <3>2 DEF End
    <3> QED BY <3>1, <3>2
  <2>6. NoneBetween(n + 1, PreviousEnd(n + 1), i - 1)
    <3> SUFFICES ASSUME NEW x \in m[2] .. i - 1
                 PROVE  Eligible(n + 1, x) = None \/ InsideCRLF(x)
      BY <1>4 DEF NoneBetween
    <3>1. CASE x \in m[2] .. ov[2] - 1
      BY <1>3, <3>1 DEF NoneBetween
    <3>2. CASE x \in ov[2] .. i - 1
      <4>1. ~Retries /\ x \in ov[2] .. L
        BY <1>5, <2>3, <2>4, <3>2
      <4> QED BY <1>8, <2>1, <2>3, <3>2, <4>1
    <3> QED BY <1>5, <2>4, <3>1, <3>2
  <2>7. Collect(<<i, e>>)
    BY <1>11, <2>3
  <2> QED BY <1>1, <1>2, <1>3, <2>3, <2>4, <2>5, <2>6, <2>7, CollectStep
<1>12. CASE /\ ~(Empty /\ ov[1] = Length(subject))
            /\ Starts(ov[2], Retries) = {} /\ NoMatch
  <2>1. CASE ~Empty
    <3>1. Finish(TRUE, FALSE)
      BY <1>12, <2>1 DEF NoMatch
    <3>2. \A x \in ov[2] .. L : End(x, FALSE) = None
      BY <1>6, <1>12, <2>1 DEF Starts, Retries, End
    <3>3. ASSUME NEW x \in m[2] .. L PROVE Eligible(n + 1, x) = None \/ InsideCRLF(x)
      <4>1. CASE x \in m[2] .. ov[2] - 1
        BY <1>3, <4>1 DEF NoneBetween
      <4>2. CASE x \in ov[2] .. L
        BY <1>8, <2>1, <3>2, <4>2
      <4> QED BY <1>5, <4>1, <4>2
    <3> QED BY <1>d, <3>1, <3>3 DEF NoneBetween
  <2>2. CASE Empty
    <3>1. ov' = <<ov[1], Beyond(ov[2])>> /\ UNCHANGED <<pc, group, status, failed>>
      BY <1>12, <2>2 DEF NoMatch
    <3>2. ov[2] < Length(subject)
      BY <1>3, <1>5, <1>6, <1>7, <1>12, <2>2
    <3>3. /\ Beyond(ov[2]) \in ov[2] + 1 .. L /\ Boundary(subject, Beyond(ov[2]))
          /\ \A x \in ov[2] + 1 .. Beyond(ov[2]) - 1 : ~Boundary(subject, x) \/ InsideCRLF(x)
      BY <1>1, <1>5, <1>6, <3>2, BeyondFacts
    <3>4. PICK b \in ov[2] + 1 .. L : b = Beyond(ov[2])
      BY <3>3
    <3>5. b \in Nat /\ b > m[2] /\ b \in m[2] .. L
      BY <1>5, <1>7, <2>2, <3>4
    <3>6. ASSUME NEW x \in m[2] .. b - 1 PROVE Eligible(n + 1, x) = None \/ InsideCRLF(x)
      <4>1. CASE x = m[2]
        <5>1. End(ov[2], TRUE) = None
          BY <1>12, <2>2 DEF Starts, Retries, End
        <5> QED BY <1>7, <1>9, <2>2, <4>1, <5>1
      <4>2. CASE x \in ov[2] + 1 .. b - 1 /\ ~InsideCRLF(x)
        <5>1. ~Boundary(subject, x) /\ x \in 0 .. Length(subject)
          BY <1>5, <1>6, <3>3, <3>4, <4>2
        <5>2. AttemptOK(subject, x, pattern[x])
          BY <1>1, <5>1 DEF PatternOK
        <5>3. pattern[x].first = None /\ pattern[x].nonempty = None
          BY <5>1, <5>2 DEF AttemptOK
        <5> QED BY <1>4, <5>3 DEF End
      <4> QED BY <1>5, <1>7, <2>2, <4>1, <4>2
    <3>7. NoneBetween(n + 1, m[2], b - 1)
      BY <3>6 DEF NoneBetween
    <3>8. RunInv'
      <4>1. SubjectOK(subject)' /\ PatternOK(subject, pattern)'
        BY <1>1 DEF SubjectOK, PatternOK, AttemptOK, Boundary, Byte, Length
      <4>2. Chained'
        BY <1>1, <3>1, NoneStays DEF Chained
      <4> QED BY <1>1, <3>1, <4>1, <4>2 DEF RunInv
    <3>9. LoopInv'
      <4>1. ov' \in Spans /\ ov'[1] = m[1] /\ ov'[2] = b
        BY <1>3, <1>5, <3>1, <3>4, <3>5 DEF Spans
      <4>2. Boundary(subject, b)'
        BY <1>1, <3>3, <3>4 DEF Boundary, Byte, Length
      <4>3. PICK c \in Spans : c = m
        BY <1>5
      <4>4. NoneBetween(n + 1, c[2], b - 1)'
        BY <1>1, <3>1, <3>7, <4>3, NoneStays
      <4>5. Len(group)' = n /\ group'[n] = c
        BY <1>2, <1>6, <3>1, <4>3
      <4>6. NoneBetween(Len(group) + 1, group[Len(group)][2], ov[2] - 1)'
        BY <4>1, <4>4, <4>5
      <4>7. /\ n > 0 /\ status' /\ ~failed' /\ c[2] \in c[1] .. Length(subject)'
            /\ ov' \in Spans /\ ov'[1] = c[1] /\ ov'[2] \in c[2] .. Length(subject)'
            /\ Boundary(subject, ov[2])' /\ c[1] = c[2]
        <5>1. n > 0 /\ status' /\ ~failed'
          BY <1>3, <3>1
        <5>2. c[1] = c[2] /\ ov' \in Spans /\ ov'[1] = c[1] /\ ov'[2] = b
          BY <1>7, <2>2, <4>1, <4>3
        <5>3. Length(subject)' = L
          BY <1>1, <1>6 DEF Length
        <5>4. c[2] \in c[1] .. L
          BY <1>3, <4>3
        <5>5. b \in c[2] .. L
          BY <3>5, <4>3
        <5>6. Boundary(subject, ov[2])'
          BY <4>2, <5>2
        <5> QED BY <5>1, <5>2, <5>3, <5>4, <5>5, <5>6
      <4>8. /\ Len(group)' > 0 /\ status' /\ ~failed'
            /\ group'[Len(group)'][2] \in group'[Len(group)'][1] .. Length(subject)'
            /\ ov' \in Spans /\ ov'[1] = group'[Len(group)'][1]
            /\ ov'[2] \in group'[Len(group)'][2] .. Length(subject)'
            /\ Boundary(subject, ov[2])'
            /\ group'[Len(group)'][1] = group'[Len(group)'][2]
        BY <4>5, <4>7
      <4> QED BY <4>6, <4>8 DEF LoopInv
    <3>10. DoneInv'
      BY <1>1, <3>1 DEF DoneInv
    <3> QED BY <3>8, <3>9, <3>10
  <2> QED BY <2>1, <2>2
<1> QED BY <1>3, <1>10, <1>11, <1>12 DEF again

\* Every step of execute(), of its callers and of the objects keeps what is known
\* of the call.
CallInv == RunInv /\ LoopInv /\ DoneInv

LEMMA CallInductive == CallInv /\ [Next]_vars => CallInv'
<1> SUFFICES ASSUME CallInv, [Next]_vars PROVE CallInv'
  OBVIOUS
<1>0. RunInv /\ LoopInv /\ DoneInv
  BY DEF CallInv
<1>a. ASSUME UNCHANGED callVars PROVE CallInv'
  <2>1. UNCHANGED <<pc, subject, pattern, ov, group, status, failed>>
    BY <1>a DEF callVars
  <2>2. RunInv'
    BY <1>0, <2>1, NoneStays DEF RunInv, Chained, SubjectOK, PatternOK, AttemptOK, Boundary,
                                 Byte, Length
  <2>3. LoopInv'
    <3>1. NoneBetween(Len(group) + 1, group[Len(group)][2], ov[2] - 1)
            => NoneBetween(Len(group) + 1, group[Len(group)][2], ov[2] - 1)'
      BY <2>1, NoneStays
    <3>2. Boundary(subject, ov[2])' <=> Boundary(subject, ov[2])
      BY <2>1 DEF Boundary, Byte, Length
    <3>3. Length(subject)' = Length(subject)
      BY <2>1 DEF Length
    <3> QED BY <1>0, <2>1, <3>1, <3>2, <3>3 DEF LoopInv
  <2>4. DoneInv'
    <3>1. NoneBetween(Len(group) + 1, PreviousEnd(Len(group) + 1), Length(subject))
            => NoneBetween(Len(group) + 1, PreviousEnd(Len(group) + 1), Length(subject))'
      BY <2>1, NoneStays
    <3> QED BY <1>0, <2>1, <3>1 DEF DoneInv
  <2> QED BY <2>2, <2>3, <2>4 DEF CallInv
\* The end of a call that PCRE2 gave up, or of one that is returned from.
<1>b. ASSUME pc' \notin {"again", "first"}, pc' = "done" => failed', group' \in Seq(Spans), Chained',
             pc' = "idle" => group' = <<>> /\ ~status' /\ ~failed'
      PROVE  CallInv'
  BY <1>b DEF CallInv, RunInv, LoopInv, DoneInv
\* The beginning of one.
<1>c. ASSUME NEW s, NEW p, NEW query, Begin(s, p, query), pc = "idle", SubjectOK(s), PatternOK(s, p)
      PROVE  CallInv'
  <2>1. /\ pc' = "first" /\ subject' = s /\ pattern' = p
        /\ UNCHANGED <<ov, group, status, failed>> /\ group = <<>> /\ ~status /\ ~failed
    BY <1>0, <1>c DEF Begin, RunInv
  <2>2. SubjectOK(subject)' /\ PatternOK(subject, pattern)'
    BY <1>c, <2>1 DEF SubjectOK, PatternOK, AttemptOK, Boundary, Byte, Length
  <2>3. Chained' /\ group' \in Seq(Spans)
    BY <2>1 DEF Chained
  <2> QED BY <2>1, <2>2, <2>3 DEF CallInv, RunInv, LoopInv, DoneInv
<1>1. CASE ObjectNext
  BY <1>1, <1>a DEF ObjectNext, regex, compile, compileNew, move, swap, destroy
<1>2. ASSUME NEW o \in Objects, NEW s \in Subjects, NEW p \in Patterns(s), execute(o, s, p)
      PROVE  CallInv'
  <2>1. SubjectOK(s) /\ s.bytes \in Seq(STRING)
    BY RegexAssumption DEF SubjectOK
  <2>2. PatternOK(s, p)
    BY <2>1, PatternsOK
  <2>3. Begin(s, p, FALSE) /\ pc = "idle"
    BY <1>2 DEF execute
  <2> QED BY <1>c, <2>1, <2>2, <2>3
<1>3. ASSUME NEW o \in Objects, executeEmpty(o) PROVE CallInv'
  <2>1. pc' = "died" /\ UNCHANGED <<subject, pattern, group, status, failed>>
    BY <1>3 DEF executeEmpty
  <2>2. Chained' /\ group' \in Seq(Spans)
    BY <1>0, <2>1, NoneStays DEF RunInv, Chained
  <2> QED BY <1>b, <2>1, <2>2
<1>4. ASSUME NEW q \in Queries, parseQueryString(q) PROVE CallInv'
  <2>1. PICK s : s = [bytes |-> q, utf |-> FALSE, crlf |-> FALSE]
    OBVIOUS
  <2>2. q \in Seq(STRING)
    BY RegexAssumption
  <2>3. Begin(s, QueryRegex(s), TRUE) /\ pc = "idle"
    BY <1>4, <2>1 DEF parseQueryString
  <2>4. SubjectOK(s) /\ PatternOK(s, QueryRegex(s))
    BY <2>1, <2>2, QueryOK
  <2> QED BY <1>c, <2>3, <2>4
<1>5. CASE firstMatch
  BY <1>0, <1>5, FirstStep DEF CallInv
<1>6. CASE again
  BY <1>0, <1>6, AgainStep DEF CallInv
<1>7. CASE giveUp
  <2>1. /\ pc' = "done" /\ failed' = TRUE /\ group' = group /\ UNCHANGED <<subject, pattern>>
    BY <1>7 DEF giveUp, Finish
  <2>2. Chained' /\ group' \in Seq(Spans)
    BY <1>0, <2>1, NoneStays DEF RunInv, Chained
  <2> QED BY <1>b, <2>1, <2>2
<1>8. CASE return
  <2>1. pc' = "idle" /\ group' = <<>> /\ ~status' /\ ~failed'
    BY <1>8 DEF return
  <2>2. Chained' /\ group' \in Seq(Spans)
    BY <2>1 DEF Chained
  <2> QED BY <1>b, <2>1, <2>2
<1>9. CASE UNCHANGED vars
  BY <1>9, <1>a DEF vars
<1> QED BY <1>1, <1>2, <1>3, <1>4, <1>5, <1>6, <1>7, <1>8, <1>9 DEF Next, Call

\* execute() collects the successive matches of any pattern in any subject, and
\* leaves none; only when PCRE2 gives up does a call fail that has matched.
THEOREM MatchesCorrect == Spec => []MatchesAreSuccessive
<1>1. Init => CallInv
  <2> SUFFICES ASSUME Init PROVE CallInv
    OBVIOUS
  <2>1. pc = "idle" /\ group = <<>> /\ status = FALSE /\ failed = FALSE
    BY DEF Init
  <2>2. Chained /\ group \in Seq(Spans)
    BY <2>1 DEF Chained
  <2> QED BY <2>1, <2>2 DEF CallInv, RunInv, LoopInv, DoneInv
<1>2. CallInv => MatchesAreSuccessive
  BY DEF CallInv, RunInv, Chained, Successive, DoneInv, MatchesAreSuccessive
<1> QED BY <1>1, <1>2, CallInductive, PTL DEF Spec
-----------------------------------------------------------------------------
(* parseQueryString().  The subject is a query, the pattern its regex, and   *)
(* every match starts in the subject.                                        *)

QueryInv ==
  isQuery /\ pc \in {"first", "again", "done"} =>
    \E q \in Queries : /\ subject = [bytes |-> q, utf |-> FALSE, crlf |-> FALSE]
                       /\ pattern = QueryRegex(subject)

WithinInv == pc \in {"again", "done"} => \A k \in DOMAIN group : group[k][1] <= Length(subject)

LEMMA QueryInductive == QueryInv /\ [Next]_vars => QueryInv'
<1> SUFFICES ASSUME QueryInv, [Next]_vars PROVE QueryInv'
  OBVIOUS
<1>1. CASE UNCHANGED <<isQuery, subject, pattern>> /\ (pc' \in {"first", "again", "done"} => pc \in {"first", "again", "done"})
  <2>1. QueryRegex(subject)' = QueryRegex(subject)
    BY <1>1 DEF QueryRegex, QueryAttempt, NameEnd, ValueEnd, Byte, Length
  <2> QED BY <1>1, <2>1 DEF QueryInv
<1>2. CASE ObjectNext \/ UNCHANGED vars
  <2>1. UNCHANGED callVars
    BY <1>2 DEF ObjectNext, regex, compile, compileNew, move, swap, destroy, vars
  <2> QED BY <1>1, <2>1 DEF callVars
<1>3. ASSUME NEW o \in Objects, NEW s \in Subjects, NEW p \in Patterns(s), execute(o, s, p)
      PROVE  QueryInv'
  BY <1>3 DEF execute, Begin, QueryInv
<1>4. ASSUME NEW o \in Objects, executeEmpty(o) PROVE QueryInv'
  BY <1>4 DEF executeEmpty, QueryInv
<1>5. ASSUME NEW q \in Queries, parseQueryString(q) PROVE QueryInv'
  <2>1. PICK s : s = [bytes |-> q, utf |-> FALSE, crlf |-> FALSE]
    OBVIOUS
  <2>2. subject' = s /\ pattern' = QueryRegex(s)
    BY <1>5, <2>1 DEF parseQueryString, Begin
  <2>3. QueryRegex(subject)' = QueryRegex(s)
    BY <2>2 DEF QueryRegex, QueryAttempt, NameEnd, ValueEnd, Byte, Length
  <2> QED BY <2>1, <2>2, <2>3 DEF QueryInv
<1>6. CASE firstMatch
  BY <1>1, <1>6 DEF firstMatch, Collect, Finish
<1>7. CASE again
  BY <1>1, <1>7 DEF again, Collect, Finish, NoMatch
<1>8. CASE giveUp
  BY <1>1, <1>8 DEF giveUp, Finish
<1>9. CASE return
  BY <1>9 DEF return, QueryInv
<1> QED BY <1>2, <1>3, <1>4, <1>5, <1>6, <1>7, <1>8, <1>9 DEF Next, Call

LEMMA WithinInductive == CallInv /\ WithinInv /\ [Next]_vars => WithinInv'
<1> SUFFICES ASSUME CallInv, WithinInv, [Next]_vars PROVE WithinInv'
  OBVIOUS
<1>0. RunInv /\ LoopInv
  BY DEF CallInv
\* Nothing is collected.
<1>1. CASE UNCHANGED <<subject, group>> /\ (pc' \in {"again", "done"} => pc \in {"again", "done"} \/ group = <<>>)
  BY <1>1 DEF WithinInv, Length
\* One more is.
<1>2. ASSUME NEW o \in 0 .. Length(subject), NEW retry \in BOOLEAN, Starts(o, retry) # {},
             Collect(pcre2_match(o, retry)), pc \in {"first", "again"}, subject' = subject
      PROVE  WithinInv'
  <2>1. SubjectOK(subject) /\ PatternOK(subject, pattern) /\ group \in Seq(Spans)
    BY <1>0, <1>2 DEF RunInv
  <2>a. \E i \in o .. Length(subject) : \E e \in i .. Length(subject) :
           /\ pcre2_match(o, retry) = <<i, e>> /\ e = End(i, retry)
           /\ Boundary(subject, e)
           /\ retry => i = o
           /\ ~retry => \A x \in o .. i - 1 : End(x, FALSE) = None
    BY <1>2, <2>1, MatchFacts
  <2>2. PICK i \in o .. Length(subject) : \E e \in i .. Length(subject) :
          pcre2_match(o, retry) = <<i, e>>
    BY <2>a
  <2>3. PICK e \in i .. Length(subject) : pcre2_match(o, retry) = <<i, e>>
    BY <2>2
  <2>4. Length(subject) \in Nat
    BY <2>1 DEF SubjectOK, Length
  <2>5. i \in Nat /\ e \in Nat /\ i <= Length(subject)
    BY <2>2, <2>3, <2>4
  <2>6. PICK m \in Spans : m = <<i, e>>
    BY <2>5 DEF Spans
  <2>7. group' = Append(group, m)
    BY <1>2, <2>3, <2>6 DEF Collect
  <2>8. \A k \in DOMAIN group : group[k][1] <= Length(subject)
    BY <1>0, <1>2 DEF WithinInv, RunInv
  <2>9. m[1] <= Length(subject)
    BY <2>5, <2>6
  <2>10. \A k \in DOMAIN group' : group'[k][1] <= Length(subject)
    <3> SUFFICES ASSUME NEW k \in DOMAIN group' PROVE group'[k][1] <= Length(subject)
      OBVIOUS
    <3>1. (k \in DOMAIN group /\ group'[k] = group[k]) \/ group'[k] = m
      BY <2>1, <2>7
    <3> QED BY <2>8, <2>9, <3>1
  <2> QED BY <1>2, <2>10 DEF WithinInv, Length
<1>3. CASE ObjectNext \/ UNCHANGED vars
  <2>1. UNCHANGED callVars
    BY <1>3 DEF ObjectNext, regex, compile, compileNew, move, swap, destroy, vars
  <2> QED BY <1>1, <2>1 DEF callVars
<1>4. CASE Call
  BY <1>4 DEF Call, execute, executeEmpty, parseQueryString, Begin, WithinInv
<1>5. CASE firstMatch
  <2>1. CASE Starts(0, FALSE) # {} /\ Collect(pcre2_match(0, FALSE))
    <3>1. 0 \in 0 .. Length(subject)
      BY <1>0, <1>5 DEF firstMatch, RunInv, SubjectOK, Length
    <3> QED BY <1>2, <1>5, <2>1, <3>1 DEF firstMatch
  <2>2. CASE Finish(FALSE, FALSE)
    BY <1>0, <1>1, <1>5, <2>2 DEF firstMatch, Finish, RunInv
  <2> QED BY <1>5, <2>1, <2>2 DEF firstMatch
<1>6. CASE again
  <2>1. pc = "again" /\ subject' = subject
    BY <1>6 DEF again
  <2>2. CASE Starts(ov[2], Retries) # {} /\ Collect(pcre2_match(ov[2], Retries))
    <3>1. ov[2] \in 0 .. Length(subject) /\ Retries \in BOOLEAN
      BY <1>0, <2>1 DEF LoopInv, Retries, Empty, RunInv, SubjectOK, Length, Spans
    <3> QED BY <1>2, <2>1, <2>2, <3>1
  <2>3. CASE UNCHANGED group
    BY <1>1, <2>1, <2>3
  <2> QED BY <1>6, <2>2, <2>3 DEF again, NoMatch, Finish
<1>7. CASE giveUp
  BY <1>0, <1>1, <1>7 DEF giveUp, Finish, RunInv
<1>8. CASE return
  BY <1>8 DEF return, WithinInv
<1> QED BY <1>3, <1>4, <1>5, <1>6, <1>7, <1>8 DEF Next

-----------------------------------------------------------------------------
(* The pieces of a query.                                                    *)

\* The '&' up to position i, and how many they are.
Amps(i) == {j \in 2 .. i : subject.bytes[j] = "&"}
Count(i) == Cardinality(Amps(i))

\* The bytes behind p up to e are a piece.
PieceAt(p, e) ==
  /\ p \in 1 .. Length(subject) /\ (p = 1 \/ subject.bytes[p] = "&")
  /\ e \in p .. Length(subject) /\ \A x \in p + 1 .. e : subject.bytes[x] # "&"
  /\ e = Length(subject) \/ subject.bytes[e + 1] = "&"

IsQuery ==
  /\ subject.bytes \in Seq(STRING) /\ Length(subject) = Len(subject.bytes)
  /\ Length(subject) \in Nat \ {0}
  /\ subject.bytes[1] = "?" /\ \A x \in 1 .. Length(subject) : subject.bytes[x] # "end"
  /\ ~subject.crlf

LEMMA EarliestIs ==
  ASSUME NEW S \in SUBSET Nat, NEW m \in S, \A j \in S : m <= j
  PROVE  Earliest(S) = m
<1>1. Earliest(S) \in S /\ \A j \in S : Earliest(S) <= j
  BY EarliestFacts
<1>2. PICK e \in S : e = Earliest(S)
  BY <1>1
<1>3. e <= m /\ m <= e /\ e \in Nat /\ m \in Nat
  BY <1>1, <1>2
<1>4. e = m
  BY <1>3
<1> QED BY <1>2, <1>4

LEMMA CountFacts ==
  ASSUME NEW i \in Nat, NEW j \in Nat, i <= j
  PROVE  /\ Count(i) \in Nat /\ Count(j) \in Nat /\ Count(i) <= Count(j)
         /\ (\A x \in i + 1 .. j : subject.bytes[x] # "&") => Count(j) = Count(i)
         /\ i < j /\ j >= 2 /\ subject.bytes[j] = "&" => Count(j) >= Count(i) + 1
         /\ i + 1 = j /\ j >= 2 /\ subject.bytes[j] = "&" => Count(j) = Count(i) + 1
         /\ Count(1) = 0
<1>1. ASSUME NEW n \in Nat PROVE IsFiniteSet(Amps(n)) /\ Count(n) \in Nat
  <2>1. IsFiniteSet(2 .. n)
    BY FS_Interval
  <2>2. Amps(n) \in SUBSET (2 .. n)
    BY DEF Amps
  <2>3. IsFiniteSet(Amps(n))
    BY <2>1, <2>2, FS_Subset
  <2> QED BY <2>3, FS_CardinalityType DEF Count
<1>2. Amps(i) \in SUBSET Amps(j)
  BY DEF Amps
<1>3. Count(i) <= Count(j)
  BY <1>1, <1>2, FS_Subset DEF Count
<1>4. ASSUME \A x \in i + 1 .. j : subject.bytes[x] # "&" PROVE Count(j) = Count(i)
  <2>1. Amps(j) = Amps(i)
    BY <1>4 DEF Amps
  <2> QED BY <2>1 DEF Count
<1>5. j \notin Amps(i) \/ ~(i < j)
  BY DEF Amps
<1>6. Cardinality(Amps(i) \cup {j}) = Count(i) + 1 \/ ~(i < j)
  BY <1>1, <1>5, FS_AddElement DEF Count
<1>7. ASSUME i < j, j >= 2, subject.bytes[j] = "&" PROVE Count(j) >= Count(i) + 1
  <2>1. Amps(i) \cup {j} \in SUBSET Amps(j)
    BY <1>7 DEF Amps
  <2>2. Cardinality(Amps(i) \cup {j}) <= Count(j)
    BY <1>1, <2>1, FS_Subset DEF Count
  <2> QED BY <1>1, <1>6, <1>7, <2>2
<1>8. ASSUME i + 1 = j, j >= 2, subject.bytes[j] = "&" PROVE Count(j) = Count(i) + 1
  <2>1. Amps(j) = Amps(i) \cup {j}
    BY <1>8 DEF Amps
  <2> QED BY <1>6, <1>8, <2>1 DEF Count
<1>9. Count(1) = 0
  <2>1. Amps(1) = {}
    BY DEF Amps
  <2> QED BY <2>1, FS_EmptySet DEF Count
<1> QED BY <1>1, <1>3, <1>4, <1>7, <1>8, <1>9

\* Behind each '&' and behind the '?' there is a piece, which may be empty.
LEMMA PieceExists ==
  ASSUME IsQuery, NEW p \in 1 .. Length(subject), p = 1 \/ subject.bytes[p] = "&"
  PROVE  \E e \in Nat : PieceAt(p, e)
<1> DEFINE S == {e \in p .. Length(subject) : e = Length(subject) \/ subject.bytes[e + 1] = "&"}
<1>1. Length(subject) \in S /\ S \in SUBSET Nat
  BY DEF IsQuery
<1>2. PICK e \in S : \A j \in S : e <= j
  BY <1>1, LeastNatural
<1>3. ASSUME NEW x \in p + 1 .. e PROVE subject.bytes[x] # "&"
  <2>1. x - 1 \in p .. Length(subject) /\ (x - 1) + 1 = x /\ ~(e <= x - 1)
    BY <1>3 DEF IsQuery
  <2>2. x - 1 \notin S
    BY <1>2, <2>1
  <2> QED BY <2>1, <2>2
<1>4. PieceAt(p, e)
  BY <1>2, <1>3 DEF PieceAt
<1>5. e \in Nat
  BY <1>1
<1> QED BY <1>4, <1>5

\* It is the one that has as many '&' before it.
LEMMA PieceShape ==
  ASSUME IsQuery, NEW p, NEW e, PieceAt(p, e)
  PROVE  /\ PieceOf(Count(p)) = p + 1 .. e
         /\ Count(e) = Count(p) /\ Count(p) \in Pieces
<1> DEFINE L == Length(subject)
<1>0. L \in Nat /\ p \in Nat /\ e \in Nat /\ 1 <= p /\ p <= e /\ e <= L
  BY DEF IsQuery, PieceAt
<1>1. Count(e) = Count(p)
  BY <1>0, CountFacts DEF PieceAt
<1>2. Count(p) \in Pieces
  <2>1. Count(p) \in Nat /\ Count(L) \in Nat /\ Count(p) <= Count(L)
    BY <1>0, CountFacts
  <2>2. Pieces = 0 .. Count(L)
    BY DEF Pieces, Count, Amps
  <2> QED BY <2>1, <2>2
<1>3. ASSUME NEW i \in p + 1 .. e PROVE i \in PieceOf(Count(p))
  <2>1. i \in Nat /\ p <= i /\ i \in 2 .. L /\ \A x \in p + 1 .. i : subject.bytes[x] # "&"
    BY <1>0, <1>3 DEF PieceAt
  <2>2. Count(i) = Count(p)
    BY <1>0, <2>1, CountFacts
  <2>3. subject.bytes[i] # "&"
    BY <1>3 DEF PieceAt
  <2> QED BY <2>1, <2>2, <2>3 DEF PieceOf, Count, Amps
<1>4. ASSUME NEW i \in PieceOf(Count(p)) PROVE i \in p + 1 .. e
  <2>1. i \in 2 .. L /\ subject.bytes[i] # "&" /\ Count(i) = Count(p)
    BY DEF PieceOf, Count, Amps
  <2>2. i \in Nat
    BY <2>1
  <2>3. ~(i <= p)
    <3> SUFFICES ASSUME i <= p PROVE FALSE
      OBVIOUS
    <3>1. p # 1 /\ subject.bytes[p] = "&" /\ p >= 2
      BY <1>0, <2>1 DEF PieceAt
    <3>2. i < p
      BY <1>0, <2>1, <3>1
    <3>3. Count(p) >= Count(i) + 1 /\ Count(i) \in Nat /\ Count(p) \in Nat
      BY <1>0, <2>2, <3>1, <3>2, CountFacts
    <3> QED BY <2>1, <3>3
  <2>4. ~(i > e)
    <3> SUFFICES ASSUME i > e PROVE FALSE
      OBVIOUS
    <3>1. subject.bytes[e + 1] = "&" /\ e + 1 >= 2 /\ e + 1 \in Nat /\ e < e + 1
      BY <1>0, <2>1 DEF PieceAt
    <3>2. e + 1 <= i
      BY <1>0, <2>2
    <3>3. Count(e + 1) >= Count(e) + 1 /\ Count(e) \in Nat /\ Count(e + 1) \in Nat
      BY <1>0, <3>1, CountFacts
    <3>4. Count(e + 1) <= Count(i) /\ Count(i) \in Nat
      BY <2>2, <3>1, <3>2, CountFacts
    <3> QED BY <1>1, <2>1, <3>3, <3>4
  <2> QED BY <1>0, <2>2, <2>3, <2>4
<1> QED BY <1>1, <1>2, <1>3, <1>4

\* The first "=" of a piece with a name.
LEMMA NameFacts ==
  ASSUME IsQuery, NEW p, NEW e, PieceAt(p, e), WellFormed(Count(p))
  PROVE  \E d \in p + 2 .. e :
           /\ Earliest(Equals(Count(p))) = d /\ Earliest(PieceOf(Count(p))) = p + 1
           /\ NameEnd(subject, p - 1) = {d - 1} /\ ValueEnd(subject, d - 1) = e
<1> DEFINE L == Length(subject)
           q == subject.bytes
           n == Count(p)
<1>0. L \in Nat /\ p \in Nat /\ e \in Nat /\ 1 <= p /\ p <= e /\ e <= L
  BY DEF IsQuery, PieceAt
<1>1. PieceOf(n) = p + 1 .. e
  BY PieceShape
<1>2. Equals(n) = {i \in p + 1 .. e : q[i] = "="} /\ Equals(n) # {}
  BY <1>1 DEF Equals, WellFormed
<1>3. Equals(n) \in SUBSET Nat
  BY <1>0, <1>2
<1>4. PICK d \in Equals(n) : d = Earliest(Equals(n)) /\ \A j \in Equals(n) : d <= j
  BY <1>2, <1>3, EarliestFacts
<1>5. d \in p + 1 .. e /\ q[d] = "="
  BY <1>2
<1>6. Earliest(PieceOf(n)) = p + 1
  <2>1. PieceOf(n) \in SUBSET Nat /\ p + 1 \in PieceOf(n) /\ \A j \in PieceOf(n) : p + 1 <= j
    BY <1>0, <1>1, <1>5
  <2> QED BY <2>1, EarliestIs
<1>7. d \in p + 2 .. e
  <2>1. d # p + 1
    BY <1>4, <1>6 DEF WellFormed
  <2> QED BY <1>0, <1>5, <2>1
<1>b. \A x \in 0 .. L - 1 : Byte(subject, x) = q[x + 1]
  BY <1>0 DEF Byte
<1>8. ASSUME NEW z \in p + 1 .. d - 1 PROVE q[z] # "="
  <2>1. z \in p + 1 .. e /\ ~(d <= z)
    BY <1>0, <1>5
  <2> QED BY <1>2, <1>4, <2>1
<1>9. ASSUME NEW y \in NameEnd(subject, p - 1) PROVE y = d - 1
  <2>1. /\ y \in (p - 1) + 2 .. L - 1 /\ Byte(subject, y) = "="
        /\ \A k \in (p - 1) + 1 .. y - 1 : Byte(subject, k) # "="
    BY DEF NameEnd
  <2>2. y \in p + 1 .. L - 1 /\ q[y + 1] = "=" /\ y \in Nat
    BY <1>0, <1>b, <2>1
  <2>3. ~(y < d - 1)
    <3>1. y < d - 1 => y + 1 \in p + 1 .. d - 1
      BY <1>0, <1>5, <2>2
    <3> QED BY <1>8, <2>2, <3>1
  <2>4. ~(y > d - 1)
    <3>1. y > d - 1 => d - 1 \in (p - 1) + 1 .. y - 1 /\ d - 1 \in 0 .. L - 1
      BY <1>0, <1>5, <2>2
    <3>2. d - 1 \in 0 .. L - 1 => Byte(subject, d - 1) = q[(d - 1) + 1]
      BY <1>b
    <3>3. (d - 1) + 1 = d
      BY <1>0, <1>5
    <3> QED BY <1>5, <2>1, <3>1, <3>2, <3>3
  <2> QED BY <1>0, <1>5, <2>2, <2>3, <2>4
<1>10. d - 1 \in NameEnd(subject, p - 1)
  <2>1. d - 1 \in (p - 1) + 2 .. L - 1 /\ d - 1 \in 0 .. L - 1 /\ (d - 1) + 1 = d
    BY <1>0, <1>7
  <2>2. Byte(subject, d - 1) = "="
    <3>1. Byte(subject, d - 1) = q[(d - 1) + 1]
      BY <1>b, <2>1
    <3> QED BY <1>5, <2>1, <3>1
  <2>3. ASSUME NEW k \in (p - 1) + 1 .. (d - 1) - 1 PROVE Byte(subject, k) # "="
    <3>1. k \in 0 .. L - 1 /\ k + 1 \in p + 1 .. d - 1
      BY <1>0, <1>7
    <3>2. Byte(subject, k) = q[k + 1]
      BY <1>b, <3>1
    <3> QED BY <1>8, <3>1, <3>2
  <2> QED BY <2>1, <2>2, <2>3 DEF NameEnd
<1>11. ValueEnd(subject, d - 1) = e
  <2> DEFINE V == {v \in (d - 1) + 1 .. L : Byte(subject, v) \in {"&", "end"}}
  <2>1. e \in (d - 1) + 1 .. L
    BY <1>0, <1>7
  <2>2. Byte(subject, e) \in {"&", "end"}
    <3>1. CASE e = L
      BY <1>0, <3>1 DEF Byte
    <3>2. CASE e # L
      <4>1. e \in 0 .. L - 1 /\ q[e + 1] = "&"
        BY <1>0, <3>2 DEF PieceAt
      <4> QED BY <1>b, <4>1
    <3> QED BY <3>1, <3>2
  <2>3. ASSUME NEW v \in V PROVE e <= v
    <3> SUFFICES ASSUME v < e PROVE FALSE
      BY <1>0, <1>7
    <3>1. v \in 0 .. L - 1 /\ v + 1 \in p + 1 .. e /\ v + 1 \in 1 .. L
      BY <1>0, <1>7
    <3>2. Byte(subject, v) = q[v + 1]
      BY <1>b, <3>1
    <3>3. q[v + 1] # "&" /\ q[v + 1] # "end"
      BY <3>1 DEF PieceAt, IsQuery
    <3> QED BY <3>2, <3>3
  <2>4. V \in SUBSET Nat /\ e \in V
    BY <1>0, <1>7, <2>1, <2>2
  <2>5. Earliest(V) = e
    BY <2>3, <2>4, EarliestIs
  <2> QED BY <2>5 DEF ValueEnd
<1> QED BY <1>4, <1>6, <1>7, <1>9, <1>10, <1>11

-----------------------------------------------------------------------------
(* What a call of parseQueryString() has when it ends.                       *)

\* What the regex of a query finds at an offset.
Attempt(x) == QueryAttempt(subject, x).first

Answered ==
  /\ IsQuery /\ group \in Seq(Spans)
  /\ \A k \in DOMAIN group :
       /\ group[k][1] >= PreviousEnd(k) /\ group[k][1] <= Length(subject)
       /\ group[k][2] = Attempt(group[k][1])
       /\ \A x \in PreviousEnd(k) .. group[k][1] - 1 : x <= Length(subject) => Attempt(x) = None
  /\ status = (group # <<>>)
  /\ \A x \in PreviousEnd(Len(group) + 1) .. Length(subject) : Attempt(x) = None

LEMMA AnsweredFacts ==
  ASSUME CallInv, QueryInv, WithinInv, pc = "done", isQuery, ~failed
  PROVE  Answered
<1>1. PICK q \in Queries : /\ subject = [bytes |-> q, utf |-> FALSE, crlf |-> FALSE]
                           /\ pattern = QueryRegex(subject)
  BY DEF QueryInv
<1>2. subject.bytes = q /\ subject.crlf = FALSE
  BY <1>1
<1>3. /\ q \in Seq(STRING) /\ q # <<>> /\ q[1] = "?"
      /\ \A n \in DOMAIN q : q[n] # "end"
  BY RegexAssumption
<1>4. IsQuery
  BY <1>2, <1>3 DEF IsQuery, Length
<1>5. ASSUME NEW x \in 0 .. Length(subject), NEW k PROVE Eligible(k, x) = Attempt(x)
  <2>1. pattern[x] = QueryAttempt(subject, x)
    BY <1>1 DEF QueryRegex
  <2>2. QueryAttempt(subject, x).nonempty = QueryAttempt(subject, x).first
    BY DEF QueryAttempt
  <2> QED BY <2>1, <2>2 DEF Eligible, End, Attempt
<1>6. ~InsideCRLF(0) /\ \A x : ~InsideCRLF(x)
  BY <1>2 DEF InsideCRLF
<1>7. RunInv /\ DoneInv
  BY DEF CallInv
<1>8. group \in Seq(Spans) /\ Length(subject) \in Nat
  BY <1>4, <1>7 DEF RunInv, IsQuery
<1>9. ASSUME NEW k \in Nat, k > 0, k <= Len(group) + 1 PROVE PreviousEnd(k) \in Nat
  <2>1. CASE k = 1
    BY <2>1 DEF PreviousEnd
  <2>2. CASE k # 1
    <3>1. k - 1 \in DOMAIN group
      BY <1>8, <1>9, <2>2
    <3>2. group[k - 1] \in Spans
      BY <1>8, <3>1
    <3> QED BY <2>2, <3>2 DEF PreviousEnd, Spans
  <2> QED BY <2>1, <2>2
<1>10. ASSUME NEW k \in DOMAIN group
       PROVE  /\ group[k][1] >= PreviousEnd(k) /\ group[k][1] <= Length(subject)
              /\ group[k][2] = Attempt(group[k][1])
              /\ \A x \in PreviousEnd(k) .. group[k][1] - 1 : x <= Length(subject) => Attempt(x) = None
  <2>1. Successive(k)
    BY <1>7 DEF RunInv, Chained
  <2>2. group[k] \in Spans /\ group[k][1] <= Length(subject)
    BY <1>8 DEF WithinInv
  <2>3. group[k][1] \in 0 .. Length(subject)
    BY <1>8, <2>2 DEF Spans
  <2>4. group[k][2] = Attempt(group[k][1])
    BY <1>5, <2>1, <2>3 DEF Successive
  <2>5. k \in Nat /\ k > 0 /\ k <= Len(group) + 1
    BY <1>8
  <2>6. PreviousEnd(k) \in Nat
    BY <1>9, <2>5
  <2>7. ASSUME NEW x \in PreviousEnd(k) .. group[k][1] - 1, x <= Length(subject)
        PROVE  Attempt(x) = None
    <3>1. x \in 0 .. Length(subject)
      BY <1>8, <2>6, <2>7
    <3>2. Eligible(k, x) = None
      BY <1>6, <2>1 DEF Successive, NoneBetween
    <3> QED BY <1>5, <3>1, <3>2
  <2> QED BY <2>1, <2>2, <2>4, <2>7 DEF Successive
<1>11. /\ status = (group # <<>>)
       /\ NoneBetween(Len(group) + 1, PreviousEnd(Len(group) + 1), Length(subject))
  BY <1>7 DEF DoneInv
<1>12. ASSUME NEW x \in PreviousEnd(Len(group) + 1) .. Length(subject) PROVE Attempt(x) = None
  <2>1. PreviousEnd(Len(group) + 1) \in Nat
    BY <1>8, <1>9
  <2>2. x \in 0 .. Length(subject)
    BY <1>8, <2>1
  <2>3. Eligible(Len(group) + 1, x) = None
    BY <1>6, <1>11 DEF NoneBetween
  <2> QED BY <1>5, <2>2, <2>3
<1> QED BY <1>4, <1>8, <1>10, <1>11, <1>12 DEF Answered

\* A well-formed piece that starts where the last match ended is the next match.
LEMMA NextPiece ==
  ASSUME Answered, NEW n \in Nat, NEW p, NEW e, PieceAt(p, e), n = Count(p), WellFormed(n),
         n <= Len(group), PreviousEnd(n + 1) = p - 1
  PROVE  /\ n + 1 <= Len(group) /\ group[n + 1] = <<p - 1, e>>
         /\ Name(n + 1) = PieceName(n) /\ Value(n + 1) = PieceValue(n)
<1> DEFINE L == Length(subject)
           q == subject.bytes
<1>0. L \in Nat /\ p \in Nat /\ e \in Nat /\ 1 <= p /\ p <= e /\ e <= L
  BY DEF Answered, IsQuery, PieceAt
<1>1. PICK d \in p + 2 .. e :
        /\ Earliest(Equals(n)) = d /\ Earliest(PieceOf(n)) = p + 1
        /\ NameEnd(subject, p - 1) = {d - 1} /\ ValueEnd(subject, d - 1) = e
  BY NameFacts DEF Answered
<1>2. Earliest({d - 1}) = d - 1
  <2>1. {d - 1} \in SUBSET Nat /\ d - 1 \in {d - 1} /\ \A j \in {d - 1} : d - 1 <= j
    BY <1>0, <1>1
  <2> QED BY <2>1, EarliestIs
<1>3. Attempt(p - 1) = e
  <2>1. p - 1 < L /\ (p - 1) + 1 = p
    BY <1>0
  <2>2. Byte(subject, p - 1) = q[p]
    BY <2>1 DEF Byte
  <2>3. q[p] \in {"?", "&"}
    BY DEF Answered, IsQuery, PieceAt
  <2>4. QueryAttempt(subject, p - 1) = [first |-> e, nonempty |-> e]
    BY <1>1, <1>2, <2>2, <2>3 DEF QueryAttempt
  <2> QED BY <2>4 DEF Attempt
<1>4. e # None
  BY <1>0 DEF None
<1>5. group \in Seq(Spans) /\ Len(group) \in Nat
  BY DEF Answered
<1>6. n + 1 <= Len(group)
  <2> SUFFICES ASSUME n = Len(group) PROVE FALSE
    BY <1>5
  <2>1. p - 1 \in p - 1 .. L
    BY <1>0
  <2>2. \A x \in PreviousEnd(n + 1) .. L : Attempt(x) = None
    BY DEF Answered
  <2> QED BY <1>3, <1>4, <2>1, <2>2
<1>7. n + 1 \in DOMAIN group
  BY <1>5, <1>6
<1>8. group[n + 1] \in Spans
  BY <1>5, <1>7
<1>9. PICK g \in Nat : g = group[n + 1][1]
  BY <1>8 DEF Spans
<1>10. /\ g >= p - 1 /\ group[n + 1][2] = Attempt(g)
       /\ \A x \in p - 1 .. g - 1 : x <= L => Attempt(x) = None
  BY <1>7, <1>9 DEF Answered
<1>11. g = p - 1
  <2>1. g > p - 1 => p - 1 \in p - 1 .. g - 1 /\ p - 1 <= L
    BY <1>0
  <2>2. ~(g > p - 1)
    BY <1>3, <1>4, <1>10, <2>1
  <2> QED BY <1>0, <1>10, <2>2
<1>12. group[n + 1] = <<p - 1, e>>
  <2>1. PICK h \in Spans : h = group[n + 1]
    BY <1>8
  <2>2. h[1] = p - 1 /\ h[2] = e
    BY <1>3, <1>9, <1>10, <1>11, <2>1
  <2>3. h = <<h[1], h[2]>>
    BY DEF Spans
  <2> QED BY <2>1, <2>2, <2>3
<1>a. group[n + 1][1] = p - 1 /\ group[n + 1][2] = e
  BY <1>12
<1>13. Name(n + 1) = PieceName(n)
  <2>1. Name(n + 1) = SubSeq(q, (p - 1) + 2, d - 1)
    <3>1. Name(n + 1) = SubSeq(q, group[n + 1][1] + 2, Earliest(NameEnd(subject, group[n + 1][1])))
      BY DEF Name
    <3>2. Earliest(NameEnd(subject, p - 1)) = d - 1
      BY <1>1, <1>2
    <3> QED BY <1>a, <3>1, <3>2
  <2>2. PieceName(n) = SubSeq(q, p + 1, d - 1)
    BY <1>1 DEF PieceName
  <2>3. (p - 1) + 2 = p + 1
    BY <1>0
  <2> QED BY <2>1, <2>2, <2>3
<1>14. Value(n + 1) = PieceValue(n)
  <2>1. Value(n + 1) = SubSeq(q, (d - 1) + 2, e)
    <3>1. Value(n + 1) = SubSeq(q, Earliest(NameEnd(subject, group[n + 1][1])) + 2, group[n + 1][2])
      BY DEF Value
    <3>2. Earliest(NameEnd(subject, p - 1)) = d - 1
      BY <1>1, <1>2
    <3> QED BY <1>a, <3>1, <3>2
  <2>2. PieceOf(n) = p + 1 .. e
    BY PieceShape DEF Answered
  <2>3. (CHOOSE i \in p + 1 .. e : \A j \in p + 1 .. e : j <= i) = e
    <3>1. e \in p + 1 .. e /\ \A j \in p + 1 .. e : j <= e
      BY <1>0, <1>1
    <3>2. \A i \in p + 1 .. e : (\A j \in p + 1 .. e : j <= i) => i = e
      BY <1>0, <3>1
    <3> QED BY <3>1, <3>2
  <2>4. PieceValue(n) = SubSeq(q, d + 1, e)
    BY <1>1, <2>2, <2>3 DEF PieceValue
  <2>5. (d - 1) + 2 = d + 1
    BY <1>0, <1>1
  <2> QED BY <2>1, <2>4, <2>5
<1> QED BY <1>6, <1>12, <1>13, <1>14

\* Well-formed pieces with nothing else before them.
Sound == {n \in Pieces : \A m \in 0 .. n : WellFormed(m)}

\* The n-th piece is the match behind n others.
CollectedAt(n, p, e) ==
  /\ PieceAt(p, e) /\ Count(p) = n
  /\ n + 1 <= Len(group) /\ group[n + 1] = <<p - 1, e>>
  /\ Name(n + 1) = PieceName(n) /\ Value(n + 1) = PieceValue(n)

LEMMA SoundCollected ==
  ASSUME Answered
  PROVE  \A n \in Sound : \E p, e \in Nat : CollectedAt(n, p, e)
<1> DEFINE L == Length(subject)
           bad == {n \in Sound : ~ \E p, e \in Nat : CollectedAt(n, p, e)}
<1>0. IsQuery /\ L \in Nat \ {0} /\ group \in Seq(Spans) /\ Len(group) \in Nat
  BY DEF Answered, IsQuery
<1>c. Count(L) \in Nat /\ Pieces = 0 .. Count(L)
  <2>1. Count(L) \in Nat
    BY <1>0, CountFacts
  <2>2. Pieces = 0 .. Count(L)
    BY DEF Pieces, Count, Amps
  <2> QED BY <2>1, <2>2
<1>1. Sound \in SUBSET Nat
  BY <1>c DEF Sound
<1> SUFFICES ASSUME bad # {} PROVE FALSE
  OBVIOUS
<1>2. bad \in SUBSET Nat
  BY <1>1
<1>3. PICK n \in bad : \A j \in bad : n <= j
  BY <1>2, LeastNatural
<1>4. n \in Nat /\ n \in Sound /\ n \in Pieces /\ n <= Count(L)
  BY <1>1, <1>c DEF Sound
<1>5. WellFormed(n)
  BY <1>4 DEF Sound
<1> HIDE DEF bad
\* Its place.
<1>6. ASSUME NEW p \in 1 .. L, p = 1 \/ subject.bytes[p] = "&", Count(p) = n,
             n <= Len(group), PreviousEnd(n + 1) = p - 1
      PROVE  FALSE
  <2>1. PICK e \in Nat : PieceAt(p, e)
    BY <1>0, <1>6, PieceExists
  <2>2. /\ n + 1 <= Len(group) /\ group[n + 1] = <<p - 1, e>>
        /\ Name(n + 1) = PieceName(n) /\ Value(n + 1) = PieceValue(n)
    BY <1>4, <1>5, <1>6, <2>1, NextPiece
  <2>3. CollectedAt(n, p, e)
    BY <1>6, <2>1, <2>2 DEF CollectedAt
  <2>4. p \in Nat
    BY <1>0
  <2> QED BY <1>3, <2>3, <2>4 DEF bad
<1>7. CASE n = 0
  <2>1. 1 \in 1 .. L /\ Count(1) = 0
    BY <1>0, CountFacts
  <2>2. PreviousEnd(n + 1) = 1 - 1
    BY <1>7 DEF PreviousEnd
  <2> QED BY <1>0, <1>6, <1>7, <2>1, <2>2
<1>8. CASE n # 0
  <2>1. n - 1 \in Nat /\ n - 1 \in Pieces /\ \A m \in 0 .. n - 1 : m \in 0 .. n
    BY <1>4, <1>8, <1>c
  <2>2. n - 1 \in Sound /\ ~(n <= n - 1)
    BY <1>4, <2>1 DEF Sound
  <2>3. n - 1 \notin bad
    BY <1>3, <2>2
  <2>4. \E p, e \in Nat : CollectedAt(n - 1, p, e)
    BY <2>2, <2>3 DEF bad
  <2>5. PICK p \in Nat, e \in Nat : CollectedAt(n - 1, p, e)
    BY <2>4
  <2>6. /\ PieceAt(p, e) /\ Count(p) = n - 1 /\ n <= Len(group) /\ group[n] = <<p - 1, e>>
    <3>1. (n - 1) + 1 = n
      BY <1>4
    <3> QED BY <2>5, <3>1 DEF CollectedAt
  <2>7. Count(e) = n - 1
    BY <1>0, <2>6, PieceShape
  <2>8. e # L
    <3>1. ~(n <= n - 1)
      BY <1>4
    <3> QED BY <1>4, <2>7, <3>1
  <2>9. e + 1 \in 1 .. L /\ subject.bytes[e + 1] = "&" /\ e \in Nat /\ 1 <= e
    BY <1>0, <2>6, <2>8 DEF PieceAt
  <2>10. Count(e + 1) = n
    <3>1. Count(e + 1) = Count(e) + 1
      BY <2>9, CountFacts
    <3> QED BY <1>4, <2>7, <3>1
  <2>11. PreviousEnd(n + 1) = (e + 1) - 1
    <3>1. n + 1 # 1 /\ (n + 1) - 1 = n
      BY <1>4, <1>8
    <3>2. PreviousEnd(n + 1) = e
      BY <2>6, <3>1 DEF PreviousEnd
    <3> QED BY <3>2, <2>9
  <2> QED BY <1>6, <2>6, <2>9, <2>10, <2>11
<1> QED BY <1>7, <1>8

\* And when all pieces are well-formed, there is no other match.
LEMMA AllSound ==
  ASSUME Answered, Sound = Pieces
  PROVE  Sound # {} /\ \A k \in DOMAIN group : k - 1 \in Sound
<1> DEFINE L == Length(subject)
<1>0. IsQuery /\ L \in Nat \ {0} /\ group \in Seq(Spans) /\ Len(group) \in Nat
  BY DEF Answered, IsQuery
<1>1. PICK last \in Nat : last = Count(L) /\ Pieces = 0 .. last
  <2>1. Count(L) \in Nat
    BY <1>0, CountFacts
  <2>2. Pieces = 0 .. Count(L)
    BY DEF Pieces, Count, Amps
  <2> QED BY <2>1, <2>2
<1>2. last \in Sound
  BY <1>1
<1>3. PICK p \in Nat, e \in Nat : CollectedAt(last, p, e)
  BY <1>2, SoundCollected
<1>4. PieceAt(p, e) /\ Count(p) = last /\ group[last + 1] = <<p - 1, e>> /\ Count(e) = last
  BY <1>0, <1>3, PieceShape DEF CollectedAt
<1>5. e = L
  <2> SUFFICES ASSUME e # L PROVE FALSE
    OBVIOUS
  <2>1. /\ e + 1 \in Nat /\ e < e + 1 /\ e + 1 >= 2 /\ subject.bytes[e + 1] = "&"
        /\ e + 1 <= L
    BY <1>0, <1>4 DEF PieceAt
  <2>2. Count(e + 1) >= Count(e) + 1 /\ Count(e + 1) \in Nat
    BY <2>1, CountFacts
  <2>3. Count(e + 1) <= Count(L)
    BY <1>0, <2>1, CountFacts
  <2> QED BY <1>1, <1>4, <2>2, <2>3
<1>6. Attempt(L) = None
  <2>1. Byte(subject, L) = "end"
    <3>1. ~(L < L)
      BY <1>0
    <3> QED BY <3>1 DEF Byte
  <2>2. QueryAttempt(subject, L) = [first |-> None, nonempty |-> None]
    BY <2>1 DEF QueryAttempt
  <2> QED BY <2>2 DEF Attempt
<1>7. Len(group) <= last + 1
  <2> SUFFICES ASSUME last + 2 <= Len(group) PROVE FALSE
    BY <1>0
  <2>1. last + 2 \in DOMAIN group /\ group[last + 2] \in Spans
    BY <1>0
  <2>2. PreviousEnd(last + 2) = L
    <3>1. last + 2 # 1 /\ (last + 2) - 1 = last + 1
      OBVIOUS
    <3> QED BY <1>4, <1>5, <3>1 DEF PreviousEnd
  <2>3. PICK g \in Nat : g = group[last + 2][1]
    BY <2>1 DEF Spans
  <2>4. g >= L /\ g <= L /\ group[last + 2][2] = Attempt(g)
    BY <2>1, <2>2, <2>3 DEF Answered
  <2>5. g = L
    BY <1>0, <2>4
  <2>6. group[last + 2][2] = None /\ None \notin Nat
    BY <1>6, <2>4, <2>5 DEF None
  <2> QED BY <2>1, <2>6 DEF Spans
<1>8. \A k \in DOMAIN group : k - 1 \in 0 .. last
  BY <1>0, <1>7
<1> QED BY <1>1, <1>2, <1>8

\* Of the well-formed pieces at the beginning parseQueryString() finds all, each
\* name with its first value, and no other argument when all pieces are so.
LEMMA QueryFound ==
  ASSUME Answered
  PROVE  LET firstOf(n) == Earliest({m \in Sound : PieceName(m) = PieceName(n)})
         IN /\ Sound # {} => status
            /\ \A n \in Sound : /\ PieceName(n) \in DOMAIN dict
                                /\ dict[PieceName(n)] = PieceValue(firstOf(n))
            /\ Sound = Pieces => DOMAIN dict = {PieceName(n) : n \in Sound}
<1> DEFINE firstOf(n) == Earliest({m \in Sound : PieceName(m) = PieceName(n)})
           names == {Name(k) : k \in DOMAIN group}
           named(x) == {k \in DOMAIN group : Name(k) = x}
<1>0. group \in Seq(Spans) /\ Len(group) \in Nat /\ DOMAIN group = 1 .. Len(group)
  BY DEF Answered
<1>1. Sound \in SUBSET Nat /\ \A n \in Sound : \A m \in 0 .. n : m \in Sound
  <2>1. Length(subject) \in Nat /\ Length(subject) <= Length(subject)
    BY DEF Answered, IsQuery
  <2>2. Count(Length(subject)) \in Nat
    BY <2>1, CountFacts
  <2>3. Pieces = 0 .. Count(Length(subject))
    BY DEF Pieces, Count, Amps
  <2> QED BY <2>2, <2>3 DEF Sound
<1>2. ASSUME NEW n \in Sound
      PROVE  /\ n + 1 \in DOMAIN group
             /\ Name(n + 1) = PieceName(n) /\ Value(n + 1) = PieceValue(n)
  <2>1. PICK p \in Nat, e \in Nat : CollectedAt(n, p, e)
    BY SoundCollected
  <2> QED BY <1>0, <1>1, <2>1 DEF CollectedAt
<1>3. Sound # {} => status
  <2> SUFFICES ASSUME NEW n \in Sound PROVE status
    OBVIOUS
  <2>1. group # <<>>
    BY <1>2
  <2> QED BY <2>1 DEF Answered
<1>4. status => dict = [x \in names |-> Value(Earliest(named(x)))]
  BY DEF dict, Emplaced
<1>5. ASSUME NEW n \in Sound
      PROVE  PieceName(n) \in DOMAIN dict /\ dict[PieceName(n)] = PieceValue(firstOf(n))
  <2> DEFINE x == PieceName(n)
             S == {m \in Sound : PieceName(m) = PieceName(n)}
  <2>1. S \in SUBSET Nat /\ n \in S
    BY <1>1
  <2>2. PICK m \in S : m = Earliest(S) /\ \A j \in S : m <= j
    BY <2>1, EarliestFacts
  <2>3. m \in Sound /\ PieceName(m) = x /\ m \in Nat /\ n \in Nat /\ m <= n
    BY <1>1, <2>1, <2>2
  <2>4. m + 1 \in named(x) /\ named(x) \in SUBSET Nat
    BY <1>0, <1>2, <2>3
  <2>5. ASSUME NEW k \in named(x) PROVE m + 1 <= k
    <3>1. k \in Nat /\ k >= 1 /\ Name(k) = x
      BY <1>0
    <3>2. CASE k <= n + 1
      <4>1. k - 1 \in 0 .. n /\ (k - 1) + 1 = k
        BY <2>3, <3>1, <3>2
      <4>2. k - 1 \in Sound
        BY <1>1, <4>1
      <4>3. PieceName(k - 1) = x
        BY <1>2, <3>1, <4>1, <4>2
      <4>4. m <= k - 1
        BY <2>2, <4>2, <4>3
      <4> QED BY <2>3, <3>1, <4>4
    <3>3. CASE ~(k <= n + 1)
      BY <2>3, <3>1, <3>3
    <3> QED BY <3>2, <3>3
  <2>6. Earliest(named(x)) = m + 1
    BY <2>4, <2>5, EarliestIs
  <2>7. x \in names
    BY <2>4
  <2>8. dict[x] = Value(m + 1) /\ x \in DOMAIN dict
    <3> HIDE DEF names, named
    <3> QED BY <1>3, <1>4, <2>6, <2>7
  <2>9. Value(m + 1) = PieceValue(m)
    BY <1>2, <2>3
  <2> QED BY <2>2, <2>8, <2>9
<1>6. ASSUME Sound = Pieces PROVE DOMAIN dict = {PieceName(n) : n \in Sound}
  <2>1. Sound # {} /\ \A k \in DOMAIN group : k - 1 \in Sound
    BY <1>6, AllSound
  <2>2. DOMAIN dict = names
    <3> HIDE DEF names, named
    <3> QED BY <1>3, <1>4, <2>1
  <2>3. ASSUME NEW k \in DOMAIN group PROVE Name(k) \in {PieceName(n) : n \in Sound}
    <3>1. k - 1 \in Sound /\ (k - 1) + 1 = k
      BY <1>0, <2>1
    <3>2. Name(k) = PieceName(k - 1)
      BY <1>2, <3>1
    <3> QED BY <3>1, <3>2
  <2>4. ASSUME NEW n \in Sound PROVE PieceName(n) \in names
    BY <1>2
  <2> QED BY <2>2, <2>3, <2>4
<1> QED BY <1>3, <1>5, <1>6

\* Of every query that begins with '?': up to the first piece that is not
\* name=value, parseQueryString finds every argument, with the value of the first
\* of its name, and no other, and then it succeeds.
THEOREM QueryCorrect == Spec => []QueryParsed
<1>1. Init => CallInv /\ QueryInv /\ WithinInv
  <2> SUFFICES ASSUME Init PROVE CallInv /\ QueryInv /\ WithinInv
    OBVIOUS
  <2>1. pc = "idle" /\ group = <<>> /\ status = FALSE /\ failed = FALSE
    BY DEF Init
  <2>2. Chained /\ group \in Seq(Spans)
    BY <2>1 DEF Chained
  <2> QED BY <2>1, <2>2 DEF CallInv, RunInv, LoopInv, DoneInv, QueryInv, WithinInv
<1>2. CallInv /\ QueryInv /\ WithinInv => QueryParsed
  <2> SUFFICES ASSUME CallInv, QueryInv, WithinInv, pc = "done", isQuery, ~failed
               PROVE  QueryParsed
    BY DEF QueryParsed
  <2>1. Answered
    BY AnsweredFacts
  <2> QED BY <2>1, QueryFound DEF QueryParsed, Sound
<1> QED BY <1>1, <1>2, CallInductive, QueryInductive, WithinInductive, PTL DEF Spec
=============================================================================
