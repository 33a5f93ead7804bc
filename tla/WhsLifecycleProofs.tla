-------------------------- MODULE WhsLifecycleProofs --------------------------
(***************************************************************************)
(* Proofs about WhsLifecycle, for any builders and any sequence of calls:  *)
(* when a middleware is deleted twice or used after it was deleted, when a *)
(* request meets a null pointer, and what the destructor leaves.           *)
(***************************************************************************)
EXTENDS WhsLifecycle, Integers, TLAPS

\* The types the proofs need: TypeOK with the domains of the functions.
Types ==
  /\ TypeOK
  /\ content \in [Builders -> Seq(Nat)]
  /\ before \in Seq(Nat) /\ after \in Seq(Nat)
  /\ notFound \in Nat /\ systemError \in Nat /\ staticFile \in Nat

\* start() supplies the router and the handler.
CompleteInv == starts > 0 => route /\ notFound # None

\* Nobody but the builder itself puts what it constructs anywhere.
ContentInv ==
  /\ \A b \in Builders :
       /\ IsInjective(content[b])
       /\ {notFound, systemError, staticFile} \cap ToSet(content[b]) = {}
       /\ \A k \in 1 .. Len(given[b]) : given[b][k] <= Len(content[b])
  /\ \A b, c \in Builders : b # c => ToSet(content[b]) \cap ToSet(content[c]) = {}
  /\ staticFile # None => staticFile # notFound /\ staticFile # systemError
  /\ notFound # None => notFound # systemError

\* Middleware i of builder b has never been given to the server.
Unhanded(b, i) == \A k \in 1 .. Len(given[b]) : given[b][k] < i

\* Every pointer the server holds has one owner, and what it owns is not deleted.
Owned ==
  /\ IsInjective(before) /\ IsInjective(after)
  /\ ToSet(before) \cap ToSet(after) = {}
  /\ {notFound, systemError} \cap (ToSet(before) \cup ToSet(after)) = {}
  /\ (ToSet(before) \cup ToSet(after) \cup {notFound, systemError}) \cap deleted = {}

\* ... as long as nothing is shared.
OwnInv == outcome = "alive" /\ ~Shared => Owned

\* What the server has not been given yet it neither holds nor has deleted;
\* a static file server comes into a pipeline in start().
Pending ==
  /\ \A b \in Builders : \A i \in 1 .. Len(content[b]) :
       Unhanded(b, i) => content[b][i] \notin ToSet(before) \cup ToSet(after) \cup deleted
  /\ staticFile \notin ToSet(after)
  /\ starts = 0 => staticFile \notin ToSet(before) \cup deleted

PendingInv == outcome = "alive" /\ ~Shared => Pending

\* What the server holds.
Held == ToSet(before) \cup ToSet(after) \cup {notFound, systemError}
-------------------------------------------------------------------------------
(***************************************************************************)
(* Sequences of pointers.                                                  *)
(***************************************************************************)

\* The empty sequence.
LEMMA EmptyFacts == <<>> \in Seq(Nat) /\ ToSet(<<>>) = {} /\ IsInjective(<<>>)
  BY DEF ToSet, IsInjective

\* The pointers of a sequence.
LEMMA ElementFacts ==
  ASSUME NEW s \in Seq(Nat)
  PROVE  /\ ToSet(s) = {s[i] : i \in 1 .. Len(s)}
         /\ IsInjective(s) <=> \A i, j \in 1 .. Len(s) : s[i] = s[j] => i = j
  BY DEF ToSet, IsInjective

\* A pointer added at the end.
LEMMA AppendFacts ==
  ASSUME NEW s \in Seq(Nat), NEW x \in Nat
  PROVE  /\ Append(s, x) \in Seq(Nat)
         /\ ToSet(Append(s, x)) = ToSet(s) \cup {x}
         /\ IsInjective(s) /\ x \notin ToSet(s) => IsInjective(Append(s, x))
<1> DEFINE t == Append(s, x)
<1>1. /\ t \in Seq(Nat) /\ Len(t) = Len(s) + 1 /\ t[Len(s) + 1] = x
      /\ Len(s) \in Nat
      /\ \A i \in 1 .. Len(s) : t[i] = s[i]
  OBVIOUS
<1> HIDE DEF t
<1>2. /\ ToSet(t) = {t[i] : i \in 1 .. Len(t)} /\ ToSet(s) = {s[i] : i \in 1 .. Len(s)}
      /\ IsInjective(s) <=> \A i, j \in 1 .. Len(s) : s[i] = s[j] => i = j
      /\ IsInjective(t) <=> \A i, j \in 1 .. Len(t) : t[i] = t[j] => i = j
  BY <1>1, ElementFacts
<1>3. ToSet(t) = ToSet(s) \cup {x}
  <2>1. \A i \in 1 .. Len(t) : i \in 1 .. Len(s) \/ i = Len(s) + 1
    BY <1>1
  <2>2. 1 .. Len(s) \subseteq 1 .. Len(t) /\ Len(s) + 1 \in 1 .. Len(t)
    BY <1>1
  <2> QED BY <1>1, <1>2, <2>1, <2>2, SMTT(60)
<1>4. ASSUME IsInjective(s), x \notin ToSet(s) PROVE IsInjective(t)
  <2> SUFFICES ASSUME NEW i \in 1 .. Len(t), NEW j \in 1 .. Len(t), t[i] = t[j]
               PROVE  i = j
    BY <1>2
  <2>1. (i \in 1 .. Len(s) \/ i = Len(s) + 1) /\ (j \in 1 .. Len(s) \/ j = Len(s) + 1)
    BY <1>1
  <2> QED BY <1>1, <1>2, <1>4, <2>1
<1> QED BY <1>1, <1>3, <1>4 DEF t

\* Two sequences of pointers after one another.
LEMMA ConcatFacts ==
  ASSUME NEW s \in Seq(Nat), NEW t \in Seq(Nat)
  PROVE  /\ s \o t \in Seq(Nat)
         /\ ToSet(s \o t) = ToSet(s) \cup ToSet(t)
         /\ IsInjective(s) /\ IsInjective(t) /\ ToSet(s) \cap ToSet(t) = {}
              => IsInjective(s \o t)
<1> DEFINE u == s \o t
<1>1. /\ u \in Seq(Nat) /\ Len(u) = Len(s) + Len(t) /\ Len(s) \in Nat /\ Len(t) \in Nat
      /\ \A i \in 1 .. Len(s) : u[i] = s[i]
      /\ \A i \in 1 .. Len(t) : u[Len(s) + i] = t[i]
  OBVIOUS
<1> HIDE DEF u
<1>2. /\ ToSet(u) = {u[i] : i \in 1 .. Len(u)} /\ ToSet(s) = {s[i] : i \in 1 .. Len(s)}
      /\ ToSet(t) = {t[i] : i \in 1 .. Len(t)}
      /\ IsInjective(s) <=> \A i, j \in 1 .. Len(s) : s[i] = s[j] => i = j
      /\ IsInjective(t) <=> \A i, j \in 1 .. Len(t) : t[i] = t[j] => i = j
      /\ IsInjective(u) <=> \A i, j \in 1 .. Len(u) : u[i] = u[j] => i = j
  BY <1>1, ElementFacts
<1>3. ASSUME NEW i \in 1 .. Len(u)
      PROVE  \/ i \in 1 .. Len(s) /\ u[i] = s[i]
             \/ \E k \in 1 .. Len(t) : i = Len(s) + k /\ u[i] = t[k]
  <2>1. CASE i <= Len(s)
    BY <1>1, <2>1
  <2>2. CASE i > Len(s)
    <3>1. PICK k \in 1 .. Len(t) : i = Len(s) + k
      <4>1. i - Len(s) \in 1 .. Len(t) /\ i = Len(s) + (i - Len(s))
        BY <1>1, <2>2
      <4> QED BY <4>1
    <3> QED BY <1>1, <3>1
  <2> QED BY <1>1, <2>1, <2>2
<1>4. ToSet(u) = ToSet(s) \cup ToSet(t)
  <2>1. ASSUME NEW x \in ToSet(u) PROVE x \in ToSet(s) \cup ToSet(t)
    <3>1. PICK i \in 1 .. Len(u) : x = u[i]
      BY <1>2
    <3>2. \/ i \in 1 .. Len(s) /\ u[i] = s[i]
          \/ \E k \in 1 .. Len(t) : i = Len(s) + k /\ u[i] = t[k]
      BY <1>3
    <3> QED BY <1>2, <3>1, <3>2
  <2>2. ASSUME NEW x \in ToSet(s) PROVE x \in ToSet(u)
    <3>1. PICK i \in 1 .. Len(s) : x = s[i]
      BY <1>2
    <3>2. i \in 1 .. Len(u)
      BY <1>1
    <3> QED BY <1>1, <1>2, <3>1, <3>2
  <2>3. ASSUME NEW x \in ToSet(t) PROVE x \in ToSet(u)
    <3>1. PICK i \in 1 .. Len(t) : x = t[i]
      BY <1>2
    <3>2. Len(s) + i \in 1 .. Len(u) /\ u[Len(s) + i] = t[i]
      BY <1>1
    <3>3. PICK k \in 1 .. Len(u) : u[k] = x
      BY <3>1, <3>2
    <3> QED BY <1>2, <3>3
  <2> QED BY <2>1, <2>2, <2>3
<1>5. ASSUME IsInjective(s), IsInjective(t), ToSet(s) \cap ToSet(t) = {}
      PROVE  IsInjective(u)
  <2> SUFFICES ASSUME NEW i \in 1 .. Len(u), NEW j \in 1 .. Len(u), u[i] = u[j]
               PROVE  i = j
    BY <1>2
  <2>1. /\ \/ i \in 1 .. Len(s) /\ u[i] = s[i]
           \/ \E k \in 1 .. Len(t) : i = Len(s) + k /\ u[i] = t[k]
        /\ \/ j \in 1 .. Len(s) /\ u[j] = s[j]
           \/ \E k \in 1 .. Len(t) : j = Len(s) + k /\ u[j] = t[k]
    BY <1>3
  <2>2. ASSUME NEW k \in 1 .. Len(s), NEW l \in 1 .. Len(t) PROVE s[k] # t[l]
    <3>1. s[k] \in ToSet(s) /\ t[l] \in ToSet(t)
      BY <1>2
    <3> QED BY <1>5, <3>1
  <2> QED BY <1>2, <1>5, <2>1, <2>2
<1> QED BY <1>1, <1>4, <1>5 DEF u

\* The pointer of a member of Whs, if there is one.
LEMMA SingleFacts ==
  ASSUME NEW m \in Nat
  PROVE  /\ Single(m) \in Seq(Nat) /\ IsInjective(Single(m))
         /\ ToSet(Single(m)) = {m} \ {None}
<1>1. CASE m = None
  BY <1>1, EmptyFacts DEF Single
<1>2. CASE m # None
  <2>1. <<m>> \in Seq(Nat) /\ ToSet(<<m>>) = {m} /\ IsInjective(<<m>>)
    BY DEF ToSet, IsInjective
  <2> QED BY <1>2, <2>1 DEF Single
<1> QED BY <1>1, <1>2

\* What is constructed is new.
LEMMA NewFacts ==
  ASSUME made \in Seq(Kinds), NEW ks \in Seq(Kinds), New(ks)
  PROVE  /\ made' \in Seq(Kinds) /\ Made \subseteq Made' /\ None \notin Made'
         /\ Made' \subseteq Nat
         /\ \A k \in 1 .. Len(ks) : /\ Fresh(k) \in Made' /\ Fresh(k) \notin Made
                                    /\ Fresh(k) \in Nat /\ Fresh(k) # None
                                    /\ made'[Fresh(k)] = ks[k]
         /\ \A m \in Made : made'[m] = made[m]
         /\ \A m \in Made' : m \in Made \/ \E k \in 1 .. Len(ks) : m = Fresh(k)
<1>1. /\ made' = made \o ks /\ made' \in Seq(Kinds) /\ Len(made') = Len(made) + Len(ks)
      /\ Len(made) \in Nat /\ Len(ks) \in Nat
      /\ \A m \in 1 .. Len(made) : made'[m] = made[m]
      /\ \A k \in 1 .. Len(ks) : made'[Len(made) + k] = ks[k]
  BY DEF New
<1>2. ASSUME NEW m \in 1 .. Len(made') PROVE m \in 1 .. Len(made) \/ \E k \in 1 .. Len(ks) : m = Len(made) + k
  <2>1. CASE m > Len(made)
    <3>1. m - Len(made) \in 1 .. Len(ks) /\ m = Len(made) + (m - Len(made))
      BY <1>1, <2>1
    <3> QED BY <3>1
  <2> QED BY <1>1, <2>1
<1>3. ASSUME NEW k \in 1 .. Len(ks)
      PROVE  /\ Len(made) + k \in 1 .. Len(made') /\ Len(made) + k \notin 1 .. Len(made)
             /\ Len(made) + k \in Nat /\ Len(made) + k # 0
  BY <1>1
<1>4. 1 .. Len(made) \subseteq 1 .. Len(made') /\ 0 \notin 1 .. Len(made') /\ 1 .. Len(made') \subseteq Nat
  BY <1>1
<1> QED BY <1>1, <1>2, <1>3, <1>4 DEF Made, Fresh, None

\* ... one at a time,
LEMMA NewOne ==
  ASSUME made \in Seq(Kinds), NEW x \in Kinds, New(<<x>>)
  PROVE  /\ made' \in Seq(Kinds) /\ Made \subseteq Made' /\ None \notin Made'
         /\ Fresh(1) \in Made' /\ Fresh(1) \notin Made /\ Fresh(1) \in Nat /\ Fresh(1) # None
         /\ made'[Fresh(1)] = x
         /\ \A m \in Made : made'[m] = made[m]
         /\ \A m \in Made' : m \in Made \/ m = Fresh(1)
<1>0. <<x>> \in Seq(Kinds)
  OBVIOUS
<1>1. PICK ks \in Seq(Kinds) : ks = <<x>>
  BY <1>0
<1>2. Len(ks) = 1 /\ ks[1] = x /\ New(ks)
  BY <1>1
<1>3. 1 .. Len(ks) = {1}
  BY <1>2
<1> HIDE DEF New
<1> QED BY <1>2, <1>3, NewFacts, ZenonT(60)

\* ... and those of start().
LEMMA StartFacts ==
  ASSUME made \in Seq(Kinds), start
  PROVE  /\ made' \in Seq(Kinds) /\ Made \subseteq Made' /\ None \notin Made'
         /\ \A m \in Made : made'[m] = made[m]
         /\ \A k \in {1, 2} : Fresh(k) \in Made' /\ Fresh(k) \notin Made /\ Fresh(k) \in Nat
         /\ Fresh(1) # Fresh(2)
         /\ \/ /\ notFound # None /\ notFound' = notFound
               /\ \A m \in Made' : m \in Made \cup {Fresh(1), Fresh(2)}
            \/ /\ notFound = None /\ notFound' = Fresh(3)
               /\ Fresh(3) \in Made' /\ Fresh(3) \notin Made /\ Fresh(3) \in Nat
               /\ Fresh(3) # Fresh(1) /\ Fresh(3) # Fresh(2)
               /\ \A m \in Made' : m \in Made \cup {Fresh(1), Fresh(2), Fresh(3)}
         /\ after' = Append(after, Fresh(1)) /\ systemError' = Fresh(2)
         /\ before' = IF staticFile = None THEN before ELSE Append(before, staticFile)
         /\ route' = TRUE /\ starts' = starts + 1
         /\ UNCHANGED <<deleted, content, given, staticFile, outcome>>
         /\ outcome = "alive"
<1>0. /\ Fresh(1) # Fresh(2) /\ Fresh(3) # Fresh(1) /\ Fresh(3) # Fresh(2)
  <2>1. Len(made) \in Nat
    OBVIOUS
  <2> QED BY <2>1 DEF Fresh
<1>1. CASE notFound = None
  <2>0. <<"defaults", "systemError", "notFound">> \in Seq(Kinds)
    BY DEF Kinds
  <2>1. PICK ks \in Seq(Kinds) : ks = <<"defaults", "systemError", "notFound">>
    BY <2>0
  <2>2. Len(ks) = 3 /\ New(ks) /\ notFound' = Fresh(3)
    BY <1>1, <2>1 DEF start, NeedsNotFound
  <2>3. 1 .. Len(ks) = {1, 2, 3}
    BY <2>2
  <2>4. /\ made' \in Seq(Kinds) /\ Made \subseteq Made' /\ None \notin Made'
        /\ \A k \in {1, 2, 3} : Fresh(k) \in Made' /\ Fresh(k) \notin Made /\ Fresh(k) \in Nat
        /\ \A m \in Made : made'[m] = made[m]
        /\ \A m \in Made' : m \in Made \/ \E k \in {1, 2, 3} : m = Fresh(k)
    <3>1. /\ \A k \in 1 .. Len(ks) : Fresh(k) \in Made' /\ Fresh(k) \notin Made /\ Fresh(k) \in Nat
          /\ \A m \in Made' : m \in Made \/ \E k \in 1 .. Len(ks) : m = Fresh(k)
      BY <2>2, NewFacts
    <3>2. /\ made' \in Seq(Kinds) /\ Made \subseteq Made' /\ None \notin Made'
          /\ \A m \in Made : made'[m] = made[m]
      BY <2>2, NewFacts
    <3> QED BY <2>3, <3>1, <3>2
  <2> QED BY <1>0, <1>1, <2>2, <2>4 DEF start, WithDefaults
<1>2. CASE notFound # None
  <2>0. <<"defaults", "systemError">> \in Seq(Kinds)
    BY DEF Kinds
  <2>1. PICK ks \in Seq(Kinds) : ks = <<"defaults", "systemError">>
    BY <2>0
  <2>2. Len(ks) = 2 /\ New(ks) /\ notFound' = notFound
    BY <1>2, <2>1 DEF start, NeedsNotFound
  <2>3. 1 .. Len(ks) = {1, 2}
    BY <2>2
  <2>4. /\ made' \in Seq(Kinds) /\ Made \subseteq Made' /\ None \notin Made'
        /\ \A k \in {1, 2} : Fresh(k) \in Made' /\ Fresh(k) \notin Made /\ Fresh(k) \in Nat
        /\ \A m \in Made : made'[m] = made[m]
        /\ \A m \in Made' : m \in Made \/ \E k \in {1, 2} : m = Fresh(k)
    <3>1. /\ \A k \in 1 .. Len(ks) : Fresh(k) \in Made' /\ Fresh(k) \notin Made /\ Fresh(k) \in Nat
          /\ \A m \in Made' : m \in Made \/ \E k \in 1 .. Len(ks) : m = Fresh(k)
      BY <2>2, NewFacts
    <3>2. /\ made' \in Seq(Kinds) /\ Made \subseteq Made' /\ None \notin Made'
          /\ \A m \in Made : made'[m] = made[m]
      BY <2>2, NewFacts
    <3> QED BY <2>3, <3>1, <3>2
  <2> QED BY <1>0, <1>2, <2>2, <2>4 DEF start, WithDefaults
<1> QED BY <1>1, <1>2
-------------------------------------------------------------------------------
(***************************************************************************)
(* The calls, field by field.                                              *)
(***************************************************************************)

\* A pipeline after setup(): it stays, or it is a copy of one builder.
Replaces(p, q, arg) ==
  \/ arg = {} /\ q = p
  \/ \E b \in Builders : arg = {b} /\ q = content[b]

\* setup(): the pipelines that are replaced, and what is noted of the builders.
LEMMA SetupFacts ==
  ASSUME Types, NEW bef \in OneOrNone, NEW aft \in OneOrNone, NEW r \in BOOLEAN,
         setup(bef, r, aft)
  PROVE  /\ Replaces(before, before', bef) /\ Replaces(after, after', aft)
         /\ given' \in [Builders -> Seq(Nat)]
         /\ \A b \in Builders :
              /\ \A k \in 1 .. Len(given[b]) :
                   k \in 1 .. Len(given'[b]) /\ given'[b][k] = given[b][k]
              /\ \A k \in 1 .. Len(given'[b]) :
                   k \in 1 .. Len(given[b]) \/ given'[b][k] = Len(content[b])
              /\ b \in bef \cup aft =>
                   /\ Len(given[b]) + 1 \in 1 .. Len(given'[b])
                   /\ given'[b][Len(given[b]) + 1] = Len(content[b])
              /\ b \in bef \cap aft =>
                   /\ Len(given[b]) + 2 \in 1 .. Len(given'[b])
                   /\ given'[b][Len(given[b]) + 2] = Len(content[b])
<1>1. /\ given \in [Builders -> Seq(Nat)] /\ content \in [Builders -> Seq(Nat)]
      /\ \A b \in Builders : Len(content[b]) \in Nat
  BY DEF Types, TypeOK
<1>2. \A b \in Builders : (CHOOSE c \in {b} : TRUE) = b
  OBVIOUS
<1>3. Replaces(before, before', bef) /\ Replaces(after, after', aft)
  BY <1>2 DEF setup, Replaces, OneOrNone
<1>4. given' = [b \in Builders |-> given[b] \o Times(b, aft) \o Times(b, bef)]
  BY DEF setup
<1>5. ASSUME NEW b \in Builders
      PROVE  /\ given'[b] \in Seq(Nat)
             /\ \A k \in 1 .. Len(given[b]) :
                  k \in 1 .. Len(given'[b]) /\ given'[b][k] = given[b][k]
             /\ \A k \in 1 .. Len(given'[b]) :
                  k \in 1 .. Len(given[b]) \/ given'[b][k] = Len(content[b])
             /\ b \in bef \cup aft =>
                  /\ Len(given[b]) + 1 \in 1 .. Len(given'[b])
                  /\ given'[b][Len(given[b]) + 1] = Len(content[b])
             /\ b \in bef \cap aft =>
                  /\ Len(given[b]) + 2 \in 1 .. Len(given'[b])
                  /\ given'[b][Len(given[b]) + 2] = Len(content[b])
  <2>1. PICK g \in Seq(Nat), n \in Nat : g = given[b] /\ n = Len(content[b])
    BY <1>1
  <2>2. given'[b] = (g \o (IF b \in aft THEN <<n>> ELSE <<>>)) \o (IF b \in bef THEN <<n>> ELSE <<>>)
    BY <1>4, <2>1 DEF Times
  <2>3. CASE b \notin aft /\ b \notin bef
    <3>1. given'[b] = (g \o <<>>) \o <<>>
      BY <2>2, <2>3
    <3>2. given'[b] = g
      BY <3>1
    <3> QED BY <2>1, <2>3, <3>2
  <2>4. CASE b \in aft \cup bef /\ b \notin bef \cap aft
    <3>1. given'[b] = (g \o <<n>>) \o <<>> \/ given'[b] = (g \o <<>>) \o <<n>>
      BY <2>2, <2>4
    <3>a. g \o <<n>> \in Seq(Nat) /\ g \o <<>> = g /\ (g \o <<n>>) \o <<>> = g \o <<n>>
      OBVIOUS
    <3>2. given'[b] = g \o <<n>> /\ g \o <<n>> \in Seq(Nat)
      BY <3>1, <3>a
    <3>3. PICK h \in Seq(Nat) : h = given'[b]
      BY <3>2
    <3>4. /\ Len(h) = Len(g) + 1 /\ Len(g) \in Nat /\ h[Len(g) + 1] = n
          /\ \A k \in 1 .. Len(g) : h[k] = g[k]
      BY ONLY <3>2, <3>3, g \in Seq(Nat), n \in Nat
    <3> QED BY <2>1, <2>4, <3>3, <3>4
  <2>5. CASE b \in bef \cap aft
    <3>1. given'[b] = (g \o <<n>>) \o <<n>>
      BY <2>2, <2>5
    <3>a. g \o <<n>> \in Seq(Nat)
      BY ONLY g \in Seq(Nat), n \in Nat
    <3>2. PICK f \in Seq(Nat) : f = g \o <<n>>
      BY <3>a
    <3>3. /\ Len(f) = Len(g) + 1 /\ Len(g) \in Nat /\ f[Len(g) + 1] = n
          /\ \A k \in 1 .. Len(g) : f[k] = g[k]
      BY ONLY <3>2, g \in Seq(Nat), n \in Nat
    <3>b. f \o <<n>> \in Seq(Nat)
      BY ONLY f \in Seq(Nat), n \in Nat
    <3>4. PICK h \in Seq(Nat) : h = given'[b] /\ h = f \o <<n>>
      BY <3>1, <3>2, <3>b
    <3>c. PICK lg \in Nat : lg = Len(g)
      BY <3>3
    <3>d. Len(f) = lg + 1 /\ f[lg + 1] = n /\ \A k \in 1 .. lg : f[k] = g[k]
      BY ONLY <3>3, <3>c
    <3>5. /\ Len(h) = Len(f) + 1 /\ Len(f) \in Nat /\ h[Len(f) + 1] = n
          /\ \A k \in 1 .. Len(f) : h[k] = f[k]
      BY ONLY <3>4, f \in Seq(Nat), n \in Nat
    <3>e. /\ Len(h) = (lg + 1) + 1 /\ h[(lg + 1) + 1] = n
          /\ \A k \in 1 .. lg + 1 : h[k] = f[k]
      BY ONLY <3>5, <3>d
    <3>f. (lg + 1) + 1 = lg + 2 /\ lg + 1 \in 1 .. lg + 1
      BY ONLY lg \in Nat
    <3>6. Len(h) = Len(g) + 2 /\ Len(g) \in Nat /\ h[Len(g) + 2] = n
      BY ONLY <3>c, <3>e, <3>f, lg \in Nat
    <3>7. Len(g) + 1 \in 1 .. Len(f) /\ h[Len(g) + 1] = n
      BY ONLY <3>c, <3>d, <3>e, <3>f
    <3>8. \A k \in 1 .. Len(g) : h[k] = g[k]
      <4>1. \A k \in 1 .. lg : k \in 1 .. lg + 1
        BY ONLY lg \in Nat
      <4> QED BY ONLY <3>c, <3>d, <3>e, <4>1
    <3>9. \A k \in 1 .. Len(h) : k \in 1 .. Len(g) \/ h[k] = n
      <4>1. ASSUME NEW k \in 1 .. Len(h) PROVE k \in 1 .. Len(g) \/ k = Len(g) + 1 \/ k = Len(g) + 2
        <5>1. k \in 1 .. lg + 2
          BY ONLY <3>c, <3>6, k \in 1 .. Len(h)
        <5>2. k \in 1 .. lg \/ k = lg + 1 \/ k = lg + 2
          BY ONLY <5>1, lg \in Nat
        <5> QED BY ONLY <3>c, <5>2
      <4> QED BY <3>6, <3>7, <4>1
    <3>10. 1 .. Len(g) \subseteq 1 .. Len(h) /\ {Len(g) + 1, Len(g) + 2} \subseteq 1 .. Len(h)
      BY <3>6
    <3> QED BY <2>1, <2>5, <3>4, <3>6, <3>7, <3>8, <3>9, <3>10
  <2> QED BY <2>3, <2>4, <2>5
<1>6. given' \in [Builders -> Seq(Nat)]
  BY <1>4, <1>5
<1> QED BY <1>3, <1>5, <1>6

\* The pipelines that setup() replaces, as one sequence.
LEMMA ReplacedFacts ==
  ASSUME Types, NEW bef, NEW aft
  PROVE  /\ Replaced(bef, aft) \in Seq(Nat)
         /\ ToSet(Replaced(bef, aft)) =
              (IF aft = {} THEN {} ELSE ToSet(after)) \cup (IF bef = {} THEN {} ELSE ToSet(before))
         /\ IsInjective(before) /\ IsInjective(after) /\ ToSet(before) \cap ToSet(after) = {}
              => IsInjective(Replaced(bef, aft))
<1> DEFINE s == IF aft = {} THEN <<>> ELSE after
           t == IF bef = {} THEN <<>> ELSE before
<1>1. /\ s \in Seq(Nat) /\ ToSet(s) = IF aft = {} THEN {} ELSE ToSet(after)
      /\ IsInjective(after) => IsInjective(s)
  BY EmptyFacts DEF Types
<1>2. /\ t \in Seq(Nat) /\ ToSet(t) = IF bef = {} THEN {} ELSE ToSet(before)
      /\ IsInjective(before) => IsInjective(t)
  BY EmptyFacts DEF Types
<1>3. Replaced(bef, aft) = s \o t
  BY DEF Replaced
<1> HIDE DEF s, t
<1>4. /\ s \o t \in Seq(Nat) /\ ToSet(s \o t) = ToSet(s) \cup ToSet(t)
      /\ IsInjective(s) /\ IsInjective(t) /\ ToSet(s) \cap ToSet(t) = {} => IsInjective(s \o t)
  BY <1>1, <1>2, ConcatFacts
<1>5. ToSet(s) \cap ToSet(t) \subseteq ToSet(after) \cap ToSet(before)
  BY <1>1, <1>2
<1> QED BY <1>1, <1>2, <1>3, <1>4, <1>5

\* What every call does to the variables that hold no pointers.
LEMMA PlainTypes ==
  ASSUME Types, [Next]_vars
  PROVE  starts' \in Nat /\ route' \in BOOLEAN /\ outcome' \in {"alive", "destroyed"} \cup Deaths
<1>0. starts \in Nat /\ route \in BOOLEAN /\ outcome \in {"alive", "destroyed"} \cup Deaths
  BY DEF Types, TypeOK
<1>1. starts' \in {starts, starts + 1}
  BY DEF Next, addToBuilder, setup, enable_static_file, setNotFoundHandler, start,
         processing_request, destroy, vars
<1>2. route' = route \/ route' = TRUE \/ \E r \in BOOLEAN : route' = (route \/ r)
  BY DEF Next, addToBuilder, setup, enable_static_file, setNotFoundHandler, start,
         processing_request, destroy, vars, members
<1>3. outcome' \in {outcome, "destroyed"} \cup Deaths
  BY DEF Next, addToBuilder, setup, enable_static_file, setNotFoundHandler, start,
         processing_request, destroy, vars, Delete, Deaths
<1>4. starts' \in Nat
  BY <1>0, <1>1
<1>5. route' \in BOOLEAN
  BY <1>0, <1>2
<1>6. outcome' \in {"alive", "destroyed"} \cup Deaths
  BY <1>0, <1>3
<1> QED BY <1>4, <1>5, <1>6

\* Every call keeps every variable in its type.
LEMMA TypesInductive == Types /\ [Next]_vars => Types'
<1> SUFFICES ASSUME Types, [Next]_vars PROVE Types'
  OBVIOUS
<1>a. /\ made \in Seq(Kinds) /\ deleted \subseteq Made /\ starts \in Nat
      /\ \A b \in Builders : ToSet(content[b]) \subseteq Made
      /\ given \in [Builders -> Seq(Nat)] /\ content \in [Builders -> Seq(Nat)]
      /\ ToSet(before) \subseteq Made /\ ToSet(after) \subseteq Made
      /\ {notFound, systemError, staticFile} \subseteq Made \cup {None}
      /\ route \in BOOLEAN
      /\ outcome \in {"alive", "destroyed"} \cup Deaths
      /\ before \in Seq(Nat) /\ after \in Seq(Nat)
      /\ notFound \in Nat /\ systemError \in Nat /\ staticFile \in Nat
  BY DEF Types, TypeOK
<1> DEFINE Goal ==
      /\ made' \in Seq(Kinds) /\ deleted' \subseteq Made'
      /\ \A b \in Builders : ToSet(content'[b]) \subseteq Made'
      /\ given' \in [Builders -> Seq(Nat)] /\ content' \in [Builders -> Seq(Nat)]
      /\ ToSet(before') \subseteq Made' /\ ToSet(after') \subseteq Made'
      /\ {notFound', systemError', staticFile'} \subseteq Made' \cup {None}
      /\ before' \in Seq(Nat) /\ after' \in Seq(Nat)
      /\ notFound' \in Nat /\ systemError' \in Nat /\ staticFile' \in Nat
<1>p. starts' \in Nat /\ route' \in BOOLEAN /\ outcome' \in {"alive", "destroyed"} \cup Deaths
  BY PlainTypes
<1>b. Goal => Types'
  BY <1>p DEF Types, TypeOK
<1>c. "user" \in Kinds /\ "static" \in Kinds
  BY DEF Kinds
<1>1. ASSUME NEW b \in Builders, addToBuilder(b) PROVE Goal
  <2>1. New(<<"user">>) /\ content' = [content EXCEPT ![b] = Append(@, Fresh(1))]
    BY <1>1 DEF addToBuilder
  <2>2. /\ made' \in Seq(Kinds) /\ Made \subseteq Made'
        /\ Fresh(1) \in Made' /\ Fresh(1) \in Nat
    BY <1>a, <1>c, <2>1, NewOne
  <2>3. content'[b] \in Seq(Nat) /\ ToSet(content'[b]) = ToSet(content[b]) \cup {Fresh(1)}
    <3>1. content'[b] = Append(content[b], Fresh(1)) /\ content[b] \in Seq(Nat)
      BY <1>a, <2>1
    <3> HIDE DEF Goal
    <3> QED BY <2>2, <3>1, AppendFacts
  <2>4. content' \in [Builders -> Seq(Nat)] /\ \A c \in Builders \ {b} : content'[c] = content[c]
    BY <1>a, <2>1, <2>3
  <2>5. \A c \in Builders : ToSet(content'[c]) \subseteq Made'
    BY <1>a, <2>2, <2>3, <2>4
  <2> QED BY <1>1, <1>a, <2>2, <2>4, <2>5 DEF addToBuilder, members
<1>2. ASSUME NEW bef \in OneOrNone, NEW aft \in OneOrNone, NEW r \in BOOLEAN, setup(bef, r, aft)
      PROVE  Goal
  <2>1. Replaces(before, before', bef) /\ Replaces(after, after', aft)
        /\ given' \in [Builders -> Seq(Nat)]
    BY <1>2, SetupFacts
  <2>2. /\ UNCHANGED <<made, content, notFound, systemError, staticFile, starts>>
        /\ deleted' = deleted \cup ToSet(Replaced(bef, aft))
    BY <1>2 DEF setup, Delete
  <2>3. Made' = Made
    BY <2>2 DEF Made
  <2>4. ToSet(Replaced(bef, aft)) \subseteq Made
    BY <1>a, ReplacedFacts
  <2>5. /\ before' \in Seq(Nat) /\ after' \in Seq(Nat)
        /\ ToSet(before') \subseteq Made' /\ ToSet(after') \subseteq Made'
    BY <1>a, <2>1, <2>3 DEF Replaces
  <2> QED BY <1>a, <2>1, <2>2, <2>3, <2>4, <2>5
<1>3. ASSUME enable_static_file PROVE Goal
  <2>1. New(<<"static">>)
    BY <1>3 DEF enable_static_file
  <2>2. /\ made' \in Seq(Kinds) /\ Made \subseteq Made'
        /\ Fresh(1) \in Made' /\ Fresh(1) \in Nat
    BY <1>a, <1>c, <2>1, NewOne
  <2> QED BY <1>3, <1>a, <2>2 DEF enable_static_file
<1>4. ASSUME setNotFoundHandler PROVE Goal
  <2>1. New(<<"user">>)
    BY <1>4 DEF setNotFoundHandler
  <2>2. /\ made' \in Seq(Kinds) /\ Made \subseteq Made'
        /\ Fresh(1) \in Made' /\ Fresh(1) \in Nat
    BY <1>a, <1>c, <2>1, NewOne
  <2>3. deleted' = deleted \cup ToSet(IF notFound = None THEN <<>> ELSE <<notFound>>)
    BY <1>4 DEF setNotFoundHandler, Delete
  <2>4. ToSet(IF notFound = None THEN <<>> ELSE <<notFound>>) = {notFound} \ {None}
    BY <1>a, SingleFacts DEF Single
  <2>5. deleted' \subseteq Made'
    BY <1>a, <2>2, <2>3, <2>4
  <2> QED BY <1>4, <1>a, <2>2, <2>3, <2>5 DEF setNotFoundHandler
<1>5. ASSUME start PROVE Goal
  <2>1. /\ made' \in Seq(Kinds) /\ Made \subseteq Made'
        /\ {Fresh(1), Fresh(2)} \subseteq Made' \cap Nat
        /\ notFound' = notFound \/ notFound' \in Made' \cap Nat
        /\ after' = Append(after, Fresh(1)) /\ systemError' = Fresh(2)
        /\ before' = IF staticFile = None THEN before ELSE Append(before, staticFile)
        /\ route' = TRUE /\ starts' = starts + 1
        /\ UNCHANGED <<deleted, content, given, staticFile, outcome>>
    <3> HIDE DEF Goal
    <3> QED BY <1>5, <1>a, StartFacts
  <2>2. after' \in Seq(Nat) /\ ToSet(after') = ToSet(after) \cup {Fresh(1)}
    <3> HIDE DEF Goal
    <3> QED BY <1>a, <2>1, AppendFacts
  <2>3. /\ before' \in Seq(Nat)
        /\ ToSet(before') \subseteq ToSet(before) \cup ({staticFile} \ {None})
    <3> HIDE DEF Goal
    <3>1. /\ Append(before, staticFile) \in Seq(Nat)
          /\ ToSet(Append(before, staticFile)) = ToSet(before) \cup {staticFile}
      BY <1>a, AppendFacts
    <3> QED BY <1>a, <2>1, <3>1
  <2>4. /\ notFound' \in Nat /\ systemError' \in Nat
        /\ {notFound', systemError', staticFile'} \subseteq Made' \cup {None}
        /\ ToSet(before') \subseteq Made' /\ ToSet(after') \subseteq Made'
    BY <1>a, <2>1, <2>2, <2>3
  <2> QED BY <1>a, <2>1, <2>2, <2>3, <2>4
<1>6. ASSUME NEW ends \in BOOLEAN, NEW routed \in BOOLEAN, processing_request(ends, routed)
      PROVE  Goal
  <2>1. UNCHANGED <<objects, members, starts>>
    BY <1>6 DEF processing_request
  <2>2. UNCHANGED <<made, deleted, content, given, before, after, route, notFound,
                    systemError, staticFile, starts>>
    BY <2>1 DEF objects, members
  <2> QED BY <1>a, <2>2 DEF Made
<1>7. ASSUME destroy PROVE Goal
  <2> DEFINE all == before \o after \o Single(notFound) \o Single(systemError)
  <2>1. /\ UNCHANGED <<made, content, given, members, starts>>
        /\ deleted' = deleted \cup ToSet(all)
    BY <1>7 DEF destroy
  <2>2. ToSet(all) = (((ToSet(before) \cup ToSet(after)) \cup ({notFound} \ {None})) \cup ({systemError} \ {None}))
    <3> HIDE DEF Goal
    <3>1. /\ before \o after \in Seq(Nat)
          /\ ToSet(before \o after) = ToSet(before) \cup ToSet(after)
      BY <1>a, ConcatFacts
    <3>2. /\ (before \o after) \o Single(notFound) \in Seq(Nat)
          /\ ToSet((before \o after) \o Single(notFound)) =
               (ToSet(before) \cup ToSet(after)) \cup ({notFound} \ {None})
      BY <1>a, <3>1, ConcatFacts, SingleFacts, ZenonT(60)
    <3>3. PICK u \in Seq(Nat) : u = (before \o after) \o Single(notFound)
      BY <3>2
    <3>4. ToSet(u \o Single(systemError)) = ToSet(u) \cup ({systemError} \ {None})
      BY <1>a, ConcatFacts, SingleFacts, ZenonT(60)
    <3> QED BY <3>2, <3>3, <3>4
  <2>3. deleted' \subseteq Made
    <3>1. ToSet(all) \subseteq Made
      <4> HIDE DEF all, Goal
      <4> QED BY <1>a, <2>2
    <3> HIDE DEF all
    <3> QED BY <1>a, <2>1, <3>1
  <2>4. UNCHANGED <<made, content, given, before, after, route, notFound,
                    systemError, staticFile, starts>>
    BY <2>1 DEF members
  <2> HIDE DEF all
  <2> QED BY <1>a, <2>3, <2>4 DEF Made
<1>8. ASSUME UNCHANGED vars PROVE Goal
  BY <1>8, <1>a DEF vars, Made
<1> QED BY <1>b, <1>1, <1>2, <1>3, <1>4, <1>5, <1>6, <1>7, <1>8 DEF Next

\* The types hold in every behaviour.
LEMMA TypesInvariant == Spec => []Types
<1>1. Init => Types
  <2> SUFFICES ASSUME Init PROVE Types
    OBVIOUS
  <2>1. /\ made = <<>> /\ deleted = {} /\ before = <<>> /\ after = <<>> /\ route = FALSE
        /\ notFound = 0 /\ systemError = 0 /\ staticFile = 0 /\ starts = 0 /\ outcome = "alive"
        /\ content = [b \in Builders |-> <<>>] /\ given = [b \in Builders |-> <<>>]
    BY DEF Init, None
  <2>2. made \in Seq(Kinds) /\ content \in [Builders -> Seq(Nat)] /\ given \in [Builders -> Seq(Nat)]
    BY <2>1
  <2>3. \A b \in Builders : ToSet(content[b]) \subseteq Made
    BY <2>1, EmptyFacts
  <2> QED BY <2>1, <2>2, <2>3, EmptyFacts DEF Types, TypeOK, None
<1> QED BY <1>1, TypesInductive, PTL DEF Spec

\* Every variable of the server object keeps its type.
THEOREM TypeCorrect == Spec => []TypeOK
<1>1. Types => TypeOK
  BY DEF Types
<1> QED BY <1>1, TypesInvariant, PTL
-------------------------------------------------------------------------------
(***************************************************************************)
(* What each call does to the pointers.                                    *)
(***************************************************************************)

\* All pointers are of middlewares that were constructed.
LEMMA TypeFacts ==
  ASSUME Types
  PROVE  /\ made \in Seq(Kinds) /\ None \notin Made /\ deleted \subseteq Made
         /\ ToSet(before) \subseteq Made /\ ToSet(after) \subseteq Made
         /\ {notFound, systemError, staticFile} \subseteq Made \cup {None}
         /\ \A b \in Builders : /\ content[b] \in Seq(Nat) /\ given[b] \in Seq(Nat)
                                /\ Len(content[b]) \in Nat /\ Len(given[b]) \in Nat
                                /\ ToSet(content[b]) \subseteq Made
                                /\ \A i \in 1 .. Len(content[b]) : content[b][i] \in ToSet(content[b])
<1>1. \A b \in Builders : content[b] \in Seq(Nat) /\ given[b] \in Seq(Nat)
  BY DEF Types, TypeOK
<1>2. None \notin Made
  BY DEF None, Made
<1>3. \A b \in Builders : \A i \in 1 .. Len(content[b]) : content[b][i] \in ToSet(content[b])
  BY <1>1, ElementFacts
<1>4. \A b \in Builders : Len(content[b]) \in Nat /\ Len(given[b]) \in Nat
  BY <1>1
<1> QED BY <1>1, <1>2, <1>3, <1>4 DEF Types, TypeOK

\* A middleware of builder b.
LEMMA AddFacts ==
  ASSUME Types, NEW b \in Builders, addToBuilder(b)
  PROVE  \E x \in Nat :
           /\ x # None /\ x \notin Made /\ made'[x] = "user"
           /\ \A m \in Made : made'[m] = made[m]
           /\ \A m \in Made' : m \in Made \/ m = x
           /\ \A c \in Builders \ {b} : content'[c] = content[c]
           /\ Len(content'[b]) = Len(content[b]) + 1
           /\ Len(content[b]) \in Nat
           /\ content'[b][Len(content[b]) + 1] = x
           /\ \A i \in 1 .. Len(content[b]) : content'[b][i] = content[b][i]
           /\ ToSet(content'[b]) = ToSet(content[b]) \cup {x}
           /\ IsInjective(content[b]) => IsInjective(content'[b])
           /\ UNCHANGED <<deleted, given, before, after, notFound, systemError, staticFile,
                          starts, outcome>>
<1>1. /\ New(<<"user">>) /\ content' = [content EXCEPT ![b] = Append(@, Fresh(1))]
      /\ UNCHANGED <<deleted, given, members, starts, outcome>>
  BY DEF addToBuilder
<1>2. "user" \in Kinds /\ made \in Seq(Kinds) /\ content \in [Builders -> Seq(Nat)]
      /\ ToSet(content[b]) \subseteq Made
  BY DEF Kinds, Types, TypeOK
<1>3. PICK x \in Nat : x = Fresh(1)
  BY <1>1, <1>2, NewOne
<1>4. /\ x # None /\ x \notin Made /\ made'[x] = "user"
      /\ \A m \in Made : made'[m] = made[m]
      /\ \A m \in Made' : m \in Made \/ m = x
  BY <1>1, <1>2, <1>3, NewOne
<1>5. PICK s \in Seq(Nat) : s = content[b]
  BY <1>2
<1>6. content'[b] = Append(s, x) /\ \A c \in Builders \ {b} : content'[c] = content[c]
  BY <1>1, <1>2, <1>3, <1>5
<1>7. /\ Len(Append(s, x)) = Len(s) + 1 /\ Append(s, x)[Len(s) + 1] = x
      /\ Len(s) \in Nat
      /\ \A i \in 1 .. Len(s) : Append(s, x)[i] = s[i]
  OBVIOUS
<1>8. /\ ToSet(Append(s, x)) = ToSet(s) \cup {x}
      /\ IsInjective(s) => IsInjective(Append(s, x))
  BY <1>2, <1>4, <1>5, AppendFacts
<1>9. UNCHANGED <<deleted, given, before, after, notFound, systemError, staticFile,
                  starts, outcome>>
  BY <1>1 DEF members
<1> QED BY <1>4, <1>5, <1>6, <1>7, <1>8, <1>9

\* A static file server.
LEMMA StaticFacts ==
  ASSUME Types, enable_static_file
  PROVE  \E x \in Nat :
           /\ x # None /\ x \notin Made /\ made'[x] = "static"
           /\ \A m \in Made : made'[m] = made[m]
           /\ \A m \in Made' : m \in Made \/ m = x
           /\ staticFile' = x
           /\ UNCHANGED <<deleted, content, given, before, after, notFound, systemError,
                          starts, outcome>>
<1>1. New(<<"static">>)
  BY DEF enable_static_file
<1>2. "static" \in Kinds /\ made \in Seq(Kinds)
  BY DEF Kinds, Types, TypeOK
<1>3. PICK x \in Nat : x = Fresh(1)
  BY <1>1, <1>2, NewOne
<1>4. /\ x # None /\ x \notin Made /\ made'[x] = "static"
      /\ \A m \in Made : made'[m] = made[m]
      /\ \A m \in Made' : m \in Made \/ m = x
  BY <1>1, <1>2, <1>3, NewOne
<1> QED BY <1>3, <1>4 DEF enable_static_file

\* A handler for what has no route; the one before it is deleted.
LEMMA HandlerFacts ==
  ASSUME Types, setNotFoundHandler
  PROVE  \E x \in Nat :
           /\ x # None /\ x \notin Made
           /\ \A m \in Made : made'[m] = made[m]
           /\ \A m \in Made' : m \in Made \/ m = x
           /\ notFound' = x
           /\ deleted' = deleted \cup ({notFound} \ {None})
           /\ outcome = "alive"
           /\ outcome' = IF notFound \in deleted THEN "deletedTwice" ELSE "alive"
           /\ UNCHANGED <<content, given, before, after, systemError, staticFile, starts>>
<1>1. New(<<"user">>)
  BY DEF setNotFoundHandler
<1>2. "user" \in Kinds /\ made \in Seq(Kinds) /\ notFound \in Nat /\ None \notin deleted
  BY TypeFacts DEF Kinds, Types
<1>3. PICK x \in Nat : x = Fresh(1)
  BY <1>1, <1>2, NewOne
<1>4. /\ x # None /\ x \notin Made
      /\ \A m \in Made : made'[m] = made[m]
      /\ \A m \in Made' : m \in Made \/ m = x
  BY <1>1, <1>2, <1>3, NewOne
<1>5. /\ deleted' = deleted \cup ToSet(Single(notFound))
      /\ outcome = "alive"
      /\ outcome' = IF IsInjective(Single(notFound)) /\ ToSet(Single(notFound)) \cap deleted = {}
                    THEN outcome ELSE "deletedTwice"
  BY DEF setNotFoundHandler, Delete, Single
<1>6. IsInjective(Single(notFound)) /\ ToSet(Single(notFound)) = {notFound} \ {None}
  BY <1>2, SingleFacts
<1>7. ({notFound} \ {None}) \cap deleted = {} <=> notFound \notin deleted
  BY <1>2
<1>8. outcome' = IF notFound \in deleted THEN "deletedTwice" ELSE "alive"
  BY <1>5, <1>6, <1>7
<1> QED BY <1>3, <1>4, <1>5, <1>6, <1>8 DEF setNotFoundHandler

\* The destructor.
LEMMA DestroyFacts ==
  ASSUME Types, destroy
  PROVE  /\ outcome = "alive" /\ outcome' \in {"destroyed", "deletedTwice"}
         /\ Owned /\ (notFound # None => notFound # systemError) => outcome' = "destroyed"
         /\ deleted' = deleted \cup (Held \ {None})
         /\ UNCHANGED <<made, content, given, before, after, notFound, systemError,
                        staticFile, starts>>
<1> DEFINE all == before \o after \o Single(notFound) \o Single(systemError)
<1>1. /\ outcome = "alive" /\ deleted' = deleted \cup ToSet(all)
      /\ outcome' = IF IsInjective(all) /\ ToSet(all) \cap deleted = {}
                    THEN "destroyed" ELSE "deletedTwice"
      /\ UNCHANGED <<made, content, given, members, starts>>
  BY DEF destroy
<1>2. /\ before \in Seq(Nat) /\ after \in Seq(Nat) /\ notFound \in Nat /\ systemError \in Nat
      /\ None \notin ToSet(before) \cup ToSet(after) \cup deleted
  BY TypeFacts DEF Types
<1>3. PICK s \in Seq(Nat) : s = before \o after
  BY <1>2, ConcatFacts
<1>4. /\ ToSet(s) = ToSet(before) \cup ToSet(after)
      /\ Owned => IsInjective(s)
  BY <1>2, <1>3, ConcatFacts DEF Owned
<1>5. PICK f \in Seq(Nat) : f = Single(notFound) /\ IsInjective(f) /\ ToSet(f) = {notFound} \ {None}
  BY <1>2, SingleFacts
<1>6. PICK e \in Seq(Nat) : e = Single(systemError) /\ IsInjective(e) /\ ToSet(e) = {systemError} \ {None}
  BY <1>2, SingleFacts
<1>7. PICK t \in Seq(Nat) : t = s \o f
  BY ConcatFacts
<1>8. /\ ToSet(t) = ToSet(s) \cup ToSet(f)
      /\ IsInjective(s) /\ IsInjective(f) /\ ToSet(s) \cap ToSet(f) = {} => IsInjective(t)
  BY <1>7, ConcatFacts
<1>9. all = t \o e
  BY <1>3, <1>5, <1>6, <1>7
<1>10. /\ ToSet(all) = ToSet(t) \cup ToSet(e)
       /\ IsInjective(t) /\ IsInjective(e) /\ ToSet(t) \cap ToSet(e) = {} => IsInjective(all)
  <2> HIDE DEF all
  <2> QED BY <1>9, ConcatFacts
<1> HIDE DEF all
<1>11. ToSet(all) = Held \ {None}
  BY <1>2, <1>4, <1>5, <1>6, <1>8, <1>10 DEF Held
<1>12. ASSUME Owned, notFound # None => notFound # systemError PROVE IsInjective(all)
  <2>1. ToSet(s) \cap ToSet(f) = {}
    BY <1>4, <1>5, <1>12 DEF Owned
  <2>2. ToSet(t) \cap ToSet(e) = {}
    BY <1>4, <1>5, <1>6, <1>8, <1>12 DEF Owned
  <2> QED BY <1>4, <1>5, <1>6, <1>8, <1>10, <1>12, <2>1, <2>2
<1>13. Owned => ToSet(all) \cap deleted = {}
  BY <1>2, <1>11 DEF Owned, Held
<1>14. UNCHANGED <<made, content, given, before, after, notFound, systemError,
                   staticFile, starts>>
  BY <1>1 DEF members
<1> QED BY <1>1, <1>11, <1>12, <1>13, <1>14

\* A request changes nothing, unless it ends the process.
LEMMA RequestFacts ==
  ASSUME NEW ends \in BOOLEAN, NEW routed \in BOOLEAN, processing_request(ends, routed)
  PROVE  /\ UNCHANGED <<made, deleted, content, given, before, after, route, notFound, systemError,
                        staticFile, starts>>
         /\ outcome = "alive"
         /\ outcome' \in {"alive", "usedDeleted", "nullPointer"}
         /\ outcome' = "usedDeleted" => (ToSet(before) \cup ToSet(after)) \cap deleted # {}
         /\ outcome' = "nullPointer" => ~route \/ notFound = None
<1>1. UNCHANGED <<made, deleted, content, given, before, after, route, notFound, systemError,
                  staticFile, starts>>
  BY DEF processing_request, objects, members
<1>2. outcome = "alive" /\ outcome' \in {"alive", "usedDeleted", "nullPointer"}
  BY DEF processing_request
<1>3. outcome' = "usedDeleted" => (ToSet(before) \cup ToSet(after)) \cap deleted # {}
  BY DEF processing_request
<1>4. outcome' = "nullPointer" => ~route \/ notFound = None
  BY DEF processing_request
<1> QED BY <1>1, <1>2, <1>3, <1>4
-------------------------------------------------------------------------------
(***************************************************************************)
(* The invariants.                                                         *)
(***************************************************************************)

\* From start() on there is a router and a handler for what has no route.
LEMMA CompleteInductive == Types /\ CompleteInv /\ [Next]_vars => CompleteInv'
<1> SUFFICES ASSUME Types, CompleteInv, [Next]_vars, starts' > 0
             PROVE  route' /\ notFound' # None
  BY DEF CompleteInv
<1>0. starts \in Nat /\ (starts > 0 => route) /\ (starts > 0 => notFound # None)
  BY DEF Types, TypeOK, CompleteInv
<1>1. CASE start
  <2>1. route' = TRUE /\ notFound' # None
    BY <1>1, TypeFacts, StartFacts
  <2> QED BY <2>1
<1>2. CASE setNotFoundHandler
  <2>1. starts' = starts /\ route' = route
    BY <1>2 DEF setNotFoundHandler
  <2>2. notFound' # None
    BY <1>2, HandlerFacts
  <2> QED BY <1>0, <2>1, <2>2
<1>3. ASSUME NEW bef \in OneOrNone, NEW aft \in OneOrNone, NEW r \in BOOLEAN, setup(bef, r, aft)
      PROVE  route' /\ notFound' # None
  <2>1. starts' = starts /\ notFound' = notFound /\ (route => route')
    BY <1>3 DEF setup
  <2> QED BY <1>0, <2>1
<1>4. ASSUME UNCHANGED <<route, notFound, starts>> PROVE route' /\ notFound' # None
  BY <1>0, <1>4
<1>5. ASSUME NEW b \in Builders, addToBuilder(b) PROVE UNCHANGED <<route, notFound, starts>>
  BY <1>5 DEF addToBuilder, members
<1>6. ASSUME NEW ends \in BOOLEAN, NEW routed \in BOOLEAN, processing_request(ends, routed)
      PROVE UNCHANGED <<route, notFound, starts>>
  BY <1>6, RequestFacts
<1>7. destroy => UNCHANGED <<route, notFound, starts>>
  BY DEF destroy, members
<1>8. enable_static_file \/ UNCHANGED vars => UNCHANGED <<route, notFound, starts>>
  BY DEF enable_static_file, vars
<1> QED BY <1>1, <1>2, <1>3, <1>4, <1>5, <1>6, <1>7, <1>8 DEF Next

\* A null pointer is met only before start().
THEOREM CompleteCorrect == Spec => []CompleteOnceStarted
<1>1. Init => CompleteInv /\ CompleteOnceStarted
  BY DEF Init, CompleteInv, CompleteOnceStarted
<1>2. Types /\ CompleteInv /\ CompleteOnceStarted /\ [Next]_vars => CompleteOnceStarted'
  <2> SUFFICES ASSUME Types, CompleteInv, CompleteOnceStarted, [Next]_vars,
                      outcome' = "nullPointer"
               PROVE  starts' = 0
    BY DEF CompleteOnceStarted
  <2>1. ASSUME NEW ends \in BOOLEAN, NEW routed \in BOOLEAN, processing_request(ends, routed)
        PROVE  starts' = 0
    <3>1. starts' = starts /\ (~route \/ notFound = None) /\ starts \in Nat
      BY <2>1, RequestFacts DEF Types, TypeOK
    <3>2. ~(starts > 0)
      BY <3>1 DEF CompleteInv
    <3> QED BY <3>1, <3>2
  <2>2. CASE UNCHANGED vars
    BY <2>2 DEF vars, CompleteOnceStarted
  <2>3. \A ends, routed \in BOOLEAN : ~processing_request(ends, routed)
          => UNCHANGED vars \/ \E e, o \in BOOLEAN : processing_request(e, o)
    BY DEF Next, addToBuilder, setup, enable_static_file, setNotFoundHandler, start,
           destroy, Delete
  <2> QED BY <2>1, <2>2, <2>3
<1> QED BY <1>1, <1>2, CompleteInductive, TypesInvariant, PTL DEF Spec

\* Every call keeps the pointers of the builders apart.
LEMMA ContentInductive == Types /\ ContentInv /\ [Next]_vars => ContentInv'
<1> SUFFICES ASSUME Types, ContentInv, [Next]_vars PROVE ContentInv'
  OBVIOUS
<1>a. ASSUME UNCHANGED <<content, given, notFound, systemError, staticFile>> PROVE ContentInv'
  BY <1>a DEF ContentInv
<1>1. ASSUME NEW b \in Builders, addToBuilder(b) PROVE ContentInv'
  <2>1. PICK x \in Nat :
           /\ x # None /\ x \notin Made
           /\ \A c \in Builders \ {b} : content'[c] = content[c]
           /\ Len(content'[b]) = Len(content[b]) + 1
           /\ Len(content[b]) \in Nat
           /\ ToSet(content'[b]) = ToSet(content[b]) \cup {x}
           /\ IsInjective(content[b]) => IsInjective(content'[b])
           /\ UNCHANGED <<given, notFound, systemError, staticFile>>
    BY <1>1, AddFacts
  <2>2. {notFound, systemError, staticFile} \subseteq Made \cup {None}
        /\ \A c \in Builders : ToSet(content[c]) \subseteq Made /\ given[c] \in Seq(Nat)
    BY TypeFacts
  <2>3. ASSUME NEW c \in Builders
        PROVE  /\ IsInjective(content'[c])
               /\ {notFound', systemError', staticFile'} \cap ToSet(content'[c]) = {}
               /\ \A k \in 1 .. Len(given'[c]) : given'[c][k] <= Len(content'[c])
    <3>1. CASE c = b
      <4>1. \A k \in 1 .. Len(given[b]) : given[b][k] <= Len(content[b]) /\ given[b][k] \in Nat
        BY <2>2 DEF ContentInv
      <4>2. \A k \in 1 .. Len(given[b]) : given[b][k] <= Len(content[b]) + 1
        BY <2>1, <4>1
      <4>3. IsInjective(content'[b])
        BY <2>1 DEF ContentInv
      <4>4. {notFound', systemError', staticFile'} = {notFound, systemError, staticFile}
            /\ x \notin {notFound, systemError, staticFile}
            /\ {notFound, systemError, staticFile} \cap ToSet(content[b]) = {}
        BY <2>1, <2>2 DEF ContentInv
      <4>5. {notFound', systemError', staticFile'} \cap ToSet(content'[b]) = {}
        BY <2>1, <4>4
      <4>6. \A k \in 1 .. Len(given'[b]) : given'[b][k] <= Len(content'[b])
        BY <2>1, <4>2
      <4> QED BY <3>1, <4>3, <4>5, <4>6
    <3>2. CASE c # b
      BY <2>1, <3>2 DEF ContentInv
    <3> QED BY <3>1, <3>2
  <2>4. ASSUME NEW c \in Builders, NEW d \in Builders, c # d
        PROVE  ToSet(content'[c]) \cap ToSet(content'[d]) = {}
    <3>1. /\ ToSet(content[c]) \cap ToSet(content[d]) = {}
          /\ x \notin ToSet(content[c]) /\ x \notin ToSet(content[d])
      BY <2>1, <2>2, <2>4 DEF ContentInv
    <3>2. /\ c # b => content'[c] = content[c]
          /\ d # b => content'[d] = content[d]
      BY <2>1
    <3>3. CASE c = b
      BY ONLY <2>1, <2>4, <3>1, <3>2, <3>3
    <3>4. CASE d = b
      BY ONLY <2>1, <2>4, <3>1, <3>2, <3>4
    <3>5. CASE c # b /\ d # b
      BY ONLY <3>1, <3>2, <3>5
    <3> QED BY ONLY <3>3, <3>4, <3>5
  <2>5. /\ staticFile' # None => staticFile' # notFound' /\ staticFile' # systemError'
        /\ notFound' # None => notFound' # systemError'
    BY <2>1 DEF ContentInv
  <2> QED BY ONLY <2>3, <2>4, <2>5 DEF ContentInv
<1>2. ASSUME NEW bef \in OneOrNone, NEW aft \in OneOrNone, NEW r \in BOOLEAN, setup(bef, r, aft)
      PROVE  ContentInv'
  <2>1. UNCHANGED <<content, notFound, systemError, staticFile>>
    BY <1>2 DEF setup
  <2>2. ASSUME NEW b \in Builders, NEW k \in 1 .. Len(given'[b])
        PROVE  given'[b][k] <= Len(content[b])
    <3>1. \/ k \in 1 .. Len(given[b]) /\ given'[b][k] = given[b][k]
          \/ given'[b][k] = Len(content[b])
      BY <1>2, SetupFacts
    <3>2. Len(content[b]) \in Nat
      BY TypeFacts
    <3> QED BY <3>1, <3>2 DEF ContentInv
  <2> QED BY <2>1, <2>2 DEF ContentInv
<1>b. ASSUME NEW x \in Nat, x # None, x \notin Made, UNCHANGED <<content, given>>,
             notFound' \in {notFound, x}, staticFile' \in {staticFile, x}, systemError' = systemError,
             ~(notFound' = x /\ staticFile' = x)
      PROVE  ContentInv'
  <2>1. {notFound, systemError, staticFile} \subseteq Made \cup {None}
        /\ \A c \in Builders : ToSet(content[c]) \subseteq Made
    BY TypeFacts
  <2> QED BY <1>b, <2>1 DEF ContentInv
<1>3. CASE enable_static_file
  <2>1. PICK x \in Nat : /\ x # None /\ x \notin Made /\ staticFile' = x
                         /\ UNCHANGED <<content, given, notFound, systemError>>
    BY <1>3, StaticFacts
  <2>2. {notFound, staticFile} \subseteq Made \cup {None}
    BY TypeFacts
  <2>3. /\ UNCHANGED <<content, given>> /\ systemError' = systemError
        /\ staticFile' \in {staticFile, x} /\ notFound' \in {notFound, x}
        /\ ~(notFound' = x /\ staticFile' = x)
    BY <2>1, <2>2
  <2>4. x \in Nat /\ x # None /\ x \notin Made
    BY <2>1
  <2> QED BY <1>b, <2>3, <2>4
<1>4. CASE setNotFoundHandler
  <2>1. PICK x \in Nat : /\ x # None /\ x \notin Made /\ notFound' = x
                         /\ UNCHANGED <<content, given, staticFile, systemError>>
    BY <1>4, HandlerFacts
  <2>2. {notFound, staticFile} \subseteq Made \cup {None}
    BY TypeFacts
  <2>3. /\ UNCHANGED <<content, given>> /\ systemError' = systemError
        /\ notFound' \in {notFound, x} /\ staticFile' \in {staticFile, x}
        /\ ~(notFound' = x /\ staticFile' = x)
    BY <2>1, <2>2
  <2>4. x \in Nat /\ x # None /\ x \notin Made
    BY <2>1
  <2> QED BY <1>b, <2>3, <2>4
<1>5. CASE start
  <2>1. /\ UNCHANGED <<content, given, staticFile>>
        /\ systemError' \notin Made /\ systemError' # notFound'
        /\ notFound' = notFound \/ notFound' \notin Made
        /\ None \notin Made' /\ systemError' \in Made' /\ (notFound' = notFound \/ notFound' \in Made')
    BY <1>5, TypeFacts, StartFacts
  <2>2. /\ {notFound, systemError, staticFile} \subseteq Made \cup {None}
        /\ \A c \in Builders : ToSet(content[c]) \subseteq Made
    BY TypeFacts
  <2>3. \A b \in Builders : {notFound', systemError', staticFile'} \cap ToSet(content'[b]) = {}
    BY <2>1, <2>2 DEF ContentInv
  <2>4. staticFile' # None => staticFile' # notFound' /\ staticFile' # systemError'
    BY <2>1, <2>2 DEF ContentInv
  <2> QED BY <2>1, <2>3, <2>4 DEF ContentInv
<1>6. ASSUME NEW ends \in BOOLEAN, NEW routed \in BOOLEAN, processing_request(ends, routed)
      PROVE ContentInv'
  BY <1>6, <1>a, RequestFacts
<1>7. CASE destroy
  BY <1>7, <1>a, DestroyFacts
<1>8. CASE UNCHANGED vars
  BY <1>8, <1>a DEF vars
<1> QED BY <1>1, <1>2, <1>3, <1>4, <1>5, <1>6, <1>7, <1>8 DEF Next

\* What is shared stays so.
LEMMA SharedStays == Types /\ Shared /\ [Next]_vars => Shared'
<1> SUFFICES ASSUME Types, Shared, [Next]_vars PROVE Shared'
  OBVIOUS
<1>a. ASSUME given' = given, starts' = starts \/ starts' = starts + 1,
             staticFile' = staticFile \/ staticFile' # None
      PROVE  Shared'
  <2>1. starts \in Nat
    BY DEF Types, TypeOK
  <2>2. starts > 1 /\ staticFile # None => starts' > 1 /\ staticFile' # None
    BY <1>a, <2>1
  <2> QED BY <1>a, <2>2 DEF Shared
<1>1. ASSUME NEW b \in Builders, addToBuilder(b) PROVE Shared'
  BY <1>1, <1>a, AddFacts
<1>2. ASSUME NEW bef \in OneOrNone, NEW aft \in OneOrNone, NEW r \in BOOLEAN, setup(bef, r, aft)
      PROVE  Shared'
  <2>1. starts' = starts /\ staticFile' = staticFile
    BY <1>2 DEF setup
  <2>2. CASE starts > 1 /\ staticFile # None
    BY <2>1, <2>2 DEF Shared
  <2>3. CASE \E b \in Builders : \E i, j \in 1..Len(given[b]) :
               i < j /\ given[b][i] > 0 /\ given[b][j] > 0
    <3>1. PICK b \in Builders : \E i, j \in 1..Len(given[b]) :
               i < j /\ given[b][i] > 0 /\ given[b][j] > 0
      BY <2>3
    <3>2. PICK i, j \in 1..Len(given[b]) : i < j /\ given[b][i] > 0 /\ given[b][j] > 0
      BY <3>1
    <3>3. /\ i \in 1 .. Len(given'[b]) /\ given'[b][i] = given[b][i]
          /\ j \in 1 .. Len(given'[b]) /\ given'[b][j] = given[b][j]
      BY <1>2, SetupFacts
    <3> QED BY <3>2, <3>3 DEF Shared
  <2> QED BY <2>2, <2>3 DEF Shared
<1>3. CASE enable_static_file
  BY <1>3, <1>a, StaticFacts
<1>4. CASE setNotFoundHandler
  BY <1>4, <1>a, HandlerFacts
<1>5. CASE start
  BY <1>5, <1>a, TypeFacts, StartFacts
<1>6. ASSUME NEW ends \in BOOLEAN, NEW routed \in BOOLEAN, processing_request(ends, routed)
      PROVE Shared'
  BY <1>6, <1>a, RequestFacts
<1>7. CASE destroy
  BY <1>7, <1>a, DestroyFacts
<1>8. CASE UNCHANGED vars
  BY <1>8, <1>a DEF vars
<1> QED BY <1>1, <1>2, <1>3, <1>4, <1>5, <1>6, <1>7, <1>8 DEF Next

\* What setup() is given for the first time and the last, as long as nothing is
\* shared: a builder that was never given when it had middlewares, and not the
\* same for both pipelines unless it has none.
LEMMA SetupGiven ==
  ASSUME Types, ContentInv, NEW bef \in OneOrNone, NEW aft \in OneOrNone, NEW r \in BOOLEAN,
         setup(bef, r, aft), ~Shared'
  PROVE  /\ \A b \in bef \cup aft : b \in Builders /\ \A i \in 1 .. Len(content[b]) : Unhanded(b, i)
         /\ \A b \in bef \cap aft : ToSet(content[b]) = {}
         /\ \A b \in Builders : \A i \in 1 .. Len(content[b]) :
              Unhanded(b, i)' => Unhanded(b, i) /\ b \notin bef \cup aft
<1>1. bef \cup aft \subseteq Builders
  BY DEF OneOrNone
<1>2. \A b \in Builders : \A i, j \in 1 .. Len(given'[b]) :
        i < j => ~(given'[b][i] > 0 /\ given'[b][j] > 0)
  BY DEF Shared
<1>3. \A b \in Builders : /\ Len(content[b]) \in Nat /\ Len(given[b]) \in Nat
                          /\ content[b] \in Seq(Nat) /\ given[b] \in Seq(Nat)
  BY TypeFacts
<1>4. content' = content
  BY DEF setup
<1>5. ASSUME NEW b \in bef \cup aft, NEW i \in 1 .. Len(content[b]) PROVE Unhanded(b, i)
  <2>1. b \in Builders /\ Len(content[b]) > 0
    BY <1>1, <1>3
  <2>2. /\ Len(given[b]) + 1 \in 1 .. Len(given'[b])
        /\ given'[b][Len(given[b]) + 1] = Len(content[b])
    BY <2>1, SetupFacts
  <2> SUFFICES ASSUME NEW k \in 1 .. Len(given[b]) PROVE given[b][k] < i
    BY DEF Unhanded
  <2>3. k \in 1 .. Len(given'[b]) /\ given'[b][k] = given[b][k]
    BY <2>1, SetupFacts
  <2>4. given[b][k] \in Nat /\ k < Len(given[b]) + 1
    BY <1>3, <2>1
  <2>5. ~(given[b][k] > 0)
    BY <1>2, <2>1, <2>2, <2>3, <2>4
  <2> QED BY <2>4, <2>5
<1>6. ASSUME NEW b \in bef \cap aft PROVE ToSet(content[b]) = {}
  <2>1. b \in Builders
    BY <1>1
  <2>2. /\ Len(given[b]) + 1 \in 1 .. Len(given'[b])
        /\ given'[b][Len(given[b]) + 1] = Len(content[b])
        /\ Len(given[b]) + 2 \in 1 .. Len(given'[b])
        /\ given'[b][Len(given[b]) + 2] = Len(content[b])
    BY <2>1, SetupFacts
  <2>3. Len(given[b]) + 1 < Len(given[b]) + 2
    BY <1>3, <2>1
  <2>4. ~(Len(content[b]) > 0)
    BY <1>2, <2>1, <2>2, <2>3
  <2>5. 1 .. Len(content[b]) = {}
    BY <1>3, <2>1, <2>4
  <2>6. PICK c \in Seq(Nat) : c = content[b]
    BY <1>3, <2>1
  <2>7. ToSet(c) = {c[i] : i \in 1 .. Len(c)}
    BY ElementFacts
  <2> QED BY ONLY <2>5, <2>6, <2>7
<1>7. ASSUME NEW b \in Builders, NEW i \in 1 .. Len(content[b]), Unhanded(b, i)'
      PROVE  Unhanded(b, i) /\ b \notin bef \cup aft
  <2>1. \A k \in 1 .. Len(given'[b]) : given'[b][k] < i
    BY <1>7 DEF Unhanded
  <2>2. Unhanded(b, i)
    BY <2>1, SetupFacts DEF Unhanded
  <2>3. b \in bef \cup aft => Len(content[b]) < i
    BY <2>1, SetupFacts
  <2> QED BY <1>3, <2>2, <2>3
<1> QED BY <1>1, <1>5, <1>6, <1>7

\* What no call but setup() and start() disturbs: the pipelines stay, and the
\* members that change are new.
LEMMA OwnedStays ==
  ASSUME Types, Owned, UNCHANGED <<before, after>>,
         deleted' \cap (ToSet(before) \cup ToSet(after) \cup {notFound', systemError'}) = {},
         notFound' = notFound \/ notFound' \notin Made \cup {None},
         systemError' = systemError
  PROVE  Owned'
<1>1. ToSet(before) \subseteq Made /\ ToSet(after) \subseteq Made
  BY TypeFacts
<1>2. {notFound', systemError'} \cap (ToSet(before) \cup ToSet(after)) = {}
  BY <1>1 DEF Owned
<1> QED BY <1>2 DEF Owned

\* addToBuilder() hands nothing to the server.
LEMMA OwnAdd ==
  ASSUME Types, ContentInv, Owned, Pending, NEW b \in Builders, addToBuilder(b)
  PROVE  Owned' /\ Pending'
<1>1. PICK x \in Nat :
        /\ x # None /\ x \notin Made
        /\ \A c \in Builders \ {b} : content'[c] = content[c]
        /\ Len(content'[b]) = Len(content[b]) + 1
        /\ Len(content[b]) \in Nat
        /\ content'[b][Len(content[b]) + 1] = x
        /\ \A i \in 1 .. Len(content[b]) : content'[b][i] = content[b][i]
        /\ UNCHANGED <<deleted, given, before, after, notFound, systemError, staticFile, starts>>
  BY AddFacts
<1>2. Owned'
  BY <1>1 DEF Owned
<1>3. ASSUME NEW c \in Builders, NEW i \in 1 .. Len(content'[c]), Unhanded(c, i)'
      PROVE  content'[c][i] \notin ToSet(before) \cup ToSet(after) \cup deleted
  <2>1. Unhanded(c, i)
    BY <1>1, <1>3 DEF Unhanded
  <2>2. CASE c # b
    <3>1. content'[c] = content[c]
      BY <1>1, <2>2
    <3> QED BY <2>1, <3>1 DEF Pending
  <2>3. CASE c = b /\ i \in 1 .. Len(content[b])
    <3>1. content'[c][i] = content[c][i]
      BY <1>1, <2>3
    <3> QED BY <2>1, <2>3, <3>1 DEF Pending
  <2>4. CASE c = b /\ i = Len(content[b]) + 1
    <3>1. content'[c][i] = x
      BY <1>1, <2>4
    <3> QED BY <1>1, <3>1, TypeFacts
  <2>5. c = b => i \in 1 .. Len(content[b]) \/ i = Len(content[b]) + 1
    BY <1>1
  <2> QED BY <2>2, <2>3, <2>4, <2>5
<1>4. /\ staticFile' \notin ToSet(after)
      /\ starts' = 0 => staticFile' \notin ToSet(before) \cup deleted
  BY <1>1 DEF Pending
<1>5. ToSet(before)' = ToSet(before) /\ ToSet(after)' = ToSet(after) /\ deleted' = deleted
  BY <1>1
<1> QED BY <1>2, <1>3, <1>4, <1>5 DEF Pending

\* setup() deletes the pipelines it replaces, and takes what nobody had.
LEMMA OwnSetup ==
  ASSUME Types, ContentInv, Owned, Pending, ~Shared',
         NEW bef \in OneOrNone, NEW aft \in OneOrNone, NEW r \in BOOLEAN, setup(bef, r, aft)
  PROVE  Owned' /\ Pending'
<1>1. /\ \A b \in bef \cup aft : b \in Builders /\ \A i \in 1 .. Len(content[b]) : Unhanded(b, i)
      /\ \A b \in bef \cap aft : ToSet(content[b]) = {}
      /\ \A b \in Builders : \A i \in 1 .. Len(content[b]) :
           Unhanded(b, i)' => Unhanded(b, i) /\ b \notin bef \cup aft
  BY SetupGiven
<1>2. Replaces(before, before', bef) /\ Replaces(after, after', aft)
  BY SetupFacts
<1>3. UNCHANGED <<content, notFound, systemError, staticFile, starts>>
  BY DEF setup
<1>4. deleted' = deleted \cup (IF aft = {} THEN {} ELSE ToSet(after))
                         \cup (IF bef = {} THEN {} ELSE ToSet(before))
  <2>1. deleted' = deleted \cup ToSet(Replaced(bef, aft))
    BY DEF setup, Delete
  <2> QED BY <2>1, ReplacedFacts
<1>5. \A b \in bef \cup aft :
        ToSet(content[b]) \cap (ToSet(before) \cup ToSet(after) \cup deleted) = {}
  <2> SUFFICES ASSUME NEW b \in bef \cup aft, NEW m \in ToSet(content[b])
               PROVE  m \notin ToSet(before) \cup ToSet(after) \cup deleted
    OBVIOUS
  <2>1. b \in Builders /\ content[b] \in Seq(Nat)
    BY <1>1, TypeFacts
  <2>2. PICK i \in 1 .. Len(content[b]) : m = content[b][i]
    BY <2>1, ElementFacts
  <2> QED BY <1>1, <2>1, <2>2 DEF Pending
<1>6. /\ \A b \in bef \cup aft : /\ IsInjective(content[b])
                                 /\ {notFound, systemError, staticFile} \cap ToSet(content[b]) = {}
      /\ \A b \in bef, c \in aft : ToSet(content[b]) \cap ToSet(content[c]) = {}
  BY <1>1 DEF ContentInv
\* Each pipeline afterwards: the old one, or what one of the builders has.
<1>7. \/ bef = {} /\ before' = before
      \/ \E b \in bef : before' = content[b] /\ bef # {}
  BY <1>2 DEF Replaces
<1>8. \/ aft = {} /\ after' = after
      \/ \E b \in aft : after' = content[b] /\ aft # {}
  BY <1>2 DEF Replaces
<1> DEFINE B == ToSet(before)
           A == ToSet(after)
           Bn == ToSet(before')
           An == ToSet(after')
<1>9. \/ bef = {} /\ Bn = B
      \/ bef # {} /\ \E b \in bef : Bn = ToSet(content[b])
  BY <1>7
<1>10. \/ aft = {} /\ An = A
       \/ aft # {} /\ \E b \in aft : An = ToSet(content[b])
  BY <1>8
<1>11. /\ A \cap B = {} /\ (A \cup B \cup {notFound, systemError}) \cap deleted = {}
       /\ {notFound, systemError} \cap (A \cup B) = {}
  BY DEF Owned
<1>12. IsInjective(before') /\ IsInjective(after')
  BY <1>6, <1>7, <1>8 DEF Owned
<1>13. /\ deleted' = deleted \cup (IF aft = {} THEN {} ELSE A) \cup (IF bef = {} THEN {} ELSE B)
       /\ \A b \in bef \cup aft : ToSet(content[b]) \cap (B \cup A \cup deleted) = {}
  BY <1>4, <1>5
<1> HIDE DEF B, A, Bn, An
<1>14. Bn \cap An = {} /\ {notFound, systemError} \cap (Bn \cup An) = {}
  BY ONLY <1>6, <1>9, <1>10, <1>11, <1>13
<1>15. Bn \cap deleted' = {}
  BY ONLY <1>9, <1>11, <1>13
<1>16. An \cap deleted' = {}
  BY ONLY <1>10, <1>11, <1>13
<1>17. {notFound, systemError} \cap deleted' = {}
  BY ONLY <1>11, <1>13
<1>18. Owned'
  <2>1. ToSet(before)' = Bn /\ ToSet(after)' = An
    BY DEF Bn, An
  <2>2. IsInjective(before)' /\ IsInjective(after)' /\ notFound' = notFound /\ systemError' = systemError
    BY <1>3, <1>12
  <2> QED BY <1>14, <1>15, <1>16, <1>17, <2>1, <2>2 DEF Owned
<1>19. ASSUME NEW b \in Builders, NEW i \in 1 .. Len(content[b]), Unhanded(b, i)'
       PROVE  content[b][i] \notin Bn \cup An \cup deleted'
  <2>1. content[b][i] \notin B \cup A \cup deleted /\ b \notin bef \cup aft
    BY <1>1, <1>19 DEF Pending, A, B
  <2>2. \A c \in bef \cup aft : content[b][i] \notin ToSet(content[c])
    <3>1. content[b][i] \in ToSet(content[b])
      BY TypeFacts
    <3> QED BY <1>1, <2>1, <3>1 DEF ContentInv
  <2> QED BY <1>9, <1>10, <1>13, <2>1, <2>2
<1>20. staticFile \notin A /\ (starts = 0 => staticFile \notin B \cup deleted)
  BY DEF Pending, A, B
<1>21. staticFile \notin An /\ (starts = 0 => staticFile \notin Bn \cup deleted')
  BY ONLY <1>6, <1>9, <1>10, <1>13, <1>20
<1>22. Pending'
  <2>1. ToSet(before)' = Bn /\ ToSet(after)' = An
    BY DEF Bn, An
  <2> QED BY <1>3, <1>19, <1>21, <2>1 DEF Pending
<1> QED BY <1>18, <1>22

\* enable_static_file(): what it makes is in no pipeline yet.
LEMMA OwnStatic ==
  ASSUME Types, Owned, Pending, enable_static_file
  PROVE  Owned' /\ Pending'
<1>1. PICK x \in Nat :
        /\ x # None /\ x \notin Made /\ staticFile' = x
        /\ UNCHANGED <<deleted, content, given, before, after, notFound, systemError, starts>>
  BY StaticFacts
<1>2. x \notin ToSet(before) \cup ToSet(after) \cup deleted
  BY <1>1, TypeFacts
<1>3. Owned'
  BY <1>1 DEF Owned
<1>4. \A b \in Builders : \A i \in 1 .. Len(content[b]) : Unhanded(b, i)' => Unhanded(b, i)
  BY <1>1 DEF Unhanded
<1> QED BY <1>1, <1>2, <1>3, <1>4 DEF Pending

\* setNotFoundHandler() deletes the handler before, which is in no pipeline.
LEMMA OwnHandler ==
  ASSUME Types, ContentInv, Owned, Pending, setNotFoundHandler
  PROVE  Owned' /\ Pending'
<1>1. PICK x \in Nat :
        /\ x # None /\ x \notin Made /\ notFound' = x
        /\ deleted' = deleted \cup ({notFound} \ {None})
        /\ UNCHANGED <<content, given, before, after, systemError, staticFile, starts>>
  BY HandlerFacts
<1>2. /\ None \notin Made /\ deleted \subseteq Made
      /\ ToSet(before) \subseteq Made /\ ToSet(after) \subseteq Made
      /\ {notFound, systemError, staticFile} \subseteq Made \cup {None}
  BY TypeFacts
<1>3. /\ {notFound, systemError} \cap (ToSet(before) \cup ToSet(after)) = {}
      /\ (ToSet(before) \cup ToSet(after) \cup {notFound, systemError}) \cap deleted = {}
      /\ notFound # None => notFound # systemError
  BY DEF Owned, ContentInv
<1>4. deleted' \cap (ToSet(before) \cup ToSet(after) \cup {notFound', systemError'}) = {}
  BY <1>1, <1>2, <1>3
<1>5. Owned'
  BY <1>1, <1>4, OwnedStays
<1>6. ASSUME NEW b \in Builders, NEW i \in 1 .. Len(content[b]), Unhanded(b, i)'
      PROVE  content[b][i] \notin ToSet(before) \cup ToSet(after) \cup deleted'
  <2>1. Unhanded(b, i)
    BY <1>1, <1>6 DEF Unhanded
  <2>2. content[b][i] \in ToSet(content[b])
    BY TypeFacts
  <2>3. content[b][i] # notFound
    BY <2>2 DEF ContentInv
  <2> QED BY <1>1, <2>1, <2>3 DEF Pending
<1>7. /\ staticFile \notin ToSet(after)
      /\ starts = 0 => staticFile \notin ToSet(before) \cup deleted'
  <2>1. staticFile \notin {notFound} \ {None}
    BY DEF ContentInv
  <2> QED BY <1>1, <2>1 DEF Pending
<1> QED BY <1>1, <1>5, <1>6, <1>7 DEF Pending

\* start(): what it makes is new, and the static file server comes into the
\* first pipeline once.
LEMMA OwnStart ==
  ASSUME Types, ContentInv, Owned, Pending, ~Shared', start
  PROVE  Owned' /\ Pending'
<1>1. PICK d, e \in Nat :
        /\ d \notin Made \cup {None} /\ e \notin Made \cup {None} /\ d # e
        /\ notFound' = notFound \/ notFound' \notin Made \cup {None, d, e}
        /\ after' = Append(after, d) /\ systemError' = e
        /\ before' = IF staticFile = None THEN before ELSE Append(before, staticFile)
        /\ starts' = starts + 1
        /\ UNCHANGED <<deleted, content, given, staticFile>>
  <2>1. made \in Seq(Kinds)
    BY TypeFacts
  <2>2. /\ \A k \in {1, 2} : Fresh(k) \in Nat /\ Fresh(k) \notin Made /\ Fresh(k) \in Made'
        /\ None \notin Made' /\ Fresh(1) # Fresh(2)
        /\ \/ notFound' = notFound
           \/ /\ notFound' = Fresh(3) /\ Fresh(3) \notin Made /\ Fresh(3) \in Made'
              /\ Fresh(3) # Fresh(1) /\ Fresh(3) # Fresh(2)
    BY <2>1, StartFacts
  <2>3. /\ after' = Append(after, Fresh(1)) /\ systemError' = Fresh(2)
        /\ before' = IF staticFile = None THEN before ELSE Append(before, staticFile)
        /\ starts' = starts + 1
        /\ UNCHANGED <<deleted, content, given, staticFile>>
    BY <2>1, StartFacts
  <2> QED BY <2>2, <2>3
<1>2. /\ None \notin Made /\ deleted \subseteq Made
      /\ ToSet(before) \subseteq Made /\ ToSet(after) \subseteq Made
      /\ {notFound, systemError, staticFile} \subseteq Made \cup {None}
      /\ before \in Seq(Nat) /\ after \in Seq(Nat) /\ staticFile \in Nat
  BY TypeFacts DEF Types
<1>3. /\ {notFound, systemError} \cap (ToSet(before) \cup ToSet(after)) = {}
      /\ (ToSet(before) \cup ToSet(after) \cup {notFound, systemError}) \cap deleted = {}
      /\ ToSet(before) \cap ToSet(after) = {}
      /\ staticFile # None => staticFile # notFound /\ staticFile # systemError
  BY DEF Owned, ContentInv
\* A second start() with a static file server shares it.
<1>4. staticFile # None => starts = 0
  <2>1. starts \in Nat /\ ~(starts + 1 > 1 /\ staticFile # None)
    BY <1>1 DEF Shared, Types, TypeOK
  <2> QED BY <2>1
<1>5. /\ staticFile \notin ToSet(after)
      /\ staticFile # None => staticFile \notin ToSet(before) \cup deleted
  BY <1>4 DEF Pending
<1>6. ToSet(after') = ToSet(after) \cup {d} /\ IsInjective(after')
  BY <1>1, <1>2, AppendFacts DEF Owned
<1>7. ToSet(before') = ToSet(before) \cup ({staticFile} \ {None}) /\ IsInjective(before')
  <2>1. CASE staticFile = None
    BY <1>1, <2>1 DEF Owned
  <2>2. CASE staticFile # None
    BY <1>1, <1>2, <1>5, <2>2, AppendFacts DEF Owned
  <2> QED BY <2>1, <2>2
<1>8. Owned'
  <2>1. ToSet(before') \cap ToSet(after') = {}
    BY <1>1, <1>2, <1>3, <1>5, <1>6, <1>7
  <2>2. e \notin ToSet(before') \cup ToSet(after') /\ e \notin deleted
    BY <1>1, <1>2, <1>6, <1>7
  <2>3. notFound' \notin ToSet(before') \cup ToSet(after') /\ notFound' \notin deleted
    <3>1. CASE notFound' = notFound
      BY <1>1, <1>2, <1>3, <1>6, <1>7, <3>1
    <3>2. CASE notFound' \notin Made \cup {None, d, e}
      BY <1>1, <1>2, <1>6, <1>7, <3>2
    <3> QED BY <1>1, <3>1, <3>2
  <2>4. (ToSet(before') \cup ToSet(after')) \cap deleted = {}
    BY <1>1, <1>2, <1>3, <1>5, <1>6, <1>7
  <2> QED BY <1>1, <1>6, <1>7, <2>1, <2>2, <2>3, <2>4 DEF Owned
<1>9. ASSUME NEW b \in Builders, NEW i \in 1 .. Len(content[b]), Unhanded(b, i)'
      PROVE  content[b][i] \notin ToSet(before') \cup ToSet(after') \cup deleted
  <2>1. Unhanded(b, i)
    BY <1>1, <1>9 DEF Unhanded
  <2>2. content[b][i] \in ToSet(content[b]) /\ content[b][i] \in Made
    BY TypeFacts
  <2>3. content[b][i] # staticFile
    BY <2>2 DEF ContentInv
  <2>4. content[b][i] \notin ToSet(before) \cup ToSet(after) \cup deleted
    BY <2>1 DEF Pending
  <2> QED BY <1>1, <1>6, <1>7, <2>2, <2>3, <2>4
<1>10. staticFile \notin ToSet(after')
  BY <1>1, <1>2, <1>5, <1>6
<1>11. starts' # 0
  BY <1>1 DEF Types, TypeOK
<1> QED BY <1>1, <1>8, <1>9, <1>10, <1>11 DEF Pending

\* As long as the process lives and nothing is shared, every call keeps that.
LEMMA OwnInductive ==
  Types /\ ContentInv /\ OwnInv /\ PendingInv /\ [Next]_vars => OwnInv' /\ PendingInv'
<1> SUFFICES ASSUME Types, ContentInv, OwnInv, PendingInv, [Next]_vars,
                    outcome' = "alive", ~Shared'
             PROVE  Owned' /\ Pending'
  BY DEF OwnInv, PendingInv
<1>1. ~Shared
  BY SharedStays
<1>2. outcome = "alive"
  BY DEF Next, vars, addToBuilder, setup, enable_static_file, setNotFoundHandler, start,
         processing_request, destroy
<1>3. Owned /\ Pending
  BY <1>1, <1>2 DEF OwnInv, PendingInv
<1>a. ASSUME UNCHANGED <<deleted, content, given, before, after, notFound, systemError,
                         staticFile, starts>>
      PROVE  Owned' /\ Pending'
  <2>1. \A b \in Builders : \A i \in 1 .. Len(content[b]) : Unhanded(b, i)' => Unhanded(b, i)
    BY <1>a DEF Unhanded
  <2> QED BY <1>3, <1>a, <2>1 DEF Owned, Pending
<1>4. ASSUME NEW b \in Builders, addToBuilder(b) PROVE Owned' /\ Pending'
  BY <1>3, <1>4, OwnAdd
<1>5. ASSUME NEW bef \in OneOrNone, NEW aft \in OneOrNone, NEW r \in BOOLEAN, setup(bef, r, aft)
      PROVE  Owned' /\ Pending'
  BY <1>3, <1>5, OwnSetup
<1>6. CASE enable_static_file
  BY <1>3, <1>6, OwnStatic
<1>7. CASE setNotFoundHandler
  BY <1>3, <1>7, OwnHandler
<1>8. CASE start
  BY <1>3, <1>8, OwnStart
<1>9. ASSUME NEW ends \in BOOLEAN, NEW routed \in BOOLEAN, processing_request(ends, routed)
      PROVE  Owned' /\ Pending'
  BY <1>9, <1>a, RequestFacts
<1>10. ~destroy
  BY DestroyFacts
<1>11. CASE UNCHANGED vars
  BY <1>11, <1>a DEF vars
<1> QED BY <1>4, <1>5, <1>6, <1>7, <1>8, <1>9, <1>10, <1>11 DEF Next

\* A step that ends with a pointer deleted twice or used after it was deleted
\* begins with something shared or shares it.
LEMMA DeletedStep ==
  ASSUME Types, ContentInv, OwnInv, PendingInv, [Next]_vars,
         outcome = "alive", outcome' \in {"deletedTwice", "usedDeleted"}
  PROVE  Shared'
<1> SUFFICES ASSUME ~Shared' PROVE FALSE
  OBVIOUS
<1>1. ~Shared
  BY SharedStays
<1>2. Owned
  BY <1>1 DEF OwnInv
<1>3. ASSUME NEW bef \in OneOrNone, NEW aft \in OneOrNone, NEW r \in BOOLEAN, setup(bef, r, aft)
      PROVE  FALSE
  <2>1. outcome' = IF IsInjective(Replaced(bef, aft)) /\ ToSet(Replaced(bef, aft)) \cap deleted = {}
                   THEN outcome ELSE "deletedTwice"
    BY <1>3 DEF setup, Delete
  <2>2. /\ ToSet(Replaced(bef, aft)) =
             (IF aft = {} THEN {} ELSE ToSet(after)) \cup (IF bef = {} THEN {} ELSE ToSet(before))
        /\ IsInjective(before) /\ IsInjective(after) /\ ToSet(before) \cap ToSet(after) = {}
             => IsInjective(Replaced(bef, aft))
    BY ReplacedFacts
  <2>3. IsInjective(Replaced(bef, aft))
    BY <1>2, <2>2 DEF Owned
  <2>4. (ToSet(before) \cup ToSet(after)) \cap deleted = {}
    BY <1>2 DEF Owned
  <2>5. ToSet(Replaced(bef, aft)) \cap deleted = {}
    BY <2>2, <2>4
  <2> QED BY <2>1, <2>3, <2>5
<1>4. CASE setNotFoundHandler
  BY <1>2, <1>4, HandlerFacts DEF Owned
<1>5. ASSUME NEW ends \in BOOLEAN, NEW routed \in BOOLEAN, processing_request(ends, routed)
      PROVE  FALSE
  <2>1. (ToSet(before) \cup ToSet(after)) \cap deleted # {}
    BY <1>5, RequestFacts
  <2> QED BY <1>2, <2>1 DEF Owned
<1>6. CASE destroy
  <2>1. notFound # None => notFound # systemError
    BY DEF ContentInv
  <2>2. outcome' = "destroyed"
    BY <1>2, <1>6, <2>1, DestroyFacts
  <2> QED BY <2>2
<1>7. (\E b \in Builders : addToBuilder(b)) \/ enable_static_file \/ start \/ UNCHANGED vars
        => outcome' = outcome
  BY DEF addToBuilder, enable_static_file, start, vars
<1> QED BY <1>3, <1>4, <1>5, <1>6, <1>7 DEF Next

\* What the proofs below need of every state.
Life == Types /\ CompleteInv /\ ContentInv /\ OwnInv /\ PendingInv

LEMMA LifeInvariant == Spec => []Life
<1>1. Init => ContentInv /\ OwnInv /\ PendingInv
  <2> SUFFICES ASSUME Init PROVE ContentInv /\ Owned /\ Pending
    BY DEF OwnInv, PendingInv
  <2>1. /\ \A b \in Builders : content[b] = <<>> /\ given[b] = <<>> /\ Len(given[b]) = 0
                               /\ Len(content[b]) = 0
        /\ before = <<>> /\ after = <<>> /\ deleted = {}
        /\ notFound = None /\ systemError = None /\ staticFile = None
    BY DEF Init
  <2>2. ToSet(<<>>) = {} /\ IsInjective(<<>>) /\ 1 .. 0 = {}
    BY EmptyFacts
  <2> QED BY <2>1, <2>2 DEF ContentInv, Owned, Pending
<1>2. Init => CompleteInv
  BY DEF Init, CompleteInv
<1> QED BY <1>1, <1>2, TypesInvariant, CompleteInductive, ContentInductive, OwnInductive, PTL
        DEF Spec, Life

\* In whatever order the calls come, a middleware is deleted twice, or used when
\* it has been deleted, only when it was shared: a builder with middlewares given
\* to setup() twice, or start() called twice with a static file server.
THEOREM DeletedCorrect == Spec => []DeletedOnce
<1>1. Init => DeletedOnce
  BY DEF Init, DeletedOnce
<1>2. Life /\ DeletedOnce /\ [Next]_vars => DeletedOnce'
  <2> SUFFICES ASSUME Life, DeletedOnce, [Next]_vars, outcome' \in {"deletedTwice", "usedDeleted"}
               PROVE  Shared'
    BY DEF DeletedOnce
  <2>1. CASE outcome = "alive"
    BY <2>1, DeletedStep DEF Life
  <2>2. CASE outcome # "alive"
    <3>1. outcome' = outcome
      BY <2>2 DEF Next, vars, addToBuilder, setup, enable_static_file, setNotFoundHandler, start,
                  processing_request, destroy
    <3>2. Shared
      BY <3>1 DEF DeletedOnce
    <3> QED BY <3>2, SharedStays DEF Life
  <2> QED BY <2>1, <2>2
<1> QED BY <1>1, <1>2, LifeInvariant, PTL DEF Spec
-------------------------------------------------------------------------------
(***************************************************************************)
(* What becomes of a middleware.                                           *)
(***************************************************************************)

\* Where a middleware is: nothing is forgotten but static file servers.
Accounted(m) ==
  \/ m \in deleted
  \/ m \in Held /\ outcome = "alive"
  \/ NeverHanded(m)
  \/ made[m] = "static"

AccountInv ==
  /\ starts = 0 => systemError = None
  /\ outcome = "destroyed" => ToSet(before) \subseteq deleted
  /\ ~Shared /\ starts <= 1 /\ outcome \in {"alive", "destroyed"} =>
       \A m \in Made : Accounted(m)

\* A middleware a builder has kept to itself, found by its place there.
LEMMA NeverHandedStays ==
  ASSUME NEW m, NeverHanded(m),
         \A b \in Builders : \A i \in 1 .. Len(content[b]) :
           Unhanded(b, i) => /\ i \in 1 .. Len(content'[b]) /\ content'[b][i] = content[b][i]
                             /\ Unhanded(b, i)'
  PROVE  NeverHanded(m)'
<1>0. PICK b \in Builders : \E i \in 1 .. Len(content[b]) : content[b][i] = m /\ Unhanded(b, i)
  BY DEF NeverHanded, Unhanded
<1>1. PICK i \in 1 .. Len(content[b]) : content[b][i] = m /\ Unhanded(b, i)
  BY <1>0
<1>2. i \in 1 .. Len(content'[b]) /\ content'[b][i] = m /\ Unhanded(b, i)'
  BY <1>1
<1> QED BY <1>2 DEF NeverHanded, Unhanded

\* addToBuilder(): what it makes is the builder's alone.
LEMMA AccountAdd ==
  ASSUME Types, ContentInv, \A m \in Made : Accounted(m),
         NEW b \in Builders, addToBuilder(b)
  PROVE  \A m \in Made' : Accounted(m)'
<1>1. PICK x \in Nat :
        /\ \A m \in Made : made'[m] = made[m]
        /\ \A m \in Made' : m \in Made \/ m = x
        /\ \A c \in Builders \ {b} : content'[c] = content[c]
        /\ Len(content'[b]) = Len(content[b]) + 1
        /\ Len(content[b]) \in Nat
        /\ content'[b][Len(content[b]) + 1] = x
        /\ \A i \in 1 .. Len(content[b]) : content'[b][i] = content[b][i]
        /\ UNCHANGED <<deleted, given, before, after, notFound, systemError, outcome>>
  BY AddFacts
<1>2. ASSUME NEW c \in Builders, NEW i \in 1 .. Len(content[c]), Unhanded(c, i)
      PROVE  i \in 1 .. Len(content'[c]) /\ content'[c][i] = content[c][i] /\ Unhanded(c, i)'
  <2>1. Unhanded(c, i)'
    BY <1>1, <1>2 DEF Unhanded
  <2>2. CASE c = b
    BY <1>1, <2>1, <2>2
  <2>3. CASE c # b
    BY <1>1, <2>1, <2>3
  <2> QED BY <2>2, <2>3
<1>3. ASSUME NEW m \in Made PROVE Accounted(m)'
  <2>1. NeverHanded(m) => NeverHanded(m)'
    BY <1>2, NeverHandedStays
  <2>2. Held' = Held /\ made'[m] = made[m]
    BY <1>1 DEF Held
  <2> QED BY <1>1, <2>1, <2>2 DEF Accounted
<1>4. NeverHanded(x)'
  <2>1. Len(content[b]) + 1 \in 1 .. Len(content'[b])
    BY <1>1
  <2>2. \A k \in 1 .. Len(given'[b]) : given'[b][k] < Len(content[b]) + 1
    <3>1. \A k \in 1 .. Len(given[b]) : given[b][k] <= Len(content[b]) /\ given[b][k] \in Nat
      BY TypeFacts DEF ContentInv
    <3> QED BY <1>1, <3>1
  <2> QED BY <1>1, <2>1, <2>2 DEF NeverHanded
<1>5. Accounted(x)'
  BY <1>4 DEF Accounted
<1> QED BY <1>1, <1>3, <1>5

\* setup(): what was replaced is deleted, what a builder had is held.
LEMMA AccountSetup ==
  ASSUME Types, \A m \in Made : Accounted(m), outcome' = "alive",
         NEW bef \in OneOrNone, NEW aft \in OneOrNone, NEW r \in BOOLEAN, setup(bef, r, aft)
  PROVE  \A m \in Made' : Accounted(m)'
<1>1. Replaces(before, before', bef) /\ Replaces(after, after', aft)
  BY SetupFacts
<1>2. UNCHANGED <<made, content, notFound, systemError>>
  BY DEF setup
<1>3. deleted' = deleted \cup (IF aft = {} THEN {} ELSE ToSet(after))
                         \cup (IF bef = {} THEN {} ELSE ToSet(before))
  <2>1. deleted' = deleted \cup ToSet(Replaced(bef, aft))
    BY DEF setup, Delete
  <2> QED BY <2>1, ReplacedFacts
<1>4. Held \subseteq deleted' \cup Held'
  <2>1. ToSet(before) \subseteq deleted' \cup ToSet(before')
    BY <1>1, <1>3 DEF Replaces
  <2>2. ToSet(after) \subseteq deleted' \cup ToSet(after')
    BY <1>1, <1>3 DEF Replaces
  <2> QED BY <1>2, <2>1, <2>2 DEF Held
<1>5. ASSUME NEW b \in Builders, b \notin bef \cup aft PROVE given'[b] = given[b]
  <2>1. given'[b] = given[b] \o <<>> \o <<>>
    BY <1>5 DEF setup, Times
  <2>2. given[b] \in Seq(Nat)
    BY TypeFacts
  <2> QED BY <2>1, <2>2
<1>6. ASSUME NEW m \in Made, NeverHanded(m) PROVE NeverHanded(m)' \/ m \in Held'
  <2>0. PICK b \in Builders : \E i \in 1 .. Len(content[b]) :
          content[b][i] = m /\ \A k \in 1 .. Len(given[b]) : given[b][k] < i
    BY <1>6 DEF NeverHanded
  <2>1. PICK i \in 1 .. Len(content[b]) :
          content[b][i] = m /\ \A k \in 1 .. Len(given[b]) : given[b][k] < i
    BY <2>0
  <2>2. CASE b \in bef \cup aft
    <3>1. m \in ToSet(content[b])
      BY <2>1, TypeFacts
    <3>2. before' = content[b] \/ after' = content[b]
      BY <1>1, <2>2 DEF Replaces
    <3> QED BY <3>1, <3>2 DEF Held
  <2>3. CASE b \notin bef \cup aft
    <3>1. given'[b] = given[b] /\ content'[b] = content[b]
      BY <1>2, <1>5, <2>3
    <3> QED BY <2>1, <3>1 DEF NeverHanded
  <2> QED BY <2>2, <2>3
<1>7. ASSUME NEW m \in Made PROVE Accounted(m)'
  <2>1. m \in deleted => m \in deleted'
    BY <1>3
  <2> QED BY <1>2, <1>4, <1>6, <2>1 DEF Accounted
<1>8. Made' = Made
  BY <1>2 DEF Made
<1> QED BY <1>7, <1>8

\* start(): what it makes is held.
LEMMA AccountStart ==
  ASSUME Types, \A m \in Made : Accounted(m), systemError = None, start
  PROVE  \A m \in Made' : Accounted(m)'
<1>1. /\ \A m \in Made : made'[m] = made[m]
      /\ after' = Append(after, Fresh(1)) /\ systemError' = Fresh(2) /\ Fresh(1) \in Nat
      /\ \A m \in Made' : m \in Made \/ m = Fresh(1) \/ m = Fresh(2) \/ m = notFound'
      /\ before' = IF staticFile = None THEN before ELSE Append(before, staticFile)
      /\ notFound # None => notFound' = notFound
      /\ UNCHANGED <<deleted, content, given, outcome>> /\ outcome = "alive"
  BY TypeFacts, StartFacts
<1>2. before \in Seq(Nat) /\ after \in Seq(Nat) /\ staticFile \in Nat /\ None \notin Made
  BY TypeFacts DEF Types
<1>3. ToSet(after') = ToSet(after) \cup {Fresh(1)}
  BY <1>1, <1>2, AppendFacts
<1>4. ToSet(before) \subseteq ToSet(before')
  <2>1. ToSet(Append(before, staticFile)) = ToSet(before) \cup {staticFile}
    BY <1>2, AppendFacts
  <2> QED BY <1>1, <2>1
<1>5. Held \ {None} \subseteq Held' /\ {Fresh(1), Fresh(2), notFound'} \subseteq Held'
  BY <1>1, <1>3, <1>4 DEF Held
<1>6. ASSUME NEW m \in Made PROVE Accounted(m)'
  <2>1. NeverHanded(m) => NeverHanded(m)'
    BY <1>1 DEF NeverHanded
  <2> QED BY <1>1, <1>2, <1>5, <2>1 DEF Accounted
<1>7. ASSUME NEW m \in {Fresh(1), Fresh(2), notFound'} PROVE Accounted(m)'
  BY <1>1, <1>5, <1>7 DEF Accounted
<1> QED BY <1>1, <1>6, <1>7

\* Every call keeps the account.
LEMMA AccountInductive == Types /\ ContentInv /\ AccountInv /\ [Next]_vars => AccountInv'
<1> SUFFICES ASSUME Types, ContentInv, AccountInv, [Next]_vars PROVE AccountInv'
  OBVIOUS
<1>0. starts \in Nat
  BY DEF Types, TypeOK
\* The three parts, from what a step did.
<1>a. ASSUME starts' = starts, systemError' = systemError, outcome = "alive",
             outcome' # "destroyed",
             outcome' = "alive" /\ (\A m \in Made : Accounted(m)) => \A m \in Made' : Accounted(m)'
      PROVE  AccountInv'
  <2>1. ~Shared' => ~Shared
    BY SharedStays
  <2> QED BY <1>a, <2>1 DEF AccountInv
<1>b. ASSUME UNCHANGED <<made, deleted, content, given, before, after, notFound, systemError,
                         outcome>>
      PROVE  \A m \in Made : Accounted(m) => Accounted(m)'
  BY <1>b DEF Accounted, Held, NeverHanded
<1>1. ASSUME NEW b \in Builders, addToBuilder(b) PROVE AccountInv'
  <2>1. (\A m \in Made : Accounted(m)) => \A m \in Made' : Accounted(m)'
    BY <1>1, AccountAdd
  <2>2. starts' = starts /\ systemError' = systemError /\ outcome = "alive" /\ outcome' = outcome
    BY <1>1 DEF addToBuilder, members
  <2> QED BY <1>a, <2>1, <2>2
<1>2. ASSUME NEW bef \in OneOrNone, NEW aft \in OneOrNone, NEW r \in BOOLEAN, setup(bef, r, aft)
      PROVE  AccountInv'
  <2>1. outcome' = "alive" /\ (\A m \in Made : Accounted(m)) => \A m \in Made' : Accounted(m)'
    BY <1>2, AccountSetup
  <2>2. /\ starts' = starts /\ systemError' = systemError /\ outcome = "alive"
        /\ outcome' # "destroyed"
    BY <1>2 DEF setup, Delete
  <2> QED BY <1>a, <2>1, <2>2
<1>3. CASE enable_static_file
  <2>1. PICK x \in Nat :
          /\ made'[x] = "static"
          /\ \A m \in Made : made'[m] = made[m]
          /\ \A m \in Made' : m \in Made \/ m = x
          /\ UNCHANGED <<deleted, content, given, before, after, notFound, systemError,
                         starts, outcome>>
    BY <1>3, StaticFacts
  <2>2. ASSUME NEW m \in Made, Accounted(m) PROVE Accounted(m)'
    BY <2>1, <2>2 DEF Accounted, Held, NeverHanded
  <2>3. Accounted(x)'
    BY <2>1 DEF Accounted
  <2>4. outcome = "alive"
    BY <1>3 DEF enable_static_file
  <2> QED BY <1>a, <2>1, <2>2, <2>3, <2>4
<1>4. CASE setNotFoundHandler
  <2>1. PICK x \in Nat :
          /\ notFound' = x
          /\ \A m \in Made : made'[m] = made[m]
          /\ \A m \in Made' : m \in Made \/ m = x
          /\ deleted' = deleted \cup ({notFound} \ {None})
          /\ outcome = "alive" /\ outcome' # "destroyed"
          /\ UNCHANGED <<content, given, before, after, systemError, starts>>
    BY <1>4, HandlerFacts
  <2>2. None \notin Made
    BY TypeFacts
  <2>3. ASSUME NEW m \in Made, Accounted(m), outcome' = "alive" PROVE Accounted(m)'
    <3>1. m \in Held => m \in deleted' \cup Held'
      BY <2>1, <2>2 DEF Held
    <3>2. NeverHanded(m) => NeverHanded(m)'
      BY <2>1 DEF NeverHanded
    <3> QED BY <2>1, <2>3, <3>1, <3>2 DEF Accounted
  <2>4. outcome' = "alive" => Accounted(x)'
    BY <2>1 DEF Accounted, Held
  <2> QED BY <1>a, <2>1, <2>3, <2>4
<1>5. CASE start
  <2>1. starts' = starts + 1 /\ outcome' = outcome /\ outcome = "alive"
    BY <1>5 DEF start
  <2>2. ASSUME ~Shared', starts' <= 1 PROVE \A m \in Made' : Accounted(m)'
    <3>1. starts = 0 /\ systemError = None
      BY <1>0, <2>1, <2>2 DEF AccountInv
    <3>2. ~Shared
      BY <2>2, SharedStays
    <3>3. \A m \in Made : Accounted(m)
      BY <2>1, <3>1, <3>2 DEF AccountInv
    <3> QED BY <1>5, <3>1, <3>3, AccountStart
  <2>3. starts' # 0
    BY <1>0, <2>1
  <2> QED BY <2>1, <2>2, <2>3 DEF AccountInv
<1>6. ASSUME NEW ends \in BOOLEAN, NEW routed \in BOOLEAN, processing_request(ends, routed)
      PROVE  AccountInv'
  <2>1. /\ UNCHANGED <<made, deleted, content, given, before, after, notFound, systemError, starts>>
        /\ outcome = "alive" /\ outcome' # "destroyed"
    BY <1>6, RequestFacts
  <2>2. outcome' = "alive" => \A m \in Made : Accounted(m) => Accounted(m)'
    BY <1>b, <2>1
  <2>3. Made' = Made
    BY <2>1 DEF Made
  <2> QED BY <1>a, <2>1, <2>2, <2>3
<1>7. CASE destroy
  <2>1. /\ outcome = "alive" /\ deleted' = deleted \cup (Held \ {None})
        /\ UNCHANGED <<made, content, given, before, after, notFound, systemError, starts>>
    BY <1>7, DestroyFacts
  <2>2. None \notin Made /\ ToSet(before) \subseteq Made
    BY TypeFacts
  <2>3. ToSet(before') \subseteq deleted'
    BY <2>1, <2>2 DEF Held
  <2>4. ASSUME NEW m \in Made, Accounted(m) PROVE Accounted(m)'
    BY <2>1, <2>2, <2>4 DEF Accounted, NeverHanded
  <2>5. ~Shared' => ~Shared
    BY SharedStays
  <2>6. Made' = Made
    BY <2>1 DEF Made
  <2> QED BY <2>1, <2>3, <2>4, <2>5, <2>6 DEF AccountInv
<1>8. CASE UNCHANGED vars
  <2>1. UNCHANGED <<made, deleted, content, given, before, after, route, notFound, systemError,
                    staticFile, starts, outcome>>
    BY <1>8 DEF vars
  <2>2. Made' = Made /\ \A m \in Made : Accounted(m) => Accounted(m)'
    BY <1>b, <2>1 DEF Made
  <2>3. ~Shared' => ~Shared
    BY SharedStays
  <2> QED BY <2>1, <2>2, <2>3 DEF AccountInv
<1> QED BY <1>1, <1>2, <1>3, <1>4, <1>5, <1>6, <1>7, <1>8 DEF Next

\* After the destructor nothing is left but what the server never got, whatever
\* was set up before or after the one start().
THEOREM NothingLeftCorrect == Spec => []NothingLeft
<1>1. Init => AccountInv
  <2> SUFFICES ASSUME Init PROVE AccountInv
    OBVIOUS
  <2>1. made = <<>> /\ Len(made) = 0 /\ outcome = "alive" /\ systemError = None
    BY DEF Init
  <2>2. Made = {}
    BY <2>1 DEF Made
  <2> QED BY <2>1, <2>2 DEF AccountInv
<1>2. Types /\ AccountInv => NothingLeft
  BY DEF AccountInv, Accounted, NothingLeft
<1> QED BY <1>1, <1>2, LifeInvariant, AccountInductive, PTL DEF Spec, Life
=============================================================================
