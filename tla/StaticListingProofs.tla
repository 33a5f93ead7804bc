--------------------------- MODULE StaticListingProofs ---------------------------
(***************************************************************************)
(* Proofs about StaticListing, for every tree of places and whatever the   *)
(* other processes do: a listing that is not cut short knows each file     *)
(* that stayed, and one that nobody disturbed knows exactly what is there. *)
(***************************************************************************)
EXTENDS StaticListing, SequenceTheorems, WellFoundedInduction, TLAPS

-----------------------------------------------------------------------------
(* Induction over the natural numbers, by a least counterexample.            *)

LEMMA NatInduction1 ==
  ASSUME NEW S \in SUBSET Nat, 0 \in S, \A n \in S : n + 1 \in S
  PROVE  \A n \in Nat : n \in S
<1> DEFINE R == {p \in Nat \X Nat : p[1] < p[2]}
<1>1. IsWellFoundedOn(R, Nat)
  BY NatLessThanWellFounded DEF OpToRel
<1>2. ASSUME NEW i \in Nat, NEW j \in Nat, j < i PROVE <<j, i>> \in R
  BY <1>2
<1> HIDE DEF R
<1> SUFFICES ASSUME Nat \ S # {} PROVE FALSE
  OBVIOUS
<1>3. PICK i \in Nat \ S : \A j \in Nat \ S : <<j, i>> \notin R
  BY <1>1, WFMin
<1>4. i \in Nat /\ i # 0 /\ i - 1 \in Nat /\ i - 1 < i /\ (i - 1) + 1 = i
  BY <1>3
<1>5. i - 1 \notin S
  BY <1>3, <1>4
<1>6. i - 1 \in Nat \ S
  BY <1>4, <1>5
<1> QED BY <1>2, <1>3, <1>4, <1>6

-----------------------------------------------------------------------------
(* Places: what leads to them, and their texts.                              *)

\* The elements of texts and places.  (That a slash is a string is nothing the
\* provers know.)
Letter == STRING \cup {"/"}

LEMMA LetterFacts ==
  /\ Local \in Seq(Letter) /\ Prefix \in Seq(Letter) /\ Places \subseteq Seq(Letter)
  /\ Slash \in Seq(Letter) /\ Len(Slash) = 1 /\ Slash[1] = "/"
<1>1. STRING \subseteq Letter /\ "/" \in Letter
  BY DEF Letter
<1>2. \A s \in Seq(STRING) : s \in Seq(Letter)
  BY <1>1, SeqMonotonic
<1> QED BY <1>1, <1>2, StaticAssumption DEF Slash

LEMMA Associative ==
  ASSUME NEW s \in Seq(Letter), NEW t \in Seq(Letter), NEW u \in Seq(Letter)
  PROVE  (s \o t) \o u = s \o (t \o u)
BY ONLY s \in Seq(Letter), t \in Seq(Letter), u \in Seq(Letter), ConcatAssociative

LEMMA OneLetter ==
  ASSUME NEW n \in Letter
  PROVE  <<n>> \in Seq(Letter) /\ Len(<<n>>) = 1 /\ <<n>>[1] = n
OBVIOUS

\* The directory j names down the way to place p.
Ancestor(p, j) == SubSeq(p, 1, j)

\* Names are strings, and a path of directories is a place.
LEMMA PlaceFacts ==
  ASSUME NEW p \in Places
  PROVE  p \in Seq(Letter) /\ Len(p) \in Nat /\ Len(p) >= 1
<1>1. p \in Seq(Letter) /\ p # <<>>
  BY LetterFacts, StaticAssumption
<1> QED BY <1>1, EmptySeq

LEMMA AncestorFacts ==
  ASSUME NEW p \in Seq(Letter), NEW j \in 0 .. Len(p)
  PROVE  /\ Ancestor(p, j) \in Seq(Letter) /\ Len(Ancestor(p, j)) = j
         /\ \A i \in 1 .. j : Ancestor(p, j)[i] = p[i]
<1>1. \A i \in 1 .. j : p[i] \in Letter
  OBVIOUS
<1>2. /\ SubSeq(p, 1, j) \in Seq(Letter)
      /\ Len(SubSeq(p, 1, j)) = IF 1 <= j THEN j - 1 + 1 ELSE 0
      /\ \A i \in 1 .. j - 1 + 1 : SubSeq(p, 1, j)[i] = p[1 + i - 1]
  BY <1>1, SubSeqProperties
<1> QED BY <1>2 DEF Ancestor

\* One name further down.
LEMMA NextAncestor ==
  ASSUME NEW p \in Seq(Letter), NEW j \in 0 .. Len(p) - 1
  PROVE  /\ Append(Ancestor(p, j), p[j + 1]) = Ancestor(p, j + 1)
         /\ Front(Ancestor(p, j + 1)) = Ancestor(p, j)
         /\ Last(Ancestor(p, j + 1)) = p[j + 1]
         /\ j + 1 = Len(p) => Ancestor(p, j + 1) = p
<1>1. j \in 0 .. Len(p) /\ j + 1 \in 0 .. Len(p) /\ p[j + 1] \in Letter
  OBVIOUS
<1> DEFINE a == Ancestor(p, j)
           b == Ancestor(p, j + 1)
<1>2. a \in Seq(Letter) /\ Len(a) = j /\ \A i \in 1 .. j : a[i] = p[i]
  BY <1>1, AncestorFacts
<1>3. b \in Seq(Letter) /\ Len(b) = j + 1 /\ \A i \in 1 .. j + 1 : b[i] = p[i]
  BY <1>1, AncestorFacts
<1> HIDE DEF a, b
<1>4. Append(a, p[j + 1]) = b
  <2>1. /\ Append(a, p[j + 1]) \in Seq(Letter) /\ Len(Append(a, p[j + 1])) = j + 1
        /\ \A i \in 1 .. j : Append(a, p[j + 1])[i] = a[i]
        /\ Append(a, p[j + 1])[j + 1] = p[j + 1]
    BY <1>1, <1>2, AppendProperties
  <2>2. \A i \in 1 .. j + 1 : Append(a, p[j + 1])[i] = b[i]
    BY <1>2, <1>3, <2>1
  <2> QED BY <1>3, <2>1, <2>2, SeqEqual
<1>5. Front(b) = a
  <2>1. \A i \in 1 .. j : b[i] \in Letter
    BY <1>3
  <2>2. /\ SubSeq(b, 1, j) \in Seq(Letter)
        /\ Len(SubSeq(b, 1, j)) = IF 1 <= j THEN j - 1 + 1 ELSE 0
        /\ \A i \in 1 .. j - 1 + 1 : SubSeq(b, 1, j)[i] = b[1 + i - 1]
    BY <2>1, SubSeqProperties
  <2>s. Len(SubSeq(b, 1, j)) = j /\ \A i \in 1 .. j : SubSeq(b, 1, j)[i] = a[i]
    BY <1>2, <1>3, <2>2
  <2>3. SubSeq(b, 1, j) = a
    BY <1>2, <2>2, <2>s, SeqEqual
  <2>4. Len(b) - 1 = j
    BY <1>3
  <2> QED BY <2>3, <2>4 DEF Front
<1>6. Last(b) = p[j + 1]
  BY <1>1, <1>3 DEF Last
<1>7. j + 1 = Len(p) => b = p
  BY <1>3, SeqEqual
<1> QED BY <1>4, <1>5, <1>6, <1>7 DEF a, b

\* In a tree, everything on the way to what is there is a directory.
LEMMA Directories ==
  ASSUME NEW k, IsTree(k), NEW p \in Places, k[p] # "absent", NEW j \in 1 .. Len(p) - 1
  PROVE  Ancestor(p, j) \in Places /\ k[Ancestor(p, j)] = "dir"
<1> DEFINE up(n) == Ancestor(p, Len(p) - n)
           S == {n \in Nat : n < Len(p) =>
                   /\ up(n) \in Places /\ k[up(n)] # "absent"
                   /\ n > 0 => k[up(n)] = "dir"}
<1>1. p \in Seq(Letter) /\ Len(p) \in Nat /\ Len(p) >= 1
  BY PlaceFacts
<1>2. 0 \in S
  <2>1. Ancestor(p, Len(p)) = p
    BY <1>1, SubSeqFull DEF Ancestor
  <2>2. Len(p) - 0 = Len(p)
    BY <1>1
  <2> QED BY <2>1, <2>2
<1>3. ASSUME NEW n \in S PROVE n + 1 \in S
  <2> SUFFICES ASSUME n + 1 < Len(p)
               PROVE  up(n + 1) \in Places /\ k[up(n + 1)] = "dir"
    OBVIOUS
  <2>1. PICK i \in Nat : i = Len(p) - n - 1
    BY <1>1
  <2>2. Len(p) - n = i + 1 /\ Len(p) - (n + 1) = i /\ i \in 0 .. Len(p) - 1 /\ i >= 1
        /\ i + 1 \in 0 .. Len(p) /\ n < Len(p)
    BY <1>1, <2>1
  <2>3. Ancestor(p, i + 1) \in Places /\ k[Ancestor(p, i + 1)] # "absent"
    BY <2>2
  <2>4. Front(Ancestor(p, i + 1)) = Ancestor(p, i)
    BY <1>1, <2>2, NextAncestor
  <2>5. Len(Ancestor(p, i + 1)) = i + 1 /\ Len(Ancestor(p, i)) = i
    BY <1>1, <2>2, AncestorFacts
  <2>6. Ancestor(p, i) \in Places
    BY <2>2, <2>3, <2>4, <2>5, StaticAssumption
  <2>7. Ancestor(p, i + 1) \in Under(Ancestor(p, i))
    BY <2>3, <2>4, <2>5 DEF Under
  <2>8. k[Ancestor(p, i)] = "dir"
    BY <2>3, <2>6, <2>7 DEF IsTree
  <2> QED BY <2>2, <2>6, <2>8
<1> HIDE DEF S
<1>4. \A n \in Nat : n \in S
  <2>1. S \in SUBSET Nat
    BY DEF S
  <2> QED BY <1>2, <1>3, <2>1, NatInduction1
<1>5. Len(p) - j \in Nat /\ Len(p) - j < Len(p) /\ Len(p) - j > 0 /\ Len(p) - (Len(p) - j) = j
  BY <1>1
<1>6. Len(p) - j \in S
  BY <1>4, <1>5
<1> QED BY <1>5, <1>6 DEF S

\* So each directory on the way names the next one.
LEMMA NextNamed ==
  ASSUME IsTree(kind), NEW p \in Places, kind[p] # "absent", NEW j \in 0 .. Len(p) - 1
  PROVE  /\ Ancestor(p, j + 1) \in Places
         /\ kind[Ancestor(p, j + 1)] = IF j + 1 = Len(p) THEN kind[p] ELSE "dir"
         /\ p[j + 1] \in NamesIn(Ancestor(p, j))
<1>1. p \in Seq(Letter) /\ Len(p) \in Nat /\ Len(p) >= 1
  BY PlaceFacts
<1>2. /\ Front(Ancestor(p, j + 1)) = Ancestor(p, j)
      /\ Last(Ancestor(p, j + 1)) = p[j + 1]
      /\ j + 1 = Len(p) => Ancestor(p, j + 1) = p
  BY <1>1, NextAncestor
<1>3. j + 1 \in 0 .. Len(p) /\ j \in 0 .. Len(p)
  BY <1>1
<1>4. Len(Ancestor(p, j + 1)) = j + 1 /\ Len(Ancestor(p, j)) = j
  BY <1>1, <1>3, AncestorFacts
<1>5. /\ Ancestor(p, j + 1) \in Places
      /\ kind[Ancestor(p, j + 1)] = IF j + 1 = Len(p) THEN kind[p] ELSE "dir"
  <2>1. CASE j + 1 = Len(p)
    BY <1>2, <2>1
  <2>2. CASE j + 1 # Len(p)
    <3>1. j + 1 \in 1 .. Len(p) - 1
      BY <1>1, <2>2
    <3> QED BY <2>2, <3>1, Directories
  <2> QED BY <2>1, <2>2
<1>6. kind[Ancestor(p, j + 1)] # "absent"
  BY <1>5
<1>7. Ancestor(p, j + 1) \in Under(Ancestor(p, j))
  BY <1>2, <1>4, <1>5 DEF Under
<1> QED BY <1>2, <1>5, <1>6, <1>7 DEF NamesIn

-----------------------------------------------------------------------------
(* Texts.                                                                    *)

LEMMA TextFacts ==
  ASSUME NEW q \in Seq(Letter), q # <<>>
  PROVE  /\ Text(q) \in Seq(Letter) /\ Len(Text(q)) = 2 * Len(q) - 1
         /\ \A i \in 1 .. Len(q) : Text(q)[2 * i - 1] = q[i]
         /\ \A i \in 1 .. Len(q) - 1 : Text(q)[2 * i] = "/"
<1>1. Len(q) \in Nat /\ Len(q) >= 1
  BY EmptySeq
<1>2. PICK l \in Nat : l = 2 * Len(q) - 1
  BY <1>1
<1>s. "/" \in Letter
  BY DEF Letter
<1>3. \A i \in 1 .. l : i % 2 = 1 => (i + 1) \div 2 \in 1 .. Len(q)
  BY <1>1, <1>2
<1>4. \A i \in 1 .. l : (IF i % 2 = 1 THEN q[(i + 1) \div 2] ELSE "/") \in Letter
  <2> SUFFICES ASSUME NEW i \in 1 .. l
               PROVE  (IF i % 2 = 1 THEN q[(i + 1) \div 2] ELSE "/") \in Letter
    OBVIOUS
  <2>1. CASE i % 2 = 1
    <3>1. (i + 1) \div 2 \in 1 .. Len(q)
      BY <1>3, <2>1
    <3>2. q[(i + 1) \div 2] \in Letter
      BY <3>1, ElementOfSeq
    <3> QED BY <2>1, <3>2
  <2> QED BY <1>s, <2>1
<1>5. Text(q) = [i \in 1 .. l |-> IF i % 2 = 1 THEN q[(i + 1) \div 2] ELSE "/"]
  BY <1>2 DEF Text
<1>6. Text(q) \in [1 .. l -> Letter]
  BY <1>4, <1>5
<1>7. Text(q) \in Seq(Letter) /\ Len(Text(q)) = l
  BY <1>6
<1>8. ASSUME NEW i \in 1 .. Len(q) PROVE Text(q)[2 * i - 1] = q[i]
  <2>1. 2 * i - 1 \in 1 .. l /\ (2 * i - 1) % 2 = 1 /\ ((2 * i - 1) + 1) \div 2 = i
    BY <1>1, <1>2
  <2> QED BY <1>5, <2>1
<1>9. ASSUME NEW i \in 1 .. Len(q) - 1 PROVE Text(q)[2 * i] = "/"
  <2>1. 2 * i \in 1 .. l /\ (2 * i) % 2 # 1
    BY <1>1, <1>2
  <2> QED BY <1>5, <2>1
<1> QED BY <1>2, <1>7, <1>8, <1>9

\* Two places have two texts.
LEMMA TextInjective ==
  ASSUME NEW p \in Places, NEW q \in Places, Text(p) = Text(q)
  PROVE  p = q
<1>1. /\ p \in Seq(Letter) /\ Len(p) \in Nat /\ Len(p) >= 1
      /\ q \in Seq(Letter) /\ Len(q) \in Nat /\ Len(q) >= 1
  BY PlaceFacts
<1>2. p # <<>> /\ q # <<>>
  BY <1>1, EmptySeq
<1>3. Len(p) = Len(q)
  <2>1. Len(Text(p)) = 2 * Len(p) - 1 /\ Len(Text(q)) = 2 * Len(q) - 1
    BY <1>1, <1>2, TextFacts
  <2>2. 2 * Len(p) - 1 = 2 * Len(q) - 1
    BY <2>1
  <2> QED BY <1>1, <2>2
<1>4. ASSUME NEW i \in 1 .. Len(p) PROVE p[i] = q[i]
  <2>1. Text(p)[2 * i - 1] = p[i]
    BY <1>1, <1>2, TextFacts
  <2>2. Text(q)[2 * i - 1] = q[i]
    BY <1>1, <1>2, <1>3, TextFacts
  <2> QED BY <2>1, <2>2
<1> QED BY <1>1, <1>3, <1>4, SeqEqual

\* The text of a directory behind the text of the local one.
Below(q) == IF q = <<>> THEN <<>> ELSE Slash \o Text(q)

\* The text of a name in a directory: that of the directory, a slash, the name.
LEMMA TextOfEntry ==
  ASSUME NEW q \in Seq(Letter), NEW n \in Letter
  PROVE  /\ Below(q) \in Seq(Letter)
         /\ Text(Append(q, n)) \in Seq(Letter)
         /\ Below(Append(q, n)) = Slash \o Text(Append(q, n))
         /\ Below(q) \o (Slash \o <<n>>) = Slash \o Text(Append(q, n))
<1> DEFINE c == Append(q, n)
           l == Len(q)
<1>1. l \in Nat /\ c \in Seq(Letter) /\ c # <<>> /\ Len(c) = l + 1
      /\ (\A i \in 1 .. l : c[i] = q[i]) /\ c[l + 1] = n
  BY AppendProperties
<1>2. Slash \in Seq(Letter) /\ Len(Slash) = 1 /\ Slash[1] = "/"
  BY LetterFacts
<1>3. /\ Text(c) \in Seq(Letter) /\ Len(Text(c)) = 2 * l + 1
      /\ \A i \in 1 .. l : Text(c)[2 * i - 1] = q[i] /\ Text(c)[2 * i] = "/"
      /\ Text(c)[2 * l + 1] = n
  <2>1. /\ Text(c) \in Seq(Letter) /\ Len(Text(c)) = 2 * Len(c) - 1
        /\ \A i \in 1 .. Len(c) : Text(c)[2 * i - 1] = c[i]
        /\ \A i \in 1 .. Len(c) - 1 : Text(c)[2 * i] = "/"
    BY <1>1, TextFacts
  <2>2. 2 * Len(c) - 1 = 2 * l + 1 /\ 2 * (l + 1) - 1 = 2 * l + 1 /\ Len(c) - 1 = l
        /\ l + 1 \in 1 .. Len(c) /\ 1 .. l \subseteq 1 .. Len(c)
    BY <1>1
  <2>3. Text(c)[2 * (l + 1) - 1] = c[l + 1]
    BY <2>1, <2>2
  <2>4. ASSUME NEW i \in 1 .. l PROVE Text(c)[2 * i - 1] = q[i]
    BY <1>1, <2>1, <2>2
  <2> QED BY <1>1, <2>1, <2>2, <2>3, <2>4
<1>4. Below(c) = Slash \o Text(c)
  BY <1>1 DEF Below
<1> HIDE DEF c
<1>5. Below(q) \in Seq(Letter) /\ Below(q) \o (Slash \o <<n>>) = Slash \o Text(c)
  <2>0. <<n>> \in Seq(Letter) /\ Len(<<n>>) = 1 /\ <<n>>[1] = n
    BY OneLetter
  <2>1. CASE q = <<>>
    <3>1. l = 0 /\ 2 * l + 1 = 1
      BY <2>1
    <3>2. Text(c) \in Seq(Letter) /\ Len(Text(c)) = 1 /\ Text(c)[1] = n
      <4> HIDE DEF l
      <4> QED BY <1>3, <3>1
    <3>3. \A i \in 1 .. 1 : Text(c)[i] = <<n>>[i]
      BY <2>0, <3>2
    <3>a. Text(c) = <<n>>
      BY <2>0, <3>2, <3>3, SeqEqual
    <3>4. Below(q) = <<>>
      BY <2>1 DEF Below
    <3>5. Slash \o <<n>> \in Seq(Letter)
      BY <1>2, <2>0, ConcatProperties
    <3>6. <<>> \in Seq(Letter) /\ <<>> \o (Slash \o <<n>>) = Slash \o <<n>>
      BY <3>5, ConcatEmptySeq
    <3> QED BY <3>a, <3>4, <3>6
  <2>2. CASE q # <<>>
    <3>1. /\ Text(q) \in Seq(Letter) /\ Len(Text(q)) = 2 * l - 1
          /\ \A i \in 1 .. l : Text(q)[2 * i - 1] = q[i]
          /\ \A i \in 1 .. l - 1 : Text(q)[2 * i] = "/"
      BY <2>2, TextFacts
    <3>2. l >= 1
      BY <2>2, EmptySeq
    <3>3. Below(q) = Slash \o Text(q) /\ Below(q) \in Seq(Letter)
      BY <1>2, <2>2, <3>1, ConcatProperties DEF Below
    <3> DEFINE e == Slash \o <<n>>
    <3>4. e \in Seq(Letter) /\ Len(e) = 2 /\ e[1] = "/" /\ e[2] = n
      <4>1. /\ e \in Seq(Letter) /\ Len(e) = Len(Slash) + Len(<<n>>)
            /\ \A i \in 1 .. Len(Slash) + Len(<<n>>) :
                 e[i] = IF i <= Len(Slash) THEN Slash[i] ELSE <<n>>[i - Len(Slash)]
        BY <1>2, <2>0, ConcatProperties
      <4>2. Len(Slash) = 1 /\ Len(Slash) + Len(<<n>>) = 2 /\ 2 - Len(Slash) = 1
        BY <1>2, <2>0
      <4>3. 1 \in 1 .. 2 /\ 2 \in 1 .. 2 /\ 1 <= 1 /\ ~(2 <= 1)
        OBVIOUS
      <4> HIDE DEF e
      <4>4. e[1] = Slash[1]
        BY <4>1, <4>2, <4>3
      <4>5. e[2] = <<n>>[1]
        BY <4>1, <4>2, <4>3
      <4> QED BY <1>2, <2>0, <4>1, <4>2, <4>4, <4>5
    <3> HIDE DEF e
    <3>5. /\ Text(q) \o e \in Seq(Letter) /\ Len(Text(q) \o e) = 2 * l + 1
          /\ \A i \in 1 .. 2 * l + 1 : (Text(q) \o e)[i] =
               IF i <= 2 * l - 1 THEN Text(q)[i] ELSE e[i - (2 * l - 1)]
      <4>1. /\ Text(q) \o e \in Seq(Letter)
            /\ Len(Text(q) \o e) = Len(Text(q)) + Len(e)
            /\ \A i \in 1 .. Len(Text(q)) + Len(e) : (Text(q) \o e)[i] =
                 IF i <= Len(Text(q)) THEN Text(q)[i] ELSE e[i - Len(Text(q))]
        BY <3>1, <3>4, ConcatProperties
      <4>2. Len(Text(q)) = 2 * l - 1 /\ Len(Text(q)) + Len(e) = 2 * l + 1
        BY <1>1, <3>1, <3>4
      <4> QED BY <4>1, <4>2
    <3>6. ASSUME NEW i \in 1 .. 2 * l + 1 PROVE (Text(q) \o e)[i] = Text(c)[i]
      <4>1. CASE i = 2 * l + 1
        <5>1. ~(i <= 2 * l - 1) /\ i - (2 * l - 1) = 2
          BY <1>1, <4>1
        <5> QED BY <1>3, <3>4, <3>5, <4>1, <5>1
      <4>2. CASE i = 2 * l
        <5>1. ~(i <= 2 * l - 1) /\ i - (2 * l - 1) = 1 /\ l \in 1 .. l
          BY <1>1, <3>2, <4>2
        <5> QED BY <1>3, <3>4, <3>5, <4>2, <5>1
      <4>3. CASE i <= 2 * l - 1 /\ i % 2 = 1
        <5>1. PICK k \in 1 .. l : i = 2 * k - 1
          <6>1. (i + 1) \div 2 \in 1 .. l /\ i = 2 * ((i + 1) \div 2) - 1
            BY <1>1, <4>3
          <6> QED BY <6>1
        <5> QED BY <1>3, <3>1, <3>5, <4>3, <5>1
      <4>4. CASE i <= 2 * l - 1 /\ i % 2 # 1
        <5>1. PICK k \in 1 .. l - 1 : i = 2 * k
          <6>1. i \div 2 \in 1 .. l - 1 /\ i = 2 * (i \div 2)
            BY <1>1, <4>4
          <6> QED BY <6>1
        <5>2. k \in 1 .. l
          BY <1>1, <5>1
        <5> QED BY <1>3, <3>1, <3>5, <4>4, <5>1, <5>2
      <4>5. i = 2 * l + 1 \/ i = 2 * l \/ i <= 2 * l - 1
        BY <1>1
      <4> QED BY <4>1, <4>2, <4>3, <4>4, <4>5
    <3>7. Text(q) \o e = Text(c)
      BY <1>1, <1>3, <3>5, <3>6, SeqEqual
    <3>8. (Slash \o Text(q)) \o e = Slash \o (Text(q) \o e)
      <4>1. Slash \in Seq(Letter) /\ Text(q) \in Seq(Letter) /\ e \in Seq(Letter)
        BY <1>2, <3>1, <3>4
      <4> QED BY ONLY <4>1, Associative, ZenonT(60)
    <3> QED BY <3>3, <3>7, <3>8 DEF e
  <2> QED BY <2>1, <2>2
<1> QED BY <1>3, <1>4, <1>5 DEF c

LEMMA PathFacts == path \in Seq(Letter)
<1>1. Local \in Seq(Letter) /\ Slash \in Seq(Letter)
  BY LetterFacts
<1>2. Local \o Slash \in Seq(Letter)
  BY <1>1, ConcatProperties
<1> QED BY <1>1, <1>2 DEF path

\* What behind the local directory and its slash is cut off.
LEMMA KeyFacts ==
  ASSUME NEW t \in Seq(Letter)
  PROVE  Key(path \o (Slash \o t)) = t
<1>1. Slash \in Seq(Letter) /\ Len(Slash) = 1 /\ path \in Seq(Letter)
  BY LetterFacts, PathFacts
<1>2. PICK l \in Nat : l = Len(path)
  BY <1>1
<1>3. PICK n \in Nat : n = Len(t)
  OBVIOUS
<1> DEFINE s == Slash \o t
           w == path \o s
<1>4. s \in Seq(Letter) /\ Len(s) = 1 + n
      /\ \A i \in 1 .. 1 + n : s[i] = IF i <= 1 THEN Slash[i] ELSE t[i - 1]
  <2>1. /\ s \in Seq(Letter) /\ Len(s) = Len(Slash) + Len(t)
        /\ \A i \in 1 .. Len(Slash) + Len(t) :
             s[i] = IF i <= Len(Slash) THEN Slash[i] ELSE t[i - Len(Slash)]
    BY <1>1, ConcatProperties
  <2> HIDE DEF s
  <2> QED BY <1>1, <1>3, <2>1
<1> HIDE DEF s
<1>5. w \in Seq(Letter) /\ Len(w) = l + (1 + n)
      /\ \A i \in 1 .. l + (1 + n) : w[i] = IF i <= l THEN path[i] ELSE s[i - l]
  <2>1. /\ w \in Seq(Letter) /\ Len(w) = Len(path) + Len(s)
        /\ \A i \in 1 .. Len(path) + Len(s) :
             w[i] = IF i <= Len(path) THEN path[i] ELSE s[i - Len(path)]
    BY <1>1, <1>4, ConcatProperties
  <2> HIDE DEF w
  <2> QED BY <1>2, <1>4, <2>1
<1> HIDE DEF w
<1>6. l + 2 \in Int /\ Len(w) \in Int /\ \A i \in l + 2 .. Len(w) : w[i] \in Letter
  BY <1>2, <1>5
<1>7. /\ SubSeq(w, l + 2, Len(w)) \in Seq(Letter)
      /\ Len(SubSeq(w, l + 2, Len(w))) = IF l + 2 <= Len(w) THEN Len(w) - (l + 2) + 1 ELSE 0
      /\ \A i \in 1 .. Len(w) - (l + 2) + 1 : SubSeq(w, l + 2, Len(w))[i] = w[l + 2 + i - 1]
  BY <1>6, SubSeqProperties
<1>8. Len(SubSeq(w, l + 2, Len(w))) = n
  BY <1>2, <1>3, <1>5, <1>7
<1>9. ASSUME NEW i \in 1 .. n PROVE SubSeq(w, l + 2, Len(w))[i] = t[i]
  <2>1. PICK j \in Nat : j = l + 2 + i - 1
    BY <1>2, <1>3
  <2>2. /\ i \in 1 .. Len(w) - (l + 2) + 1 /\ j \in 1 .. l + (1 + n) /\ ~(j <= l)
        /\ j - l = i + 1 /\ i + 1 \in 1 .. 1 + n /\ ~(i + 1 <= 1) /\ (i + 1) - 1 = i
    BY <1>2, <1>3, <1>5, <2>1
  <2>3. SubSeq(w, l + 2, Len(w))[i] = w[j]
    BY <1>7, <2>1, <2>2
  <2>4. w[j] = s[i + 1]
    BY <1>5, <2>2
  <2>5. s[i + 1] = t[i]
    BY <1>4, <2>2
  <2> QED BY <2>3, <2>4, <2>5
<1>10. SubSeq(w, l + 2, Len(w)) = t
  BY <1>3, <1>7, <1>8, <1>9, SeqEqual
<1> QED BY <1>2, <1>10 DEF Key, w, s

\* What a URL under the prefix asks for.
LEMMA LookedFacts ==
  ASSUME NEW t \in Seq(Letter)
  PROVE  Looked(Prefix \o t) = t
<1>1. Prefix \in Seq(Letter)
  BY LetterFacts
<1>2. PICK l \in Nat : l = Len(Prefix)
  BY <1>1
<1>3. PICK n \in Nat : n = Len(t)
  OBVIOUS
<1> DEFINE w == Prefix \o t
<1>4. w \in Seq(Letter) /\ Len(w) = l + n
      /\ \A i \in 1 .. l + n : w[i] = IF i <= l THEN Prefix[i] ELSE t[i - l]
  <2>1. /\ w \in Seq(Letter) /\ Len(w) = Len(Prefix) + Len(t)
        /\ \A i \in 1 .. Len(Prefix) + Len(t) :
             w[i] = IF i <= Len(Prefix) THEN Prefix[i] ELSE t[i - Len(Prefix)]
    BY <1>1, ConcatProperties
  <2> HIDE DEF w
  <2> QED BY <1>2, <1>3, <2>1
<1> HIDE DEF w
<1>a. PICK m \in Int : m = l + 1
  BY <1>2
<1>5. Len(w) \in Int /\ \A i \in m .. Len(w) : w[i] \in Letter
  BY <1>2, <1>4, <1>a
<1>6. /\ SubSeq(w, l + 1, Len(w)) \in Seq(Letter)
      /\ Len(SubSeq(w, l + 1, Len(w))) = IF l + 1 <= Len(w) THEN Len(w) - (l + 1) + 1 ELSE 0
      /\ \A i \in 1 .. Len(w) - (l + 1) + 1 : SubSeq(w, l + 1, Len(w))[i] = w[l + 1 + i - 1]
  <2>1. /\ SubSeq(w, m, Len(w)) \in Seq(Letter)
        /\ Len(SubSeq(w, m, Len(w))) = IF m <= Len(w) THEN Len(w) - m + 1 ELSE 0
        /\ \A i \in 1 .. Len(w) - m + 1 : SubSeq(w, m, Len(w))[i] = w[m + i - 1]
    BY <1>5, SubSeqProperties
  <2> QED BY <1>a, <2>1
<1>7. Len(SubSeq(w, l + 1, Len(w))) = n
  BY <1>2, <1>3, <1>4, <1>6
<1>8. ASSUME NEW i \in 1 .. n PROVE SubSeq(w, l + 1, Len(w))[i] = t[i]
  <2>0. l + i \in Nat /\ l + 1 + i - 1 = l + i
    BY <1>2, <1>3
  <2>1. PICK j \in Nat : j = l + 1 + i - 1
    BY <2>0
  <2>2. i \in 1 .. Len(w) - (l + 1) + 1 /\ j \in 1 .. l + n /\ ~(j <= l) /\ j - l = i
    BY <1>2, <1>3, <1>4, <2>1
  <2>3. SubSeq(w, l + 1, Len(w))[i] = w[j]
    BY <1>6, <2>1, <2>2
  <2>4. w[j] = t[i]
    BY <1>4, <2>2
  <2> QED BY <2>3, <2>4
<1>9. SubSeq(w, l + 1, Len(w)) = t
  BY <1>3, <1>6, <1>7, <1>8, SeqEqual
<1> QED BY <1>2, <1>9 DEF Looked, w

-----------------------------------------------------------------------------
(* What start() and list_files() hold while the others change the directory. *)

Spots == Places \cup {<<>>}

\* A directory on the stack, or being listed.
Listable(d) == d.place \in Spots /\ d.text = path \o Below(d.place)

Listing == pc \in {"read", "stat", "statAgain"}

Types ==
  /\ kind \in [Places -> {"file", "dir", "other", "absent"}] /\ IsTree(kind)
  /\ size \in [Places -> Sizes]
  /\ pc \in {"idle", "pop", "read", "stat", "statAgain", "gone"}
  /\ dirs \in Seq([text : Seq(Letter), place : Spots])
  /\ \A i \in 1 .. Len(dirs) : Listable(dirs[i])
  /\ Listing => Listable(dir) /\ listed \subseteq {Last(q) : q \in Under(dir.place)}
  /\ pc \in {"stat", "statAgain"} => entry \in Letter /\ Here \in Places
  /\ \A k \in DOMAIN files : files[k] \in Nat
  /\ fd \in BOOLEAN /\ failed \in BOOLEAN
  /\ changes \in 0 .. MaxChanges /\ starts \in 0 .. MaxStarts

\* A listing that goes on has not failed, and holds a descriptor.
ActiveInv ==
  /\ pc = "pop" \/ Listing => fd /\ ~failed
  /\ pc = "idle" => dirs = <<>>
  /\ starts = 0 => changes = 0

SteadyInv ==
  /\ steady \subseteq Places
  /\ \A p \in steady : kind[p] = "file"
  /\ changes = 0 => steady = {p \in Places : kind[p] = "file"}

LEMMA SpotFacts ==
  /\ Places \subseteq Seq(Letter) /\ Spots \subseteq Seq(Letter)
  /\ \A q \in Spots : Below(q) \in Seq(Letter) /\ path \o Below(q) \in Seq(Letter)
<1>1. Places \subseteq Seq(Letter) /\ <<>> \in Seq(Letter)
  BY LetterFacts, EmptySeq
<1>2. ASSUME NEW q \in Spots PROVE Below(q) \in Seq(Letter)
  <2>1. q \in Seq(Letter) /\ "/" \in Letter
    BY <1>1 DEF Spots, Letter
  <2> QED BY <2>1, TextOfEntry
<1>3. ASSUME NEW q \in Spots PROVE path \o Below(q) \in Seq(Letter)
  BY <1>2, PathFacts, ConcatProperties
<1> QED BY <1>1, <1>2, <1>3 DEF Spots

\* The text of an entry of a directory that is listed.
LEMMA EntryText ==
  ASSUME Listable(dir), entry \in Letter
  PROVE  /\ tname = path \o (Slash \o Text(Here)) /\ Text(Here) \in Seq(Letter)
         /\ Key(tname) = Text(Here)
         /\ Here # <<>>
         /\ Below(Here) = Slash \o Text(Here)
<1> DEFINE q == dir.place
<1>1. q \in Spots /\ q \in Seq(Letter) /\ dir.text = path \o Below(q)
  BY SpotFacts DEF Listable
<1> HIDE DEF q
<1>2. /\ Below(q) \in Seq(Letter) /\ Text(Append(q, entry)) \in Seq(Letter)
      /\ Below(Append(q, entry)) = Slash \o Text(Append(q, entry))
      /\ Below(q) \o (Slash \o <<entry>>) = Slash \o Text(Append(q, entry))
  BY <1>1, TextOfEntry
<1>3. Slash \in Seq(Letter) /\ <<entry>> \in Seq(Letter) /\ path \in Seq(Letter)
  BY LetterFacts, OneLetter, PathFacts
<1>4. Slash \o <<entry>> \in Seq(Letter)
  BY <1>3, ConcatProperties
<1>5. path \o Below(q) \in Seq(Letter)
  BY <1>2, <1>3, ConcatProperties
<1>6. ((path \o Below(q)) \o Slash) \o <<entry>> = (path \o Below(q)) \o (Slash \o <<entry>>)
  BY ONLY <1>3, <1>5, Associative
<1>7. (path \o Below(q)) \o (Slash \o <<entry>>) = path \o (Below(q) \o (Slash \o <<entry>>))
  <2>1. path \in Seq(Letter) /\ Below(q) \in Seq(Letter) /\ Slash \o <<entry>> \in Seq(Letter)
    BY ONLY <1>2, <1>3, <1>4
  <2> QED BY ONLY <2>1, Associative, ZenonT(60)
<1>8. tname = path \o (Slash \o Text(Append(q, entry)))
  BY <1>1, <1>2, <1>6, <1>7 DEF tname
<1>9. Here = Append(q, entry) /\ Append(q, entry) # <<>>
  BY <1>1, AppendProperties DEF Here, q
<1> QED BY <1>2, <1>8, <1>9, KeyFacts

\* A name in a directory is the name of a place.
LEMMA NameFacts ==
  ASSUME NEW a \in Spots, NEW n \in {Last(q) : q \in Under(a)}
  PROVE  n \in Letter /\ Append(a, n) \in Places
<1>1. PICK q \in Under(a) : n = Last(q)
  OBVIOUS
<1>2. q \in Places /\ q \in Seq(Letter) /\ Len(q) \in Nat /\ Len(q) >= 1
      /\ Front(q) = a /\ Len(q) = Len(a) + 1
  BY <1>1, PlaceFacts DEF Under
<1>3. PICK j \in 0 .. Len(q) - 1 : j = Len(q) - 1
  BY <1>2
<1>4. /\ Append(Ancestor(q, j), q[j + 1]) = Ancestor(q, j + 1)
      /\ Front(Ancestor(q, j + 1)) = Ancestor(q, j)
      /\ Last(Ancestor(q, j + 1)) = q[j + 1]
      /\ j + 1 = Len(q) => Ancestor(q, j + 1) = q
  BY <1>2, NextAncestor
<1>5. j + 1 = Len(q)
  BY <1>2, <1>3
<1>6. q[j + 1] \in Letter
  BY <1>2, <1>5
<1> QED BY <1>1, <1>2, <1>4, <1>5, <1>6

LEMMA NamesAreNames ==
  ASSUME NEW a
  PROVE  NamesIn(a) \subseteq {Last(q) : q \in Under(a)}
BY DEF NamesIn

-----------------------------------------------------------------------------
(* Types.                                                                    *)

TypeInv == Types /\ ActiveInv /\ SteadyInv

LEMMA TypeInit == Init => TypeInv
<1> SUFFICES ASSUME Init PROVE TypeInv
  OBVIOUS
<1>0. dirs = <<>> /\ files = <<>>
  BY DEF Init
<1>1. dirs \in Seq([text : Seq(Letter), place : Spots]) /\ Len(dirs) = 0
  BY <1>0, EmptySeq
<1>2. \A i \in 1 .. Len(dirs) : FALSE
  BY <1>1
<1>3. kind \in [Places -> {"file", "dir", "other", "absent"}] /\ IsTree(kind)
  <2>1. kind \in [Places -> {"file", "dir", "absent"}] /\ IsTree(kind)
    BY DEF Init
  <2> QED BY <2>1
<1>4. DOMAIN files = {}
  BY <1>0
<1>5. Types
  <2>1. pc = "idle" /\ ~Listing /\ pc \notin {"stat", "statAgain"}
    BY DEF Init, Listing
  <2>2. fd = FALSE /\ failed = FALSE /\ changes = 0 /\ starts = 0
    BY DEF Init
  <2>4. changes \in 0 .. MaxChanges /\ starts \in 0 .. MaxStarts
    BY <2>2, StaticAssumption
  <2>3. size \in [Places -> Sizes]
    BY DEF Init
  <2> QED BY <1>1, <1>2, <1>3, <1>4, <2>1, <2>2, <2>3, <2>4 DEF Types
<1>6. ActiveInv /\ SteadyInv
  BY DEF Init, ActiveInv, SteadyInv, Listing
<1> QED BY <1>5, <1>6 DEF TypeInv

\* What the steps of list_files() leave alone.
LEMMA StepFrame ==
  Step => UNCHANGED <<world, fd, starts>>
BY DEF Step, openDir, openDirFails, listingEnds, readEntry, endOfDir, statDir, statFile,
       statNothing, statAgain, world

LEMMA TopFacts ==
  ASSUME dirs \in Seq([text : Seq(Letter), place : Spots]), dirs # <<>>
  PROVE  /\ Len(dirs) \in Nat /\ Len(dirs) >= 1
         /\ Popped.next = dirs[Len(dirs)]
         /\ Popped.rest \in Seq([text : Seq(Letter), place : Spots])
         /\ Len(Popped.rest) = Len(dirs) - 1
         /\ \A i \in 1 .. Len(dirs) - 1 : Popped.rest[i] = dirs[i]
<1> DEFINE S == [text : Seq(Letter), place : Spots]
<1> HIDE DEF S
<1>1. dirs \in Seq(S)
  BY DEF S
<1>2. Len(dirs) \in Nat /\ Len(dirs) >= 1
  BY <1>1, EmptySeq
<1>l. Len(dirs) - 1 \in Nat
  BY <1>2
<1>3. PICK l \in Nat : l = Len(dirs) - 1
  BY <1>l
<1>4. \A i \in 1 .. l : dirs[i] \in S
  BY <1>1, <1>3
<1>5. /\ SubSeq(dirs, 1, l) \in Seq(S)
      /\ Len(SubSeq(dirs, 1, l)) = IF 1 <= l THEN l - 1 + 1 ELSE 0
      /\ \A i \in 1 .. l - 1 + 1 : SubSeq(dirs, 1, l)[i] = dirs[1 + i - 1]
  BY <1>4, SubSeqProperties
<1>6. Popped.rest = SubSeq(dirs, 1, l) /\ Popped.next = dirs[Len(dirs)]
  BY <1>3 DEF Popped, Front, Last
<1>7. Len(Popped.rest) = l /\ \A i \in 1 .. l : Popped.rest[i] = dirs[i]
  <2>1. l - 1 + 1 = l /\ (~(1 <= l) => l = 0) /\ \A i \in 1 .. l : 1 + i - 1 = i
    OBVIOUS
  <2> QED BY <1>5, <1>6, <2>1
<1> QED BY <1>2, <1>3, <1>5, <1>6, <1>7 DEF S

\* The directories on the stack.
StackOK ==
  /\ dirs \in Seq([text : Seq(Letter), place : Spots])
  /\ \A i \in 1 .. Len(dirs) : Listable(dirs[i])

LEMMA StackInductive == Types /\ Next => StackOK'
<1> SUFFICES ASSUME Types, Next PROVE StackOK'
  OBVIOUS
<1> DEFINE S == [text : Seq(Letter), place : Spots]
<1>0. StackOK /\ dirs \in Seq(S) /\ \A i \in 1 .. Len(dirs) : Listable(dirs[i])
  BY DEF Types, StackOK
<1> HIDE DEF S
<1>u. ASSUME UNCHANGED dirs PROVE StackOK'
  BY <1>0, <1>u DEF StackOK, Listable
<1>e. ASSUME dirs' = <<>> PROVE StackOK'
  <2>1. dirs' \in Seq([text : Seq(Letter), place : Spots]) /\ Len(dirs') = 0
    BY <1>e
  <2>2. \A i \in 1 .. Len(dirs') : FALSE
    BY <2>1
  <2> QED BY <2>1, <2>2 DEF StackOK
<1>1. CASE startWatching
  <2> DEFINE d == [text |-> path, place |-> <<>>]
  <2>1. dirs' = <<d>>
    BY <1>1 DEF startWatching
  <2>2. <<>> \in Spots /\ Below(<<>>) = <<>> /\ path \in Seq(Letter) /\ path \o <<>> = path
    BY PathFacts, ConcatEmptySeq DEF Spots, Below
  <2>3. Listable(d) /\ d \in S
    BY <2>2 DEF Listable, S
  <2> HIDE DEF d
  <2>4. <<d>> \in Seq(S) /\ Len(<<d>>) = 1 /\ \A i \in 1 .. 1 : <<d>>[i] = d
    BY <2>3
  <2>5. dirs' \in Seq(S) /\ \A i \in 1 .. Len(dirs') : Listable(dirs'[i])
    BY <2>1, <2>3, <2>4
  <2> QED BY <2>5 DEF StackOK, S, Listable
<1>2. CASE openDir
  <2>1. dirs # <<>> /\ dirs' = Popped.rest
    BY <1>2 DEF openDir
  <2>2. /\ Len(dirs) \in Nat /\ Len(dirs) >= 1
        /\ Popped.rest \in Seq(S)
        /\ Len(Popped.rest) = Len(dirs) - 1
        /\ \A i \in 1 .. Len(dirs) - 1 : Popped.rest[i] = dirs[i]
    BY <1>0, <2>1, TopFacts DEF S
  <2>3. dirs' \in Seq(S) /\ \A i \in 1 .. Len(dirs') : Listable(dirs'[i])
    BY <1>0, <2>1, <2>2
  <2> QED BY <2>3 DEF StackOK, S, Listable
<1>3. CASE statDir
  <2> DEFINE d == [text |-> tname, place |-> Here]
  <2>1. dirs' = Append(dirs, d) /\ pc = "stat"
    BY <1>3 DEF statDir
  <2>2. Listable(dir) /\ entry \in Letter /\ Here \in Places
    BY <2>1 DEF Types, Listing
  <2>3. /\ tname = path \o (Slash \o Text(Here)) /\ Below(Here) = Slash \o Text(Here)
        /\ Text(Here) \in Seq(Letter)
    BY <2>2, EntryText
  <2>4. tname \in Seq(Letter)
    BY <2>2, <2>3, SpotFacts DEF Spots
  <2>5. Listable(d) /\ d \in S
    BY <2>2, <2>3, <2>4 DEF Listable, S, Spots
  <2> HIDE DEF d
  <2>6. /\ Append(dirs, d) \in Seq(S) /\ Len(Append(dirs, d)) = Len(dirs) + 1
        /\ \A i \in 1 .. Len(dirs) : Append(dirs, d)[i] = dirs[i]
        /\ Append(dirs, d)[Len(dirs) + 1] = d
    BY <1>0, <2>5, AppendProperties
  <2>7. \A i \in 1 .. Len(dirs) + 1 : i \in 1 .. Len(dirs) \/ i = Len(dirs) + 1
    BY <1>0
  <2>8. dirs' \in Seq(S) /\ \A i \in 1 .. Len(dirs') : Listable(dirs'[i])
    BY <1>0, <2>1, <2>5, <2>6, <2>7
  <2> QED BY <2>8 DEF StackOK, S, Listable
<1>4. CASE openDirFails \/ listingEnds
  BY <1>e, <1>4 DEF openDirFails, listingEnds, Returns
<1>5. CASE \/ startRefused \/ destroy \/ endOfDir \/ statFile \/ statNothing \/ statAgain
           \/ \E n \in {Last(p) : p \in Places} : readEntry(n)
           \/ \E p \in Places, k \in {"file", "dir", "other", "absent"}, n \in Sizes :
                othersChange(p, k, n)
  BY <1>u, <1>5 DEF startRefused, destroy, endOfDir, statFile, statNothing, statAgain,
                    readEntry, othersChange, listing
<1> QED BY <1>1, <1>2, <1>3, <1>4, <1>5 DEF Next, Step

\* The directory being listed.
DirOK == Listing => Listable(dir) /\ listed \subseteq {Last(q) : q \in Under(dir.place)}

LEMMA DirInductive == Types /\ Next => DirOK'
<1> SUFFICES ASSUME Types, Next PROVE DirOK'
  OBVIOUS
<1>1. CASE openDir
  <2>1. dirs # <<>> /\ dir' = Popped.next /\ listed' = NamesIn(dir'.place)
    BY <1>1 DEF openDir
  <2>2. Len(dirs) \in 1 .. Len(dirs) /\ Popped.next = dirs[Len(dirs)]
    BY <2>1, TopFacts DEF Types
  <2>3. Listable(Popped.next)
    BY <2>2 DEF Types
  <2>4. Listable(dir)'
    BY <2>1, <2>3 DEF Listable
  <2>5. listed' \subseteq {Last(q) : q \in Under(dir'.place)}
    BY <2>1, NamesAreNames
  <2> QED BY <2>4, <2>5 DEF DirOK, Under
<1>2. CASE openDirFails \/ listingEnds \/ startWatching \/ endOfDir \/ destroy
  BY <1>2 DEF openDirFails, listingEnds, startWatching, endOfDir, destroy, Returns, DirOK, Listing
<1>3. CASE \/ startRefused \/ statDir \/ statFile \/ statNothing \/ statAgain
           \/ \E n \in {Last(p) : p \in Places} : readEntry(n)
           \/ \E p \in Places, k \in {"file", "dir", "other", "absent"}, n \in Sizes :
                othersChange(p, k, n)
  <2>1. UNCHANGED <<dir, listed>>
    BY <1>3 DEF startRefused, statDir, statFile, statNothing, statAgain, readEntry,
                othersChange, listing
  <2>2. Listing' => Listing
    BY <1>3 DEF startRefused, statDir, statFile, statNothing, statAgain, readEntry,
                othersChange, Listing, NextEntry
  <2>3. Listing' => Listable(dir) /\ listed \subseteq {Last(q) : q \in Under(dir.place)}
    BY <2>2 DEF Types
  <2> QED BY <2>1, <2>3 DEF DirOK, Listable, Under
<1> QED BY <1>1, <1>2, <1>3 DEF Next, Step

\* What stat() is asked for.
LEMMA HereInductive ==
  Types /\ Next => (pc \in {"stat", "statAgain"} => entry \in Letter /\ Here \in Places)'
<1> SUFFICES ASSUME Types, Next, pc' \in {"stat", "statAgain"}
             PROVE  entry' \in Letter /\ Here' \in Places
  OBVIOUS
<1>1. ASSUME NEW n \in {Last(p) : p \in Places}, readEntry(n)
      PROVE  entry' \in Letter /\ Here' \in Places
  <2>1. /\ pc = "read" /\ n \in listed \cup NamesIn(dir.place)
        /\ entry' = n /\ dir' = dir
    BY <1>1 DEF readEntry
  <2>2. Listable(dir) /\ listed \subseteq {Last(q) : q \in Under(dir.place)}
    BY <2>1 DEF Types, Listing
  <2>3. n \in {Last(q) : q \in Under(dir.place)} /\ dir.place \in Spots
    BY <2>1, <2>2, NamesAreNames DEF Listable
  <2>4. n \in Letter /\ Append(dir.place, n) \in Places
    BY <2>3, NameFacts
  <2> QED BY <2>1, <2>4 DEF Here
<1>2. CASE \/ startRefused \/ statFile
           \/ \E p \in Places, k \in {"file", "dir", "other", "absent"}, n \in Sizes :
                othersChange(p, k, n)
  <2>1. UNCHANGED <<dir, entry>> /\ pc \in {"stat", "statAgain"}
    BY <1>2 DEF startRefused, statFile, othersChange, listing
  <2>2. entry \in Letter /\ Here \in Places
    BY <2>1 DEF Types
  <2> QED BY <2>1, <2>2 DEF Here
<1>3. ~(startWatching \/ destroy \/ openDir \/ openDirFails \/ listingEnds \/ endOfDir
        \/ statDir \/ statNothing \/ statAgain)
  BY DEF startWatching, destroy, openDir, openDirFails, listingEnds, endOfDir, statDir,
         statNothing, statAgain, Returns, NextEntry
<1> QED BY <1>1, <1>2, <1>3 DEF Next, Step

\* The size statAgain keeps of what is there, in 32 bits.
Narrowed == size[Here] % UIntRange

\* The table.
TableOK == \A k \in DOMAIN files : files[k] \in Nat

LEMMA TrackedFacts ==
  ASSUME NEW k, NEW n
  PROVE  /\ DOMAIN Tracked(k, n) = DOMAIN files \cup {k}
         /\ \A x \in DOMAIN files \cup {k} :
              Tracked(k, n)[x] = IF x \in DOMAIN files THEN files[x] ELSE n
BY DEF Tracked

LEMMA TableInductive == Types /\ Next => TableOK'
<1> SUFFICES ASSUME Types, Next PROVE TableOK'
  OBVIOUS
<1>1. CASE statAgain
  <2>1. Here \in Places /\ Narrowed \in Nat
    <3>1. Here \in Places /\ size[Here] \in Sizes
      BY <1>1 DEF statAgain, Types
    <3>2. size[Here] \in Nat /\ UIntRange \in Nat /\ UIntRange # 0
      BY <3>1, StaticAssumption
    <3> QED BY <3>1, <3>2 DEF Narrowed
  <2>2. CASE kind[Here] = "absent"
    BY <1>1, <2>2 DEF statAgain, Types, TableOK
  <2>3. CASE kind[Here] # "absent"
    <3>1. files' = Tracked(Key(tname), Narrowed)
      BY <1>1, <2>3 DEF statAgain, Narrowed
    <3>2. /\ DOMAIN files' = DOMAIN files \cup {Key(tname)}
          /\ \A x \in DOMAIN files \cup {Key(tname)} :
               files'[x] = IF x \in DOMAIN files THEN files[x] ELSE Narrowed
      <4>1. /\ DOMAIN Tracked(Key(tname), Narrowed) = DOMAIN files \cup {Key(tname)}
            /\ \A x \in DOMAIN files \cup {Key(tname)} :
                 Tracked(Key(tname), Narrowed)[x] = IF x \in DOMAIN files THEN files[x]
                                                      ELSE Narrowed
        BY TrackedFacts
      <4> QED BY <3>1, <4>1
    <3>3. TableOK
      BY DEF Types, TableOK
    <3> QED BY <2>1, <3>2, <3>3 DEF TableOK
  <2> QED BY <2>2, <2>3
<1>2. CASE destroy
  <2>1. DOMAIN files' = {}
    BY <1>2 DEF destroy
  <2> QED BY <2>1 DEF TableOK
<1>3. CASE \/ startRefused \/ startWatching \/ openDir \/ openDirFails \/ listingEnds
           \/ endOfDir \/ statDir \/ statFile \/ statNothing
           \/ \E n \in {Last(p) : p \in Places} : readEntry(n)
           \/ \E p \in Places, k \in {"file", "dir", "other", "absent"}, n \in Sizes :
                othersChange(p, k, n)
  <2>1. files' = files
    BY <1>3 DEF startRefused, startWatching, openDir, openDirFails, listingEnds, endOfDir,
                statDir, statFile, statNothing, readEntry, othersChange
  <2> QED BY <2>1 DEF Types, TableOK
<1> QED BY <1>1, <1>2, <1>3 DEF Next, Step

\* The world, and what start() counts.
WorldOK ==
  /\ kind \in [Places -> {"file", "dir", "other", "absent"}] /\ IsTree(kind)
  /\ size \in [Places -> Sizes]
  /\ pc \in {"idle", "pop", "read", "stat", "statAgain", "gone"}
  /\ fd \in BOOLEAN /\ failed \in BOOLEAN
  /\ changes \in 0 .. MaxChanges /\ starts \in 0 .. MaxStarts

LEMMA WorldInductive == Types /\ Next => WorldOK'
<1> SUFFICES ASSUME Types, Next PROVE WorldOK'
  OBVIOUS
<1>1. WorldOK
  BY DEF Types, WorldOK
<1>2. ASSUME NEW p \in Places, NEW k \in {"file", "dir", "other", "absent"}, NEW n \in Sizes,
             othersChange(p, k, n)
      PROVE  WorldOK'
  <2>1. /\ kind' = [kind EXCEPT ![p] = k] /\ size' = [size EXCEPT ![p] = n] /\ IsTree(kind')
        /\ changes < MaxChanges /\ changes' = changes + 1 /\ UNCHANGED <<pc, fd, failed, starts>>
    BY <1>2 DEF othersChange
  <2>2. kind' \in [Places -> {"file", "dir", "other", "absent"}] /\ size' \in [Places -> Sizes]
    BY <1>1, <2>1 DEF WorldOK
  <2>3. changes' \in 0 .. MaxChanges
    BY <1>1, <2>1, StaticAssumption DEF WorldOK
  <2> QED BY <1>1, <2>1, <2>2, <2>3 DEF WorldOK, IsTree, Under
<1>3. CASE startRefused \/ startWatching
  <2>1. /\ UNCHANGED <<kind, size, changes>> /\ starts < MaxStarts /\ starts' = starts + 1
        /\ pc' \in {pc, "pop"} /\ fd' \in {fd, TRUE} /\ failed' \in {failed, FALSE}
    BY <1>3 DEF startRefused, startWatching, world
  <2>2. starts' \in 0 .. MaxStarts
    BY <1>1, <2>1, StaticAssumption DEF WorldOK
  <2>3. fd' \in BOOLEAN /\ failed' \in BOOLEAN
    BY <1>1, <2>1 DEF WorldOK
  <2>4. pc' \in {"idle", "pop", "read", "stat", "statAgain", "gone"}
    BY <1>1, <2>1 DEF WorldOK
  <2> QED BY <1>1, <2>1, <2>2, <2>3, <2>4 DEF WorldOK, IsTree, Under
<1>4. CASE Step \/ destroy
  <2>1. UNCHANGED <<kind, size, changes, starts>>
    BY <1>4, StepFrame DEF destroy, world
  <2>2. fd' \in {fd, FALSE} /\ failed' \in {failed, TRUE}
    BY <1>4 DEF Step, openDir, openDirFails, listingEnds, readEntry, endOfDir, statDir,
                statFile, statNothing, statAgain, destroy
  <2>3. pc' \in {"idle", "pop", "read", "stat", "statAgain", "gone"}
    BY <1>4 DEF Step, openDir, openDirFails, listingEnds, readEntry, endOfDir, statDir,
                statFile, statNothing, statAgain, destroy, Returns, NextEntry
  <2>4. fd' \in BOOLEAN /\ failed' \in BOOLEAN
    BY <1>1, <2>2 DEF WorldOK
  <2> QED BY <1>1, <2>1, <2>3, <2>4 DEF WorldOK, IsTree, Under
<1> QED BY <1>2, <1>3, <1>4 DEF Next

\* Together.
LEMMA TypesInductive == Types /\ [Next]_vars => Types'
<1> SUFFICES ASSUME Types, [Next]_vars PROVE Types'
  OBVIOUS
<1>1. CASE Next
  BY <1>1, StackInductive, DirInductive, HereInductive, TableInductive, WorldInductive
     DEF Types, StackOK, DirOK, TableOK, WorldOK
<1>2. CASE UNCHANGED vars
  BY <1>2 DEF Types, vars, world, listing, Listing, Listable, Here, IsTree, Under
<1> QED BY <1>1, <1>2

\* What goes on is what start() began, and what stays steady is a file.
LEMMA ActiveInductive == Types /\ ActiveInv /\ SteadyInv /\ [Next]_vars => (ActiveInv /\ SteadyInv)'
<1> SUFFICES ASSUME Types, ActiveInv, SteadyInv, [Next]_vars PROVE ActiveInv' /\ SteadyInv'
  OBVIOUS
<1>1. ASSUME NEW p \in Places, NEW k \in {"file", "dir", "other", "absent"}, NEW n \in Sizes,
             othersChange(p, k, n)
      PROVE  ActiveInv' /\ SteadyInv'
  <2>1. /\ starts > 0 /\ changes' = changes + 1 /\ kind' = [kind EXCEPT ![p] = k]
        /\ steady' = IF k = "file" THEN steady ELSE steady \ {p}
        /\ UNCHANGED <<pc, dirs, fd, failed, starts>>
    BY <1>1 DEF othersChange, listing
  <2>2. changes' # 0 /\ starts # 0
    BY <2>1 DEF Types
  <2>3. ActiveInv'
    BY <2>1, <2>2 DEF ActiveInv, Listing
  <2>4. ASSUME NEW q \in steady' PROVE q \in Places /\ kind'[q] = "file"
    BY <2>1, <2>4 DEF SteadyInv, Types
  <2> QED BY <2>2, <2>3, <2>4 DEF SteadyInv
<1>2. CASE startRefused \/ startWatching
  <2>1. UNCHANGED <<kind, changes, steady>> /\ starts' = starts + 1 /\ pc = "idle"
    BY <1>2 DEF startRefused, startWatching, world
  <2>2. starts' # 0
    BY <2>1 DEF Types
  <2>3. SteadyInv'
    BY <2>1 DEF SteadyInv
  <2>4. \/ UNCHANGED <<pc, dirs>>
        \/ pc' = "pop" /\ fd' = TRUE /\ failed' = FALSE
    BY <1>2 DEF startRefused, startWatching, listing
  <2> QED BY <2>1, <2>2, <2>3, <2>4 DEF ActiveInv, Listing
<1>3. CASE Step
  <2>1. UNCHANGED <<kind, changes, steady, fd, starts>> /\ (pc = "pop" \/ Listing)
    BY <1>3, StepFrame DEF world, Step, openDir, openDirFails, listingEnds, readEntry,
       endOfDir, statDir, statFile, statNothing, statAgain, Listing
  <2>2. \/ pc' = "idle" /\ dirs' = <<>>
        \/ failed' = failed /\ pc' # "idle"
    BY <1>3 DEF Step, openDir, openDirFails, listingEnds, readEntry, endOfDir, statDir,
                statFile, statNothing, statAgain, Returns, NextEntry
  <2> QED BY <2>1, <2>2 DEF ActiveInv, SteadyInv, Listing
<1>4. CASE destroy \/ UNCHANGED vars
  <2>1. UNCHANGED <<kind, changes, steady, starts>>
    BY <1>4 DEF destroy, vars, world
  <2>2. \/ pc' = "gone"
        \/ UNCHANGED <<pc, dirs, fd, failed>>
    BY <1>4 DEF destroy, vars, world, listing
  <2> QED BY <2>1, <2>2 DEF ActiveInv, SteadyInv, Listing
<1> QED BY <1>1, <1>2, <1>3, <1>4 DEF Next

\* The directories on the stack, those being listed, what stat() is asked for
\* and the table are of their types.
THEOREM TypeCorrect == Spec => []TypeOK
<1>1. Init => TypeInv
  BY TypeInit
<1>2. TypeInv /\ [Next]_vars => TypeInv'
  BY TypesInductive, ActiveInductive DEF TypeInv
<1>3. TypeInv => TypeOK
  <2> SUFFICES ASSUME Types, SteadyInv PROVE TypeOK
    BY DEF TypeInv
  <2>1. \A i \in DOMAIN dirs : dirs[i].place \in Places \cup {<<>>}
    <3>1. DOMAIN dirs = 1 .. Len(dirs)
      BY DEF Types
    <3> QED BY <3>1 DEF Types, Listable, Spots
  <2> QED BY <2>1 DEF Types, SteadyInv, TypeOK
<1> QED BY <1>1, <1>2, <1>3, PTL DEF Spec

-----------------------------------------------------------------------------
(* Where a file that stays is while the directory is listed: known, about to *)
(* be, or on the way: a directory above it is on the stack, or is being      *)
(* listed and has still to give the next name, or has just given it.         *)

Known(p) == Text(p) \in DOMAIN files
Statted(p) == pc = "statAgain" /\ Here = p
Stacked(p, j) == \E i \in 1 .. Len(dirs) : dirs[i].place = Ancestor(p, j)
Awaited(p, j) ==
  /\ Listing /\ dir.place = Ancestor(p, j)
  /\ p[j + 1] \in listed
  /\ \/ p[j + 1] \notin returned
     \/ pc = "stat" /\ entry = p[j + 1]
OnTheWay(p) == \E j \in 0 .. Len(p) - 1 : Stacked(p, j) \/ Awaited(p, j)

WayInv ==
  pc # "gone" /\ fd /\ ~failed =>
    \A p \in steady : Known(p) \/ Statted(p) \/ OnTheWay(p)

\* What is known stays known until the server is destroyed.
LEMMA KnownStays ==
  ASSUME [Next]_vars, pc' # "gone", NEW p, Known(p)
  PROVE  Known(p)'
<1>1. CASE statAgain
  <2>1. CASE kind[Here] = "absent"
    BY <1>1, <2>1 DEF statAgain, Known, Text
  <2>2. CASE kind[Here] # "absent"
    <3>1. files' = Tracked(Key(tname), Narrowed)
      BY <1>1, <2>2 DEF statAgain, Narrowed
    <3>2. DOMAIN Tracked(Key(tname), Narrowed) = DOMAIN files \cup {Key(tname)}
      BY TrackedFacts
    <3> QED BY <3>1, <3>2 DEF Known, Text
  <2> QED BY <2>1, <2>2
<1>2. CASE ~statAgain
  <2>1. UNCHANGED files
    BY <1>2 DEF Next, Step, vars, startRefused, startWatching, openDir, openDirFails,
                listingEnds, endOfDir, statDir, statFile, statNothing, readEntry,
                othersChange, destroy
  <2> QED BY <2>1 DEF Known, Text
<1> QED BY <1>1, <1>2

\* Nothing moves on a way: what is stacked or awaited is so still.
LEMMA WayStays ==
  ASSUME UNCHANGED <<dirs, dir, listed, returned, entry>>, pc' = pc, NEW p
  PROVE  /\ Statted(p)' <=> Statted(p)
         /\ OnTheWay(p)' <=> OnTheWay(p)
         /\ \A j : (Stacked(p, j)' <=> Stacked(p, j)) /\ (Awaited(p, j)' <=> Awaited(p, j))
BY DEF Statted, OnTheWay, Stacked, Awaited, Ancestor, Listing, Here

\* The name a directory above a steady file still has to give is there, and
\* leads to a directory or to the file itself.
LEMMA AwaitedEntry ==
  ASSUME Types, SteadyInv, NEW p \in steady, NEW j \in 0 .. Len(p) - 1, Awaited(p, j)
  PROVE  /\ p \in Places /\ p \in Seq(Letter)
         /\ p[j + 1] \in NamesIn(dir.place)
         /\ Append(dir.place, p[j + 1]) = Ancestor(p, j + 1)
         /\ kind[Ancestor(p, j + 1)] = IF j + 1 = Len(p) THEN "file" ELSE "dir"
         /\ j + 1 = Len(p) => Ancestor(p, j + 1) = p
<1>1. p \in Places /\ kind[p] = "file" /\ IsTree(kind) /\ p \in Seq(Letter)
  BY PlaceFacts DEF Types, SteadyInv
<1>2. dir.place = Ancestor(p, j)
  BY DEF Awaited
<1>3. /\ kind[Ancestor(p, j + 1)] = IF j + 1 = Len(p) THEN kind[p] ELSE "dir"
      /\ p[j + 1] \in NamesIn(Ancestor(p, j))
  BY <1>1, NextNamed
<1>4. /\ Append(Ancestor(p, j), p[j + 1]) = Ancestor(p, j + 1)
      /\ j + 1 = Len(p) => Ancestor(p, j + 1) = p
  BY <1>1, NextAncestor
<1> QED BY <1>1, <1>2, <1>3, <1>4

\* One step of a file on its way.
LEMMA WayStep ==
  ASSUME TypeInv, Next, NEW p \in steady, OnTheWay(p) \/ Statted(p),
         pc' # "gone", ~failed'
  PROVE  Known(p)' \/ Statted(p)' \/ OnTheWay(p)'
<1>0. Types /\ ActiveInv /\ SteadyInv
  BY DEF TypeInv
<1>p. p \in Places /\ p \in Seq(Letter) /\ kind[p] = "file" /\ Len(p) \in Nat /\ Len(p) >= 1
  BY <1>0, PlaceFacts DEF SteadyInv
<1>a. ASSUME NEW j \in 0 .. Len(p) - 1, Stacked(p, j)' \/ Awaited(p, j)' PROVE OnTheWay(p)'
  BY <1>a DEF OnTheWay
<1>1. CASE openDir
  <2>1. /\ pc = "pop" /\ dirs # <<>> /\ dir' = Popped.next /\ dirs' = Popped.rest
        /\ listed' = NamesIn(dir'.place) /\ returned' = {} /\ pc' = "read"
    BY <1>1 DEF openDir
  <2>2. ~Statted(p) /\ \A j : ~Awaited(p, j)
    BY <2>1 DEF Statted, Awaited, Listing
  <2>3. PICK j \in 0 .. Len(p) - 1 : Stacked(p, j)
    BY <2>2 DEF OnTheWay
  <2>4. PICK i \in 1 .. Len(dirs) : dirs[i].place = Ancestor(p, j)
    BY <2>3 DEF Stacked
  <2>5. /\ Len(dirs) \in Nat /\ Popped.next = dirs[Len(dirs)]
        /\ Len(Popped.rest) = Len(dirs) - 1
        /\ \A k \in 1 .. Len(dirs) - 1 : Popped.rest[k] = dirs[k]
    BY <1>0, <2>1, TopFacts DEF Types
  <2>6. CASE i = Len(dirs)
    <3>1. dir'.place = Ancestor(p, j)
      BY <2>1, <2>4, <2>5, <2>6
    <3>2. p[j + 1] \in NamesIn(Ancestor(p, j))
      BY <1>0, <1>p, NextNamed DEF Types
    <3>3. p[j + 1] \in listed' /\ p[j + 1] \notin returned'
      BY <2>1, <3>1, <3>2
    <3>4. Awaited(p, j)'
      BY <2>1, <3>1, <3>3 DEF Awaited, Listing, Ancestor
    <3> QED BY <1>a, <3>4
  <2>7. CASE i # Len(dirs)
    <3>1. i \in 1 .. Len(dirs) - 1
      BY <2>5, <2>7
    <3>2. i \in 1 .. Len(dirs') /\ dirs'[i].place = Ancestor(p, j)
      BY <2>1, <2>4, <2>5, <3>1
    <3>3. Stacked(p, j)'
      BY <3>2 DEF Stacked, Ancestor
    <3> QED BY <1>a, <3>3
  <2> QED BY <2>6, <2>7
<1>2. CASE openDirFails
  BY <1>2 DEF openDirFails
<1>3. CASE listingEnds
  <2>1. pc = "pop" /\ Len(dirs) = 0
    BY <1>3 DEF listingEnds
  <2>2. \A i \in 1 .. Len(dirs) : FALSE
    BY <2>1
  <2> QED BY <2>1, <2>2 DEF OnTheWay, Statted, Stacked, Awaited, Listing
<1>4. ASSUME NEW n \in {Last(q) : q \in Places}, readEntry(n)
      PROVE  Known(p)' \/ Statted(p)' \/ OnTheWay(p)'
  <2>1. /\ pc = "read" /\ entry' = n /\ returned' = returned \cup {n} /\ pc' = "stat"
        /\ UNCHANGED <<dirs, dir, listed>>
    BY <1>4 DEF readEntry
  <2>2. ~Statted(p)
    BY <2>1 DEF Statted
  <2>3. PICK j \in 0 .. Len(p) - 1 : Stacked(p, j) \/ Awaited(p, j)
    BY <2>2 DEF OnTheWay
  <2>4. CASE Stacked(p, j)
    BY <1>a, <2>1, <2>4 DEF Stacked, Ancestor
  <2>5. CASE Awaited(p, j)
    <3>1. dir.place = Ancestor(p, j) /\ p[j + 1] \in listed /\ p[j + 1] \notin returned
      BY <2>1, <2>5 DEF Awaited
    <3>2. p[j + 1] \notin returned' \/ entry' = p[j + 1]
      BY <2>1, <3>1
    <3>3. Awaited(p, j)'
      BY <2>1, <3>1, <3>2 DEF Awaited, Listing, Ancestor
    <3> QED BY <1>a, <3>3
  <2> QED BY <2>3, <2>4, <2>5
<1>5. CASE endOfDir
  <2>1. /\ pc = "read" /\ listed \cap NamesIn(dir.place) \subseteq returned
        /\ UNCHANGED dirs
    BY <1>5 DEF endOfDir
  <2>2. ~Statted(p)
    BY <2>1 DEF Statted
  <2>3. PICK j \in 0 .. Len(p) - 1 : Stacked(p, j) \/ Awaited(p, j)
    BY <2>2 DEF OnTheWay
  <2>4. CASE Stacked(p, j)
    BY <1>a, <2>1, <2>4 DEF Stacked, Ancestor
  <2>5. CASE Awaited(p, j)
    <3>1. p[j + 1] \in NamesIn(dir.place)
      BY <1>0, <2>5, AwaitedEntry
    <3>2. p[j + 1] \in listed /\ p[j + 1] \notin returned
      BY <2>1, <2>5 DEF Awaited
    <3> QED BY <2>1, <3>1, <3>2
  <2> QED BY <2>3, <2>4, <2>5
<1>6. CASE statDir
  <2>1. /\ pc = "stat" /\ kind[Here] = "dir" /\ pc' = "read"
        /\ dirs' = Append(dirs, [text |-> tname, place |-> Here])
        /\ UNCHANGED <<dir, listed, returned, entry>>
    BY <1>6 DEF statDir
  <2>2. PICK j \in 0 .. Len(p) - 1 : Stacked(p, j) \/ Awaited(p, j)
    BY <2>1 DEF OnTheWay, Statted
  <2>3. /\ Len(dirs) \in Nat /\ Len(dirs') = Len(dirs) + 1
        /\ \A i \in 1 .. Len(dirs) : dirs'[i] = dirs[i]
        /\ dirs'[Len(dirs) + 1] = [text |-> tname, place |-> Here]
    BY <1>0, <2>1 DEF Types
  <2>4. CASE Stacked(p, j)
    <3>1. PICK i \in 1 .. Len(dirs) : dirs[i].place = Ancestor(p, j)
      BY <2>4 DEF Stacked
    <3>2. i \in 1 .. Len(dirs') /\ dirs'[i].place = Ancestor(p, j)
      BY <2>3, <3>1
    <3>3. Stacked(p, j)'
      BY <3>2 DEF Stacked, Ancestor
    <3> QED BY <1>a, <3>3
  <2>5. CASE Awaited(p, j) /\ p[j + 1] # entry
    <3>1. dir.place = Ancestor(p, j) /\ p[j + 1] \in listed /\ p[j + 1] \notin returned
      BY <2>5 DEF Awaited
    <3>2. Awaited(p, j)'
      BY <2>1, <3>1 DEF Awaited, Listing, Ancestor
    <3> QED BY <1>a, <3>2
  <2>6. CASE Awaited(p, j) /\ p[j + 1] = entry
    <3>1. /\ Append(dir.place, p[j + 1]) = Ancestor(p, j + 1)
          /\ kind[Ancestor(p, j + 1)] = IF j + 1 = Len(p) THEN "file" ELSE "dir"
      BY <1>0, <2>6, AwaitedEntry
    <3>2. Here = Ancestor(p, j + 1) /\ j + 1 # Len(p)
      BY <2>1, <2>6, <3>1 DEF Here
    <3>3. j + 1 \in 0 .. Len(p) - 1
      BY <1>p, <3>2
    <3>4. Len(dirs) + 1 \in 1 .. Len(dirs') /\ dirs'[Len(dirs) + 1].place = Ancestor(p, j + 1)
      BY <2>3, <3>2
    <3>5. Stacked(p, j + 1)'
      BY <3>4 DEF Stacked, Ancestor
    <3> QED BY <1>a, <3>3, <3>5
  <2> QED BY <2>2, <2>4, <2>5, <2>6
<1>7. CASE statFile
  <2>1. pc = "stat" /\ kind[Here] = "file" /\ pc' = "statAgain"
        /\ UNCHANGED <<dirs, dir, listed, returned, entry>>
    BY <1>7 DEF statFile, listing
  <2>2. PICK j \in 0 .. Len(p) - 1 : Stacked(p, j) \/ Awaited(p, j)
    BY <2>1 DEF OnTheWay, Statted
  <2>3. CASE Stacked(p, j)
    BY <1>a, <2>1, <2>3 DEF Stacked, Ancestor
  <2>4. CASE Awaited(p, j) /\ p[j + 1] # entry
    <3>1. dir.place = Ancestor(p, j) /\ p[j + 1] \in listed /\ p[j + 1] \notin returned
      BY <2>4 DEF Awaited
    <3>2. Awaited(p, j)'
      BY <2>1, <3>1 DEF Awaited, Listing, Ancestor
    <3> QED BY <1>a, <3>2
  <2>5. CASE Awaited(p, j) /\ p[j + 1] = entry
    <3>1. /\ Append(dir.place, p[j + 1]) = Ancestor(p, j + 1)
          /\ kind[Ancestor(p, j + 1)] = IF j + 1 = Len(p) THEN "file" ELSE "dir"
          /\ j + 1 = Len(p) => Ancestor(p, j + 1) = p
      BY <1>0, <2>5, AwaitedEntry
    <3>2. Here = p
      BY <2>1, <2>5, <3>1 DEF Here
    <3>3. Statted(p)'
      BY <2>1, <3>2 DEF Statted, Here
    <3> QED BY <3>3
  <2> QED BY <2>2, <2>3, <2>4, <2>5
<1>8. CASE statNothing
  <2>1. pc = "stat" /\ kind[Here] \notin {"file", "dir"} /\ pc' = "read"
        /\ UNCHANGED <<dirs, dir, listed, returned, entry>>
    BY <1>8 DEF statNothing, NextEntry, listing
  <2>2. PICK j \in 0 .. Len(p) - 1 : Stacked(p, j) \/ Awaited(p, j)
    BY <2>1 DEF OnTheWay, Statted
  <2>3. CASE Stacked(p, j)
    BY <1>a, <2>1, <2>3 DEF Stacked, Ancestor
  <2>4. CASE Awaited(p, j) /\ p[j + 1] # entry
    <3>1. dir.place = Ancestor(p, j) /\ p[j + 1] \in listed /\ p[j + 1] \notin returned
      BY <2>4 DEF Awaited
    <3>2. Awaited(p, j)'
      BY <2>1, <3>1 DEF Awaited, Listing, Ancestor
    <3> QED BY <1>a, <3>2
  <2>5. CASE Awaited(p, j) /\ p[j + 1] = entry
    <3>1. /\ Append(dir.place, p[j + 1]) = Ancestor(p, j + 1)
          /\ kind[Ancestor(p, j + 1)] = IF j + 1 = Len(p) THEN "file" ELSE "dir"
      BY <1>0, <2>5, AwaitedEntry
    <3> QED BY <2>1, <2>5, <3>1 DEF Here
  <2> QED BY <2>2, <2>3, <2>4, <2>5
<1>9. CASE statAgain
  <2>1. /\ pc = "statAgain" /\ pc' = "read"
        /\ files' = IF kind[Here] = "absent" THEN files ELSE Tracked(Key(tname), Narrowed)
        /\ UNCHANGED <<dirs, dir, listed, returned, entry>>
    BY <1>9 DEF statAgain, listing, Narrowed
  <2>2. CASE Statted(p)
    <3>1. Here = p /\ kind[Here] = "file"
      BY <1>p, <2>2 DEF Statted
    <3>2. Listable(dir) /\ entry \in Letter
      BY <1>0, <2>1 DEF Types, Listing
    <3>3. Key(tname) = Text(p)
      BY <3>1, <3>2, EntryText
    <3>4. files' = Tracked(Text(p), Narrowed)
      BY <2>1, <3>1, <3>3
    <3>5. DOMAIN Tracked(Text(p), Narrowed) = DOMAIN files \cup {Text(p)}
      BY TrackedFacts
    <3> QED BY <3>4, <3>5 DEF Known, Text
  <2>3. CASE OnTheWay(p)
    <3>1. PICK j \in 0 .. Len(p) - 1 : Stacked(p, j) \/ Awaited(p, j)
      BY <2>3 DEF OnTheWay
    <3>2. CASE Stacked(p, j)
      BY <1>a, <2>1, <3>2 DEF Stacked, Ancestor
    <3>3. CASE Awaited(p, j)
      <4>1. dir.place = Ancestor(p, j) /\ p[j + 1] \in listed /\ p[j + 1] \notin returned
        BY <2>1, <3>3 DEF Awaited
      <4>2. Awaited(p, j)'
        BY <2>1, <4>1 DEF Awaited, Listing, Ancestor
      <4> QED BY <1>a, <4>2
    <3> QED BY <3>1, <3>2, <3>3
  <2> QED BY <2>2, <2>3
<1>10. CASE \/ startRefused
            \/ \E q \in Places, k \in {"file", "dir", "other", "absent"}, n \in Sizes :
                 othersChange(q, k, n)
  <2>1. UNCHANGED <<dirs, dir, listed, returned, entry>> /\ pc' = pc
    BY <1>10 DEF startRefused, othersChange, listing
  <2> QED BY <2>1, WayStays
<1>11. CASE startWatching
  <2>1. pc = "idle" /\ dirs = <<>>
    BY <1>0, <1>11 DEF startWatching, ActiveInv
  <2>2. \A i \in 1 .. Len(dirs) : FALSE
    BY <2>1
  <2> QED BY <2>1, <2>2 DEF OnTheWay, Statted, Stacked, Awaited, Listing
<1>12. CASE destroy
  BY <1>12 DEF destroy
<1> QED BY <1>1, <1>2, <1>3, <1>4, <1>5, <1>6, <1>7, <1>8, <1>9, <1>10, <1>11, <1>12
        DEF Next, Step

LEMMA WayInductive == TypeInv /\ WayInv /\ [Next]_vars => WayInv'
<1> SUFFICES ASSUME TypeInv, WayInv, [Next]_vars, pc' # "gone", fd', ~failed',
                    NEW p \in steady'
             PROVE  Known(p)' \/ Statted(p)' \/ OnTheWay(p)'
  BY DEF WayInv
<1>0. Types /\ ActiveInv /\ SteadyInv
  BY DEF TypeInv
<1>1. p \in steady
  BY DEF Next, Step, vars, startRefused, startWatching, openDir, openDirFails, listingEnds,
         endOfDir, statDir, statFile, statNothing, statAgain, readEntry, othersChange,
         destroy, world
<1>2. p \in Places /\ p \in Seq(Letter) /\ Len(p) \in Nat /\ Len(p) >= 1
  BY <1>0, <1>1, PlaceFacts DEF SteadyInv
<1>3. CASE startWatching
  <2>1. dirs' = <<[text |-> path, place |-> <<>>]>>
    BY <1>3 DEF startWatching
  <2>2. 1 \in 1 .. Len(dirs') /\ dirs'[1].place = <<>>
    BY <2>1
  <2>3. 0 \in 0 .. Len(p) - 1 /\ Ancestor(p, 0) = <<>>
    BY <1>2, SubSeqEmpty DEF Ancestor
  <2>4. Stacked(p, 0)'
    BY <2>2, <2>3 DEF Stacked, Ancestor
  <2> QED BY <2>3, <2>4 DEF OnTheWay
<1>4. CASE ~startWatching
  <2>1. pc # "gone" /\ fd /\ ~failed
    <3>1. CASE Step
      <4>1. fd' = fd /\ pc # "gone"
        BY <3>1, StepFrame DEF Step, openDir, openDirFails, listingEnds, endOfDir, statDir,
                               statFile, statNothing, statAgain, readEntry
      <4>2. failed' \/ failed' = failed
        BY <3>1 DEF Step, openDir, openDirFails, listingEnds, endOfDir, statDir, statFile,
                    statNothing, statAgain, readEntry
      <4> QED BY <4>1, <4>2
    <3>2. CASE ~Step /\ ~destroy
      <4>1. pc' = pc /\ fd' = fd /\ failed' = failed
        BY <1>4, <3>2 DEF Next, vars, startRefused, othersChange
      <4> QED BY <4>1
    <3>3. ~destroy
      BY DEF destroy
    <3> QED BY <3>1, <3>2, <3>3
  <2>2. Known(p) \/ Statted(p) \/ OnTheWay(p)
    BY <1>1, <2>1 DEF WayInv
  <2>3. CASE Known(p)
    BY <2>3, KnownStays
  <2>4. CASE UNCHANGED vars
    <3>1. UNCHANGED <<dirs, dir, listed, returned, entry, pc, files>>
      BY <2>4 DEF vars, listing
    <3> QED BY <2>2, <3>1, WayStays DEF Known, Text
  <2>5. CASE ~Known(p) /\ Next
    BY <1>1, <2>2, <2>5, WayStep
  <2> QED BY <2>3, <2>4, <2>5
<1> QED BY <1>3, <1>4

\* Whatever the others do, a listing that was not cut short knows every file
\* that was there from before start() until now, and was never replaced.
THEOREM StayingCorrect == Spec => []StayingFilesListed
<1>1. Init => TypeInv /\ WayInv
  BY TypeInit DEF Init, WayInv
<1>2. TypeInv /\ [Next]_vars => TypeInv'
  BY TypesInductive, ActiveInductive DEF TypeInv
<1>3. TypeInv /\ WayInv => StayingFilesListed
  <2> SUFFICES ASSUME TypeInv, WayInv, fd, pc = "idle", ~failed, NEW p \in steady
               PROVE  Text(p) \in DOMAIN files
    BY DEF StayingFilesListed
  <2>1. Len(dirs) = 0
    BY DEF TypeInv, ActiveInv
  <2>2. \A i \in 1 .. Len(dirs) : FALSE
    BY <2>1
  <2>3. Known(p) \/ Statted(p) \/ OnTheWay(p)
    BY DEF WayInv
  <2> QED BY <2>2, <2>3 DEF Known, Statted, OnTheWay, Stacked, Awaited, Listing
<1> QED BY <1>1, <1>2, <1>3, WayInductive, PTL DEF Spec

-----------------------------------------------------------------------------
(* While nobody disturbs the directory, the table holds nothing else.        *)

QuietInv ==
  changes = 0 =>
    /\ \A k \in DOMAIN files :
         \E p \in Places : kind[p] = "file" /\ k = Text(p) /\ files[k] = size[p] % UIntRange
    /\ pc = "statAgain" => kind[Here] = "file"

LEMMA QuietInductive == TypeInv /\ QuietInv /\ [Next]_vars => QuietInv'
<1> SUFFICES ASSUME TypeInv, QuietInv, [Next]_vars, changes' = 0 PROVE QuietInv'
  BY DEF QuietInv
<1>0. Types
  BY DEF TypeInv
<1>1. changes = 0 /\ UNCHANGED <<kind, size>>
  <2>1. CASE \E p \in Places, k \in {"file", "dir", "other", "absent"}, n \in Sizes :
               othersChange(p, k, n)
    <3>1. changes' = changes + 1 /\ changes >= 0
      BY <1>0, <2>1, StaticAssumption DEF othersChange, Types
    <3> QED BY <1>0, <3>1 DEF Types
  <2>2. CASE ~\E p \in Places, k \in {"file", "dir", "other", "absent"}, n \in Sizes :
                othersChange(p, k, n)
    <3>1. UNCHANGED world
      BY <2>2, StepFrame DEF Next, vars, startRefused, startWatching, destroy
    <3> QED BY <3>1 DEF world
  <2> QED BY <2>1, <2>2
<1>2. /\ \A k \in DOMAIN files :
           \E p \in Places : kind[p] = "file" /\ k = Text(p) /\ files[k] = size[p] % UIntRange
      /\ pc = "statAgain" => kind[Here] = "file"
  BY <1>1 DEF QuietInv
<1>3. CASE statAgain
  <2>1. pc = "statAgain" /\ pc' = "read" /\ kind[Here] = "file"
    BY <1>2, <1>3 DEF statAgain
  <2>2. Listable(dir) /\ entry \in Letter /\ Here \in Places
    BY <1>0, <2>1 DEF Types, Listing
  <2>3. Key(tname) = Text(Here)
    BY <2>2, EntryText
  <2>4. files' = Tracked(Text(Here), Narrowed)
    BY <1>3, <2>1, <2>3 DEF statAgain, Narrowed
  <2>5. /\ DOMAIN Tracked(Text(Here), Narrowed) = DOMAIN files \cup {Text(Here)}
        /\ \A x \in DOMAIN files \cup {Text(Here)} :
             Tracked(Text(Here), Narrowed)[x] = IF x \in DOMAIN files THEN files[x]
                                                  ELSE Narrowed
    BY TrackedFacts
  <2>6. ASSUME NEW k \in DOMAIN files'
        PROVE  \E p \in Places : kind[p] = "file" /\ k = Text(p) /\ files'[k] = size[p] % UIntRange
    <3>1. CASE k \in DOMAIN files
      <4>1. files'[k] = files[k]
        BY <2>4, <2>5, <3>1
      <4> QED BY <1>2, <3>1, <4>1
    <3>2. CASE k \notin DOMAIN files
      <4>1. k = Text(Here) /\ files'[k] = Narrowed
        BY <2>4, <2>5, <2>6, <3>2
      <4> QED BY <2>1, <2>2, <4>1 DEF Narrowed
    <3> QED BY <3>1, <3>2
  <2> QED BY <1>1, <2>1, <2>6 DEF QuietInv, Text
<1>4. CASE statFile
  <2>1. kind[Here] = "file" /\ UNCHANGED <<dir, entry, files>>
    BY <1>4 DEF statFile, listing
  <2> QED BY <1>1, <1>2, <2>1 DEF QuietInv, Text, Here
<1>5. CASE destroy
  <2>1. DOMAIN files' = {} /\ pc' = "gone"
    BY <1>5 DEF destroy
  <2> QED BY <2>1 DEF QuietInv
<1>6. CASE ~statAgain /\ ~statFile /\ ~destroy
  <2>1. UNCHANGED files /\ (pc' = "statAgain" => pc = "statAgain" /\ UNCHANGED <<dir, entry>>)
    BY <1>6 DEF Next, Step, vars, startRefused, startWatching, openDir, openDirFails,
                listingEnds, endOfDir, statDir, statNothing, readEntry, othersChange,
                listing, Returns, NextEntry
  <2> QED BY <1>1, <1>2, <2>1 DEF QuietInv, Text, Here
<1> QED BY <1>3, <1>4, <1>5, <1>6

\* When nobody touched the directory and every part of it could be opened, the
\* table holds exactly the files that are there, under what their URLs leave
\* behind the prefix, with their sizes modulo 2^32.
THEOREM QuietCorrect == Spec => []QuietListingExact
<1>1. Init => TypeInv /\ WayInv /\ QuietInv
  <2>0. Init => files = <<>> /\ pc = "idle"
    BY DEF Init
  <2>1. Init => DOMAIN files = {} /\ pc = "idle"
    BY <2>0
  <2>2. Init => QuietInv
    BY <2>1 DEF QuietInv
  <2> QED BY <2>2, TypeInit DEF Init, WayInv
<1>2. TypeInv /\ [Next]_vars => TypeInv'
  BY TypesInductive, ActiveInductive DEF TypeInv
<1>3. StayingFilesListed /\ TypeInv /\ QuietInv => QuietListingExact
  <2> SUFFICES ASSUME StayingFilesListed, TypeInv, QuietInv,
                      fd, pc = "idle", changes = 0, ~failed
               PROVE  LET there == {p \in Places : kind[p] = "file"}
                      IN /\ DOMAIN files = {Looked(Prefix \o Text(p)) : p \in there}
                         /\ \A p \in there : files[Looked(Prefix \o Text(p))] = size[p] % UIntRange
    BY DEF QuietListingExact
  <2> DEFINE there == {p \in Places : kind[p] = "file"}
  <2>1. ASSUME NEW p \in Places PROVE Looked(Prefix \o Text(p)) = Text(p)
    <3>1. p \in Seq(Letter) /\ p # <<>>
      BY PlaceFacts, EmptySeq
    <3>2. Text(p) \in Seq(Letter)
      BY <3>1, TextFacts
    <3> QED BY <3>2, LookedFacts
  <2>2. steady = there
    BY DEF TypeInv, SteadyInv
  <2>3. ASSUME NEW p \in there PROVE Text(p) \in DOMAIN files /\ files[Text(p)] = size[p] % UIntRange
    <3>1. Text(p) \in DOMAIN files
      BY <2>2 DEF StayingFilesListed
    <3>2. PICK q \in Places : Text(p) = Text(q) /\ files[Text(p)] = size[q] % UIntRange
      BY <3>1 DEF QuietInv
    <3>3. p = q
      BY <3>2, TextInjective
    <3> QED BY <3>1, <3>2, <3>3
  <2>4. ASSUME NEW k \in DOMAIN files PROVE \E p \in there : k = Text(p)
    BY DEF QuietInv
  <2>5. DOMAIN files = {Looked(Prefix \o Text(p)) : p \in there}
    <3>1. ASSUME NEW k \in DOMAIN files PROVE k \in {Looked(Prefix \o Text(p)) : p \in there}
      BY <2>1, <2>4
    <3>2. ASSUME NEW p \in there PROVE Looked(Prefix \o Text(p)) \in DOMAIN files
      BY <2>1, <2>3
    <3> QED BY <3>1, <3>2
  <2>6. ASSUME NEW p \in there PROVE files[Looked(Prefix \o Text(p))] = size[p] % UIntRange
    BY <2>1, <2>3
  <2> QED BY <2>5, <2>6
<1> QED BY <1>1, <1>2, <1>3, QuietInductive, StayingCorrect, PTL DEF Spec

=============================================================================
