-------------------------- MODULE MemoryBufferProofs --------------------------
(***************************************************************************)
(* For every page size and all sizes of writes and reads, MemoryBuffer     *)
(* implements ByteQueue and stored() counts the unread bytes.              *)
(***************************************************************************)
EXTENDS MemoryBuffer, TLAPS

\* The number of the byte in slot 0 of page i, and of the last byte delivered.
First(i) == pool[i].data[0]
Handed == taken + (IF pc = "read" THEN gcount ELSE 0)

\* Every page but the last is full; only a first page may hold nothing.
Shape ==
  \A i \in 1 .. Len(pool) :
    /\ pool[i].begin <= pool[i].end
    /\ i < Len(pool) => pool[i].end = PageSize
    /\ i > 1 => pool[i].end > 0

\* The bytes of a page follow one another.
Numbered ==
  \A i \in 1 .. Len(pool) : \A j \in Slots :
    j < pool[i].end => pool[i].data[j] = First(i) + j

\* ... so do those of successive pages,
Chained == \A i \in 1 .. Len(pool) - 1 : First(i + 1) = First(i) + PageSize

\* ... and the last of them is the last byte written.
LastByte ==
  pool # <<>> /\ pool[Len(pool)].end > 0 =>
    First(Len(pool)) + pool[Len(pool)].end = wrote + 1

\* An earlier page holds earlier bytes, and no byte was written after `wrote`.
Ordered ==
  \A i, k \in 1 .. Len(pool) : i < k => First(i) + PageSize <= First(k)

\* The read part of a page is what was delivered of its bytes.
ReadPart(i) ==
  LET p == pool[i] IN
    p.end > 0 =>
      \/ Handed < First(i) /\ p.begin = 0
      \/ First(i) <= Handed /\ Handed < First(i) + p.end /\ p.begin = Handed - First(i) + 1
      \/ First(i) + p.end <= Handed + 1 /\ p.begin = p.end

ReadExactly == \A i \in 1 .. Len(pool) : ReadPart(i)

\* No undelivered byte is missing at the front.
FrontByte ==
  /\ Handed <= wrote
  /\ pool = <<>> \/ pool[1].end = 0 => Handed = wrote
  /\ pool # <<>> /\ pool[1].end > 0 => First(1) <= Handed + 1

\* What each loop knows when it takes a turn.
Control ==
  /\ pc = "write" => pool # <<>> /\ pool[Len(pool)].end = PageSize /\ remain > 0
  /\ pc = "read" =>
       /\ it \in 1 .. Len(pool) \/ (pool = <<>> /\ it = 1 /\ gcount = 0)
       /\ \A i \in 1 .. Len(pool) : i < it => pool[i].begin = pool[i].end
       /\ Len(dest) = gcount
       /\ \A j \in 1 .. gcount : dest[j] = taken + j
  /\ pc = "pop" /\ pool = <<>> => gcount = 0
  /\ pc = "undefined" => gcount = 0 /\ taken = wrote

Inv == /\ TypeOK /\ StoredIsUnread /\ Shape /\ Numbered /\ Chained /\ LastByte
       /\ Ordered /\ ReadExactly /\ FrontByte /\ Control
-------------------------------------------------------------------------------
\* Writing into a page.
LEMMA WriteFacts ==
  ASSUME NEW p \in Page, NEW n \in Nat, n <= remainSize(p), wrote \in Nat
  PROVE  LET q == StorageWrite(p, n) IN
           /\ q \in Page /\ q.begin = p.begin /\ q.end = p.end + n
           /\ \A i \in Slots : q.data[i] = IF i \in p.end .. p.end + n - 1
                                             THEN wrote + 1 + (i - p.end) ELSE p.data[i]
<1>2. p.data \in [Slots -> Nat] /\ p.begin \in 0 .. PageSize /\ p.end \in 0 .. PageSize
  BY DEF Page
<1>3. /\ Copied(p, n) \in [Slots -> Nat]
      /\ \A i \in Slots : Copied(p, n)[i] = IF i \in p.end .. p.end + n - 1
                                              THEN wrote + 1 + (i - p.end) ELSE p.data[i]
  BY <1>2, PageSizeAssumption, SMTT(60) DEF Slots, Copied
<1>4. p.end + n \in 0 .. PageSize
  BY <1>2, PageSizeAssumption DEF remainSize
<1> QED BY <1>2, <1>3, <1>4 DEF Page, StorageWrite

\* A new page.
LEMMA NewPageFacts == NewPage \in Page /\ NewPage.begin = 0 /\ NewPage.end = 0
  BY PageSizeAssumption DEF NewPage, Page, Slots

\* Reading from a page.
LEMMA ReadFacts ==
  ASSUME NEW p \in Page, NEW n \in Nat, n <= storedSize(p)
  PROVE  LET q == StorageRead(p, n) IN
           /\ q \in Page /\ q.begin = p.begin + n /\ q.end = p.end /\ q.data = p.data
<1>1. p.begin + n \in 0 .. PageSize
  BY PageSizeAssumption DEF Page, storedSize
<1> QED BY <1>1 DEF Page, StorageRead
-------------------------------------------------------------------------------
\* The part of the invariant that speaks of the pages.
PagesInv == /\ StoredIsUnread /\ Shape /\ Numbered /\ Chained /\ LastByte
            /\ Ordered /\ ReadExactly /\ FrontByte

\* A turn of write() that adds a page behind full ones.
LEMMA AppendPage ==
  ASSUME TypeOK, PagesInv, NEW n \in Nat, n <= PageSize, n > 0 \/ pool = <<>>,
         pool # <<>> => pool[Len(pool)].end = PageSize,
         pc \in {"idle", "write"}, pc' \in {"idle", "write"},
         pool' = Append(pool, StorageWrite(NewPage, n)),
         wrote' = wrote + n, stored' = stored + n, taken' = taken
  PROVE  /\ pool' \in Seq(Page) /\ PagesInv'
         /\ pool' # <<>> /\ pool'[Len(pool')].end = n
<1> DEFINE q == StorageWrite(NewPage, n)
<1>0. PICK L \in Nat : L = Len(pool)
  BY DEF TypeOK
<1>1. /\ q \in Page /\ q.begin = 0 /\ q.end = n
      /\ \A i \in Slots : i < n => q.data[i] = wrote + 1 + i
  <2>1. n <= remainSize(NewPage) /\ wrote \in Nat
    BY NewPageFacts, PageSizeAssumption DEF remainSize, TypeOK
  <2> QED BY <2>1, WriteFacts, NewPageFacts DEF Slots
<1>2. /\ L = Len(pool) /\ Len(pool') = L + 1 /\ pool' \in Seq(Page)
      /\ \A i \in 1 .. L : pool'[i] = pool[i] /\ pool[i] \in Page
      /\ pool'[L + 1] = q
  BY <1>0, <1>1 DEF TypeOK
<1>3. /\ wrote \in Nat /\ taken \in Nat /\ wrote' \in Nat
      /\ 0 \in Slots /\ PageSize \in Nat /\ PageSize > 0
  BY PageSizeAssumption DEF TypeOK, Slots
<1>4. Handed' = taken /\ Handed = taken /\ taken <= wrote
  BY <1>3 DEF Handed, PagesInv, FrontByte
<1>5. \A i \in 1 .. L : First(i)' = First(i) /\ First(i) \in Nat
  BY <1>2, <1>3 DEF First, Page
<1>6. n > 0 => First(L + 1)' = wrote + 1
  BY <1>1, <1>2, <1>3 DEF First
<1>7. L > 0 => First(L) + PageSize = wrote + 1 /\ pool[L].end = PageSize /\ n > 0
  BY <1>2, <1>3 DEF PagesInv, LastByte
<1> HIDE DEF q
<1>8. StoredIsUnread'
  <2>1. pc # "read" /\ pc' # "read" /\ stored \in Nat
    BY DEF TypeOK
  <2>2. stored = wrote - taken
    BY <1>3, <2>1 DEF PagesInv, StoredIsUnread
  <2>3. stored' = wrote' - taken'
    BY <1>3, <2>1, <2>2
  <2> QED BY <1>3, <2>1, <2>3 DEF StoredIsUnread
<1>9. Shape'
  BY <1>1, <1>2, <1>3, <1>7 DEF PagesInv, Shape
<1>10. Numbered'
  <2> SUFFICES ASSUME NEW i \in 1 .. L + 1, NEW j \in Slots, j < pool'[i].end
               PROVE  pool'[i].data[j] = First(i)' + j
    BY <1>2 DEF Numbered
  <2>1. CASE i <= L
    BY <1>2, <1>5, <2>1 DEF PagesInv, Numbered
  <2>2. CASE i = L + 1
    BY <1>1, <1>2, <1>3, <1>6, <2>2 DEF Slots
  <2> QED BY <1>2, <2>1, <2>2
<1>11. Chained'
  <2> SUFFICES ASSUME NEW i \in 1 .. L PROVE First(i + 1)' = First(i)' + PageSize
    BY <1>2 DEF Chained
  <2>1. CASE i < L
    BY <1>2, <1>5, <2>1, SMTT(60) DEF PagesInv, Chained
  <2>2. CASE i = L
    BY <1>2, <1>5, <1>6, <1>7, <2>2
  <2> QED BY <1>2, <2>1, <2>2
<1>12. LastByte'
  BY <1>1, <1>2, <1>3, <1>6 DEF LastByte
<1>13. Ordered'
  <2> SUFFICES ASSUME NEW i \in 1 .. L + 1, NEW k \in 1 .. L + 1, i < k
               PROVE  First(i)' + PageSize <= First(k)'
    BY <1>2 DEF Ordered
  <2>1. CASE k <= L
    BY <1>2, <1>5, <2>1, SMTT(60) DEF PagesInv, Ordered
  <2>2. CASE k = L + 1
    <3>1. First(i) <= First(L) /\ i \in 1 .. L /\ L > 0
      <4>1. CASE i = L
        BY <1>2, <1>3, <1>5, <2>2, <4>1
      <4>2. CASE i < L
        BY <1>2, <1>3, <1>5, <2>2, <4>2 DEF PagesInv, Ordered
      <4> QED BY <1>2, <2>2, <4>1, <4>2
    <3> QED BY <1>2, <1>3, <1>5, <1>6, <1>7, <2>2, <3>1
  <2> QED BY <1>2, <2>1, <2>2
<1>14. ReadExactly'
  <2> SUFFICES ASSUME NEW i \in 1 .. L + 1 PROVE ReadPart(i)'
    BY <1>2 DEF ReadExactly
  <2>1. CASE i <= L
    BY <1>2, <1>4, <1>5, <2>1 DEF PagesInv, ReadExactly, ReadPart
  <2>2. CASE i = L + 1
    BY <1>1, <1>2, <1>3, <1>4, <1>6, <2>2 DEF ReadPart
  <2> QED BY <1>2, <2>1, <2>2
<1>15. FrontByte'
  <2>1. CASE pool = <<>>
    BY <1>1, <1>2, <1>3, <1>4, <1>6, <2>1 DEF PagesInv, FrontByte
  <2>2. CASE pool # <<>>
    <3>1. L > 0 /\ 1 \in 1 .. L
      BY <1>2, <2>2 DEF TypeOK
    <3>2. pool[1].end > 0
      BY <1>2, <1>3, <1>7, <3>1 DEF PagesInv, Shape
    <3> QED BY <1>2, <1>3, <1>4, <1>5, <2>2, <3>1, <3>2 DEF PagesInv, FrontByte
  <2> QED BY <2>1, <2>2
<1>16. pool' # <<>> /\ pool'[Len(pool')].end = n
  BY <1>1, <1>2
<1> QED
  BY <1>2, <1>8, <1>9, <1>10, <1>11, <1>12, <1>13, <1>14, <1>15, <1>16 DEF PagesInv

\* The first turn of write() when there is a last page to fill up.
LEMMA FillLast ==
  ASSUME TypeOK, PagesInv, pool # <<>>,
         NEW n \in Nat, n <= remainSize(pool[Len(pool)]),
         pc = "idle", pc' \in {"idle", "write"},
         pool' = [pool EXCEPT ![Len(pool)] = StorageWrite(pool[Len(pool)], n)],
         wrote' = wrote + n, stored' = stored + n, taken' = taken
  PROVE  /\ pool' \in Seq(Page) /\ PagesInv'
         /\ pool' # <<>> /\ pool'[Len(pool')].end = pool[Len(pool)].end + n
<1>0. PICK L \in Nat : L = Len(pool) /\ L > 0
  BY DEF TypeOK
<1> DEFINE p == pool[L]
           q == StorageWrite(p, n)
<1>1. /\ q \in Page /\ q.begin = p.begin /\ q.end = p.end + n
      /\ \A i \in Slots : q.data[i] = IF i \in p.end .. p.end + n - 1
                                        THEN wrote + 1 + (i - p.end) ELSE p.data[i]
  <2>1. p \in Page /\ wrote \in Nat
    BY <1>0 DEF TypeOK
  <2> QED BY <1>0, <2>1, WriteFacts
<1>2. /\ L = Len(pool) /\ Len(pool') = L /\ pool' \in Seq(Page)
      /\ \A i \in 1 .. L : i # L => pool'[i] = pool[i]
      /\ \A i \in 1 .. L : pool[i] \in Page
      /\ pool'[L] = q
  BY <1>0, <1>1 DEF TypeOK
<1>3. /\ wrote \in Nat /\ taken \in Nat /\ wrote' \in Nat
      /\ 0 \in Slots /\ PageSize \in Nat /\ PageSize > 0
      /\ p \in Page /\ p.end \in Nat /\ p.begin \in Nat /\ p.begin <= p.end
      /\ p.end + n <= PageSize
  <2>1. p \in Page /\ p.begin <= p.end
    BY <1>0, <1>2 DEF PagesInv, Shape
  <2>2. p.end \in 0 .. PageSize /\ p.begin \in 0 .. PageSize
    BY <2>1 DEF Page
  <2>3. n <= PageSize - p.end
    BY <1>0 DEF remainSize
  <2>4. PageSize \in Nat /\ PageSize > 0 /\ 0 \in Slots
    BY PageSizeAssumption DEF Slots
  <2>5. wrote \in Nat /\ taken \in Nat /\ wrote' \in Nat
    BY DEF TypeOK
  <2> HIDE DEF p
  <2> QED BY <2>1, <2>2, <2>3, <2>4, <2>5
<1>4. Handed' = taken /\ Handed = taken /\ taken <= wrote
  BY <1>3 DEF Handed, PagesInv, FrontByte
<1>5. \A i \in 1 .. L : First(i) \in Nat /\ (i # L => First(i)' = First(i))
  BY <1>2, <1>3 DEF First, Page
<1>6. /\ p.end > 0 => First(L)' = First(L) /\ First(L) + p.end = wrote + 1
      /\ p.end = 0 /\ n > 0 => First(L)' = wrote + 1
      /\ L > 1 => p.end > 0
  <2>1. p.end > 0 => First(L)' = First(L)
    BY <1>1, <1>2, <1>3 DEF First
  <2>2. p.end > 0 => First(L) + p.end = wrote + 1
    BY <1>0 DEF PagesInv, LastByte
  <2>3. p.end = 0 /\ n > 0 => First(L)' = wrote + 1
    BY <1>1, <1>2, <1>3 DEF First
  <2>4. L > 1 => p.end > 0
    BY <1>0 DEF PagesInv, Shape
  <2> QED BY <2>1, <2>2, <2>3, <2>4
<1> HIDE DEF q, p
<1>8. StoredIsUnread'
  <2>1. pc # "read" /\ pc' # "read" /\ stored \in Nat
    BY DEF TypeOK
  <2>2. stored = wrote - taken
    BY <1>3, <2>1 DEF PagesInv, StoredIsUnread
  <2>3. stored' = wrote' - taken'
    BY <1>3, <2>1, <2>2
  <2> QED BY <1>3, <2>1, <2>3 DEF StoredIsUnread
<1>9. Shape'
  BY <1>1, <1>2, <1>3, <1>6 DEF PagesInv, Shape
<1>10. Numbered'
  <2> SUFFICES ASSUME NEW i \in 1 .. L, NEW j \in Slots, j < pool'[i].end
               PROVE  pool'[i].data[j] = First(i)' + j
    BY <1>2 DEF Numbered
  <2>1. CASE i # L
    BY <1>2, <1>5, <2>1 DEF PagesInv, Numbered
  <2>2. CASE i = L /\ j < p.end
    <3>1. p.data[j] = First(L) + j
      BY <1>0, <2>2 DEF PagesInv, Numbered, p
    <3>2. q.data[j] = p.data[j]
      BY <1>1, <1>3, <2>2, SMTT(60) DEF Slots
    <3> QED BY <1>2, <1>3, <1>6, <2>2, <3>1, <3>2 DEF Slots
  <2>3. CASE i = L /\ j >= p.end
    <3>1. q.data[j] = wrote + 1 + (j - p.end) /\ n > 0
      BY <1>1, <1>2, <1>3, <2>3, SMTT(60) DEF Slots
    <3> QED BY <1>2, <1>3, <1>5, <1>6, <2>3, <3>1, SMTT(60) DEF Slots
  <2> QED BY <1>3, <2>1, <2>2, <2>3 DEF Slots
<1>11. Chained'
  <2> SUFFICES ASSUME NEW i \in 1 .. L - 1 PROVE First(i + 1)' = First(i)' + PageSize
    BY <1>2 DEF Chained
  <2>1. First(i + 1) = First(i) + PageSize
    BY <1>0 DEF PagesInv, Chained
  <2>2. First(i + 1)' = First(i + 1)
    BY <1>0, <1>3, <1>5, <1>6
  <2> QED BY <1>5, <2>1, <2>2
<1>12. LastByte'
  <2> SUFFICES ASSUME p.end + n > 0 PROVE First(L)' + (p.end + n) = wrote' + 1
    BY <1>1, <1>2 DEF LastByte
  <2>1. CASE p.end > 0
    <3>1. First(L) \in Nat /\ First(L)' = First(L) /\ First(L) + p.end = wrote + 1
      BY <1>0, <1>5, <1>6, <2>1
    <3> QED BY ONLY <1>3, <3>1, wrote' = wrote + n, n \in Nat
  <2>2. CASE p.end = 0
    BY <1>3, <1>6, <2>2
  <2> QED BY <1>3, <2>1, <2>2
<1>13. Ordered'
  <2> SUFFICES ASSUME NEW i \in 1 .. L, NEW k \in 1 .. L, i < k
               PROVE  First(i)' + PageSize <= First(k)'
    BY <1>2 DEF Ordered
  <2>1. First(i) + PageSize <= First(k)
    BY <1>0 DEF PagesInv, Ordered
  <2>2. First(k)' = First(k) /\ First(i)' = First(i)
    BY <1>0, <1>3, <1>5, <1>6
  <2> QED BY <2>1, <2>2
<1>14. ReadExactly'
  <2> SUFFICES ASSUME NEW i \in 1 .. L PROVE ReadPart(i)'
    BY <1>2 DEF ReadExactly
  <2>1. CASE i # L
    BY <1>2, <1>4, <1>5, <2>1 DEF PagesInv, ReadExactly, ReadPart
  <2>2. CASE i = L /\ p.end > 0
    <3>1. ReadPart(L)
      BY <1>0 DEF PagesInv, ReadExactly
    <3>2. /\ First(L) \in Nat /\ First(L)' = First(L) /\ First(L) + p.end = wrote + 1
          /\ pool'[L].end = p.end + n /\ pool'[L].begin = p.begin
      BY <1>0, <1>1, <1>2, <1>5, <1>6, <2>2
    <3>3. \/ taken < First(L) /\ p.begin = 0
          \/ First(L) <= taken /\ taken < First(L) + p.end /\ p.begin = taken - First(L) + 1
          \/ First(L) + p.end <= taken + 1 /\ p.begin = p.end
      BY <1>4, <2>2, <3>1 DEF ReadPart, p
    <3>4. \/ taken < First(L) /\ p.begin = 0
          \/ First(L) <= taken /\ taken < First(L) + (p.end + n) /\ p.begin = taken - First(L) + 1
          \/ First(L) + (p.end + n) <= taken + 1 /\ p.begin = p.end + n
      BY ONLY <1>3, <1>4, <3>2, <3>3, n \in Nat
    <3> QED BY <1>4, <2>2, <3>2, <3>4 DEF ReadPart
  <2>3. CASE i = L /\ p.end = 0
    BY <1>1, <1>2, <1>3, <1>4, <1>6, <2>3 DEF ReadPart
  <2> QED BY <1>3, <2>1, <2>2, <2>3
<1>15. FrontByte'
  <2>1. CASE L = 1
    BY <1>1, <1>2, <1>3, <1>4, <1>5, <1>6, <2>1, SMTT(60) DEF PagesInv, FrontByte, p
  <2>2. CASE L > 1
    BY <1>2, <1>3, <1>4, <1>5, <2>2, SMTT(60) DEF PagesInv, FrontByte, Shape
  <2> QED BY <1>0, <2>1, <2>2
<1>16. pool' # <<>> /\ pool'[Len(pool')].end = p.end + n
  BY <1>0, <1>1, <1>2
<1> QED
  BY <1>0, <1>2, <1>8, <1>9, <1>10, <1>11, <1>12, <1>13, <1>14, <1>15, <1>16 DEF PagesInv, p
-------------------------------------------------------------------------------
\* The bytes at the page read() has come to are the next ones to deliver.
LEMMA NextByte ==
  ASSUME TypeOK, PagesInv, Control, pc = "read", it \in 1 .. Len(pool),
         pool[it].begin < pool[it].end
  PROVE  First(it) + pool[it].begin = Handed + 1
<1>1. /\ it \in Nat /\ it >= 1 /\ PageSize \in Nat /\ PageSize > 0 /\ Handed \in Nat
      /\ Len(pool) \in Nat
      /\ \A i \in 1 .. Len(pool) : /\ First(i) \in Nat
                                   /\ pool[i].begin \in Nat /\ pool[i].end \in Nat
  <2>1. \A i \in 1 .. Len(pool) : pool[i] \in Page
    BY DEF TypeOK
  <2>2. 0 \in Slots /\ PageSize \in Nat /\ PageSize > 0
    BY PageSizeAssumption DEF Slots
  <2>3. \A i \in 1 .. Len(pool) : /\ First(i) \in Nat
                                  /\ pool[i].begin \in Nat /\ pool[i].end \in Nat
    BY <2>1, <2>2 DEF Page, First
  <2>4. Handed \in Nat
    BY DEF TypeOK, Handed
  <2> QED BY <2>2, <2>3, <2>4 DEF TypeOK
<1>2. ReadPart(it)
  BY DEF PagesInv, ReadExactly
<1>3. First(it) <= Handed + 1
  <2>1. CASE it = 1
    BY <1>1, <2>1 DEF PagesInv, FrontByte
  <2>2. CASE it > 1
    <3>1. it - 1 \in 1 .. Len(pool) - 1
      BY <1>1, <2>2 DEF TypeOK
    <3>2. /\ pool[it - 1].begin = PageSize /\ pool[it - 1].end = PageSize
          /\ First((it - 1) + 1) = First(it - 1) + PageSize
      BY <1>1, <3>1 DEF Control, PagesInv, Shape, Chained
    <3>3. ReadPart(it - 1)
      BY <3>1 DEF PagesInv, ReadExactly, TypeOK
    <3> QED BY <1>1, <3>1, <3>2, <3>3 DEF ReadPart
  <2> QED BY <1>1, <2>1, <2>2
<1> QED BY <1>1, <1>2, <1>3 DEF ReadPart

\* A turn of read().
LEMMA ReadTurn ==
  ASSUME TypeOK, PagesInv, Control, pc = "read", it \in 1 .. Len(pool),
         NEW n \in Nat, n <= storedSize(pool[it]),
         pool' = [pool EXCEPT ![it] = StorageRead(pool[it], n)],
         stored' = stored - n, gcount' = gcount + n, wrote' = wrote,
         \/ pc' = "read" /\ taken' = taken
         \/ pc' = "pop" /\ taken' = taken + gcount + n
  PROVE  /\ pool' \in Seq(Page) /\ PagesInv'
         /\ Handed' = Handed + n
         /\ Len(pool') = Len(pool)
         /\ \A i \in 1 .. Len(pool) : i # it => pool'[i] = pool[i]
         /\ pool'[it].begin = pool[it].begin + n /\ pool'[it].end = pool[it].end
<1>0. PICK L \in Nat, t \in Nat : L = Len(pool) /\ t = it /\ t \in 1 .. L
  BY DEF TypeOK
<1>1. /\ pool[t] \in Page /\ StorageRead(pool[t], n) \in Page
      /\ StorageRead(pool[t], n).begin = pool[t].begin + n
      /\ StorageRead(pool[t], n).end = pool[t].end
      /\ StorageRead(pool[t], n).data = pool[t].data
  <2>1. pool[t] \in Page
    BY <1>0 DEF TypeOK
  <2> QED BY <1>0, <2>1, ReadFacts
<1>2. /\ L = Len(pool) /\ Len(pool') = L /\ pool' \in Seq(Page)
      /\ \A i \in 1 .. L : i # t => pool'[i] = pool[i]
      /\ \A i \in 1 .. L : pool[i] \in Page
      /\ pool'[t].begin = pool[t].begin + n
      /\ \A i \in 1 .. L : pool'[i].data = pool[i].data /\ pool'[i].end = pool[i].end
  BY <1>0, <1>1 DEF TypeOK
<1>3. /\ wrote \in Nat /\ taken \in Nat /\ gcount \in Nat /\ Handed \in Nat /\ stored \in Nat
      /\ PageSize \in Nat /\ PageSize > 0
      /\ \A i \in 1 .. L : /\ First(i) \in Nat /\ pool[i].begin \in Nat /\ pool[i].end \in Nat
                          /\ pool[i].begin <= pool[i].end /\ pool[i].end <= PageSize
  <2>1. 0 \in Slots /\ PageSize \in Nat /\ PageSize > 0
    BY PageSizeAssumption DEF Slots
  <2>2. \A i \in 1 .. L : /\ pool[i].begin \in Nat /\ pool[i].end \in Nat
                         /\ pool[i].end <= PageSize /\ First(i) \in Nat
    BY <1>2, <2>1 DEF Page, First
  <2>3. \A i \in 1 .. L : pool[i].begin <= pool[i].end
    BY <1>0 DEF PagesInv, Shape
  <2> QED BY <2>1, <2>2, <2>3 DEF TypeOK, Handed
<1>4. Handed' = Handed + n
  BY <1>3 DEF Handed
<1>5. \A i \in 1 .. L : First(i)' = First(i)
  BY <1>2 DEF First
<1>6. n > 0 => First(t) + pool[t].begin = Handed + 1
  BY <1>0, <1>3, NextByte DEF storedSize
<1>7. pool[t].begin + n <= pool[t].end
  BY <1>0, <1>3 DEF storedSize
<1>8. n > 0 => First(t) + pool[t].end <= wrote + 1
  <2> SUFFICES ASSUME n > 0 PROVE First(t) + pool[t].end <= wrote + 1
    OBVIOUS
  <2>1. CASE t = L
    BY <1>0, <1>3, <1>7, <2>1, SMTT(60) DEF PagesInv, LastByte
  <2>2. CASE t < L
    <3>1. /\ L \in 1 .. L /\ First(t) + PageSize <= First(L)
          /\ pool[L].end > 0 /\ First(L) + pool[L].end = wrote + 1
      BY <1>0, <2>2 DEF PagesInv, Ordered, LastByte, Shape
    <3>2. /\ First(t) \in Nat /\ First(L) \in Nat /\ pool[t].end \in Nat
          /\ pool[L].end \in Nat /\ pool[t].end <= PageSize
      BY <1>0, <1>3, <3>1
    <3> QED BY ONLY <1>3, <3>1, <3>2
  <2> QED BY <1>0, <2>1, <2>2
<1>9. Handed + n <= wrote
  <2>1. CASE n = 0
    BY <1>3, <2>1 DEF PagesInv, FrontByte
  <2>2. CASE n > 0
    <3>1. /\ First(t) \in Nat /\ pool[t].begin \in Nat /\ pool[t].end \in Nat
      BY <1>0, <1>3
    <3> QED BY ONLY <1>3, <1>6, <1>7, <1>8, <2>2, <3>1, n \in Nat
  <2> QED BY <2>1, <2>2
<1>10. StoredIsUnread'
  <2>1. stored = wrote - Handed
    BY <1>3 DEF PagesInv, StoredIsUnread, Handed
  <2>2. stored' = wrote' - Handed'
    BY <1>3, <1>4, <2>1
  <2>3. wrote' \in Nat /\ taken' \in Nat /\ gcount' \in Nat
    BY <1>3
  <2> QED BY <2>2, <2>3 DEF StoredIsUnread, Handed
<1>11. Shape'
  <2> SUFFICES ASSUME NEW i \in 1 .. L
               PROVE  /\ pool'[i].begin <= pool'[i].end
                      /\ i < L => pool'[i].end = PageSize
                      /\ i > 1 => pool'[i].end > 0
    BY <1>2 DEF Shape
  <2>1. pool'[i].begin <= pool'[i].end
    BY <1>2, <1>3, <1>7
  <2> QED BY <1>2, <2>1 DEF PagesInv, Shape
<1>12. Numbered' /\ Chained' /\ LastByte' /\ Ordered'
  <2>1. Numbered'
    BY <1>2, <1>5 DEF PagesInv, Numbered
  <2>2. Chained'
    <3> SUFFICES ASSUME NEW i \in 1 .. L - 1 PROVE First(i + 1)' = First(i)' + PageSize
      BY <1>2 DEF Chained
    <3>1. i \in 1 .. L /\ i + 1 \in 1 .. L /\ First(i + 1) = First(i) + PageSize
      BY <1>0 DEF PagesInv, Chained
    <3> QED BY <1>5, <3>1
  <2>3. LastByte'
    <3> SUFFICES ASSUME pool[L].end > 0
                 PROVE  First(L)' + pool[L].end = wrote + 1
      BY <1>0, <1>2 DEF LastByte
    <3> QED BY <1>0, <1>5 DEF PagesInv, LastByte
  <2>4. Ordered'
    BY <1>2, <1>5 DEF PagesInv, Ordered
  <2> QED BY <2>1, <2>2, <2>3, <2>4
<1>13. ReadExactly'
  <2> SUFFICES ASSUME NEW i \in 1 .. L PROVE ReadPart(i)'
    BY <1>2 DEF ReadExactly
  <2> DEFINE Goal == \/ Handed + n < First(i) /\ pool'[i].begin = 0
                     \/ /\ First(i) <= Handed + n /\ Handed + n < First(i) + pool[i].end
                        /\ pool'[i].begin = Handed + n - First(i) + 1
                     \/ First(i) + pool[i].end <= Handed + n + 1 /\ pool'[i].begin = pool[i].end
  <2> SUFFICES ASSUME pool[i].end > 0 PROVE Goal
    <3>1. pool'[i].end = pool[i].end /\ First(i)' = First(i)
      BY <1>2, <1>5
    <3>2. Handed \in Nat /\ First(i) \in Nat /\ pool[i].end \in Nat
      BY <1>3
    <3> HIDE DEF Goal
    <3>3. pool[i].end > 0 => Goal
      OBVIOUS
    <3> QED BY ONLY <1>4, <3>1, <3>2, <3>3, n \in Nat DEF ReadPart, Goal
  <2>1. /\ First(i) \in Nat /\ pool[i].begin \in Nat /\ pool[i].end \in Nat
        /\ First(t) \in Nat /\ pool[t].begin \in Nat /\ pool[t].end \in Nat
        /\ pool[t].end <= PageSize /\ pool[i].end <= PageSize
    BY <1>0, <1>3
  <2>2. \/ Handed < First(i) /\ pool[i].begin = 0
        \/ First(i) <= Handed /\ Handed < First(i) + pool[i].end /\ pool[i].begin = Handed - First(i) + 1
        \/ First(i) + pool[i].end <= Handed + 1 /\ pool[i].begin = pool[i].end
    BY <1>2 DEF PagesInv, ReadExactly, ReadPart
  <2>3. CASE n = 0
    <3>1. pool'[i].begin = pool[i].begin
      BY <1>0, <1>2, <2>1, <2>3
    <3> QED BY ONLY <1>3, <2>1, <2>2, <2>3, <3>1
  <2>4. CASE n > 0 /\ i = t
    <3>1. pool'[i].begin = pool[t].begin + n /\ First(i) = First(t) /\ pool[i].end = pool[t].end
      BY <1>2, <2>4
    <3> QED BY ONLY <1>3, <1>6, <1>7, <2>1, <2>4, <3>1, n \in Nat
  <2>5. CASE n > 0 /\ i < t
    <3>1. pool[i].begin = pool[i].end /\ pool'[i].begin = pool[i].begin
      BY <1>0, <1>2, <2>5 DEF Control
    <3> QED BY ONLY <1>3, <2>1, <2>2, <2>5, <3>1, n \in Nat, pool[i].end > 0
  <2>6. CASE n > 0 /\ i > t
    <3>1. pool'[i].begin = pool[i].begin /\ First(t) + PageSize <= First(i)
      BY <1>0, <1>2, <2>6 DEF PagesInv, Ordered
    <3> QED BY ONLY <1>3, <1>6, <1>7, <2>1, <2>2, <2>6, <3>1, n \in Nat, pool[i].end > 0
  <2> QED BY <1>0, <2>3, <2>4, <2>5, <2>6
<1>14. FrontByte'
  <2>1. pool' # <<>> /\ 1 \in 1 .. L
    BY <1>0, <1>2
  <2>2. pool[1].end > 0 => First(1)' <= Handed + n + 1
    <3>1. pool[1].end > 0 => First(1) <= Handed + 1
      BY <1>0, <2>1 DEF PagesInv, FrontByte
    <3> QED BY <1>3, <1>5, <2>1, <3>1
  <2>3. pool[1].end = 0 => Handed + n = wrote
    <3> SUFFICES ASSUME pool[1].end = 0 PROVE Handed + n = wrote
      OBVIOUS
    <3>1. Handed = wrote
      BY <1>0, <2>1 DEF PagesInv, FrontByte
    <3> QED BY <1>3, <1>9, <3>1
  <2> QED BY <1>2, <1>4, <1>9, <2>1, <2>2, <2>3 DEF FrontByte
<1> QED
  BY <1>0, <1>2, <1>4, <1>10, <1>11, <1>12, <1>13, <1>14 DEF PagesInv
-------------------------------------------------------------------------------
\* A turn of the loop that drops drained pages.
LEMMA PopTurn ==
  ASSUME TypeOK, PagesInv, pc = "pop", pool # <<>>, storedSize(pool[1]) = 0,
         pool' = Tail(pool), pc' \in {"idle", "pop"},
         UNCHANGED <<stored, gcount, wrote, taken>>
  PROVE  pool' \in Seq(Page) /\ PagesInv'
<1>0. PICK L \in Nat : L = Len(pool) /\ L > 0
  BY DEF TypeOK
<1>1. /\ Len(pool') = L - 1 /\ pool' \in Seq(Page)
      /\ \A i \in 1 .. L - 1 : pool'[i] = pool[i + 1] /\ i + 1 \in 1 .. L
      /\ \A i \in 1 .. L : pool[i] \in Page
  BY <1>0 DEF TypeOK
<1>2. /\ wrote \in Nat /\ Handed = taken /\ Handed' = taken /\ taken \in Nat
      /\ PageSize \in Nat /\ PageSize > 0
      /\ \A i \in 1 .. L : /\ First(i) \in Nat /\ pool[i].begin \in Nat /\ pool[i].end \in Nat
                          /\ pool[i].end <= PageSize
  <2>1. 0 \in Slots /\ PageSize \in Nat /\ PageSize > 0
    BY PageSizeAssumption DEF Slots
  <2>2. \A i \in 1 .. L : /\ pool[i].begin \in Nat /\ pool[i].end \in Nat
                         /\ pool[i].end <= PageSize /\ First(i) \in Nat
    BY <1>1, <2>1 DEF Page, First
  <2>3. wrote \in Nat /\ taken \in Nat
    BY DEF TypeOK
  <2> QED BY <2>1, <2>2, <2>3 DEF Handed
<1>3. \A i \in 1 .. L - 1 : First(i)' = First(i + 1)
  BY <1>1 DEF First
<1>4. /\ 1 \in 1 .. L /\ pool[1].begin = pool[1].end /\ taken <= wrote
      /\ pool[1].end = 0 => taken = wrote
      /\ pool[1].end > 0 => First(1) + pool[1].end <= taken + 1
  <2>1. 1 \in 1 .. L /\ pool[1].begin = pool[1].end
    BY <1>0, <1>2 DEF storedSize
  <2>2. taken <= wrote /\ (pool[1].end = 0 => taken = wrote)
    BY <1>2 DEF PagesInv, FrontByte
  <2>3. ReadPart(1)
    BY <1>0, <2>1 DEF PagesInv, ReadExactly
  <2> QED BY <1>2, <2>1, <2>2, <2>3 DEF ReadPart
<1>5. Shape' /\ Numbered' /\ StoredIsUnread'
  <2>1. Shape'
    BY <1>0, <1>1 DEF PagesInv, Shape
  <2>2. Numbered'
    BY <1>0, <1>1, <1>3 DEF PagesInv, Numbered
  <2>3. StoredIsUnread'
    BY DEF PagesInv, StoredIsUnread
  <2> QED BY <2>1, <2>2, <2>3
<1>6. Chained'
  <2> SUFFICES ASSUME NEW i \in 1 .. L - 2 PROVE First(i + 1)' = First(i)' + PageSize
    BY <1>0, <1>1 DEF Chained
  <2>1. i \in 1 .. L - 1 /\ i + 1 \in 1 .. L - 1 /\ First((i + 1) + 1) = First(i + 1) + PageSize
    BY <1>0 DEF PagesInv, Chained
  <2> QED BY <1>3, <2>1
<1>7. LastByte'
  <2> SUFFICES ASSUME L > 1, pool[L].end > 0
               PROVE  First(L - 1)' + pool[L].end = wrote + 1
    BY <1>0, <1>1 DEF LastByte
  <2>1. L - 1 \in 1 .. L - 1 /\ (L - 1) + 1 = L
    BY <1>0
  <2>2. First(L - 1)' = First(L)
    BY <1>3, <2>1
  <2> QED BY <1>0, <2>2 DEF PagesInv, LastByte
<1>8. Ordered'
  <2> SUFFICES ASSUME NEW i \in 1 .. L - 1, NEW k \in 1 .. L - 1, i < k
               PROVE  First(i)' + PageSize <= First(k)'
    BY <1>1 DEF Ordered
  <2>1. First(i + 1) + PageSize <= First(k + 1)
    BY <1>0 DEF PagesInv, Ordered
  <2> QED BY <1>3, <2>1
<1>9. ReadExactly'
  <2> SUFFICES ASSUME NEW i \in 1 .. L - 1 PROVE ReadPart(i)'
    BY <1>1 DEF ReadExactly
  <2>1. ReadPart(i + 1)
    BY <1>0, <1>1 DEF PagesInv, ReadExactly
  <2> QED BY <1>1, <1>2, <1>3, <2>1 DEF ReadPart
<1>10. FrontByte'
  <2>1. CASE L = 1
    <3>1. taken = wrote
      <4>1. CASE pool[1].end = 0
        BY <1>4, <4>1
      <4>2. CASE pool[1].end > 0
        <5>1. First(1) + pool[1].end = wrote + 1
          BY <1>0, <2>1, <4>2 DEF PagesInv, LastByte
        <5> QED BY <1>2, <1>4, <4>2, <5>1
      <4> QED BY <1>2, <1>4, <4>1, <4>2
    <3>2. pool' = <<>>
      BY <1>1, <2>1
    <3> QED BY <1>2, <1>4, <3>1, <3>2 DEF FrontByte
  <2>2. CASE L > 1
    <3>1. /\ 1 \in 1 .. L - 1 /\ 2 \in 1 .. L /\ pool'[1] = pool[2] /\ pool[2].end > 0
          /\ pool[1].end = PageSize /\ First(1 + 1) = First(1) + PageSize
      BY <1>0, <1>1, <2>2 DEF PagesInv, Shape, Chained
    <3>2. First(1)' = First(2) /\ First(2) <= taken + 1
      BY <1>2, <1>3, <1>4, <3>1
    <3>3. pool' # <<>>
      BY <1>1, <2>2
    <3> QED BY <1>2, <1>4, <3>1, <3>2, <3>3, SMTT(60) DEF FrontByte
  <2> QED BY <1>0, <2>1, <2>2
<1> QED BY <1>1, <1>5, <1>6, <1>7, <1>8, <1>9, <1>10 DEF PagesInv

\* Steps that leave the pages and what was delivered of them alone.
LEMMA PagesKept ==
  ASSUME PagesInv, UNCHANGED <<pool, wrote, stored>>,
         wrote \in Int, taken \in Int, gcount \in Int,
         taken' \in Int, gcount' \in Int, Handed' = Handed
  PROVE  PagesInv'
<1>1. stored = wrote - Handed
  BY DEF PagesInv, StoredIsUnread, Handed
<1>2. StoredIsUnread'
  <2>1. stored' = wrote' - Handed' /\ wrote' \in Int
    BY <1>1
  <2>2. CASE pc' = "read"
    <3>1. Handed' = taken' + gcount'
      BY <2>2 DEF Handed
    <3> QED BY <2>1, <2>2, <3>1 DEF StoredIsUnread
  <2>3. CASE pc' # "read"
    <3>1. Handed' = taken' + 0
      BY <2>3 DEF Handed
    <3> QED BY <2>1, <2>3, <3>1 DEF StoredIsUnread
  <2> QED BY <2>2, <2>3
<1>3. \A i : First(i)' = First(i)
  BY DEF First
<1>4. Shape' /\ Numbered' /\ Chained' /\ LastByte' /\ Ordered'
  BY <1>3 DEF PagesInv, Shape, Numbered, Chained, LastByte, Ordered
<1>5. ReadExactly' /\ FrontByte'
  BY <1>3 DEF PagesInv, ReadExactly, ReadPart, FrontByte
<1> QED BY <1>2, <1>4, <1>5 DEF PagesInv

\* What read() has put into the caller's memory after a turn.
LEMMA DestAfterTurn ==
  ASSUME TypeOK, PagesInv, Control, pc = "read", it \in 1 .. Len(pool),
         NEW n \in Nat, n <= storedSize(pool[it]),
         dest' = dest \o BytesRead(pool[it], n)
  PROVE  /\ dest' \in Seq(Nat) /\ Len(dest') = gcount + n
         /\ \A j \in 1 .. gcount + n : dest'[j] = taken + j
<1> DEFINE b == BytesRead(pool[it], n)
<1>1. /\ pool[it] \in Page /\ gcount \in Nat /\ taken \in Nat /\ dest \in Seq(Nat)
      /\ Len(dest) = gcount /\ \A j \in 1 .. gcount : dest[j] = taken + j
  BY DEF TypeOK, Control
<1>2. /\ pool[it].begin \in Nat /\ pool[it].end \in Nat /\ pool[it].end <= PageSize
      /\ pool[it].begin + n <= pool[it].end /\ First(it) \in Nat
      /\ PageSize \in Nat /\ pool[it].data \in [Slots -> Nat]
  <2>1. 0 \in Slots /\ PageSize \in Nat
    BY PageSizeAssumption DEF Slots
  <2>2. /\ pool[it].begin \in 0 .. PageSize /\ pool[it].end \in 0 .. PageSize
        /\ pool[it].data \in [Slots -> Nat]
    BY <1>1 DEF Page
  <2> QED BY <2>1, <2>2 DEF storedSize, First
<1>3. PICK bg \in Nat, en \in Nat, f \in Nat :
        bg = pool[it].begin /\ en = pool[it].end /\ f = First(it)
  BY <1>2
<1>4. n > 0 => f + bg = taken + gcount + 1
  <2> SUFFICES ASSUME n > 0 PROVE f + bg = taken + gcount + 1
    OBVIOUS
  <2>1. pool[it].begin < pool[it].end
    BY <1>2
  <2>2. First(it) + pool[it].begin = Handed + 1 /\ Handed = taken + gcount
    BY <2>1, NextByte DEF Handed
  <2> QED BY <1>3, <2>2
<1>5. /\ b \in Seq(Nat) /\ Len(b) = n
      /\ \A i \in 1 .. n : b[i] = taken + gcount + i
  <2>1. ASSUME NEW i \in 1 .. n
        PROVE  pool[it].data[bg + i - 1] = taken + gcount + i
    <3>1. bg + i - 1 \in Slots /\ bg + i - 1 < en
      <4>1. i \in Nat /\ 1 <= i /\ i <= n
        BY ONLY i \in 1 .. n, n \in Nat
      <4>2. PageSize \in Nat /\ bg + n <= en /\ en <= PageSize
        BY ONLY <1>2, <1>3
      <4> QED BY ONLY <4>1, <4>2, n \in Nat, bg \in Nat, en \in Nat DEF Slots
    <3>2. pool[it].data[bg + i - 1] = f + (bg + i - 1)
      BY <1>3, <3>1 DEF PagesInv, Numbered
    <3>3. i \in Nat /\ n > 0 /\ taken \in Nat /\ gcount \in Nat
      BY ONLY <1>1, <2>1, n \in Nat
    <3> HIDE DEF b
    <3> QED BY ONLY <1>3, <1>4, <3>2, <3>3
  <2>2. b = [i \in 1 .. n |-> pool[it].data[bg + i - 1]]
    BY <1>3 DEF BytesRead
  <2>3. \A i \in 1 .. n : pool[it].data[bg + i - 1] \in Nat
    <3>1. \A i \in 1 .. n : taken + gcount + i \in Nat
      BY ONLY <1>1, n \in Nat
    <3> QED BY <2>1, <3>1
  <2> HIDE DEF b
  <2>4. b \in [1 .. n -> Nat]
    BY ONLY <2>2, <2>3
  <2>5. b \in Seq(Nat) /\ Len(b) = n
    BY ONLY <2>4, n \in Nat
  <2>6. ASSUME NEW i \in 1 .. n PROVE b[i] = taken + gcount + i
    <3>1. b[i] = pool[it].data[bg + i - 1]
      BY ONLY <2>2, i \in 1 .. n
    <3> QED BY <2>1, <3>1
  <2> QED BY ONLY <2>5, <2>6
<1> HIDE DEF b
<1>6. /\ dest' \in Seq(Nat) /\ Len(dest') = gcount + n
      /\ \A j \in 1 .. gcount + n : dest'[j] = IF j <= gcount THEN dest[j] ELSE b[j - gcount]
  <2>1. dest' = dest \o b
    BY DEF b
  <2> QED BY ONLY <1>1, <1>5, <2>1, n \in Nat
<1>7. ASSUME NEW j \in 1 .. gcount + n PROVE dest'[j] = taken + j
  <2>1. CASE j <= gcount
    BY <1>1, <1>6, <2>1
  <2>2. CASE j > gcount
    <3>1. j - gcount \in 1 .. n /\ dest'[j] = b[j - gcount]
      BY <1>1, <1>6, <2>2
    <3>2. b[j - gcount] = taken + gcount + (j - gcount)
      BY <1>5, <3>1
    <3>3. j \in Nat /\ taken \in Nat /\ gcount \in Nat
      BY <1>1
    <3>4. taken + gcount + (j - gcount) = taken + j
      BY ONLY <3>3
    <3> QED BY ONLY <3>1, <3>2, <3>4
  <2>3. j <= gcount \/ j > gcount
    BY <1>1
  <2> QED BY ONLY <2>1, <2>2, <2>3
<1> QED BY <1>6, <1>7
-------------------------------------------------------------------------------
\* The invariant is inductive.
LEMMA InvInductive == Inv /\ [Next]_vars => Inv'
<1> SUFFICES ASSUME Inv, [Next]_vars PROVE Inv'
  OBVIOUS
<1>0. TypeOK /\ PagesInv /\ Control
  BY DEF Inv, PagesInv
<1>a. (TypeOK /\ PagesInv /\ Control)' => Inv'
  BY DEF Inv, PagesInv
<1>b. /\ PageSize \in Nat /\ PageSize > 0 /\ Sizes \subseteq Nat
      /\ wrote \in Nat /\ taken \in Nat /\ gcount \in Nat /\ stored \in Nat
  BY <1>0, PageSizeAssumption, SizesAssumption DEF TypeOK
<1>1. CASE write
  <2>1. PICK size \in Sizes :
          \/ /\ pool = <<>>
             /\ pool' = <<StorageWrite(NewPage, Least(size, PageSize))>>
             /\ Advance(size, Least(size, PageSize))
          \/ /\ pool # <<>>
             /\ pool' = [pool EXCEPT ![Len(pool)] =
                           StorageWrite(pool[Len(pool)], Least(size, remainSize(pool[Len(pool)])))]
             /\ Advance(size, Least(size, remainSize(pool[Len(pool)])))
    BY <1>1 DEF write
  <2>2. size \in Nat
    BY <1>b
  <2>3. CASE pool = <<>>
    <3> DEFINE n == Least(size, PageSize)
    <3>1. /\ n \in Nat /\ n <= PageSize /\ n <= size
          /\ size # n => n = PageSize
      BY <1>b, <2>2 DEF Least
    <3> HIDE DEF n
    <3>2. pool' = Append(pool, StorageWrite(NewPage, n)) /\ Advance(size, n)
      BY <2>1, <2>3 DEF n
    <3>3. /\ pool' \in Seq(Page) /\ PagesInv'
          /\ pool' # <<>> /\ pool'[Len(pool')].end = n
      BY <1>0, <1>1, <2>3, <3>1, <3>2, AppendPage DEF write, Advance
    <3>4. TypeOK'
      BY <1>0, <1>1, <1>b, <2>2, <3>1, <3>2, <3>3 DEF write, Advance, TypeOK
    <3>5. Control'
      BY <1>b, <2>2, <3>1, <3>2, <3>3 DEF Advance, Control
    <3> QED BY <1>a, <3>3, <3>4, <3>5
  <2>4. CASE pool # <<>>
    <3> DEFINE p == pool[Len(pool)]
               n == Least(size, remainSize(p))
    <3>1. p \in Page
      BY <1>0, <2>4 DEF TypeOK
    <3>2. p.end \in 0 .. PageSize
      BY <3>1 DEF Page
    <3>3. /\ n \in Nat /\ n <= remainSize(p) /\ n <= size
          /\ size # n => p.end + n = PageSize
      <4> HIDE DEF p
      <4> QED BY <1>b, <2>2, <3>2 DEF Least, remainSize
    <3>4. /\ pool' = [pool EXCEPT ![Len(pool)] = StorageWrite(pool[Len(pool)], n)]
          /\ Advance(size, n)
      BY <2>1, <2>4
    <3>5. /\ pool' \in Seq(Page) /\ PagesInv'
          /\ pool' # <<>> /\ pool'[Len(pool')].end = p.end + n
      <4> HIDE DEF n
      <4> QED BY <1>0, <1>1, <2>4, <3>3, <3>4, FillLast DEF write, Advance
    <3> HIDE DEF n, p
    <3>6. TypeOK'
      BY <1>0, <1>1, <1>b, <2>2, <3>3, <3>4, <3>5 DEF write, Advance, TypeOK
    <3>7. Control'
      BY <1>b, <2>2, <3>3, <3>4, <3>5 DEF Advance, Control
    <3> QED BY <1>a, <3>5, <3>6, <3>7
  <2> QED BY <2>3, <2>4
<1>2. CASE writePage
  <2> DEFINE n == Least(remain, PageSize)
  <2>1. remain \in Nat /\ remain > 0 /\ pool # <<>> /\ pool[Len(pool)].end = PageSize
    BY <1>0, <1>2 DEF writePage, Control, TypeOK
  <2>2. /\ n \in Nat /\ n <= PageSize /\ n <= remain /\ n > 0
        /\ remain # n => n = PageSize
    BY <1>b, <2>1 DEF Least
  <2>3. pool' = Append(pool, StorageWrite(NewPage, n)) /\ Advance(remain, n)
    BY <1>2 DEF writePage
  <2> HIDE DEF n
  <2>4. /\ pool' \in Seq(Page) /\ PagesInv'
        /\ pool' # <<>> /\ pool'[Len(pool')].end = n
    BY <1>0, <1>2, <2>1, <2>2, <2>3, AppendPage DEF writePage, Advance
  <2>5. TypeOK'
    <3>1. /\ stored' = stored + n /\ wrote' = wrote + n /\ remain' = remain - n
          /\ pc' \in {"idle", "write"} /\ UNCHANGED <<gcount, it, dest, taken>>
      BY <1>2, <2>3 DEF writePage, Advance
    <3>2. stored' \in Nat /\ wrote' \in Nat /\ remain' \in Nat
      BY ONLY <1>b, <2>1, <2>2, <3>1
    <3> QED BY <1>0, <2>4, <3>1, <3>2 DEF TypeOK
  <2>6. Control'
    BY <1>b, <2>1, <2>2, <2>3, <2>4 DEF Advance, Control
  <2> QED BY <1>a, <2>4, <2>5, <2>6
<1>3. CASE read
  <2>1. Handed' = Handed
    BY <1>3, <1>b DEF read, Handed
  <2>2. PagesInv'
    BY <1>0, <1>3, <1>b, <2>1, PagesKept DEF read
  <2>3. TypeOK'
    BY <1>0, <1>3, <1>b DEF read, TypeOK
  <2>4. Control'
    <3>1. it' = 1 /\ gcount' = 0 /\ dest' = <<>> /\ pool' = pool /\ pc' = "read"
      BY <1>3 DEF read
    <3>2. pool # <<>> => 1 \in 1 .. Len(pool)
      BY <1>0 DEF TypeOK
    <3> QED BY <3>1, <3>2 DEF Control
  <2> QED BY <1>a, <2>2, <2>3, <2>4
<1>4. CASE readPage
  <2> DEFINE p == pool[it]
             n == Least(remain, storedSize(p))
  <2>1. /\ pc = "read" /\ it \in 1 .. Len(pool) /\ it \in Nat /\ Len(pool) \in Nat
        /\ pool # <<>>
    BY <1>0, <1>4 DEF readPage, Control, TypeOK
  <2>2. p \in Page /\ p.begin <= p.end
    BY <1>0, <2>1 DEF TypeOK, PagesInv, Shape
  <2>3. /\ n \in Nat /\ n <= storedSize(p) /\ n <= remain
        /\ remain \in Nat /\ (remain # n => n = storedSize(p))
    <3>1. storedSize(p) \in Nat
      BY <2>2 DEF Page, storedSize
    <3>2. remain \in Nat
      BY <1>0 DEF TypeOK
    <3> HIDE DEF p
    <3> QED BY <3>1, <3>2 DEF Least
  <2>4. /\ pool' = [pool EXCEPT ![it] = StorageRead(pool[it], n)]
        /\ dest' = dest \o BytesRead(pool[it], n)
        /\ remain' = remain - n /\ gcount' = gcount + n /\ stored' = stored - n
        /\ wrote' = wrote
        /\ \/ pc' = "read" /\ taken' = taken /\ it' = it + 1 /\ remain # n /\ it # Len(pool)
           \/ pc' = "pop" /\ taken' = taken + gcount + n /\ it' = it
    BY <1>4 DEF readPage
  <2> HIDE DEF n
  <2>5. /\ pool' \in Seq(Page) /\ PagesInv'
        /\ Handed' = Handed + n
        /\ Len(pool') = Len(pool)
        /\ \A i \in 1 .. Len(pool) : i # it => pool'[i] = pool[i]
        /\ pool'[it].begin = pool[it].begin + n /\ pool'[it].end = pool[it].end
    BY <1>0, <2>1, <2>3, <2>4, ReadTurn
  <2>6. /\ dest' \in Seq(Nat) /\ Len(dest') = gcount + n
        /\ \A j \in 1 .. gcount + n : dest'[j] = taken + j
    BY <1>0, <2>1, <2>3, <2>4, DestAfterTurn
  <2>7. stored' \in Nat
    <3>1. Handed' \in Nat
      BY <1>b, <2>1, <2>3, <2>5 DEF Handed
    <3>2. stored = wrote - Handed /\ Handed \in Nat
      BY <1>0, <1>b, <2>1 DEF PagesInv, StoredIsUnread, Handed
    <3>3. Handed' <= wrote'
      BY <2>5 DEF PagesInv, FrontByte
    <3> QED BY ONLY <1>b, <2>3, <2>4, <2>5, <3>1, <3>2, <3>3
  <2>8. TypeOK'
    <3>1. remain' \in Nat /\ gcount' \in Nat /\ taken' \in Nat /\ it' \in Nat /\ wrote' \in Nat
      BY ONLY <1>b, <2>1, <2>3, <2>4
    <3>2. pc' \in {"read", "pop"}
      BY <2>4
    <3> QED BY ONLY <2>5, <2>6, <2>7, <3>1, <3>2 DEF TypeOK
  <2>9. Control'
    <3>1. CASE pc' = "pop"
      <4>1. pool' # <<>>
        BY <2>1, <2>5
      <4> QED BY <3>1, <4>1 DEF Control
    <3>2. CASE pc' = "read"
      <4>1. taken' = taken /\ it' = it + 1 /\ it' \in 1 .. Len(pool') /\ n = storedSize(p)
        <5>1. taken' = taken /\ it' = it + 1 /\ remain # n /\ it # Len(pool)
          BY <2>4, <3>2
        <5>2. it + 1 \in 1 .. Len(pool')
          BY ONLY <2>1, <2>5, <5>1
        <5> QED BY ONLY <2>3, <5>1, <5>2
      <4>2. pool'[it].begin = pool'[it].end
        BY <2>2, <2>5, <4>1 DEF storedSize, Page
      <4>3. ASSUME NEW i \in 1 .. Len(pool'), i < it' PROVE pool'[i].begin = pool'[i].end
        <5>1. CASE i = it
          BY <4>2, <5>1
        <5>2. CASE i < it
          BY <1>0, <2>1, <2>5, <5>2 DEF Control
        <5> QED BY <2>1, <4>1, <4>3, <5>1, <5>2
      <4> QED BY <2>4, <2>6, <3>2, <4>1, <4>3 DEF Control
    <3> QED BY <2>4, <3>1, <3>2
  <2> QED BY <1>a, <2>5, <2>8, <2>9
<1>5. CASE readNothing
  <2>1. gcount = 0 /\ pool = <<>>
    BY <1>0, <1>5 DEF readNothing, Control
  <2>2. Handed' = Handed
    BY <1>5, <1>b, <2>1 DEF readNothing, Handed
  <2>3. PagesInv'
    BY <1>0, <1>5, <1>b, <2>2, PagesKept DEF readNothing
  <2>4. TypeOK' /\ Control'
    BY <1>0, <1>5, <2>1 DEF readNothing, TypeOK, Control
  <2> QED BY <1>a, <2>3, <2>4
<1>6. CASE popPage
  <2>1. CASE storedSize(pool[1]) = 0
    <3>1. pool' = Tail(pool) /\ pc' = IF Len(pool) = 1 THEN "idle" ELSE "pop"
      BY <1>6, <2>1 DEF popPage, Drained
    <3>2. pool' \in Seq(Page) /\ PagesInv'
      BY <1>0, <1>6, <2>1, <3>1, PopTurn DEF popPage
    <3>3. TypeOK'
      BY <1>0, <1>6, <3>1, <3>2 DEF popPage, TypeOK
    <3>4. pc' = "pop" => pool' # <<>>
      <4>1. pool # <<>> /\ pool \in Seq(Page)
        BY <1>0, <1>6 DEF popPage, TypeOK
      <4>2. Len(pool) # 1 => Len(Tail(pool)) # 0
        BY ONLY <4>1
      <4> QED BY <3>1, <4>2
    <3>5. Control'
      BY <3>1, <3>4 DEF Control
    <3> QED BY <1>a, <3>2, <3>3, <3>5
  <2>2. CASE storedSize(pool[1]) # 0
    <3>1. UNCHANGED pool /\ pc = "pop" /\ pc' = "idle"
      BY <1>6, <2>2 DEF popPage, Drained
    <3>2. Handed' = Handed
      BY <1>6, <3>1 DEF popPage, Handed
    <3>3. PagesInv'
      BY <1>0, <1>6, <1>b, <3>1, <3>2, PagesKept DEF popPage
    <3>4. TypeOK' /\ Control'
      BY <1>0, <1>6, <3>1 DEF popPage, TypeOK, Control
    <3> QED BY <1>a, <3>3, <3>4
  <2> QED BY <2>1, <2>2
<1>7. CASE popEmpty
  <2>1. Handed' = Handed
    BY <1>7 DEF popEmpty, Handed
  <2>2. PagesInv'
    BY <1>0, <1>7, <1>b, <2>1, PagesKept DEF popEmpty
  <2>3. gcount = 0 /\ taken = wrote
    BY <1>0, <1>7, <1>b DEF popEmpty, Control, PagesInv, FrontByte, Handed
  <2>4. TypeOK' /\ Control'
    BY <1>0, <1>7, <2>3 DEF popEmpty, TypeOK, Control
  <2> QED BY <1>a, <2>2, <2>4
<1>8. CASE clear
  <2>1. /\ pool' = <<>> /\ stored' = 0 /\ gcount' = 0 /\ taken' = wrote /\ wrote' = wrote
        /\ pc' = "idle" /\ Len(pool') = 0
    BY <1>8 DEF clear
  <2>2. Handed' = wrote'
    BY <1>b, <2>1 DEF Handed
  <2>3. Shape' /\ Numbered' /\ Chained' /\ LastByte' /\ Ordered' /\ ReadExactly'
    BY <2>1 DEF Shape, Numbered, Chained, LastByte, Ordered, ReadExactly
  <2>4. FrontByte' /\ StoredIsUnread'
    BY <1>b, <2>1, <2>2 DEF FrontByte, StoredIsUnread
  <2>5. TypeOK' /\ Control'
    BY <1>0, <1>8, <2>1 DEF clear, TypeOK, Control
  <2> QED BY <1>a, <2>3, <2>4, <2>5 DEF PagesInv
<1>9. CASE UNCHANGED vars
  <2>1. Handed' = Handed
    BY <1>9 DEF vars, Handed
  <2>2. PagesInv'
    BY <1>0, <1>9, <1>b, <2>1, PagesKept DEF vars
  <2>3. TypeOK' /\ Control'
    BY <1>0, <1>9 DEF vars, TypeOK, Control
  <2> QED BY <1>a, <2>2, <2>3
<1> QED
  BY <1>1, <1>2, <1>3, <1>4, <1>5, <1>6, <1>7, <1>8, <1>9 DEF Next

\* The invariant holds in every behaviour.
LEMMA Invariant == Spec => []Inv
<1>1. Init => Inv
  <2> SUFFICES ASSUME Init PROVE Inv
    OBVIOUS
  <2>1. /\ pool = <<>> /\ Len(pool) = 0 /\ wrote = 0 /\ taken = 0 /\ gcount = 0
        /\ pc = "idle" /\ stored = 0
    BY DEF Init
  <2>2. TypeOK /\ Control
    BY <2>1 DEF Init, TypeOK, Control
  <2>3. Shape /\ Numbered /\ Chained /\ LastByte /\ Ordered /\ ReadExactly
    BY <2>1 DEF Shape, Numbered, Chained, LastByte, Ordered, ReadExactly
  <2>4. Handed = 0
    BY <2>1 DEF Handed
  <2>5. FrontByte /\ StoredIsUnread
    BY <2>1, <2>4 DEF FrontByte, StoredIsUnread
  <2> QED BY <2>2, <2>3, <2>5 DEF Inv
<1> QED BY <1>1, InvInductive, PTL DEF Spec

\* Every variable of the buffer keeps its type.
THEOREM TypeCorrect == Spec => []TypeOK
<1>1. Inv => TypeOK
  BY DEF Inv
<1> QED BY <1>1, Invariant, PTL

\* stored() always counts the bytes written and not yet delivered.
THEOREM StoredCorrect == Spec => []StoredIsUnread
<1>1. Inv => StoredIsUnread
  BY DEF Inv
<1> QED BY <1>1, Invariant, PTL

\* Only a read of a buffer without a byte can run into the empty deque.
THEOREM UndefinedCorrect == Spec => []UndefinedOnlyWhenEmpty
<1>1. Inv => UndefinedOnlyWhenEmpty
  BY DEF Inv, Control, UndefinedOnlyWhenEmpty
<1> QED BY <1>1, Invariant, PTL
-------------------------------------------------------------------------------
(***************************************************************************)
(* Between two calls the pages are tight: PoolIsTight.                     *)
(***************************************************************************)

\* Nothing of page i was read, unless it is the first, and then not all of it.
Unread(i) ==
  /\ i > 1 => pool[i].begin = 0
  /\ pool[i].end > 0 => pool[i].begin < pool[i].end

\* Pages 1 to k - 1 are drained and nothing behind page k was read.
ReadUpTo(k) ==
  \A i \in 1 .. Len(pool) :
    /\ i < k => pool[i].begin = pool[i].end
    /\ i > k => pool[i].begin = 0

\* Only the page a read has stopped in is partly read; the pages drained before
\* it are dropped before the read returns.
Tight ==
  /\ pc \in {"idle", "write"} => \A i \in 1 .. Len(pool) : Unread(i)
  /\ pc = "read" => \A i \in 1 .. Len(pool) : i > it => pool[i].begin = 0
  /\ pc = "pop" => \E k \in Nat : ReadUpTo(k)

\* Successive pages hold successive runs of PageSize bytes.
Spread == \A i \in 1 .. Len(pool) : First(i) = First(1) + (i - 1) * PageSize

\* What the types say of the pages.
LEMMA PageTypes ==
  TypeOK =>
    /\ Len(pool) \in Nat /\ PageSize \in Nat /\ PageSize > 0
    /\ \A i \in 1 .. Len(pool) :
         /\ pool[i].begin \in Nat /\ pool[i].end \in Nat /\ pool[i].end <= PageSize
         /\ First(i) \in Nat
<1> HAVE TypeOK
<1>1. 0 \in Slots /\ PageSize \in Nat /\ PageSize > 0
  BY PageSizeAssumption DEF Slots
<1>2. \A i \in 1 .. Len(pool) : pool[i] \in Page
  BY DEF TypeOK
<1>3. Len(pool) \in Nat
  BY DEF TypeOK
<1> QED BY <1>1, <1>2, <1>3 DEF Page, First

\* One more page is one more PageSize.
LEMMA NextRun ==
  ASSUME NEW i \in Nat, i > 0, NEW s \in Nat
  PROVE  (i - 1) * s + s = ((i + 1) - 1) * s
<1>1. PICK j \in Nat : j = i - 1
  OBVIOUS
<1>2. j * s + s = (j + 1) * s
  OBVIOUS
<1>3. (i + 1) - 1 = j + 1
  BY <1>1
<1> QED BY <1>1, <1>2, <1>3

\* The pages stay spread when all keep their first bytes, when there is at most
\* one, when one is added at the end and when the first is dropped.
LEMMA SpreadKept ==
  ASSUME TypeOK, TypeOK', Spread, Chained',
         \/ Len(pool') = Len(pool) /\ \A i \in 1 .. Len(pool) : First(i)' = First(i)
         \/ Len(pool') <= 1
         \/ /\ Len(pool') = Len(pool) + 1
            /\ \A i \in 1 .. Len(pool) : First(i)' = First(i)
         \/ /\ Len(pool') = Len(pool) - 1
            /\ \A i \in 1 .. Len(pool) - 1 : First(i)' = First(i + 1)
  PROVE  Spread'
<1> USE DEF Spread
<1>0. /\ Len(pool) \in Nat /\ Len(pool') \in Nat /\ PageSize \in Nat
      /\ \A i \in 1 .. Len(pool) : First(i) \in Nat
      /\ \A i \in 1 .. Len(pool') : First(i)' \in Nat
  <2>1. (/\ Len(pool) \in Nat /\ PageSize \in Nat /\ PageSize > 0
         /\ \A i \in 1 .. Len(pool) :
              /\ pool[i].begin \in Nat /\ pool[i].end \in Nat /\ pool[i].end <= PageSize
              /\ First(i) \in Nat)'
    BY PageTypes, PTL
  <2> QED BY <2>1, PageTypes
<1>1. CASE Len(pool') = Len(pool) /\ \A i \in 1 .. Len(pool) : First(i)' = First(i)
  <2> SUFFICES ASSUME NEW i \in 1 .. Len(pool)
               PROVE  First(i)' = First(1)' + (i - 1) * PageSize
    BY <1>1
  <2>1. 1 \in 1 .. Len(pool)
    BY <1>0
  <2>2. First(i)' = First(i) /\ First(1)' = First(1)
    BY <1>1, <2>1
  <2> QED BY <2>2
<1>2. CASE Len(pool') <= 1
  <2> SUFFICES ASSUME NEW i \in 1 .. Len(pool')
               PROVE  First(i)' = First(1)' + (i - 1) * PageSize
    OBVIOUS
  <2>1. i = 1 /\ First(1)' \in Nat /\ (1 - 1) * PageSize = 0
    BY <1>0, <1>2
  <2> QED BY <2>1
<1>3. CASE /\ Len(pool') = Len(pool) + 1
           /\ \A i \in 1 .. Len(pool) : First(i)' = First(i)
  <2> SUFFICES ASSUME NEW i \in 1 .. Len(pool'), Len(pool) > 0
               PROVE  First(i)' = First(1)' + (i - 1) * PageSize
    BY <1>0, <1>2, <1>3
  <2>1. 1 \in 1 .. Len(pool) /\ First(1)' = First(1)
    BY <1>0, <1>3
  <2>2. CASE i \in 1 .. Len(pool)
    BY <1>3, <2>1, <2>2
  <2>3. CASE i = Len(pool) + 1
    <3>0. PICK k \in Nat : k = Len(pool)
      BY <1>0
    <3>1. k \in 1 .. Len(pool) /\ k \in 1 .. Len(pool') - 1 /\ k \in Nat /\ k > 0
      BY <1>0, <1>3, <3>0
    <3>2. First(k + 1)' = First(k)' + PageSize
      BY <3>1 DEF Chained
    <3>3. First(k)' = First(1)' + (k - 1) * PageSize
      BY <1>3, <2>1, <3>1
    <3>4. (k - 1) * PageSize + PageSize = ((k + 1) - 1) * PageSize
      BY <1>0, <3>1, NextRun
    <3>5. First(1)' \in Nat /\ (k - 1) * PageSize \in Int
      BY <1>0, <2>1, <3>1
    <3> QED BY ONLY <1>0, <2>3, <3>0, <3>2, <3>3, <3>4, <3>5
  <2>4. i \in 1 .. Len(pool) \/ i = Len(pool) + 1
    BY ONLY <1>0, <1>3, i \in 1 .. Len(pool')
  <2> QED BY <2>2, <2>3, <2>4
<1>4. CASE /\ Len(pool') = Len(pool) - 1
           /\ \A i \in 1 .. Len(pool) - 1 : First(i)' = First(i + 1)
  <2> SUFFICES ASSUME NEW i \in 1 .. Len(pool')
               PROVE  First(i)' = First(1)' + (i - 1) * PageSize
    OBVIOUS
  <2>1. /\ i \in Nat /\ i > 0 /\ i + 1 \in 1 .. Len(pool) /\ 1 + 1 \in 1 .. Len(pool)
        /\ First(i)' = First(i + 1) /\ First(1)' = First(1 + 1) /\ First(1) \in Nat
    BY <1>0, <1>4
  <2>2. /\ First(i + 1) = First(1) + ((i + 1) - 1) * PageSize
        /\ First(1 + 1) = First(1) + ((1 + 1) - 1) * PageSize
    BY <2>1
  <2>3. ((1 + 1) - 1) * PageSize = PageSize
    BY <1>0
  <2>4. (i - 1) * PageSize + PageSize = ((i + 1) - 1) * PageSize
    BY <1>0, <2>1, NextRun
  <2>5. (i - 1) * PageSize \in Int
    BY <1>0, <2>1
  <2> QED BY ONLY <1>0, <2>1, <2>2, <2>3, <2>4, <2>5
<1> QED BY <1>1, <1>2, <1>3, <1>4

\* Every step keeps the pages tight and spread.
LEMMA TightInductive == Inv /\ Inv' /\ Tight /\ Spread /\ [Next]_vars => Tight' /\ Spread'
<1> SUFFICES ASSUME Inv, Inv', Tight, Spread, [Next]_vars PROVE Tight' /\ Spread'
  OBVIOUS
<1>0. TypeOK /\ TypeOK' /\ Chained' /\ Shape /\ Control
  BY DEF Inv
<1>1. PICK L \in Nat : L = Len(pool)
  BY <1>0, PageTypes
<1>2. /\ PageSize \in Nat /\ PageSize > 0 /\ wrote \in Nat /\ 0 \in Slots
      /\ \A i \in 1 .. L : /\ pool[i] \in Page
                           /\ pool[i].begin \in Nat /\ pool[i].end \in Nat
                           /\ pool[i].end <= PageSize /\ pool[i].begin <= pool[i].end
                           /\ i > 1 => pool[i].end > 0
  <2>1. PageSize \in Nat /\ PageSize > 0 /\ wrote \in Nat /\ 0 \in Slots
    BY <1>0, PageSizeAssumption DEF TypeOK, Slots
  <2>2. ASSUME NEW i \in 1 .. L
        PROVE  /\ pool[i] \in Page
               /\ pool[i].begin \in Nat /\ pool[i].end \in Nat /\ pool[i].end <= PageSize
    <3>1. pool[i] \in Page
      BY <1>0, <1>1, SMTT(60) DEF TypeOK
    <3> QED BY <1>0, <1>1, <3>1, PageTypes
  <2>3. ASSUME NEW i \in 1 .. L
        PROVE  pool[i].begin <= pool[i].end /\ (i > 1 => pool[i].end > 0)
    BY <1>0, <1>1 DEF Shape
  <2> QED BY <2>1, <2>2, <2>3
<1>a. ASSUME UNCHANGED pool PROVE Spread'
  <2>1. Len(pool') = Len(pool) /\ \A i \in 1 .. Len(pool) : First(i)' = First(i)
    BY <1>a DEF First
  <2> QED BY <1>0, <2>1, SpreadKept
<1>3. CASE write
  <2>0. pc = "idle" /\ pc' \in {"idle", "write"} /\ \A i \in 1 .. L : Unread(i)
    BY <1>1, <1>3 DEF write, Advance, Tight
  <2>1. PICK size \in Sizes :
          \/ pool = <<>> /\ pool' = <<StorageWrite(NewPage, Least(size, PageSize))>>
          \/ /\ pool # <<>>
             /\ pool' = [pool EXCEPT ![Len(pool)] =
                           StorageWrite(pool[Len(pool)], Least(size, remainSize(pool[Len(pool)])))]
    BY <1>3 DEF write
  <2>2. size \in Nat
    BY SizesAssumption
  <2>3. CASE pool = <<>>
    <3> DEFINE n == Least(size, PageSize)
    <3>1. n \in Nat /\ n <= remainSize(NewPage)
      BY <1>2, <2>2, NewPageFacts DEF Least, remainSize
    <3>2. /\ StorageWrite(NewPage, n).begin = 0 /\ StorageWrite(NewPage, n).end = n
      <4> HIDE DEF n
      <4> QED BY <1>2, <3>1, WriteFacts, NewPageFacts
    <3>3. Len(pool') = 1 /\ pool'[1].begin = 0 /\ pool'[1].end = n
      BY <2>1, <2>3, <3>2
    <3>4. \A i \in 1 .. Len(pool') : Unread(i)'
      <4> HIDE DEF n
      <4> QED BY <3>1, <3>3 DEF Unread
    <3>5. Spread'
      BY <1>0, <3>3, SpreadKept
    <3> QED BY <2>0, <3>4, <3>5 DEF Tight
  <2>4. CASE pool # <<>>
    <3>0. L > 0 /\ L \in 1 .. L /\ pool \in Seq(Page)
      <4>1. pool \in Seq(Page)
        BY <1>0 DEF TypeOK
      <4>2. Len(pool) # 0
        BY ONLY <2>4, <4>1
      <4> QED BY ONLY <1>1, <4>1, <4>2, L \in Nat
    <3> DEFINE p == pool[L]
               n == Least(size, remainSize(p))
               q == StorageWrite(p, n)
    <3>1. p \in Page /\ p.end \in Nat /\ p.end <= PageSize /\ p.begin \in Nat /\ p.begin <= p.end
      BY <1>2, <3>0
    <3>2. n \in Nat /\ n <= remainSize(p)
      <4> HIDE DEF p
      <4> QED BY <1>2, <2>2, <3>1 DEF Least, remainSize
    <3>3. /\ q.begin = p.begin /\ q.end = p.end + n
          /\ p.end > 0 => q.data[0] = p.data[0]
      <4> HIDE DEF p, n
      <4>1. /\ q.begin = p.begin /\ q.end = p.end + n
            /\ \A i \in Slots : q.data[i] = IF i \in p.end .. p.end + n - 1
                                              THEN wrote + 1 + (i - p.end) ELSE p.data[i]
        BY <1>2, <3>1, <3>2, WriteFacts
      <4> QED BY <1>2, <3>1, <4>1
    <3>4. pool' = [pool EXCEPT ![L] = q]
      BY <1>1, <2>1, <2>4
    <3> HIDE DEF q
    <3>5. Len(pool') = L /\ pool'[L] = q /\ \A i \in 1 .. L : i # L => pool'[i] = pool[i]
      BY <1>1, <3>0, <3>4
    <3>6. ASSUME NEW i \in 1 .. L PROVE Unread(i)'
      <4>1. CASE i # L
        BY <2>0, <3>5, <4>1 DEF Unread
      <4>2. CASE i = L
        <5>1. pool'[i].begin = p.begin /\ pool'[i].end = p.end + n
          BY <3>3, <3>5, <4>2
        <5>2. Unread(L)
          BY <2>0, <3>0
        <5>3. (i > 1 => p.begin = 0) /\ (p.end > 0 => p.begin < p.end)
          BY <4>2, <5>2 DEF Unread
        <5> HIDE DEF p, n
        <5>4. p.end + n > 0 => p.begin < p.end + n
          BY <3>1, <3>2, <5>3
        <5> QED BY <5>1, <5>3, <5>4 DEF Unread
      <4> QED BY <4>1, <4>2
    <3>7. Spread'
      <4>1. CASE L <= 1
        BY <1>0, <3>5, <4>1, SpreadKept
      <4>2. CASE L > 1
        <5>1. First(L)' = First(L)
          BY <1>2, <3>0, <3>3, <3>5, <4>2 DEF First
        <5>2. \A i \in 1 .. L : First(i)' = First(i)
          BY <3>5, <5>1 DEF First
        <5> QED BY <1>0, <1>1, <3>5, <5>2, SpreadKept
      <4> QED BY <4>1, <4>2
    <3> QED BY <2>0, <3>5, <3>6, <3>7 DEF Tight
  <2> QED BY <2>3, <2>4
<1>4. CASE writePage
  <2> DEFINE n == Least(remain, PageSize)
             q == StorageWrite(NewPage, n)
  <2>0. pc' \in {"idle", "write"} /\ (\A i \in 1 .. L : Unread(i)) /\ remain \in Nat
    BY <1>0, <1>1, <1>4 DEF writePage, Advance, Tight, TypeOK
  <2>1. n \in Nat /\ n <= remainSize(NewPage)
    BY <1>2, <2>0, NewPageFacts DEF Least, remainSize
  <2>2. q.begin = 0 /\ q.end = n
    <3> HIDE DEF n
    <3> QED BY <1>2, <2>1, WriteFacts, NewPageFacts
  <2>3. pool' = Append(pool, q)
    BY <1>4 DEF writePage
  <2> HIDE DEF n, q
  <2>4. /\ Len(pool') = L + 1 /\ pool'[L + 1] = q
        /\ \A i \in 1 .. L : pool'[i] = pool[i]
    BY <1>0, <1>1, <2>3 DEF TypeOK
  <2>5. ASSUME NEW i \in 1 .. L + 1 PROVE Unread(i)'
    <3>1. CASE i \in 1 .. L
      BY <2>0, <2>4, <3>1 DEF Unread
    <3>2. CASE i = L + 1
      BY <2>1, <2>2, <2>4, <3>2 DEF Unread
    <3> QED BY <3>1, <3>2
  <2>6. \A i \in 1 .. L : First(i)' = First(i)
    BY <2>4 DEF First
  <2>7. Spread'
    BY <1>0, <1>1, <2>4, <2>6, SpreadKept
  <2> QED BY <2>0, <2>4, <2>5, <2>7 DEF Tight
<1>5. CASE read
  <2>1. pc = "idle" /\ pc' = "read" /\ it' = 1 /\ UNCHANGED pool
    BY <1>5 DEF read
  <2>2. \A i \in 1 .. L : i > 1 => pool[i].begin = 0
    BY <1>1, <2>1 DEF Tight, Unread
  <2> QED BY <1>1, <1>a, <2>1, <2>2 DEF Tight
<1>6. CASE readPage
  <2> DEFINE n == Least(remain, storedSize(pool[it]))
  <2>0. /\ pc = "read" /\ it \in 1 .. L /\ it \in Nat
        /\ \A i \in 1 .. L : i < it => pool[i].begin = pool[i].end
        /\ \A i \in 1 .. L : i > it => pool[i].begin = 0
        /\ pool \in Seq(Page) /\ remain \in Nat
    <3>1. it <= Len(pool) /\ pc = "read"
      BY <1>6 DEF readPage
    <3>2. pool = <<>> => Len(pool) = 0
      OBVIOUS
    <3>3. it \in 1 .. L
      BY <1>0, <1>1, <3>1, <3>2 DEF Control
    <3> QED BY <1>0, <1>1, <3>1, <3>3 DEF Control, Tight, TypeOK
  <2>1. n \in Nat /\ n <= storedSize(pool[it])
    BY <1>2, <2>0 DEF Least, storedSize
  <2>2. /\ pool' = [pool EXCEPT ![it] = StorageRead(pool[it], n)]
        /\ pc' = "pop" \/ (pc' = "read" /\ it' = it + 1)
    BY <1>6, <2>0 DEF readPage
  <2>a. PICK t \in Nat : t = it
    BY <2>0
  <2>3. StorageRead(pool[it], n).data = pool[it].data
    <3> HIDE DEF n
    <3> QED BY <1>2, <2>0, <2>1, ReadFacts
  <2>4. /\ Len(pool') = L
        /\ \A i \in 1 .. L : pool'[i].data = pool[i].data /\ (i # it => pool'[i] = pool[i])
    <3> HIDE DEF n
    <3> QED BY <1>1, <2>0, <2>2, <2>3
  <2>5. Spread'
    <3>1. \A i \in 1 .. L : First(i)' = First(i)
      BY <2>4 DEF First
    <3> QED BY <1>0, <1>1, <2>4, <3>1, SpreadKept
  <2>6. ReadUpTo(t)'
    BY <2>0, <2>4, <2>a DEF ReadUpTo
  <2>7. pc' = "read" => \A i \in 1 .. L : i > it' => pool'[i].begin = 0
    BY <2>0, <2>2, <2>4
  <2> QED BY <2>0, <2>2, <2>4, <2>5, <2>6, <2>7 DEF Tight
<1>7. CASE readNothing
  <2>1. pc' = "pop" /\ UNCHANGED pool /\ Len(pool') = 0
    BY <1>7 DEF readNothing
  <2>2. 0 \in Nat /\ ReadUpTo(0)'
    BY <2>1 DEF ReadUpTo
  <2> QED BY <1>a, <2>1, <2>2 DEF Tight
<1>8. CASE popPage
  <2>0. PICK k \in Nat : ReadUpTo(k)
    BY <1>8 DEF popPage, Tight
  <2>1. L > 0 /\ 1 \in 1 .. L /\ pool \in Seq(Page)
    BY <1>0, <1>1, <1>8 DEF popPage, TypeOK
  <2>2. CASE Drained(pool[1])
    <3>1. pool' = Tail(pool) /\ pc' = IF Len(pool) = 1 THEN "idle" ELSE "pop"
      BY <1>8, <2>2 DEF popPage
    <3>2. Len(pool') = L - 1 /\ \A i \in 1 .. L - 1 : pool'[i] = pool[i + 1] /\ i + 1 \in 1 .. L
      BY <1>1, <2>1, <3>1
    <3>3. Spread'
      <4>1. \A i \in 1 .. L - 1 : First(i)' = First(i + 1)
        BY <3>2 DEF First
      <4> QED BY <1>0, <1>1, <3>2, <4>1, SpreadKept
    <3>4. PICK m \in Nat : m = k - 1 \/ (k = 0 /\ m = 0)
      BY ONLY k \in Nat
    <3>5. ASSUME NEW i \in 1 .. L - 1
          PROVE  /\ i < m => pool'[i].begin = pool'[i].end
                 /\ i > m => pool'[i].begin = 0
      <4>1. /\ i + 1 < k => pool[i + 1].begin = pool[i + 1].end
            /\ i + 1 > k => pool[i + 1].begin = 0
        BY <1>1, <2>0, <3>2 DEF ReadUpTo
      <4>2. (i < m => i + 1 < k) /\ (i > m => i + 1 > k)
        BY ONLY <3>4, i \in 1 .. L - 1, k \in Nat, m \in Nat
      <4> QED BY <3>2, <4>1, <4>2
    <3>6. ReadUpTo(m)'
      BY <3>2, <3>5 DEF ReadUpTo
    <3>7. pc' = "idle" => \A i \in 1 .. Len(pool') : Unread(i)'
      BY <1>1, <3>1, <3>2
    <3> QED BY <3>1, <3>3, <3>6, <3>7 DEF Tight
  <2>3. CASE ~Drained(pool[1])
    <3>1. UNCHANGED pool /\ pc' = "idle"
      BY <1>8, <2>3 DEF popPage
    <3>2. pool[1].begin < pool[1].end
      BY <1>2, <2>1, <2>3 DEF Drained, storedSize
    <3>3. k <= 1
      BY <1>1, <1>2, <2>0, <2>1, <3>2 DEF ReadUpTo
    <3>4. ASSUME NEW i \in 1 .. L PROVE Unread(i)
      <4>1. CASE i = 1
        BY <3>2, <4>1 DEF Unread
      <4>2. CASE i > 1
        <5>1. pool[i].begin = 0
          BY <1>1, <2>0, <3>3, <4>2 DEF ReadUpTo
        <5> QED BY <1>2, <5>1 DEF Unread
      <4> QED BY <4>1, <4>2
    <3>5. \A i \in 1 .. Len(pool') : Unread(i)'
      BY <1>1, <3>1, <3>4 DEF Unread
    <3> QED BY <1>a, <3>1, <3>5 DEF Tight
  <2> QED BY <2>2, <2>3
<1>9. CASE popEmpty
  BY <1>9, <1>a DEF popEmpty, Tight
<1>10. CASE clear
  <2>1. pc' = "idle" /\ Len(pool') = 0
    BY <1>10 DEF clear
  <2> QED BY <1>0, <2>1, SpreadKept DEF Tight
<1>11. CASE UNCHANGED vars
  BY <1>11, <1>a DEF vars, Tight, Unread, ReadUpTo
<1> QED
  BY <1>3, <1>4, <1>5, <1>6, <1>7, <1>8, <1>9, <1>10, <1>11 DEF Next

\* The pages between the first and the last hold less than what is stored.
LEMMA TightHolds == Inv /\ Tight /\ Spread => PoolIsTight
<1> SUFFICES ASSUME Inv, Tight, Spread, pc = "idle", Len(pool) > 1
             PROVE  /\ \A i \in 2 .. Len(pool) - 1 : storedSize(pool[i]) = PageSize
                    /\ storedSize(pool[1]) > 0 /\ storedSize(pool[Len(pool)]) > 0
                    /\ (Len(pool) - 2) * PageSize < stored
  BY DEF PoolIsTight
<1>0. /\ TypeOK /\ Shape /\ StoredIsUnread /\ LastByte /\ FrontByte
      /\ ReadExactly
  BY DEF Inv
<1>1. PICK L \in Nat : L = Len(pool) /\ L > 1
  BY <1>0, PageTypes
<1>2. /\ PageSize \in Nat /\ PageSize > 0 /\ wrote \in Nat /\ taken \in Nat
      /\ \A i \in 1 .. L : /\ pool[i].begin \in Nat /\ pool[i].end \in Nat
                           /\ First(i) \in Nat
                           /\ i < L => pool[i].end = PageSize
                           /\ pool[i].end > 0
                           /\ i > 1 => pool[i].begin = 0
                           /\ pool[i].begin < pool[i].end
  <2>1. wrote \in Nat /\ taken \in Nat
    BY <1>0 DEF TypeOK
  <2>2. /\ PageSize \in Nat /\ PageSize > 0
        /\ \A i \in 1 .. L : /\ pool[i].begin \in Nat /\ pool[i].end \in Nat /\ First(i) \in Nat
    BY <1>0, <1>1, PageTypes
  <2>3. \A i \in 1 .. L : Unread(i)
    BY <1>1 DEF Tight
  <2>4. \A i \in 1 .. L : (i < L => pool[i].end = PageSize) /\ pool[i].end > 0
    BY <1>0, <1>1, <2>2 DEF Shape
  <2>5. \A i \in 1 .. L : (i > 1 => pool[i].begin = 0) /\ pool[i].begin < pool[i].end
    BY <2>3, <2>4 DEF Unread
  <2> QED BY <2>1, <2>2, <2>4, <2>5
<1>3. \A i \in 2 .. L - 1 : storedSize(pool[i]) = PageSize
  BY <1>1, <1>2 DEF storedSize
<1>4. storedSize(pool[1]) > 0 /\ storedSize(pool[L]) > 0
  BY <1>1, <1>2 DEF storedSize
<1>5. (L - 2) * PageSize < stored
  <2>1. First(L) = First(1) + (L - 1) * PageSize
    BY <1>1 DEF Spread
  <2>2. (L - 1) * PageSize = (L - 2) * PageSize + PageSize
    <3>1. PICK j \in Nat : j = L - 2
      BY <1>1
    <3>2. (j + 1) * PageSize = j * PageSize + PageSize
      BY <1>2
    <3> QED BY <1>1, <3>1, <3>2
  <2>3. (L - 2) * PageSize \in Int
    BY <1>1, <1>2
  <2>4. First(L) + pool[L].end = wrote + 1 /\ stored = wrote - taken /\ Handed = taken
    <3>1. pool # <<>>
      BY <1>1
    <3>2. stored = wrote - taken /\ Handed = taken
      BY <1>0, <1>2 DEF StoredIsUnread, Handed
    <3> QED BY <1>0, <1>1, <1>2, <3>1, <3>2 DEF LastByte
  <2>5. taken <= First(1) + PageSize - 1
    <3>1. ReadPart(1)
      BY <1>0, <1>1 DEF ReadExactly
    <3>2. /\ pool[1].end = PageSize /\ pool[1].begin < PageSize
          /\ First(1) \in Nat /\ pool[1].begin \in Nat
      BY <1>1, <1>2
    <3>3. \/ taken < First(1)
          \/ pool[1].begin = taken - First(1) + 1
          \/ pool[1].begin = PageSize
      BY <1>2, <2>4, <3>1, <3>2 DEF ReadPart
    <3> QED BY ONLY <1>2, <3>2, <3>3
  <2>6. First(1) \in Nat /\ First(L) \in Nat /\ pool[L].end \in Nat /\ pool[L].end > 0
    BY <1>1, <1>2
  <2> QED BY ONLY <1>2, <2>1, <2>2, <2>3, <2>4, <2>5, <2>6
<1> QED BY <1>1, <1>3, <1>4, <1>5

\* Between two calls the buffer holds at most one page more than its bytes
\* need: every page but the first and the last is full and unread.
THEOREM TightCorrect == Spec => []PoolIsTight
<1>1. Init => Tight /\ Spread
  <2> SUFFICES ASSUME Init PROVE Tight /\ Spread
    OBVIOUS
  <2>1. Len(pool) = 0 /\ pc = "idle"
    BY DEF Init
  <2> QED BY <2>1 DEF Tight, Spread
<1> QED BY <1>1, TightInductive, TightHolds, Invariant, PTL DEF Spec
-------------------------------------------------------------------------------
(***************************************************************************)
(* The refinement: every step of the buffer is a step of ByteQueue or      *)
(* leaves the stream as it is.                                             *)
(***************************************************************************)

\* When the last turn of a read has emptied the last page, all bytes are out.
LEMMA AllDelivered ==
  ASSUME TypeOK, PagesInv, pool # <<>>, pool[Len(pool)].begin = pool[Len(pool)].end
  PROVE  Handed = wrote
<1>0. PICK L \in Nat : L = Len(pool) /\ L > 0 /\ L \in 1 .. L
  BY DEF TypeOK
<1>1. pool[L] \in Page
  BY <1>0 DEF TypeOK
<1>2. /\ pool[L].end \in Nat /\ First(L) \in Nat
      /\ wrote \in Nat /\ Handed \in Nat /\ Handed <= wrote
  <2>1. 0 \in Slots /\ PageSize \in Nat
    BY PageSizeAssumption DEF Slots
  <2>2. Handed <= wrote
    BY DEF PagesInv, FrontByte
  <2>3. Handed \in Nat /\ wrote \in Nat
    BY DEF TypeOK, Handed
  <2>4. pool[L].end \in Nat /\ First(L) \in Nat
    BY <1>1, <2>1 DEF Page, First
  <2> QED BY <2>2, <2>3, <2>4
<1>3. CASE pool[L].end = 0
  <2>1. L = 1
    BY <1>0, <1>3 DEF PagesInv, Shape
  <2> QED BY <1>0, <1>3, <2>1 DEF PagesInv, FrontByte
<1>4. CASE pool[L].end > 0
  <2>1. First(L) + pool[L].end = wrote + 1
    BY <1>0, <1>4 DEF PagesInv, LastByte
  <2>2. ReadPart(L)
    BY <1>0 DEF PagesInv, ReadExactly
  <2>3. First(L) + pool[L].end <= Handed + 1
    BY <1>0, <1>2, <1>4, <2>2 DEF ReadPart
  <2> QED BY ONLY <1>2, <2>1, <2>3
<1> QED BY <1>2, <1>3, <1>4

\* A finished read is the return of an abstract read: it delivers the oldest
\* bytes, as many as were asked for or as there are.
LEMMA ReadReturns ==
  ASSUME TypeOK, PagesInv, Control, TypeOK', pc = "read", pc' = "pop",
         UNCHANGED wrote, NEW n \in Nat, n <= remain, taken' = taken + gcount + n,
         Len(dest') = gcount + n, \A j \in 1 .. gcount + n : dest'[j] = taken + j,
         taken' <= wrote, n = remain \/ taken' = wrote
  PROVE  BQ!ReadReturn
<1>1. /\ remain \in Nat /\ gcount \in Nat /\ wrote \in Nat /\ taken \in Nat
      /\ dest' \in Seq(Nat)
  BY DEF TypeOK
<1>2. Accepted = wrote /\ Accepted' = wrote
  BY <1>1 DEF Accepted
<1>3. BQ!Least(remain + gcount, wrote - taken) = gcount + n
  BY <1>1 DEF BQ!Least
<1>4. remain + gcount # BQ!None
  BY <1>1 DEF BQ!None
<1>5. dest' = [i \in 1 .. gcount + n |-> taken + i]
  <2>1. DOMAIN dest' = 1 .. gcount + n /\ dest' = [i \in DOMAIN dest' |-> dest'[i]]
    BY <1>1
  <2> QED BY <2>1
<1>6. taken' = taken + (gcount + n)
  BY ONLY <1>1, taken' = taken + gcount + n, n \in Nat
<1> QED BY <1>2, <1>3, <1>4, <1>5, <1>6 DEF BQ!ReadReturn, BQ!None

\* MemoryBuffer delivers every byte once and in order.
THEOREM Refinement == Spec => ImplementsByteQueue
<1>1. Init => BQ!BQInit
  BY DEF Init, BQ!BQInit, BQ!None, Accepted
<1>2. ASSUME Inv, Inv', [Next]_vars PROVE [BQ!BQNext]_(BQ!bqVars)
  <2>0. /\ TypeOK /\ PagesInv /\ Control /\ TypeOK' /\ PagesInv'
        /\ wrote \in Nat /\ taken \in Nat /\ gcount \in Nat /\ remain \in Nat /\ Sizes \subseteq Nat
        /\ PageSize \in Nat /\ PageSize > 0
    BY <1>2, SizesAssumption, PageSizeAssumption DEF Inv, PagesInv, TypeOK
  <2>a. ASSUME Accepted' = Accepted, taken' = taken, dest' = dest, pc # "read", pc' # "read"
        PROVE  UNCHANGED BQ!bqVars
    BY <2>a DEF BQ!bqVars
  <2>1. CASE write
    <3>1. PICK size \in Sizes, n \in Int :
            /\ wrote + size <= MaxBytes
            /\ Advance(size, n)
      <4>1. PICK size \in Sizes :
              /\ wrote + size <= MaxBytes
              /\ Advance(size, Least(size, PageSize)) \/
                 (pool # <<>> /\ Advance(size, Least(size, remainSize(pool[Len(pool)]))))
        BY <2>1 DEF write
      <4>2. size \in Nat
        BY <2>0
      <4>3. Least(size, PageSize) \in Int
        BY <2>0, <4>2 DEF Least
      <4>4. pool # <<>> => remainSize(pool[Len(pool)]) \in Int
        <5>1. pool # <<>> => pool[Len(pool)] \in Page
          BY <2>0, SMTT(60) DEF TypeOK
        <5> QED BY <2>0, <5>1 DEF remainSize, Page
      <4>5. pool # <<>> => Least(size, remainSize(pool[Len(pool)])) \in Int
        BY <4>2, <4>4 DEF Least
      <4> QED BY <4>1, <4>3, <4>5
    <3>2. size \in Nat
      BY <2>0
    <3>3. /\ pc = "idle" /\ wrote' = wrote + n /\ remain' = size - n
          /\ pc' = IF size = n THEN "idle" ELSE "write"
          /\ UNCHANGED <<dest, taken>>
      BY <2>1, <3>1 DEF write, Advance
    <3>4. Accepted = wrote
      BY <2>0, <3>3 DEF Accepted
    <3>5. Accepted' = wrote + size
      BY <2>0, <3>1, <3>2, <3>3 DEF Accepted
    <3>6. pc # "read" /\ pc' # "read"
      BY <3>3
    <3> QED BY <3>1, <3>3, <3>4, <3>5, <3>6 DEF BQ!BQNext, BQ!Write, BQ!None
  <2>2. CASE writePage
    <3>1. PICK n \in Int : Advance(remain, n)
      <4>1. Least(remain, PageSize) \in Int
        BY <2>0 DEF Least
      <4> QED BY <2>2, <4>1 DEF writePage
    <3>2. /\ pc = "write" /\ wrote' = wrote + n /\ remain' = remain - n
          /\ pc' = IF remain = n THEN "idle" ELSE "write"
          /\ UNCHANGED <<dest, taken>>
      BY <2>2, <3>1 DEF writePage, Advance
    <3>3. Accepted' = Accepted
      BY <2>0, <3>1, <3>2 DEF Accepted
    <3> QED BY <2>a, <3>2, <3>3
  <2>3. CASE read
    <3>1. /\ pc = "idle" /\ pc' = "read" /\ gcount' = 0 /\ remain' \in Sizes
          /\ UNCHANGED <<wrote, taken>>
      BY <2>3 DEF read
    <3>2. Accepted' = Accepted
      BY <3>1 DEF Accepted
    <3>3. remain' + gcount' = remain'
      <4>1. remain' \in Nat
        BY <2>0, <3>1
      <4>2. \A r \in Nat : r + 0 = r
        OBVIOUS
      <4>3. gcount' = 0
        BY <3>1
      <4> QED BY ONLY <4>1, <4>2, <4>3
    <3> QED BY <3>1, <3>2, <3>3 DEF BQ!BQNext, BQ!ReadCall, BQ!None
  <2>4. CASE readPage
    <3> DEFINE p == pool[it]
               n == Least(remain, storedSize(p))
    <3>1. /\ pc = "read" /\ it \in 1 .. Len(pool) /\ pool # <<>>
      BY <2>0, <2>4 DEF readPage, Control, TypeOK
    <3>2. p \in Page /\ p.begin <= p.end
      BY <2>0, <3>1, SMTT(60) DEF TypeOK, PagesInv, Shape
    <3>3. /\ n \in Nat /\ n <= storedSize(p) /\ n <= remain
          /\ (remain # n => n = storedSize(p))
      <4>1. storedSize(p) \in Nat
        BY <3>2 DEF Page, storedSize
      <4> HIDE DEF p
      <4> QED BY <2>0, <4>1 DEF Least
    <3>4. /\ pool' = [pool EXCEPT ![it] = StorageRead(pool[it], n)]
          /\ dest' = dest \o BytesRead(pool[it], n)
          /\ remain' = remain - n /\ gcount' = gcount + n /\ stored' = stored - n
          /\ wrote' = wrote
          /\ \/ pc' = "read" /\ taken' = taken
             \/ /\ pc' = "pop" /\ taken' = taken + gcount + n
                /\ remain = n \/ it = Len(pool)
      BY <2>4, <3>1 DEF readPage
    <3> HIDE DEF n
    <3>5. CASE pc' = "read"
      <4>1. Accepted' = Accepted /\ taken' = taken
        BY <3>1, <3>4, <3>5 DEF Accepted
      <4>2. remain' + gcount' = remain + gcount
        BY <2>0, <3>3, <3>4
      <4> QED BY <3>1, <3>5, <4>1, <4>2 DEF BQ!bqVars
    <3>6. CASE pc' = "pop"
      <4>1. /\ Handed' = Handed + n /\ Len(pool') = Len(pool)
            /\ pool'[it].begin = p.begin + n /\ pool'[it].end = p.end
        BY <2>0, <3>1, <3>3, <3>4, ReadTurn
      <4>2. /\ Len(dest') = gcount + n
            /\ \A j \in 1 .. gcount + n : dest'[j] = taken + j
        BY <2>0, <3>1, <3>3, <3>4, DestAfterTurn
      <4>3. Handed' = taken' /\ taken' <= wrote
        <5>1. Handed' = taken' + 0 /\ taken' \in Nat
          BY <2>0, <3>6 DEF Handed, TypeOK
        <5>2. Handed' <= wrote' /\ wrote' = wrote
          BY <2>0, <3>4 DEF PagesInv, FrontByte
        <5>3. \A r \in Nat : r + 0 = r
          OBVIOUS
        <5> QED BY ONLY <5>1, <5>2, <5>3
      <4>4. n = remain \/ taken' = wrote
        <5> SUFFICES ASSUME n # remain PROVE taken' = wrote
          OBVIOUS
        <5>1. it = Len(pool') /\ n = storedSize(p) /\ pool' # <<>>
          <6>1. it = Len(pool) /\ n = storedSize(p)
            BY <3>3, <3>4, <3>6
          <6>2. Len(pool) > 0
            BY <2>0, <3>1 DEF TypeOK
          <6> QED BY <4>1, <6>1, <6>2
        <5>2. pool'[Len(pool')].begin = pool'[Len(pool')].end
          BY <3>2, <4>1, <5>1 DEF storedSize, Page
        <5>3. (TypeOK /\ PagesInv /\ pool # <<>> /\ pool[Len(pool)].begin = pool[Len(pool)].end
                 => Handed = wrote)'
          BY AllDelivered, PTL
        <5> QED BY <2>0, <3>4, <4>3, <5>1, <5>2, <5>3
      <4>5. taken' = taken + gcount + n
        BY <3>4, <3>6
      <4>6. BQ!ReadReturn
        BY <2>0, <3>1, <3>3, <3>4, <3>6, <4>2, <4>3, <4>4, <4>5, ReadReturns
      <4> QED BY <4>6 DEF BQ!BQNext
    <3> QED BY <3>4, <3>5, <3>6
  <2>5. CASE readNothing
    <3>1. /\ pc = "read" /\ pc' = "pop" /\ pool = <<>> /\ gcount = 0 /\ Len(dest) = 0
          /\ UNCHANGED <<wrote, taken, dest>>
      BY <2>0, <2>5 DEF readNothing, Control
    <3>2. taken = wrote
      BY <2>0, <3>1 DEF PagesInv, FrontByte, Handed
    <3>3. /\ taken' = taken + gcount + 0 /\ Len(dest') = gcount + 0
          /\ \A j \in 1 .. gcount + 0 : dest'[j] = taken + j
          /\ taken' <= wrote /\ taken' = wrote /\ 0 \in Nat /\ 0 <= remain
      BY <2>0, <3>1, <3>2
    <3>4. BQ!ReadReturn
      BY <2>0, <3>1, <3>3, ReadReturns
    <3> QED BY <3>4 DEF BQ!BQNext
  <2>6. CASE popPage
    <3>1. pc = "pop" /\ pc' \in {"idle", "pop"} /\ UNCHANGED <<wrote, taken, dest>>
      BY <2>6 DEF popPage
    <3>2. Accepted' = Accepted
      BY <3>1 DEF Accepted
    <3> QED BY <2>a, <3>1, <3>2
  <2>7. CASE popEmpty
    <3>1. pc = "pop" /\ pc' = "undefined" /\ UNCHANGED <<wrote, taken, dest>>
      BY <2>7 DEF popEmpty
    <3>2. Accepted' = Accepted
      BY <3>1 DEF Accepted
    <3> QED BY <2>a, <3>1, <3>2
  <2>8. CASE clear
    <3>1. pc = "idle" /\ pc' = "idle" /\ taken' = wrote /\ UNCHANGED <<wrote, dest>>
      BY <2>8 DEF clear
    <3>2. Accepted = wrote /\ Accepted' = wrote
      BY <2>0, <3>1 DEF Accepted
    <3> QED BY <3>1, <3>2 DEF BQ!BQNext, BQ!Clear, BQ!None
  <2>9. CASE UNCHANGED vars
    BY <2>9 DEF vars, BQ!bqVars, Accepted
  <2> QED
    BY <1>2, <2>1, <2>2, <2>3, <2>4, <2>5, <2>6, <2>7, <2>8, <2>9 DEF Next
<1> QED BY <1>1, <1>2, Invariant, PTL DEF Spec, ImplementsByteQueue, BQ!BQSpec
===============================================================================
