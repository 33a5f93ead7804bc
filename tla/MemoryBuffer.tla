----------------------------- MODULE MemoryBuffer -----------------------------
(***************************************************************************)
(* whsutils::MemoryBuffer (src/src/utils.h, utils.cpp): a deque of pages   *)
(* of PageSize bytes, written at the end of the last page and read from    *)
(* the front.  The loops of write() and read() are followed page by page:  *)
(* pc says which loop the call in progress is in.  A call is made only     *)
(* when none is in progress, as by the single thread that owns a buffer.   *)
(*                                                                         *)
(* A byte is its number in the stream of all bytes written, so that the    *)
(* contents of the pages are compared and not only their sizes.            *)
(***************************************************************************)
EXTENDS Integers, Sequences

CONSTANTS
  PageSize,   (* _pageSize: 512 in the code                     *)
  Sizes,      (* sizes a caller may write or ask for            *)
  MaxBytes    (* bound: bytes written in all                    *)

ASSUME PageSizeAssumption == PageSize \in Nat \ {0}
ASSUME SizesAssumption == Sizes \subseteq Nat
ASSUME MaxBytesAssumption == MaxBytes \in Nat

VARIABLES
  pool,       (* _pool: the pages                                          *)
  stored,     (* _stored                                                   *)
  gcount,     (* _gcount: bytes delivered by the last read                 *)
  pc,         (* the loop in progress: "idle", "write", "read", "pop"; or  *)
              (* "undefined": front() of an empty deque was used           *)
  remain,     (* bytes the call in progress has still to move              *)
  it,         (* the page read() has come to                               *)
  dest,       (* what read() has put into the caller's memory              *)
  wrote,      (* bytes written since the buffer was made                   *)
  taken       (* bytes read or cleared by the calls that are over          *)

vars == <<pool, stored, gcount, pc, remain, it, dest, wrote, taken>>

Slots == 0 .. PageSize - 1
Page == [ data : [Slots -> Nat], begin : 0 .. PageSize, end : 0 .. PageSize ]

Least(a, b) == IF a <= b THEN a ELSE b

\* _Storage(): a page nothing was written to; 0 stands for uninitialized memory.
NewPage == [ data |-> [i \in Slots |-> 0], begin |-> 0, end |-> 0 ]

remainSize(p) == PageSize - p.end

storedSize(p) == p.end - p.begin

\* MUTANT: the copy overwrites the last byte of the page.
CopiedOver(p, n) ==
  [i \in Slots |-> IF i \in p.end - 1 .. p.end + n - 2
                     THEN wrote + 2 + (i - p.end) ELSE p.data[i]]

\* memcpy() of the next n bytes of the stream behind the bytes of the page.
Copied(p, n) ==
  [i \in Slots |-> IF i \in p.end .. p.end + n - 1
                     THEN wrote + 1 + (i - p.end) ELSE p.data[i]]

\* _Storage::write of n bytes, n <= remainSize(p).
StorageWrite(p, n) == [ data |-> Copied(p, n), begin |-> p.begin, end |-> p.end + n ]

\* _Storage::read of n bytes, n <= storedSize(p).
StorageRead(p, n) == [ p EXCEPT !.begin = p.begin + n ]

\* What memcpy() takes out of the page.
BytesRead(p, n) == [ i \in 1 .. n |-> p.data[p.begin + i - 1] ]
-------------------------------------------------------------------------------
Init ==
  /\ pool = <<>>
  /\ stored = 0
  /\ gcount = 0
  /\ pc = "idle"
  /\ remain = 0
  /\ it = 0
  /\ dest = <<>>
  /\ wrote = 0
  /\ taken = 0

\* MUTANT: every turn counts all the bytes that are left.
AdvanceAll(size, n) ==
  /\ stored' = stored + size
  /\ wrote' = wrote + n
  /\ remain' = size - n
  /\ pc' = IF size = n THEN "idle" ELSE "write"

\* The counters and the control after n bytes of `size` went into a page.
Advance(size, n) ==
  /\ stored' = stored + n
  /\ wrote' = wrote + n
  /\ remain' = size - n
  /\ pc' = IF size = n THEN "idle" ELSE "write"

\* write(): the first turn, into a first page or the rest of the last one.
write ==
  /\ pc = "idle"
  /\ \E size \in Sizes :
       /\ wrote + size <= MaxBytes
       /\ \/ /\ pool = <<>>
             /\ LET n == Least(size, PageSize)
                IN  pool' = <<StorageWrite(NewPage, n)>> /\ Advance(size, n)
          \/ /\ pool # <<>>
             /\ LET last == pool[Len(pool)]
                    n    == Least(size, remainSize(last))
                IN  /\ pool' = [pool EXCEPT ![Len(pool)] = StorageWrite(last, n)]
                    /\ Advance(size, n)
  /\ UNCHANGED <<gcount, it, dest, taken>>

\* write(): every other turn, into a new page.
writePage ==
  /\ pc = "write"
  /\ LET n == Least(remain, PageSize)
     IN  pool' = Append(pool, StorageWrite(NewPage, n)) /\ Advance(remain, n)
  /\ UNCHANGED <<gcount, it, dest, taken>>

\* read(): up to its loop.
read ==
  /\ pc = "idle"
  /\ remain' \in Sizes
  /\ gcount' = 0
  /\ it' = 1
  /\ dest' = <<>>
  /\ pc' = "read"
  /\ UNCHANGED <<pool, stored, wrote, taken>>

\* read(): the page at `it`.  The loop ends when the request is met or at the
\* last page.
readPage ==
  /\ pc = "read"
  /\ it <= Len(pool)
  /\ LET p == pool[it]
         n == Least(remain, storedSize(p))
     IN  /\ pool' = [pool EXCEPT ![it] = StorageRead(p, n)]
         /\ dest' = dest \o BytesRead(p, n)
         /\ remain' = remain - n
         /\ gcount' = gcount + n
         /\ stored' = stored - n
         /\ IF remain = n \/ it = Len(pool)
              THEN pc' = "pop" /\ taken' = taken + gcount + n /\ UNCHANGED it
              ELSE it' = it + 1 /\ UNCHANGED <<pc, taken>>
  /\ UNCHANGED wrote

\* read() of a buffer without pages: the loop has no turn.
readNothing ==
  /\ pc = "read"
  /\ pool = <<>>
  /\ pc' = "pop"
  /\ UNCHANGED <<pool, stored, gcount, remain, it, dest, wrote, taken>>

\* MUTANTS: the front page is dropped unseen; an empty front page is kept.
DrainedAlways(p) == TRUE
DrainedNever(p) == FALSE

Drained(p) == storedSize(p) = 0

\* read(): the do-while loop that drops the drained pages at the front.
popPage ==
  /\ pc = "pop"
  /\ pool # <<>>
  /\ IF Drained(pool[1])
       THEN pool' = Tail(pool) /\ pc' = IF Len(pool) = 1 THEN "idle" ELSE "pop"
       ELSE pc' = "idle" /\ UNCHANGED pool
  /\ UNCHANGED <<stored, gcount, remain, it, dest, wrote, taken>>

\* The same loop begins with front() of an empty deque: undefined behaviour.
popEmpty ==
  /\ pc = "pop"
  /\ pool = <<>>
  /\ pc' = "undefined"
  /\ UNCHANGED <<pool, stored, gcount, remain, it, dest, wrote, taken>>

clear ==
  /\ pc = "idle"
  /\ pool' = <<>>
  /\ stored' = 0
  /\ gcount' = 0
  /\ taken' = wrote
  /\ UNCHANGED <<pc, remain, it, dest, wrote>>

Next == write \/ writePage \/ read \/ readPage \/ readNothing \/ popPage \/ popEmpty \/ clear

Spec == Init /\ [][Next]_vars
-------------------------------------------------------------------------------
(***************************************************************************)
(* Properties                                                              *)
(***************************************************************************)

\* Every variable has its type.
TypeOK ==
  /\ pool \in Seq(Page)
  /\ stored \in Nat
  /\ gcount \in Nat
  /\ pc \in {"idle", "write", "read", "pop", "undefined"}
  /\ remain \in Nat
  /\ it \in Nat
  /\ dest \in Seq(Nat)
  /\ wrote \in Nat
  /\ taken \in Nat

\* stored() is the number of bytes written and not yet delivered, at every turn
\* of the loops: the number RawWhs::out() asks read() for.
StoredIsUnread ==
  stored = wrote - taken - (IF pc = "read" THEN gcount ELSE 0)

\* read() runs into the empty deque only if the caller read a buffer that holds
\* no byte: HttpParser, which reads as much as it wrote, never does.
UndefinedOnlyWhenEmpty == pc = "undefined" => wrote = taken /\ gcount = 0

\* Between two calls no page but the first and the last is partly filled or
\* partly read, and no drained page is kept: the buffer uses at most one page
\* more than its bytes need.
PoolIsTight ==
  pc = "idle" /\ Len(pool) > 1 =>
    /\ \A i \in 2 .. Len(pool) - 1 : storedSize(pool[i]) = PageSize
    /\ storedSize(pool[1]) > 0 /\ storedSize(pool[Len(pool)]) > 0
    /\ (Len(pool) - 2) * PageSize < stored

\* The bytes a call of write() has accepted, with those it still has to move.
Accepted == wrote + (IF pc = "write" THEN remain ELSE 0)

\* The abstract stream: a read is in progress while pc is "read".
BQ == INSTANCE ByteQueue WITH
        written  <- Accepted,
        consumed <- taken,
        pending  <- IF pc = "read" THEN remain + gcount ELSE -1,
        result   <- IF pc = "read" THEN <<>> ELSE dest

\* The pages deliver every byte once, in the order written, however writes,
\* reads and clears of any size are mixed: the buffer implements ByteQueue.
ImplementsByteQueue == BQ!BQSpec
===============================================================================
