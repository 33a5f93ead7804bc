------------------------------- MODULE ByteQueue -------------------------------
(***************************************************************************)
(* What whsutils::MemoryBuffer promises its callers (HttpParser keeps a    *)
(* request body in one, RawWhs the responses): a first-in first-out stream *)
(* of bytes.  A byte is known by its number in the stream of all bytes     *)
(* ever written, from 1.                                                   *)
(***************************************************************************)
EXTENDS Integers, Sequences

CONSTANTS
  Sizes,      (* sizes a caller may write or ask for            *)
  MaxBytes    (* bound: bytes written in all                    *)

VARIABLES
  written,    (* number of the last byte written                           *)
  consumed,   (* number of the last byte read or cleared                   *)
  pending,    (* size a read in progress asks for, None between the calls  *)
  result      (* the bytes the last finished read delivered                *)

None == -1
bqVars == <<written, consumed, pending, result>>

Least(a, b) == IF a <= b THEN a ELSE b

BQInit == written = 0 /\ consumed = 0 /\ pending = None /\ result = <<>>

Write ==
  /\ pending = None
  /\ \E size \in Sizes : written + size <= MaxBytes /\ written' = written + size
  /\ UNCHANGED <<consumed, pending, result>>

ReadCall ==
  /\ pending = None
  /\ \E size \in Sizes : pending' = size
  /\ result' = <<>>
  /\ UNCHANGED <<written, consumed>>

\* A read returns the oldest unread bytes, as many as it asked for or as there are.
ReadReturn ==
  /\ pending # None
  /\ LET n == Least(pending, written - consumed)
     IN  /\ result' = [i \in 1 .. n |-> consumed + i]
         /\ consumed' = consumed + n
  /\ pending' = None
  /\ UNCHANGED written

Clear ==
  /\ pending = None
  /\ consumed' = written
  /\ UNCHANGED <<written, pending, result>>

BQNext == Write \/ ReadCall \/ ReadReturn \/ Clear

BQSpec == BQInit /\ [][BQNext]_bqVars
===============================================================================
