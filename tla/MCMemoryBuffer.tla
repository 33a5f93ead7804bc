---------------------------- MODULE MCMemoryBuffer ----------------------------
(***************************************************************************)
(* MemoryBuffer for TLC: pages of three bytes, and sizes below, at and     *)
(* above one and two pages.                                                *)
(***************************************************************************)
EXTENDS MemoryBuffer

MCSizes == {0, 1, 2, 3, 4, 7}
===============================================================================
