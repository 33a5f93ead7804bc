---------------------------- MODULE MCWhsLifecycle ----------------------------
(***************************************************************************)
(* An instance of WhsLifecycle for TLC.  The two builders are alike.       *)
(***************************************************************************)
EXTENDS WhsLifecycle, TLC

CONSTANTS b1, b2   \* builders

MCBuilders == {b1, b2}
MCSymmetry == Permutations(MCBuilders)
===============================================================================
