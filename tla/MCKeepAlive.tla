----------------------------- MODULE MCKeepAlive -----------------------------
(***************************************************************************)
(* An instance of KeepAlive for TLC, with two meanings of the texts.  In   *)
(* the first, one request's first byte of an etag matches though the whole *)
(* does not, and the end of its URL is shorter than the prefix; in the     *)
(* second, the end of a URL is the file, and the other request names its   *)
(* etag.                                                                   *)
(***************************************************************************)
EXTENDS KeepAlive

MCMeanings ==
  { [file |-> {<<1, "all">>, <<2, "all">>}, short |-> {<<1, "tail">>},
     naming |-> {<<1, "head">>}],
    [file |-> {<<1, "all">>, <<2, "tail">>}, short |-> {},
     naming |-> {<<2, "all">>, <<2, "head">>}] }
===============================================================================
