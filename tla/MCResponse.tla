----------------------------- MODULE MCResponse -----------------------------
(***************************************************************************)
(* Values of the constants of Response for TLC: three of the enumerators   *)
(* of CommonHeader, whose order is not that of their texts, and a name     *)
(* that has none.                                                          *)
(***************************************************************************)
EXTENDS Response, TLC

MCTextRank == "Bdqid" :> 1 @@ "Cache-Control" :> 2 @@ "Content-Length" :> 3
              @@ "Content-Type" :> 4
MCNameLength == "Bdqid" :> 5 @@ "Cache-Control" :> 13 @@ "Content-Length" :> 14
                @@ "Content-Type" :> 12
MCCommonHeader == "Cache-Control" :> 2 @@ "Content-Type" :> 10 @@ "Content-Length" :> 11
MCStatusText == 0 :> 9 @@ 511 :> 31

=============================================================================
