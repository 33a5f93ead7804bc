------------------------------- MODULE MCRouter -------------------------------
(***************************************************************************)
(* An instance of Router for TLC: paths that share segments, with a        *)
(* parameter beside a text, one whose regex has a capture group, the same  *)
(* name twice, and with trailing slashes; URLs that fit several of them.   *)
(***************************************************************************)
EXTENDS Router, TLC

X == "{x}"
Y == "{y:a|(b)}"

MCParamName == (X :> "x") @@ (Y :> "y")
MCMatchCode == (X :> [t \in {"a", "b", "p", ""} |-> 1]) @@ (Y :> ("a" :> 1 @@ "b" :> 2))
MCPaths == { <<>>, <<"a">>, <<"a", "b">>, <<"a", Y>>, <<X, "b">>, <<X, X>>, <<Y, X>>,
             <<"a", "">> }
MCUrls == { <<"">>, <<"a">>, <<"b", "">>, <<"a", "">>, <<"a", "", "">>, <<"", "b">>,
            <<"a", "a">>, <<"a", "b", "">>, <<"b", "a">>, <<"b", "b">>,
            <<"p", "a">>, <<"p", "a", "b">>, <<"p">>, <<"p", "">> }
MCURLPrefixes == {<<>>, <<"p">>}
===============================================================================
