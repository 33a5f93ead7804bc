-------------------------- MODULE MCStaticListing --------------------------
(* A small instance of StaticListing: a file and a directory at the top,   *)
(* and one place in the directory.                                         *)
EXTENDS StaticListing

MCLocal == <<"/", "html">>
MCPrefix == <<"/", "static", "/">>
MCPlaces == {<<"a">>, <<"d">>, <<"d", "b">>}
=============================================================================
