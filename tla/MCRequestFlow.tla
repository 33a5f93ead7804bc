---------------------------- MODULE MCRequestFlow ----------------------------
(***************************************************************************)
(* Instances of RequestFlow for TLC: handlers of every way to answer and   *)
(* to leave, at most two in a pipeline.                                    *)
(***************************************************************************)
EXTENDS RequestFlow

H(headers, body, status, ends, leaves) ==
  [headers |-> headers, length |-> Absent, assigns |-> FALSE, body |-> body,
   status |-> status, ends |-> ends, leaves |-> leaves]

Pass == H({}, Absent, Absent, FALSE, "true")
Answer == H({"ContentType"}, 2, 200, FALSE, "true")
EndIt == H({"CacheControl"}, 1, 200, TRUE, "false")
NoStatus == H({}, 1, Absent, FALSE, "true")        \* the handler of README.md:64-68
EndSilent == H({}, Absent, Absent, TRUE, "true")   \* ends the response, sets nothing
Huge == H({}, 9, 200, FALSE, "true")          \* more bytes than an unsigned int counts
ThrowHttp == H({}, 1, Absent, FALSE, "http")
ThrowNotFound == H({}, Absent, Absent, FALSE, "notFound")
ThrowForeign == H({"Server"}, Absent, Absent, FALSE, "foreign")

\* Handlers that give a Content-Length themselves, and one that resets the status.
AddsLength == [Answer EXCEPT !.length = 7]
AssignsLength == [Pass EXCEPT !.length = 7, !.assigns = TRUE]
ReadsLength == [Pass EXCEPT !.length = Blank]
Resets == H({}, Absent, 0, FALSE, "true")

MCHandlers ==
  {Pass, Answer, EndIt, EndSilent, NoStatus, Huge, ThrowHttp, ThrowNotFound, ThrowForeign,
   AddsLength, AssignsLength, ReadsLength, Resets}
MCPipelines ==
  {<<>>, <<Answer>>, <<NoStatus>>, <<EndIt, Pass>>, <<EndSilent>>, <<ThrowHttp>>,
   <<AssignsLength, Resets>>}
MCNotFounds == {NoStatus}

\* For the runs that compare the code with its documentation.
MCPlainPipelines == {<<>>, <<EndIt, Pass>>}
MCReadmeHandlers == {Pass, EndIt, NoStatus}
===============================================================================
