------------------------------- MODULE MCRegex -------------------------------
(* Instances of Regex: subjects that are empty, plain, with a character of   *)
(* two bytes, with a CRLF at their start or end; every query string of up    *)
(* to QueryLength bytes behind the '?' (two arguments of one name take six), *)
(* and the shorter ones over more bytes.                                     *)
EXTENDS Regex

CONSTANT QueryLength

Subject(bytes, utf, crlf) == [bytes |-> bytes, utf |-> utf, crlf |-> crlf]

MCSubjects ==
  { Subject(<<>>, FALSE, FALSE),
    Subject(<<"a", "a", "a">>, FALSE, FALSE),
    Subject(<<"a", "continuation", "a">>, TRUE, FALSE),
    Subject(<<"a", "continuation", "continuation">>, TRUE, TRUE),
    Subject(<<"CR", "LF">>, FALSE, TRUE),
    Subject(<<"CR", "LF", "a">>, TRUE, TRUE) }

Strings(bytes, n) == UNION {[1..k -> bytes] : k \in 0..n}

MCQueries ==
  {<<"?">> \o q : q \in Strings({"&", "=", "x"}, QueryLength)
                       \cup Strings({"&", "=", "?", "x", "y"}, QueryLength - 3)}

===============================================================================
