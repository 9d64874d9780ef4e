----------------------------- MODULE MCFraming -----------------------------
(* TLC instance of Framing.  A line holds four bytes: those of one and two *)
(* characters fit with their CR LF, those of three and four lose it, one   *)
(* of five is cut and leaves an end line over.                             *)
EXTENDS Framing

a == "a"

MCEnd == <<"E">>

MCChar == {a, "b", "E", CR, LF}

Line(n) == [i \in 1..n |-> a]

MCLines == {Line(n) : n \in 1..4} \cup {<<"b">>, <<a, "b">>, <<a, a, a, a, "E">>}

MCRequests ==
    {<<Line(2)>> \o middle \o <<MCEnd>> :
        middle \in UNION {[1..n -> MCLines] : n \in 0..2}
                    \cup {<<<<"b">>, <<a>>, <<"b">>>>, <<<<a>>, <<"b">>, <<a, "b">>, <<a>>>>}}

MCMessages ==
    MCRequests \cup {<<Line(2), <<"E">>, line, MCEnd>> : line \in {<<a>>, <<"E">>, <<"E", a>>}}
               \cup {<<Line(2), <<"E", a>>, line, MCEnd>> : line \in {<<a>>, <<"E", "b">>}}

MCData == {<<>>, <<a>>, <<CR, LF>>, <<LF, a, CR>>}
=============================================================================
