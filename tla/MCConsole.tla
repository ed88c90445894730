----------------------------- MODULE MCConsole ------------------------------
(***************************************************************************)
(* A screen of two lines of three columns; integers of eight bits, with    *)
(* the least and the greatest.  A call prints one directive between two    *)
(* letters and a newline, or ends within a directive.                      *)
(***************************************************************************)
EXTENDS Console

MCInts == {-128, -12, -1, 0, 7, 10, 127}
MCWidths == {<<>>, <<"2">>, <<"3">>, <<"5">>}

MCFormat(width, c) == <<"x", "%">> \o width \o <<c, NL>>

MCCalls ==
  {[fmt |-> MCFormat(w, c), args |-> <<n>>] :
     w \in MCWidths, c \in {"d", "x", "p"}, n \in MCInts} \cup
  {[fmt |-> <<"%", "3", "l", "%", "y">>, args |-> <<n, n>>] :
     n \in MCInts} \cup
  {[fmt |-> MCFormat(<<>>, "s"), args |-> <<s>>] :
     s \in {<<"a">>, <<>>, NULLSTR}} \cup
  {[fmt |-> f, args |-> <<>>] :
     f \in {<<"%">>, <<"a", "%", "1", "2">>, <<"%", "%", NL>>,
            <<"%", "2", "q", NL>>}} \cup
  {[fmt |-> <<"%", "3", d, "d">>, args |-> <<-1>>] : d \in {"3", "5"}}
=============================================================================
