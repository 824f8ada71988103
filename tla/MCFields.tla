------------------------------ MODULE MCFields ------------------------------
(***************************************************************************)
(* Fields with small texts: nested brackets and quotes, escapes, and       *)
(* something that is not in order after them.                              *)
(***************************************************************************)
EXTENDS Fields

MCIdent == {"int", "Inst"}
MCOther == {"0"}

\* A declaration as bits<0> int, and a let of a part of a field, as let Inst{0}; the
\* two names also stand for the words before them.
MCLefts ==
    {[tokens |-> <<"Inst", "<", "0", ">", "int">>, name |-> "int"],
     [tokens |-> <<"int", "Inst", "{", "0", "}">>, name |-> "Inst"]}

\* A name; a list in a call; a string with a separator, a quote and a closer in
\* it; a call with a comparison of such a string, and both separators.
MCValues ==
    {<<"Inst">>,
     <<"(", "[", "0", ",", "int", "]", ")">>,
     <<"\"", ";", "\\", "\"", ">", "\"">>,
     <<"{", "\"", "=", ",", "\\", "\\", "\"", ";", "<", "0", ">", "}">>}

\* Any three of the splitter's tokens, or an assignment that is commented out.
MCNoise == BoundedSeq({"<", ">", "\"", "\\", ";"}, 3)
             \cup {<<"0", "0", "Inst", "=", "0", ";">>}
=============================================================================
