----------------------------- MODULE MCScrapeCmd -----------------------------
(***************************************************************************)
(* ScrapeCmd with two architectures, three categories of which two can be  *)
(* combined, and the names --merge and --combine-file may be given.        *)
(***************************************************************************)
EXTENDS ScrapeCmd

CONSTANTS A, B

MCArchitectures == <<A, B>>
MCCategories == <<"instructions", "opcodes", "classes">>
MCCombinable == {"instructions", "opcodes"}
MCAbsolute == {<<"tmp">>}
MCDir == {"out"}

Selections == {SelectSeq(MCCategories, LAMBDA c : c \in S) : S \in SUBSET ToSet(MCCategories)}
Combines ==
    {None, <<>>, <<"instructions">>, <<"instructions", "opcodes">>, <<"opcodes", "instructions">>,
     <<"instructions", "instructions">>, <<"instructions", "classes">>, <<"instructions", "bogus">>}
MCFileName ==
    {<<c>> : c \in ToSet(MCCategories)} \cup {<<"Collection">>, <<"tmp">>}
    \cup {<<c, d>> : c, d \in MCCombinable}

\* Every command line, over both architectures or one.
AllLines ==
    [selected : Selections, merge : {None, <<"Collection">>}, combine : Combines,
     combineFile : {None, <<"classes">>}, output : {None, "out", "mirror"}, arch : {"ALL", B}]

Line(merge, combine, combineFile, arch) ==
    [selected |-> MCCategories, merge |-> merge, combine |-> combine,
     combineFile |-> combineFile, output |-> "out", arch |-> arch]

\* Command lines that write all three categories, in each of the ways there are.
WritingLines ==
    {Line(None, None, None, "ALL"),
     Line(<<"Collection">>, None, None, "ALL"),
     Line(<<"tmp">>, None, None, "ALL"),
     Line(None, <<"opcodes", "instructions">>, None, B),
     Line(None, <<"opcodes", "instructions">>, <<"classes">>, "ALL")}
=============================================================================
