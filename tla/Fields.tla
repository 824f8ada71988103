-------------------------------- MODULE Fields --------------------------------
(***************************************************************************)
(* What grab takes from the text of a record: the fields of its body and   *)
(* the classes it is derived from.  Both come from _split_top_level, which *)
(* goes through a text once and cuts it at each separator outside quotes   *)
(* and brackets.  It knows nothing of comments, of code fragments, or of   *)
(* which closer belongs to which opener.                                   *)
(*                                                                         *)
(* A text is a sequence of tokens: the characters the code looks at, whole *)
(* identifiers, and other characters.  White space is left out.            *)
(***************************************************************************)
EXTENDS Integers, Sequences, SequencesExt, FiniteSets, Orders

CONSTANTS
    Ident,       \* the identifiers
    Other,       \* characters without a meaning, as digits and operators
    Lefts,       \* left sides of statements: tokens, and the name they define
    Values,      \* expressions: tokens whose brackets and quotes are in order
    Noise,       \* tokens after the statements, as comments or syntax errors
    MaxItems,    \* bound on statements in a body, and classes in a list
    None

Openers == {"<", "(", "[", "{"}
Closers == {">", ")", "]", "}"}
Token == Openers \cup Closers \cup {"\"", "\\", ";", ",", "=", ":"} \cup Ident \cup Other

\* What a position p of the tokens t is in: an odd number of backslashes before it
\* escape it, and quotes and brackets count unless they are escaped or in quotes.
IsEscaped(t, p) ==
    \E n \in 1..(p - 1) : /\ n % 2 = 1
                          /\ \A q \in (p - n)..(p - 1) : t[q] = "\\"
                          /\ p - n = 1 \/ t[p - n - 1] # "\\"
Quotes(t, p) == {q \in 1..(p - 1) : t[q] = "\"" /\ ~IsEscaped(t, q)}
InQuotes(t, p) == Cardinality(Quotes(t, p)) % 2 = 1
Bare(t, p) == ~IsEscaped(t, p) /\ ~InQuotes(t, p)
BareOf(t, S, q, p) == {r \in q..(p - 1) : t[r] \in S /\ Bare(t, r)}
Surplus(t, q, p) ==
    Cardinality(BareOf(t, Openers, q, p)) - Cardinality(BareOf(t, Closers, q, p))
InBrackets(t, p) == \E q \in 1..(p - 1) : Surplus(t, q, p) > 0

\* Brackets and quotes of t are in order, and no separator is outside of them.
Balanced(t, s) ==
    /\ Bare(t, Len(t) + 1) /\ Surplus(t, 1, Len(t) + 1) = 0
    /\ \A p \in DOMAIN t : /\ Surplus(t, 1, p) >= 0
                           /\ t[p] = s /\ Bare(t, p) => Surplus(t, 1, p) > 0

ASSUME TokenAssumption ==
    /\ Ident \cap Other = {} /\ {} = Ident \cap {"\"", "\\", ";", ",", "=", ":"}
    /\ Ident \cap (Openers \cup Closers) = {}
ASSUME TextAssumption ==
    /\ \A l \in Lefts :
          /\ l.tokens \in Seq(Token \ {"="}) /\ l.name \in Ident
          /\ \E k \in DOMAIN l.tokens :
                /\ l.tokens[k] = l.name
                /\ \A j \in (k + 1)..Len(l.tokens) : l.tokens[j] \notin Ident
    /\ Values \subseteq Seq(Token) /\ None \notin Values
    /\ Noise \subseteq Seq(Token)
ASSUME BoundAssumption == MaxItems \in Nat

Statement == [left : Lefts, value : Values \cup {None}]
Derivation == [base : Ident, args : Values \cup {None}]

\* What is written in the source: a body, or a list of parent classes.
Body == [kind : {"body"}, items : BoundedSeq(Statement, MaxItems), noise : Noise]
Parents == [kind : {"parents"}, items : BoundedSeq(Derivation, MaxItems), noise : {<<>>}]

StatementTokens(s) ==
    s.left.tokens \o (IF s.value = None THEN <<>> ELSE <<"=">> \o s.value)
DerivationTokens(d) ==
    <<d.base>> \o (IF d.args = None THEN <<>> ELSE <<"<">> \o d.args \o <<">">>)

ASSUME OrderAssumption ==
    /\ \A s \in Statement : Balanced(StatementTokens(s), ";")
    /\ \A d \in Derivation : Balanced(DerivationTokens(d), ",")

\* The text of the node, with its braces or its colon: a statement ends with a
\* separator, and a class if another one follows.
Separator(kind) == IF kind = "body" THEN ";" ELSE ","
ItemTokens(w, i) ==
    IF w.kind = "body" THEN StatementTokens(w.items[i]) ELSE DerivationTokens(w.items[i])
Ended(w) ==
    [i \in DOMAIN w.items |->
        IF w.kind = "body" \/ i < Len(w.items)
        THEN Append(ItemTokens(w, i), Separator(w.kind)) ELSE ItemTokens(w, i)]
Source(w) ==
    IF w.kind = "body"
    THEN <<"{">> \o Concatenated(Ended(w)) \o w.noise \o <<"}">>
    ELSE <<":">> \o Concatenated(Ended(w))

\* inner of _extract_fields, text of _extract_parent_info
Inner(kind, source) ==
    IF kind = "body"
    THEN IF Len(source) > 1 /\ Head(source) = "{" /\ Last(source) = "}"
         THEN SubSeq(source, 2, Len(source) - 1)
         ELSE source
    ELSE IF source # <<>> /\ Head(source) = ":" THEN Tail(source) ELSE source

VARIABLES
    written,  \* what the text was written for
    text,     \* the text, and the separator
    sep,
    pos,      \* the next token
    parts,    \* the parts so far
    current,  \* the part that is being collected
    depth, quote, escaped,
    cuts      \* where the text has been cut (history)

vars == <<written, text, sep, pos, parts, current, depth, quote, escaped, cuts>>

-----------------------------------------------------------------------------
Init ==
    /\ written \in Body \cup Parents
    /\ text = Inner(written.kind, Source(written)) /\ text \in Seq(Token)
    /\ sep = Separator(written.kind)
    /\ pos = 1
    /\ parts = <<>> /\ current = <<>>
    /\ depth = 0 /\ quote = FALSE /\ escaped = FALSE
    /\ cuts = <<>>

More == pos <= Len(text)
Ch == text[pos]

\* The backslash itself is dropped.
FaultyCollect == current' = IF Ch = "\\" THEN current ELSE Append(current, Ch)

Collect == current' = Append(current, Ch)

Escaped ==
    /\ More /\ escaped
    /\ Collect
    /\ escaped' = FALSE
    /\ pos' = pos + 1
    /\ UNCHANGED <<written, text, sep, parts, depth, quote, cuts>>

Backslash ==
    /\ More /\ ~escaped /\ Ch = "\\"
    /\ Collect
    /\ escaped' = TRUE
    /\ pos' = pos + 1
    /\ UNCHANGED <<written, text, sep, parts, depth, quote, cuts>>

Quote ==
    /\ More /\ ~escaped /\ Ch = "\""
    /\ Collect
    /\ quote' = ~quote
    /\ pos' = pos + 1
    /\ UNCHANGED <<written, text, sep, parts, depth, escaped, cuts>>

\* Without the bound: a closer too many counts against later openers.
FaultyDepthAfter(ch) ==
    IF ch \in Openers THEN depth + 1 ELSE IF ch \in Closers THEN depth - 1 ELSE depth

DepthAfter(ch) ==
    IF ch \in Openers THEN depth + 1
    ELSE IF ch \in Closers /\ depth > 0 THEN depth - 1 ELSE depth

\* Separators in brackets cut too.
FaultyCuts == ~quote /\ Ch = sep

Cuts == ~quote /\ Ch = sep /\ depth = 0

Plain ==
    /\ More /\ ~escaped /\ Ch \notin {"\\", "\""} /\ ~Cuts
    /\ Collect
    /\ depth' = IF quote THEN depth ELSE DepthAfter(Ch)
    /\ pos' = pos + 1
    /\ UNCHANGED <<written, text, sep, parts, quote, escaped, cuts>>

Cut ==
    /\ More /\ ~escaped /\ Ch \notin {"\\", "\""} /\ Cuts
    /\ parts' = Append(parts, current)
    /\ current' = <<>>
    /\ cuts' = Append(cuts, pos)
    /\ pos' = pos + 1
    /\ UNCHANGED <<written, text, sep, depth, quote, escaped>>

Next == Escaped \/ Backslash \/ Quote \/ Plain \/ Cut

Spec == Init /\ [][Next]_vars

-----------------------------------------------------------------------------
(***************************************************************************)
(* The results.  The last part is what is collected when the text ends.    *)
(***************************************************************************)
Done == ~More
Pieces == Append(parts, current)

\* _IDENT_RE.findall
Idents(piece) == Selected(piece, Ident)

\* piece.split("=", 1)
EqualsAt(piece) ==
    CHOOSE k \in DOMAIN piece : piece[k] = "=" /\ \A j \in 1..(k - 1) : piece[j] # "="
LeftOf(piece) == SubSeq(piece, 1, EqualsAt(piece) - 1)
RightOf(piece) == SubSeq(piece, EqualsAt(piece) + 1, Len(piece))

\* The assignments of _extract_fields, in their order.
Assigns(piece) == "=" \in ToSet(piece) /\ Idents(LeftOf(piece)) # <<>>
Assignments ==
    LET found == Selected(Pieces, {piece \in ToSet(Pieces) : Assigns(piece)})
    IN [i \in DOMAIN found |->
           [name |-> Last(Idents(LeftOf(found[i]))), value |-> RightOf(found[i])]]

\* fields[name] = ... would keep the last value.
FaultyFirstOf(assignments, name) ==
    assignments[CHOOSE i \in DOMAIN assignments :
                   /\ assignments[i].name = name
                   /\ \A j \in (i + 1)..Len(assignments) : assignments[j].name # name].value

\* The value under each name is the first of it: fields.setdefault.
FirstOf(assignments, name) ==
    assignments[CHOOSE i \in DOMAIN assignments :
                   /\ assignments[i].name = name
                   /\ \A j \in 1..(i - 1) : assignments[j].name # name].value
FieldsOf(assignments) ==
    [n \in {assignments[i].name : i \in DOMAIN assignments} |-> FirstOf(assignments, n)]

\* bases of _extract_parent_info
BaseOf(item) == IF Idents(item) # <<>> THEN <<Head(Idents(item))>> ELSE item
Bases ==
    LET items == Selected(Pieces, ToSet(Pieces) \ {<<>>})
    IN [i \in DOMAIN items |-> BaseOf(items[i])]

-----------------------------------------------------------------------------
\* Types of the state.
TypeOK ==
    /\ text \in Seq(Token) /\ sep \in {";", ","}
    /\ pos \in 1..(Len(text) + 1)
    /\ parts \in Seq(Seq(Token)) /\ current \in Seq(Token)
    /\ depth \in Nat /\ quote \in BOOLEAN /\ escaped \in BOOLEAN
    /\ cuts \in Seq(Nat)

(***************************************************************************)
(* Nothing of the text is lost, doubled or moved, whatever is in it: the   *)
(* parts and the part being collected are its stretches between cuts.      *)
(***************************************************************************)
Start(i) == IF i = 1 THEN 1 ELSE cuts[i - 1] + 1
Lossless ==
    /\ Len(cuts) = Len(parts)
    /\ \A i \in 1..Len(parts) :
          /\ cuts[i] \in 1..(pos - 1) /\ text[cuts[i]] = sep
          /\ parts[i] = SubSeq(text, Start(i), cuts[i] - 1)
    /\ current = SubSeq(text, Start(Len(parts) + 1), pos - 1)

(***************************************************************************)
(* The text is cut at exactly the separators that are not escaped, not in  *)
(* quotes, and not after more openers than closers, counted from anywhere: *)
(* a closer too many never makes up for a later opener.                    *)
(***************************************************************************)
AtTopLevel(p) == text[p] = sep /\ Bare(text, p) /\ ~InBrackets(text, p)
CutsAtTopLevel == Done => ToSet(cuts) = {p \in DOMAIN text : AtTopLevel(p)}

\* Both: what _split_top_level is for.
SplitsAtTopLevel == Lossless /\ CutsAtTopLevel

(***************************************************************************)
(* The fields of a body are those its statements assign, under the name    *)
(* each one defines and with the whole value, however brackets, quotes and *)
(* separators nest in it.  What follows the statements, a comment or       *)
(* something that is not in order, can add fields but not hide or change   *)
(* those before it.  The bases are the classes the record derives from.    *)
(***************************************************************************)
AssignedIn(items) == {i \in DOMAIN items : items[i].value # None}
FoundAsWritten ==
    Done =>
       LET items == written.items
           fields == FieldsOf(Assignments)
       IN IF written.kind = "body"
          THEN /\ \A i \in AssignedIn(items) :
                     LET n == items[i].left.name
                     IN (\A j \in AssignedIn(items) : j < i => items[j].left.name # n)
                          => n \in DOMAIN fields /\ fields[n] = items[i].value
               /\ written.noise = <<>> =>
                     DOMAIN fields = {items[i].left.name : i \in AssignedIn(items)}
          ELSE Bases = [i \in DOMAIN items |-> <<items[i].base>>]
=============================================================================
