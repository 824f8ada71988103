------------------------------ MODULE Inventory ------------------------------
(***************************************************************************)
(* The scan of one architecture's directory: check it, list its files with *)
(* rglob, sort them, read and parse one after the other, and report.  Four *)
(* programs have this loop: the td and cpp scrapers, scrape and grab.  A   *)
(* file that cannot be read or parsed must cost nothing but itself.  The   *)
(* tree may change at every point: rglob looks at one directory at a time, *)
(* and a file is read long after it was listed.                            *)
(***************************************************************************)
EXTENDS Integers, Sequences, SequencesExt, FiniteSets, TLC, Orders

CONSTANTS
    Dir, Top,     \* directories; the architecture's own
    PathOrder,    \* the files in the order of Path, which goes by components
    StringOrder,  \* the same in the order of their names as strings
    DirOf,        \* the directory of each file
    Text,         \* what a file may hold
    Nodes,        \* the nodes of a text's syntax tree that have a row, in source order
    Noisy,        \* the texts that Tree-Sitter parses with error nodes
    Undecodable,  \* those with instructions whose quoted string has a bad escape
    NameOrder,    \* the names of declarations, in string order
    Matching,     \* per keyword category, the names that have one of its keywords
    Consumer,     \* the programs
    MaxTouches,   \* bound on changes of the tree
    MaxFaults,    \* bound on parser failures
    None, Gone, Unreadable

File == ToSet(PathOrder)
Names == ToSet(NameOrder)

\* Lists of a file's result, in the order of _named_pool; includes are no part of it.
PoolKinds == <<"classes", "defs", "defms", "multiclasses">>
TdKind == ToSet(PoolKinds) \cup {"includes"}
CppKind == {"init_functions", "target_registry_calls", "register_target_declarations"}
Kind == TdKind \cup CppKind

(***************************************************************************)
(* A named node is a declaration.  An unnamed one is a keyword token,      *)
(* which the inventory loop also makes a row of: each declaration has one, *)
(* and an error node may hold others (see AstWalk).  A token has no name,  *)
(* and an anonymous def or defm has none either: None, which stands for    *)
(* the empty string too, as the loops that use names do not tell them      *)
(* apart ("if not name", "name or ''").                                    *)
(***************************************************************************)
Node == [kind : Kind, line : Nat, name : Names \cup {None}, named : BOOLEAN]
Instruction == {"defs", "defms"}   \* what _instruction_candidate may take

ASSUME TreeAssumption ==
    /\ Top \in Dir /\ DirOf \in [File -> Dir]
    /\ PathOrder \in Seq(File) /\ IsInjective(PathOrder)
    /\ StringOrder \in Seq(File) /\ IsInjective(StringOrder) /\ ToSet(StringOrder) = File
ASSUME TextAssumption ==
    /\ Nodes \in [Text -> Seq(Node)] /\ Noisy \cup Undecodable \subseteq Text
    /\ \A t \in Text : \A n \in ToSet(Nodes[t]) : ~n.named => n.name = None
    /\ \A t \in Undecodable : \E n \in ToSet(Nodes[t]) : n.named /\ n.kind \in Instruction
    /\ {Gone, Unreadable} \cap Text = {} /\ Gone # Unreadable
ASSUME NamesAssumption ==
    /\ NameOrder \in Seq(Names) /\ IsInjective(NameOrder)
    /\ None \notin Names \cup {"read_error", "parse_exception"}
    /\ \A c \in DOMAIN Matching : Matching[c] \subseteq Names
ASSUME ConsumerAssumption == Consumer \subseteq {"td", "cpp", "scrape", "grab"}
ASSUME BoundAssumption == MaxTouches \in Nat /\ MaxFaults \in Nat

VARIABLES
    at,        \* what is at each path: a text, something unreadable, or nothing
    dirs,      \* the directories that are there
    been,      \* what has been at each path since the scan began
    broken,    \* files on which the parser has failed
    touches,   \* how often the tree has changed
    consumer,  \* the program
    phase,     \* "check", "list", "read", "result" or "raised"
    agenda,    \* directories rglob has still to look at
    listed,    \* the files found, in the order they were found
    queue,     \* td_files, once sorted
    done,      \* how many of them have been read
    files,     \* the results so far (td, cpp, scrape)
    records,   \* the records so far (grab)
    issues     \* parse_issues so far (grab)

world == <<at, dirs, been, broken, touches>>
scan == <<consumer, phase, agenda, listed, queue, done, files, records, issues>>
vars == <<world, scan>>

-----------------------------------------------------------------------------
(***************************************************************************)
(* The results.                                                            *)
(***************************************************************************)
KindsOf(c) == IF c = "cpp" THEN CppKind ELSE TdKind

\* The rows of a text for one list: the loops do not ask whether a node is named.
RowsOf(text, kind) ==
    LET found == Selected(Nodes[text], {n \in ToSet(Nodes[text]) : n.kind = kind})
    IN [i \in DOMAIN found |-> [line |-> found[i].line, name |-> found[i].name]]

\* The lists come into being with their first row.
FaultyFailed(f, why) ==
    [file |-> f, error |-> why, noise |-> FALSE, rows |-> [k \in {} |-> <<>>]]

Failed(f, why) ==
    [file |-> f, error |-> why, noise |-> FALSE, rows |-> [k \in KindsOf(consumer) |-> <<>>]]

\* _parse_td_file, parse_cpp_file
Parsed(f, text) ==
    [file |-> f, error |-> None, noise |-> text \in Noisy,
     rows |-> [k \in KindsOf(consumer) |-> RowsOf(text, k)]]

\* The records grab takes from a text: named nodes only, and includes are none.
RecordOf(f, text, n) ==
    [file |-> f, line |-> n.line, kind |-> n.kind, name |-> n.name,
     bad |-> text \in Undecodable /\ n.kind \in Instruction]

RecordsOf(f, text) ==
    LET Kept == {n \in ToSet(Nodes[text]) : n.named /\ n.kind \in ToSet(PoolKinds)}
        found == Selected(Nodes[text], Kept)
    IN [i \in DOMAIN found |-> RecordOf(f, text, found[i])]

\* Position in an order; what is not in it (None, for "") comes first.
Rank(order, x) ==
    IF x \in ToSet(order) THEN CHOOSE i \in DOMAIN order : order[i] = x ELSE 0

\* _flat_records
FlatKey(r) == <<Rank(StringOrder, r.file), r.line, Rank(NameOrder, r.name)>>
FlatRows(e, kind) ==
    [i \in DOMAIN e.rows[kind] |->
        [file |-> e.file, line |-> e.rows[kind][i].line, name |-> e.rows[kind][i].name]]
FlatRecords(fs, kind) ==
    LET rows == Concatenated([i \in DOMAIN fs |-> FlatRows(fs[i], kind)])
    IN SortedBy(rows, [i \in DOMAIN rows |-> FlatKey(rows[i])])

PoolKey(r) ==
    <<Rank(StringOrder, r.file), r.line, Rank(PoolKinds, r.kind), Rank(NameOrder, r.name)>>
PoolRows(e, kind) ==
    LET named == Selected(e.rows[kind], {row \in ToSet(e.rows[kind]) : row.name # None})
    IN [i \in DOMAIN named |->
           [file |-> e.file, line |-> named[i].line, kind |-> kind, name |-> named[i].name]]
FilePool(e) == Concatenated([j \in DOMAIN PoolKinds |-> PoolRows(e, PoolKinds[j])])

\* Without pool.sort.
FaultyNamedPool(fs) == Concatenated([i \in DOMAIN fs |-> FilePool(fs[i])])

\* _named_pool
NamedPool(fs) ==
    LET pool == Concatenated([i \in DOMAIN fs |-> FilePool(fs[i])])
    IN SortedBy(pool, [i \in DOMAIN pool |-> PoolKey(pool[i])])

\* _keyword_records, of a category by the name of it
KeywordRecords(fs, category) ==
    LET pool == NamedPool(fs)
    IN Selected(pool, {r \in ToSet(pool) : r.name \in Matching[category]})

\* records.sort of _parse_arch_records
SortedRecords(rs) == SortedBy(rs, [i \in DOMAIN rs |-> PoolKey(rs[i])])

-----------------------------------------------------------------------------
Init ==
    /\ at \in [File -> Text \cup {Gone, Unreadable}]
    /\ dirs = Dir
    /\ been = [f \in File |-> {at[f]}]
    /\ broken = {} /\ touches = 0
    /\ consumer \in Consumer
    /\ phase = "check" /\ agenda = {}
    /\ listed = <<>> /\ queue = <<>> /\ done = 0
    /\ files = <<>> /\ records = <<>> /\ issues = <<>>

\* source_root.is_dir()
Check ==
    /\ phase = "check"
    /\ IF Top \in dirs
       THEN phase' = "list" /\ agenda' = {Top}
       ELSE phase' = "raised" /\ UNCHANGED agenda
    /\ UNCHANGED <<world, consumer, listed, queue, done, files, records, issues>>

(***************************************************************************)
(* rglob looks at a directory, which gives its files, in any order, and    *)
(* the directories to look at next.  One that has gone is skipped, or      *)
(* raises, depending on the version of pathlib.                            *)
(***************************************************************************)
ListDir(d) ==
    /\ phase = "list" /\ d \in agenda
    /\ IF d \in dirs
       THEN /\ \E names \in SetToSeqs({f \in File : DirOf[f] = d /\ at[f] # Gone}) :
                  listed' = listed \o names
            /\ agenda' = (agenda \ {d}) \cup (IF d = Top THEN dirs \ {Top} ELSE {})
            /\ UNCHANGED phase
       ELSE /\ phase' \in {"list", "raised"}
            /\ agenda' = agenda \ {d}
            /\ UNCHANGED listed
    /\ UNCHANGED <<world, consumer, queue, done, files, records, issues>>

\* The files are taken as the directories give them.
FaultySorted(fs) == fs

\* sorted(...)
Sorted(fs) == Selected(PathOrder, ToSet(fs))

SortListing ==
    /\ phase = "list" /\ agenda = {}
    /\ phase' = "read"
    /\ queue' = Sorted(listed)
    /\ UNCHANGED <<world, consumer, agenda, listed, done, files, records, issues>>

-----------------------------------------------------------------------------
(***************************************************************************)
(* The files, one after the other.                                         *)
(***************************************************************************)
Reading == phase = "read" /\ done < Len(queue)
Current == queue[done + 1]

\* The text of the file before is still there when a read fails.
FaultySource(f) == IF at[f] \notin Text /\ done > 0 THEN at[queue[done]] ELSE at[f]

\* path.read_bytes()
Source(f) == at[f]

\* A file that fails is left out.
FaultySkip(f, why) == UNCHANGED <<files, issues>>

Skip(f, why) ==
    IF consumer = "grab"
    THEN issues' = Append(issues, [file |-> f, error |-> why]) /\ UNCHANGED files
    ELSE files' = Append(files, Failed(f, why)) /\ UNCHANGED issues

\* The exception is not caught.
FaultyReadFails ==
    /\ Reading
    /\ Source(Current) \notin Text
    /\ phase' = "raised"
    /\ UNCHANGED <<world, consumer, agenda, listed, queue, done, files, records, issues>>

ReadFails ==
    /\ Reading
    /\ Source(Current) \notin Text
    /\ Skip(Current, "read_error")
    /\ done' = done + 1
    /\ UNCHANGED <<world, consumer, phase, agenda, listed, queue, records>>

ParseRaises ==
    /\ Reading
    /\ Source(Current) \in Text
    /\ Cardinality(broken) < MaxFaults
    /\ Skip(Current, "parse_exception")
    /\ broken' = broken \cup {Current}
    /\ done' = done + 1
    /\ UNCHANGED <<at, dirs, been, touches, consumer, phase, agenda, listed, queue, records>>

Parse ==
    /\ Reading
    /\ Source(Current) \in Text
    /\ IF consumer = "grab"
       THEN records' = records \o RecordsOf(Current, Source(Current)) /\ UNCHANGED files
       ELSE files' = Append(files, Parsed(Current, Source(Current))) /\ UNCHANGED records
    /\ done' = done + 1
    /\ UNCHANGED <<world, consumer, phase, agenda, listed, queue, issues>>

(***************************************************************************)
(* The totals and categories are made from what has been read; they are    *)
(* operators above.  grab also looks into quoted strings: unicode_escape   *)
(* raises for one that it cannot decode.                                   *)
(***************************************************************************)
Finish ==
    /\ phase = "read" /\ done = Len(queue)
    /\ phase' = IF \E i \in DOMAIN records : records[i].bad THEN "raised" ELSE "result"
    /\ records' = SortedRecords(records)
    /\ UNCHANGED <<world, consumer, agenda, listed, queue, done, files, issues>>

-----------------------------------------------------------------------------
(***************************************************************************)
(* The tree changes: a file appears, is changed, becomes unreadable or     *)
(* goes away, is moved over another path, or a directory is removed.       *)
(***************************************************************************)
Becomes(new) ==
    /\ phase \notin {"result", "raised"}
    /\ touches < MaxTouches
    /\ at' = new
    /\ been' = [f \in File |-> been[f] \cup {new[f]}]
    /\ touches' = touches + 1
    /\ UNCHANGED <<scan, broken>>

Touch(f) ==
    /\ DirOf[f] \in dirs
    /\ \E c \in (Text \cup {Gone, Unreadable}) \ {at[f]} : Becomes([at EXCEPT ![f] = c])
    /\ UNCHANGED dirs

Move(f, g) ==
    /\ f # g /\ at[f] \in Text /\ DirOf[g] \in dirs
    /\ Becomes([at EXCEPT ![f] = Gone, ![g] = at[f]])
    /\ UNCHANGED dirs

RemoveDir(d) ==
    /\ d \in dirs
    /\ dirs' = IF d = Top THEN {} ELSE dirs \ {d}
    /\ Becomes([f \in File |-> IF DirOf[f] \in dirs' THEN at[f] ELSE Gone])

Next ==
    \/ Check \/ (\E d \in Dir : ListDir(d)) \/ SortListing
    \/ ReadFails \/ ParseRaises \/ Parse \/ Finish
    \/ \E f \in File : Touch(f) \/ \E g \in File : Move(f, g)
    \/ \E d \in Dir : RemoveDir(d)

Spec == Init /\ [][Next]_vars

-----------------------------------------------------------------------------
Row == [line : Nat, name : Names \cup {None}]
Error == {"read_error", "parse_exception"}
Result ==
    [file : File, error : Error \cup {None}, noise : BOOLEAN, rows : [KindsOf(consumer) -> Seq(Row)]]
Record ==
    [file : File, line : Nat, kind : ToSet(PoolKinds), name : Names \cup {None}, bad : BOOLEAN]

\* Types of the state: each result has all lists of its program.
TypeOK ==
    /\ at \in [File -> Text \cup {Gone, Unreadable}]
    /\ dirs \subseteq Dir
    /\ been \in [File -> SUBSET (Text \cup {Gone, Unreadable})]
    /\ broken \subseteq File
    /\ touches \in 0..MaxTouches
    /\ consumer \in Consumer
    /\ phase \in {"check", "list", "read", "result", "raised"}
    /\ agenda \subseteq Dir
    /\ listed \in Seq(File) /\ queue \in Seq(File)
    /\ done \in 0..Len(queue)
    /\ files \in Seq(Result)
    /\ records \in Seq(Record)
    /\ issues \in Seq([file : File, error : Error])

\* Files that nobody has touched since the scan began, and the parser has read.
Still == {f \in File : been[f] = {at[f]} /\ f \notin broken}

\* Those that hold a text, in order, and the nodes in them: the i-th of file f is
\* at <<f, i>>.
StillText == Selected(PathOrder, {f \in Still : at[f] \in Text})
Places == UNION {{<<f, i>> : i \in DOMAIN Nodes[at[f]]} : f \in ToSet(StillText)}
NodeAt(p) == Nodes[at[p[1]]][p[2]]

(***************************************************************************)
(* shown has a row for each of some places.  The rows of what stood still  *)
(* are those, and each is there as often as it is due: two nodes may well  *)
(* have the same row.                                                      *)
(***************************************************************************)
Shows(rows, shown) ==
    /\ \A i \in DOMAIN rows : rows[i].file \in Still => \E p \in DOMAIN shown : rows[i] = shown[p]
    /\ \A p \in DOMAIN shown :
          Cardinality({i \in DOMAIN rows : rows[i] = shown[p]})
             = Cardinality({q \in DOMAIN shown : shown[q] = shown[p]})

Ascend(keys) == \A i, j \in DOMAIN keys : i < j => ~Precedes(keys[j], keys[i])

\* The declarations grab makes a record of, and the record of each.
RecordPlaces == {p \in Places : NodeAt(p).named /\ NodeAt(p).kind \in ToSet(PoolKinds)}
RecordAt(p) == RecordOf(p[1], at[p[1]], NodeAt(p))

\* The records rs of what stood still are its declarations, and all are in order.
RecordsStillThere(rs) ==
    /\ Shows(rs, [p \in RecordPlaces |-> RecordAt(p)])
    /\ Ascend([i \in DOMAIN rs |-> PoolKey(rs[i])])

\* The results fs of what stood still are those of its texts, in order.
FilesStillThere(fs) ==
    Selected(fs, {e \in ToSet(fs) : e.file \in Still /\ e.error = None})
       = [i \in DOMAIN StillText |-> Parsed(StillText[i], at[StillText[i]])]

(***************************************************************************)
(* However the tree changes elsewhere, and in whatever order directories   *)
(* give their files, a file that stands still is in the report once, at    *)
(* its place in the order, and with what it holds.  On a tree at rest the  *)
(* report is therefore a function of the tree.                             *)
(***************************************************************************)
ReportsWhatStoodStill ==
    phase = "result" =>
       IF consumer = "grab" THEN RecordsStillThere(records) ELSE FilesStillThere(files)

(***************************************************************************)
(* GUIDE.md, "Shape check": td_files is the number of entries.  A file     *)
(* that was listed and cannot be read is still accounted for, also by      *)
(* grab, where it has no entry of its own.                                 *)
(***************************************************************************)
EveryListedFileAccounted ==
    phase = "result" =>
       IF consumer = "grab"
       THEN \A f \in ToSet(queue) :
               been[f] \cap Text = {} => \E i \in DOMAIN issues : issues[i].file = f
       ELSE /\ Len(files) = Len(queue)
            /\ \A i \in DOMAIN queue : files[i].file = queue[i]

(***************************************************************************)
(* Nothing is reported of a file but what it has held during the scan, all *)
(* of one version of it; and it is reported as failed only if it could not *)
(* be read at some time, or the parser failed on it.                       *)
(***************************************************************************)
HasFailed(f, why) ==
    IF why = "read_error" THEN ~(been[f] \subseteq Text) ELSE f \in broken

EntriesAreHistory ==
    /\ \A i \in DOMAIN files :
          LET e == files[i]
          IN IF e.error = None
             THEN \E text \in been[e.file] \cap Text : e = Parsed(e.file, text)
             ELSE HasFailed(e.file, e.error)
    /\ \A i \in DOMAIN issues : HasFailed(issues[i].file, issues[i].error)
    /\ phase = "read" => \A f \in {records[i].file : i \in DOMAIN records} :
          \E text \in been[f] \cap Text :
             Selected(records, {r \in ToSet(records) : r.file = f}) = RecordsOf(f, text)

(***************************************************************************)
(* The scan fails as a whole only if a directory went away under it, or in *)
(* grab for a text it cannot decode; no other file stops it, whatever it   *)
(* is or becomes (GUIDE.md, "Per-file error policy").                      *)
(***************************************************************************)
RaisesOnlyIfGone ==
    phase = "raised" =>
       \/ dirs # Dir
       \/ consumer = "grab" /\ \E f \in File : been[f] \cap Undecodable # {}

(***************************************************************************)
(* A keyword category of scrape has each declaration whose name matches    *)
(* once, although the inventory has another row for its keyword.  A        *)
(* structural one has all of these rows: each declaration of its kind, by  *)
(* its name or, if it is anonymous, without one, and each keyword token.   *)
(* Neither has anything else of a file that stood still, and both are in   *)
(* the order of file names as strings, which is not the order of the       *)
(* files, and within a file of lines, kinds and names.                     *)
(***************************************************************************)
InCategory(c) ==
    {p \in Places : /\ NodeAt(p).named /\ NodeAt(p).kind \in ToSet(PoolKinds)
                    /\ NodeAt(p).name \in Matching[c]}
PoolRowAt(p) ==
    [file |-> p[1], line |-> NodeAt(p).line, kind |-> NodeAt(p).kind, name |-> NodeAt(p).name]

OfKind(kind) == {p \in Places : NodeAt(p).kind = kind}
FlatRowAt(p) == [file |-> p[1], line |-> NodeAt(p).line, name |-> NodeAt(p).name]

KeywordComplete(rows, c) ==
    /\ Shows(rows, [p \in InCategory(c) |-> PoolRowAt(p)])
    /\ Ascend([i \in DOMAIN rows |-> PoolKey(rows[i])])

StructuralComplete(rows, kind) ==
    /\ Shows(rows, [p \in OfKind(kind) |-> FlatRowAt(p)])
    /\ Ascend([i \in DOMAIN rows |-> FlatKey(rows[i])])

CategoriesComplete ==
    phase = "result" /\ consumer = "scrape" =>
       /\ \A c \in DOMAIN Matching : KeywordComplete(KeywordRecords(files, c), c)
       /\ \A k \in TdKind : StructuralComplete(FlatRecords(files, k), k)

(***************************************************************************)
(* What GUIDE.md asks of an extractor that looks at more than the tree:    *)
(* "continue on per-file errors; record failures in `errors`".  It does    *)
(* not hold of grab, which fails for the whole architecture.               *)
(***************************************************************************)
ContinuesOnFileErrors == phase = "raised" => dirs # Dir
=============================================================================
