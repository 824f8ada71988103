--------------------------- MODULE InventoryProofs ---------------------------
(***************************************************************************)
(* Proofs about Inventory for any tree, any texts, and any number of       *)
(* changes of the tree and of parser failures.                             *)
(***************************************************************************)
EXTENDS Inventory, SequenceLemmas

Content == Text \cup {Gone, Unreadable}
Issue == [file : File, error : Error]

\* A constant of the model is none of the others.
LEMMA ConstantsDistinct ==
    /\ None # "read_error" /\ None # "parse_exception" /\ None \notin Names
    /\ Gone \notin Text /\ Unreadable \notin Text /\ Gone # Unreadable
  BY NamesAssumption, TextAssumption

\* There are finitely many files, since PathOrder lists them.
LEMMA FilesFinite == IsFiniteSet(File) /\ PathOrder \in Seq(File)
  <1>1. PathOrder \in Seq(File)
    BY TreeAssumption
  <1>2. PICK n \in Nat : n = Len(PathOrder) /\ DOMAIN PathOrder = 1..n
    BY <1>1, LenProperties
  <1> DEFINE F == [i \in 1..n |-> PathOrder[i]]
  <1>3. F \in [1..n -> File] /\ \A f \in File : \E i \in 1..n : F[i] = f
    BY <1>2 DEF File, ToSet
  <1>4. F \in Surjection(1..n, File)
    BY <1>3, Fun_IsSurj
  <1>5. IsFiniteSet(1..n)
    BY <1>2, FS_Interval
  <1> QED
    BY <1>1, <1>4, <1>5, FS_Surjection

-----------------------------------------------------------------------------
(***************************************************************************)
(* The types of what is read.                                              *)
(***************************************************************************)
\* The nodes of a text, and what a token does not have.
LEMMA NodesOfText ==
    ASSUME NEW text \in Text
    PROVE  /\ Nodes[text] \in Seq(Node)
           /\ \A j \in DOMAIN Nodes[text] :
                 /\ Nodes[text][j] \in Node /\ Nodes[text][j] \in ToSet(Nodes[text])
                 /\ Nodes[text][j].line \in Nat /\ Nodes[text][j].name \in Names \cup {None}
                 /\ Nodes[text][j].name # None => Nodes[text][j].named
  <1>1. Nodes[text] \in Seq(Node)
    BY TextAssumption
  <1>2. ASSUME NEW j \in DOMAIN Nodes[text]
        PROVE  Nodes[text][j] \in Node /\ Nodes[text][j] \in ToSet(Nodes[text])
    BY <1>1, ElementOfSeq, LenProperties DEF ToSet
  <1>3. \A n \in Node : n.line \in Nat /\ n.name \in Names \cup {None} /\ n.named \in BOOLEAN
    BY DEF Node
  <1>4. \A n \in ToSet(Nodes[text]) : ~n.named => n.name = None
    BY TextAssumption
  <1> QED
    BY <1>1, <1>2, <1>3, <1>4

\* The nodes of a text for one list.
KindPlaces(text, kind) == {j \in DOMAIN Nodes[text] : Nodes[text][j].kind = kind}

\* A row for each of them, in their order.
RowEach(rows, text, kind, m, b) ==
    /\ Pairing(b, 1..m, KindPlaces(text, kind))
    /\ rows = [k \in 1..m |-> [line |-> Nodes[text][b[k]].line, name |-> Nodes[text][b[k]].name]]

\* The rows of a list.
LEMMA RowsEach ==
    ASSUME NEW text \in Text, NEW kind
    PROVE  \E m \in Nat : \E b : RowEach(RowsOf(text, kind), text, kind, m, b)
  <1> DEFINE s == Nodes[text]
             S == {n \in ToSet(s) : n.kind = kind}
             found == Selected(s, S)
             J == KindPlaces(text, kind)
  <1>1. s \in Seq(Node)
    BY TextAssumption
  <1>2. PlacesIn(s, S) = J
    BY DEF PlacesIn, ToSet, KindPlaces
  <1>3. RowsOf(text, kind)
          = [k \in DOMAIN found |-> [line |-> found[k].line, name |-> found[k].name]]
    BY DEF RowsOf
  <1> HIDE DEF S, s, J
  <1>4. PICK m \in Nat : \E b : Picks(s, S, m, b) /\ found = [k \in 1..m |-> s[b[k]]]
    BY <1>1, SelectedPicks
  <1>5. PICK b : Picks(s, S, m, b) /\ found = [k \in 1..m |-> s[b[k]]]
    BY <1>4
  <1>6. Pairing(b, 1..m, J)
    <2>1. J \subseteq Nat
      BY <1>1, <1>2, PlacesOrdered
    <2>2. b \in [1..m -> J] /\ \A j \in J : \E k \in 1..m : b[k] = j
      BY <1>2, <1>5 DEF Picks
    <2>3. \A k, l \in 1..m : k < l => b[k] < b[l]
      BY <1>5 DEF Picks
    <2>4. ASSUME NEW k \in 1..m, NEW l \in 1..m, b[k] = b[l] PROVE k = l
      <3>1. k < l \/ l < k \/ k = l
        OBVIOUS
      <3>2. b[k] \in Nat /\ b[l] \in Nat
        BY <2>1, <2>2
      <3> QED
        BY <2>3, <2>4, <3>1, <3>2
    <2> QED
      BY <2>2, <2>4 DEF Pairing
  <1>7. RowsOf(text, kind) = [k \in 1..m |-> [line |-> s[b[k]].line, name |-> s[b[k]].name]]
    <2> HIDE DEF found
    <2> QED
      BY <1>3, <1>5
  <1> QED
    BY <1>6, <1>7 DEF s, J, RowEach

\* Rows are rows, in td as in cpp.
LEMMA RowsOfType ==
    ASSUME NEW text \in Text, NEW kind
    PROVE  RowsOf(text, kind) \in Seq(Row)
  <1>1. PICK m \in Nat : \E b : RowEach(RowsOf(text, kind), text, kind, m, b)
    BY RowsEach
  <1>2. PICK b : RowEach(RowsOf(text, kind), text, kind, m, b)
    BY <1>1
  <1>3. \A k \in 1..m : b[k] \in DOMAIN Nodes[text]
    BY <1>2 DEF RowEach, Pairing, KindPlaces
  <1>4. \A k \in 1..m : [line |-> Nodes[text][b[k]].line, name |-> Nodes[text][b[k]].name] \in Row
    BY <1>3, NodesOfText DEF Row
  <1> QED
    BY <1>2, <1>4, IsASeq DEF RowEach

\* A parsed text and a failure both give a result with all lists of the program.
LEMMA ResultTypes ==
    ASSUME NEW f \in File
    PROVE  /\ \A text \in Text : Parsed(f, text) \in Result
           /\ \A why \in Error : Failed(f, why) \in Result
  <1>1. \A text \in Text : Parsed(f, text) \in Result
    <2> TAKE text \in Text
    <2>1. [k \in KindsOf(consumer) |-> RowsOf(text, k)] \in [KindsOf(consumer) -> Seq(Row)]
      BY RowsOfType
    <2> QED
      BY <2>1 DEF Parsed, Result
  <1>2. \A why \in Error : Failed(f, why) \in Result
    <2> TAKE why \in Error
    <2>1. [k \in KindsOf(consumer) |-> <<>>] \in [KindsOf(consumer) -> Seq(Row)]
      BY EmptySeq
    <2> QED
      BY <2>1 DEF Failed, Result
  <1> QED
    BY <1>1, <1>2

\* The records of a text: those of its declarations, in their order.
LEMMA RecordsOfType ==
    ASSUME NEW f \in File, NEW text \in Text
    PROVE  /\ RecordsOf(f, text) \in Seq(Record)
           /\ \A i \in DOMAIN RecordsOf(f, text) :
                 /\ RecordsOf(f, text)[i].file = f
                 /\ RecordsOf(f, text)[i].bad => text \in Undecodable
  <1> DEFINE S == {n \in ToSet(Nodes[text]) : n.named /\ n.kind \in ToSet(PoolKinds)}
             found == Selected(Nodes[text], S)
  <1>1. Nodes[text] \in Seq(Node)
    BY TextAssumption
  <1>2. found \in Seq(Node) /\ ToSet(found) \subseteq S
    <2> HIDE DEF S
    <2> QED
      BY <1>1, SelectedType
  <1>3. RecordsOf(f, text) = [i \in DOMAIN found |-> RecordOf(f, text, found[i])]
    BY DEF RecordsOf
  <1>4. \A d \in S : d.kind \in ToSet(PoolKinds)
    OBVIOUS
  <1> HIDE DEF found, S
  <1>5. PICK n \in Nat : n = Len(found) /\ DOMAIN found = 1..n
    BY <1>2, LenProperties
  <1>6. \A i \in 1..n : found[i] \in Node /\ found[i].kind \in ToSet(PoolKinds)
    BY <1>2, <1>4, <1>5 DEF ToSet
  <1>7. \A i \in 1..n : RecordOf(f, text, found[i]) \in Record
    BY <1>6 DEF RecordOf, Record, Node
  <1>8. RecordsOf(f, text) \in Seq(Record)
    BY <1>3, <1>5, <1>7, IsASeq
  <1>9. \A i \in 1..n : /\ RecordOf(f, text, found[i]).file = f
                        /\ RecordOf(f, text, found[i]).bad => text \in Undecodable
    BY DEF RecordOf
  <1> QED
    BY <1>3, <1>5, <1>8, <1>9

\* The queue: the files listed, each once.
LEMMA SortedType ==
    ASSUME NEW fs \in Seq(File)
    PROVE  /\ Sorted(fs) \in Seq(File)
           /\ ToSet(Sorted(fs)) = ToSet(fs)
           /\ IsInjective(Sorted(fs))
  <1>1. PathOrder \in Seq(File) /\ IsInjective(PathOrder)
    BY TreeAssumption
  <1>2. ToSet(fs) \subseteq File
    BY LenProperties DEF ToSet
  <1> DEFINE S == ToSet(fs)
  <1> HIDE DEF S
  <1>3. /\ Selected(PathOrder, S) \in Seq(File)
        /\ ToSet(Selected(PathOrder, S)) = ToSet(PathOrder) \cap S
        /\ IsInjective(Selected(PathOrder, S))
    BY <1>1, SelectedType
  <1> QED
    BY <1>2, <1>3 DEF Sorted, File, S

-----------------------------------------------------------------------------
(***************************************************************************)
(* What is sorted by keys made of file, line, kind and name.               *)
(***************************************************************************)
\* A rank is a number.
LEMMA RankType ==
    ASSUME NEW order, DOMAIN order \subseteq Nat, NEW x
    PROVE  Rank(order, x) \in Nat
  <1>1. CASE x \in ToSet(order)
    <2>1. \E i \in DOMAIN order : order[i] = x
      BY <1>1 DEF ToSet
    <2>2. Rank(order, x) \in DOMAIN order
      BY <1>1, <2>1 DEF Rank
    <2> QED
      BY <2>2
  <1>2. CASE x \notin ToSet(order)
    BY <1>2 DEF Rank
  <1> QED
    BY <1>1, <1>2

\* The keys are tuples of numbers.
LEMMA KeyTypes ==
    ASSUME NEW r, r.line \in Nat
    PROVE  PoolKey(r) \in [1..4 -> Nat] /\ FlatKey(r) \in [1..3 -> Nat]
  <1>1. /\ DOMAIN StringOrder \subseteq Nat /\ DOMAIN NameOrder \subseteq Nat
        /\ DOMAIN PoolKinds \subseteq Nat
    BY TreeAssumption, NamesAssumption, LenProperties DEF PoolKinds
  <1>2. PICK a, b, c, d \in Nat : /\ a = Rank(StringOrder, r.file) /\ b = r.line
                                 /\ c = Rank(PoolKinds, r.kind) /\ d = Rank(NameOrder, r.name)
    BY <1>1, RankType
  <1>3. PoolKey(r) = <<a, b, c, d>> /\ FlatKey(r) = <<a, b, d>>
    BY <1>2 DEF PoolKey, FlatKey
  <1> QED
    BY <1>2, <1>3

\* What records.sort returns.
LEMMA SortedRecordsProperties ==
    ASSUME NEW rs \in Seq(Record)
    PROVE  /\ SortedRecords(rs) \in Seq(Record)
           /\ Len(SortedRecords(rs)) = Len(rs)
           /\ ToSet(SortedRecords(rs)) = ToSet(rs)
           /\ \A x : Cardinality(PlacesIn(SortedRecords(rs), {x})) = Cardinality(PlacesIn(rs, {x}))
           /\ \A i, j \in DOMAIN rs :
                 i < j => ~Precedes(PoolKey(SortedRecords(rs)[j]), PoolKey(SortedRecords(rs)[i]))
  <1> DEFINE keys == [i \in DOMAIN rs |-> PoolKey(rs[i])]
  <1>1. keys \in [DOMAIN rs -> [1..4 -> Nat]]
    <2> SUFFICES ASSUME NEW i \in DOMAIN rs PROVE PoolKey(rs[i]) \in [1..4 -> Nat]
      OBVIOUS
    <2>1. rs[i] \in Record
      BY ElementOfSeq, LenProperties
    <2>2. rs[i].line \in Nat
      BY <2>1 DEF Record
    <2> QED
      BY <2>2, KeyTypes
  <1>2. SortedRecords(rs) = SortedBy(rs, keys)
    BY DEF SortedRecords
  <1>3. \A i \in DOMAIN rs : keys[i] = PoolKey(rs[i])
    OBVIOUS
  <1> HIDE DEF keys
  <1>4. /\ SortedBy(rs, keys) \in Seq(Record)
        /\ Len(SortedBy(rs, keys)) = Len(rs)
        /\ \E from : /\ Pairing(from, DOMAIN rs, DOMAIN rs)
                     /\ \A k \in DOMAIN rs : SortedBy(rs, keys)[k] = rs[from[k]]
                     /\ \A k, l \in DOMAIN rs : k < l => ~Precedes(keys[from[l]], keys[from[k]])
    BY <1>1, SortedByProperties
  <1>5. ASSUME NEW x
        PROVE  /\ Cardinality(PlacesIn(SortedBy(rs, keys), {x})) = Cardinality(PlacesIn(rs, {x}))
               /\ ToSet(SortedBy(rs, keys)) = ToSet(rs)
    BY <1>1, SortedByCount
  <1>6. PICK from : /\ Pairing(from, DOMAIN rs, DOMAIN rs)
                    /\ \A k \in DOMAIN rs : SortedBy(rs, keys)[k] = rs[from[k]]
                    /\ \A k, l \in DOMAIN rs : k < l => ~Precedes(keys[from[l]], keys[from[k]])
    BY <1>4, Zenon
  <1>7. \A k \in DOMAIN rs : from[k] \in DOMAIN rs
    BY <1>6 DEF Pairing
  <1>8. ASSUME NEW i \in DOMAIN rs, NEW j \in DOMAIN rs, i < j
        PROVE  ~Precedes(PoolKey(SortedRecords(rs)[j]), PoolKey(SortedRecords(rs)[i]))
    <2>1. ~Precedes(keys[from[j]], keys[from[i]])
      BY <1>6, <1>8
    <2>2. keys[from[i]] = PoolKey(SortedRecords(rs)[i])
      BY <1>2, <1>3, <1>6, <1>7
    <2>3. keys[from[j]] = PoolKey(SortedRecords(rs)[j])
      BY <1>2, <1>3, <1>6, <1>7
    <2> QED
      BY <2>1, <2>2, <2>3
  <1> QED
    BY <1>2, <1>4, <1>5, <1>8

-----------------------------------------------------------------------------
(***************************************************************************)
(* The inductive invariant.  What is reported at the end depends on what   *)
(* the scan knows of each file while the tree changes: IInv says, for each *)
(* phase, which files have been found, which have been read, and what is   *)
(* held of each.                                                           *)
(***************************************************************************)
\* Files that are there and have not been touched.
Untouched(f) == been[f] = {at[f]} /\ at[f] # Gone

\* The records of a file.
OfFile(f) == {r \in Record : r.file = f}

\* A file is there only if its directory is, and that only if Top is.
WorldOK ==
    /\ \A f \in File : at[f] \in been[f] /\ (at[f] # Gone => DirOf[f] \in dirs)
    /\ dirs # {} => Top \in dirs

NothingRead ==
    /\ phase \in {"check", "list"} =>
          queue = <<>> /\ done = 0 /\ files = <<>> /\ records = <<>> /\ issues = <<>>
    /\ phase = "check" => listed = <<>> /\ agenda = {}

\* What has not been found is still to be looked at.
FoundOK ==
    phase = "list" =>
       \A f \in File : Untouched(f) => f \in ToSet(listed) \/ DirOf[f] \in agenda \/ Top \in agenda

QueueOK ==
    phase = "read" =>
       /\ queue = Sorted(listed)
       /\ \A f \in File : Untouched(f) => f \in ToSet(queue)

\* td, cpp and scrape have a result for each file read; grab has none.
FilesOK ==
    phase = "read" =>
       IF consumer = "grab"
       THEN files = <<>>
       ELSE /\ records = <<>> /\ issues = <<>> /\ Len(files) = done
            /\ \A i \in 1..done : files[i].file = queue[i]

\* A result is of a version of its file, or has nothing and the file has failed.
EntryOK(e) ==
    IF e.error = None
    THEN \E text \in been[e.file] \cap Text : e = Parsed(e.file, text)
    ELSE e = Failed(e.file, e.error) /\ HasFailed(e.file, e.error)

EntriesOK ==
    /\ \A i \in DOMAIN files : EntryOK(files[i])
    /\ \A i \in DOMAIN issues : HasFailed(issues[i].file, issues[i].error)

IssuesOK ==
    phase = "read" /\ consumer = "grab" =>
       \A k \in 1..done :
          been[queue[k]] \cap Text = {} => \E i \in DOMAIN issues : issues[i].file = queue[k]

\* grab has all records of one version of each file it has read, or none, and
\* then the file has failed.
HeldOf(rs, f) ==
    \/ \E text \in been[f] \cap Text : Selected(rs, OfFile(f)) = RecordsOf(f, text)
    \/ Selected(rs, OfFile(f)) = <<>> /\ \E why \in Error : HasFailed(f, why)

RecordsOK ==
    phase = "read" /\ consumer = "grab" =>
       /\ \A i \in DOMAIN records : \E k \in 1..done : records[i].file = queue[k]
       /\ \A k \in 1..done : HeldOf(records, queue[k])

IInv ==
    /\ TypeOK /\ WorldOK /\ NothingRead /\ FoundOK /\ QueueOK
    /\ FilesOK /\ EntriesOK /\ IssuesOK /\ RecordsOK

-----------------------------------------------------------------------------
(***************************************************************************)
(* Steps of the tree, told apart from those of the scan.                   *)
(***************************************************************************)
\* A change of the tree: what it holds now is added to what has been there.
TreeStep ==
    /\ phase \notin {"result", "raised"}
    /\ touches' \in 0..MaxTouches
    /\ at' \in [File -> Content]
    /\ been' = [f \in File |-> been[f] \cup {at'[f]}]
    /\ dirs' \subseteq dirs
    /\ dirs' # {} => Top \in dirs'
    /\ \A f \in File : at'[f] # Gone => DirOf[f] \in dirs'
    /\ UNCHANGED <<scan, broken>>

\* Touch, Move and RemoveDir are steps of the tree.
LEMMA TreeSteps ==
    ASSUME TypeOK, WorldOK,
           \/ \E f \in File : Touch(f) \/ \E g \in File : Move(f, g)
           \/ \E d \in Dir : RemoveDir(d)
    PROVE  TreeStep
  <1> USE DEF TypeOK, WorldOK
  <1>1. ASSUME NEW new \in [File -> Content], Becomes(new)
        PROVE  /\ phase \notin {"result", "raised"}
               /\ touches' \in 0..MaxTouches
               /\ at' = new /\ at' \in [File -> Content]
               /\ been' = [f \in File |-> been[f] \cup {at'[f]}]
               /\ UNCHANGED <<scan, broken>>
    BY <1>1, BoundAssumption DEF Becomes
  <1>2. ASSUME NEW f \in File, Touch(f) PROVE TreeStep
    <2>1. PICK c \in Content : Becomes([at EXCEPT ![f] = c])
      BY <1>2 DEF Touch, Content
    <2>2. [at EXCEPT ![f] = c] \in [File -> Content]
      BY DEF Content
    <2>3. dirs' = dirs /\ DirOf[f] \in dirs
      BY <1>2 DEF Touch
    <2>4. \A g \in File : at'[g] # Gone => DirOf[g] \in dirs
      BY <1>1, <2>1, <2>2, <2>3
    <2> QED
      BY <1>1, <2>1, <2>2, <2>3, <2>4 DEF TreeStep
  <1>3. ASSUME NEW f \in File, NEW g \in File, Move(f, g) PROVE TreeStep
    <2> DEFINE new == [at EXCEPT ![f] = Gone, ![g] = at[f]]
    <2>1. Becomes(new) /\ f # g /\ dirs' = dirs /\ DirOf[g] \in dirs
      BY <1>3 DEF Move
    <2>2. new \in [File -> Content]
      BY DEF Content
    <2>3. \A h \in File : new[h] = IF h = g THEN at[f] ELSE IF h = f THEN Gone ELSE at[h]
      BY <2>1
    <2> HIDE DEF new
    <2>4. \A h \in File : at'[h] # Gone => DirOf[h] \in dirs
      BY <1>1, <2>1, <2>2, <2>3
    <2> QED
      BY <1>1, <2>1, <2>2, <2>4 DEF TreeStep
  <1>4. ASSUME NEW d \in Dir, RemoveDir(d) PROVE TreeStep
    <2> DEFINE new == [f \in File |-> IF DirOf[f] \in dirs' THEN at[f] ELSE Gone]
    <2>1. Becomes(new) /\ dirs' = IF d = Top THEN {} ELSE dirs \ {d}
      BY <1>4 DEF RemoveDir
    <2>2. new \in [File -> Content]
      BY DEF Content
    <2>3. \A f \in File : new[f] # Gone => DirOf[f] \in dirs'
      OBVIOUS
    <2> HIDE DEF new
    <2>4. \A f \in File : at'[f] # Gone => DirOf[f] \in dirs'
      BY <1>1, <2>1, <2>2, <2>3
    <2>5. dirs' \subseteq dirs /\ (dirs' # {} => Top \in dirs')
      BY <2>1
    <2> QED
      BY <1>1, <2>1, <2>2, <2>4, <2>5 DEF TreeStep
  <1> QED
    BY <1>2, <1>3, <1>4

\* What a step can be.
LEMMA StepKinds ==
    ASSUME TypeOK, WorldOK, [Next]_vars
    PROVE  \/ Check \/ (\E d \in Dir : ListDir(d)) \/ SortListing
           \/ ReadFails \/ ParseRaises \/ Parse \/ Finish
           \/ TreeStep \/ UNCHANGED vars
  BY TreeSteps DEF Next

\* What has not been touched after a change had not been before, and is as it was.
LEMMA UntouchedBefore ==
    ASSUME TypeOK, WorldOK, TreeStep, NEW f \in File, been'[f] = {at'[f]}
    PROVE  been[f] = {at[f]} /\ at'[f] = at[f]
  <1>1. been'[f] = been[f] \cup {at'[f]}
    BY DEF TreeStep
  <1> QED
    BY <1>1 DEF WorldOK

\* No step leaves a file without its directory, or a directory without Top.
LEMMA WorldPreserved ==
    ASSUME TypeOK, WorldOK, [Next]_vars
    PROVE  WorldOK'
  <1>1. CASE TreeStep
    <2>1. been' = [f \in File |-> been[f] \cup {at'[f]}]
      BY <1>1 DEF TreeStep
    <2> QED
      BY <1>1, <2>1 DEF TreeStep, WorldOK
  <1>2. CASE ~TreeStep
    <2>1. UNCHANGED <<at, dirs, been>>
      BY <1>2, StepKinds DEF Check, ListDir, SortListing, ReadFails, ParseRaises, Parse,
            Finish, world, vars
    <2> QED
      BY <2>1 DEF WorldOK
  <1> QED
    BY <1>1, <1>2

-----------------------------------------------------------------------------
(***************************************************************************)
(* The types.                                                              *)
(***************************************************************************)
\* What a directory gives: its files, each once.
LEMMA ListingProperties ==
    ASSUME NEW S \in SUBSET File, NEW names \in SetToSeqs(S)
    PROVE  names \in Seq(File) /\ ToSet(names) = S
  <1>1. IsFiniteSet(S)
    BY FilesFinite, FS_Subset
  <1>2. PICK n \in Nat : n = Cardinality(S)
    BY <1>1, FS_CardinalityType
  <1>3. names \in [1..n -> S] /\ \A i, j \in 1..n : i # j => names[i] # names[j]
    BY <1>2 DEF SetToSeqs
  <1>4. names \in Injection(1..n, S)
    BY <1>3, Fun_IsInj
  <1>5. Cardinality(1..n) = n
    BY FS_Interval
  <1>6. names \in Surjection(1..n, S)
    BY <1>1, <1>2, <1>4, <1>5, FS_Injection
  <1>7. ToSet(names) = S
    BY <1>3, <1>6, Fun_SurjectionProperties DEF ToSet
  <1>8. names = [i \in 1..n |-> names[i]] /\ \A i \in 1..n : names[i] \in File
    BY <1>3
  <1>9. names \in Seq(File)
    BY <1>8, IsASeq
  <1> QED
    BY <1>7, <1>9

\* The file that is read next.
LEMMA CurrentFile ==
    ASSUME TypeOK, Reading
    PROVE  /\ phase = "read" /\ done \in Nat /\ done + 1 \in 1..Len(queue)
           /\ Current = queue[done + 1] /\ Current \in File
           /\ done + 1 \in 0..Len(queue)
  BY LenProperties DEF TypeOK, Reading, Current

\* A file that is skipped adds a failure (td, cpp, scrape) or an issue (grab).
LEMMA SkipType ==
    ASSUME TypeOK, NEW f \in File, NEW why \in Error, Skip(f, why)
    PROVE  files' \in Seq(Result) /\ issues' \in Seq(Issue)
  <1>1. [file |-> f, error |-> why] \in Issue /\ Failed(f, why) \in Result
    BY ResultTypes DEF Issue
  <1>2. files \in Seq(Result) /\ issues \in Seq(Issue)
    BY DEF TypeOK, Issue
  <1>3. issues' \in Seq(Issue)
    <2> DEFINE e == [file |-> f, error |-> why]
    <2>1. e \in Issue /\ (issues' = issues \/ issues' = Append(issues, e))
      BY <1>1 DEF Skip
    <2> HIDE DEF e
    <2> QED
      BY <1>2, <2>1, AppendProperties
  <1>4. files' \in Seq(Result)
    BY <1>1, <1>2, AppendProperties DEF Skip
  <1> QED
    BY <1>3, <1>4

\* Each step keeps the types.
LEMMA TypePreserved ==
    ASSUME TypeOK, WorldOK, NothingRead, [Next]_vars
    PROVE  TypeOK'
  <1>1. ASSUME consumer' = consumer PROVE Result' = Result
    BY <1>1 DEF Result, KindsOf
  <1>2. CASE Check
    <2>1. Top \in Dir
      BY TreeAssumption
    <2> QED
      BY <1>1, <1>2, <2>1 DEF Check, TypeOK, world
  <1>3. ASSUME NEW d \in Dir, ListDir(d) PROVE TypeOK'
    <2>1. listed' \in Seq(File)
      <3> DEFINE S == {f \in File : DirOf[f] = d /\ at[f] # Gone}
      <3>1. CASE d \in dirs
        <4>1. PICK names \in SetToSeqs(S) : listed' = listed \o names
          BY <1>3, <3>1 DEF ListDir
        <4> HIDE DEF S
        <4>2. S \in SUBSET File
          BY DEF S
        <4>3. names \in Seq(File)
          BY <4>1, <4>2, ListingProperties
        <4> QED
          BY <4>1, <4>3, ConcatProperties DEF TypeOK
      <3>2. CASE d \notin dirs
        BY <1>3, <3>2 DEF ListDir, TypeOK
      <3> QED
        BY <3>1, <3>2
    <2>2. agenda' \subseteq Dir
      BY <1>3 DEF ListDir, TypeOK
    <2>3. phase' \in {"list", "raised"}
      BY <1>3 DEF ListDir
    <2> QED
      BY <1>1, <1>3, <2>1, <2>2, <2>3 DEF ListDir, TypeOK, world
  <1>4. CASE SortListing
    <2>1. queue' \in Seq(File)
      BY <1>4, SortedType DEF SortListing, TypeOK
    <2>2. done' = done /\ phase' = "read"
      BY <1>4 DEF SortListing
    <2>3. done' \in 0..Len(queue')
      <3>1. done = 0
        BY <1>4 DEF SortListing, NothingRead
      <3> QED
        BY <2>1, <2>2, <3>1, LenProperties
    <2> QED
      BY <1>1, <1>4, <2>1, <2>2, <2>3 DEF SortListing, TypeOK, world
  <1>5. CASE ReadFails
    <2>1. Current \in File /\ done + 1 \in 0..Len(queue)
      BY <1>5, CurrentFile DEF ReadFails
    <2>2. files' \in Seq(Result) /\ issues' \in Seq(Issue)
      BY <1>5, <2>1, SkipType DEF ReadFails, Error
    <2> QED
      BY <1>1, <1>5, <2>1, <2>2 DEF ReadFails, TypeOK, world, Issue
  <1>6. CASE ParseRaises
    <2>1. Current \in File /\ done + 1 \in 0..Len(queue)
      BY <1>6, CurrentFile DEF ParseRaises
    <2>2. files' \in Seq(Result) /\ issues' \in Seq(Issue)
      BY <1>6, <2>1, SkipType DEF ParseRaises, Error
    <2> QED
      BY <1>1, <1>6, <2>1, <2>2 DEF ParseRaises, TypeOK, Issue
  <1>7. CASE Parse
    <2>1. Current \in File /\ done + 1 \in 0..Len(queue) /\ Source(Current) \in Text
      BY <1>7, CurrentFile DEF Parse
    <2>2. records' \in Seq(Record)
      <3>1. RecordsOf(Current, Source(Current)) \in Seq(Record)
        BY <2>1, RecordsOfType
      <3>2. records \in Seq(Record)
        BY DEF TypeOK
      <3> QED
        BY <1>7, <3>1, <3>2, ConcatProperties DEF Parse
    <2>3. files' \in Seq(Result)
      <3>1. Parsed(Current, Source(Current)) \in Result
        BY <2>1, ResultTypes
      <3>2. files \in Seq(Result)
        BY DEF TypeOK
      <3> QED
        BY <1>7, <3>1, <3>2, AppendProperties DEF Parse
    <2> QED
      BY <1>1, <1>7, <2>1, <2>2, <2>3 DEF Parse, TypeOK, world
  <1>8. CASE Finish
    <2>1. records' \in Seq(Record)
      BY <1>8, SortedRecordsProperties DEF Finish, TypeOK
    <2> QED
      BY <1>1, <1>8, <2>1 DEF Finish, TypeOK, world
  <1>9. CASE TreeStep
    <2>1. been' \in [File -> SUBSET Content]
      BY <1>9 DEF TreeStep, TypeOK, Content
    <2> QED
      BY <1>1, <1>9, <2>1 DEF TreeStep, TypeOK, scan, Content
  <1>10. CASE UNCHANGED vars
    BY <1>1, <1>10 DEF vars, scan, world, TypeOK
  <1> QED
    BY <1>2, <1>3, <1>4, <1>5, <1>6, <1>7, <1>8, <1>9, <1>10, StepKinds

-----------------------------------------------------------------------------
(***************************************************************************)
(* The scan: what has been found, and what has been read.                  *)
(***************************************************************************)
\* Nothing is read before the listing is sorted.
LEMMA NothingReadPreserved ==
    ASSUME TypeOK, WorldOK, NothingRead, [Next]_vars
    PROVE  NothingRead'
  <1> USE DEF NothingRead
  <1>1. CASE Check
    BY <1>1 DEF Check
  <1>2. ASSUME NEW d \in Dir, ListDir(d) PROVE NothingRead'
    BY <1>2 DEF ListDir
  <1>3. CASE SortListing \/ ReadFails \/ ParseRaises \/ Parse \/ Finish
    BY <1>3 DEF SortListing, ReadFails, ParseRaises, Parse, Finish, Reading
  <1>4. CASE TreeStep \/ UNCHANGED vars
    BY <1>4 DEF TreeStep, vars, scan
  <1> QED
    BY <1>1, <1>2, <1>3, <1>4, StepKinds

\* A file that stands still is found, or its directory is still to be looked at.
LEMMA FoundPreserved ==
    ASSUME TypeOK, WorldOK, FoundOK, [Next]_vars
    PROVE  FoundOK'
  <1>1. CASE Check
    BY <1>1 DEF Check, FoundOK
  <1>2. ASSUME NEW d \in Dir, ListDir(d) PROVE FoundOK'
    <2> SUFFICES ASSUME phase' = "list", NEW f \in File, Untouched(f)'
                 PROVE  f \in ToSet(listed') \/ DirOf[f] \in agenda' \/ Top \in agenda'
      BY DEF FoundOK
    <2>1. Untouched(f)
      BY <1>2 DEF ListDir, world, Untouched
    <2>2. phase = "list" /\ DirOf[f] \in dirs /\ Top \in dirs
      BY <1>2, <2>1 DEF ListDir, WorldOK, Untouched
    <2>3. f \in ToSet(listed) \/ DirOf[f] \in agenda \/ Top \in agenda
      BY <2>1, <2>2 DEF FoundOK
    <2>4. CASE d \notin dirs
      BY <1>2, <2>2, <2>3, <2>4 DEF ListDir
    <2>5. CASE d \in dirs
      <3> DEFINE S == {g \in File : DirOf[g] = d /\ at[g] # Gone}
      <3>1. PICK names \in SetToSeqs(S) : listed' = listed \o names
        BY <1>2, <2>5 DEF ListDir
      <3>2. S \in SUBSET File /\ (DirOf[f] = d => f \in S)
        BY <2>1 DEF Untouched
      <3> HIDE DEF S
      <3>3. names \in Seq(File) /\ ToSet(names) = S
        BY <3>1, <3>2, ListingProperties
      <3>4. ToSet(listed') = ToSet(listed) \cup S
        BY <3>1, <3>3, ConcatSet DEF TypeOK
      <3>5. agenda' = (agenda \ {d}) \cup (IF d = Top THEN dirs \ {Top} ELSE {})
        BY <1>2, <2>5 DEF ListDir
      <3> QED
        BY <2>2, <2>3, <3>2, <3>4, <3>5
    <2> QED
      BY <2>4, <2>5
  <1>3. CASE SortListing \/ ReadFails \/ ParseRaises \/ Parse \/ Finish
    BY <1>3 DEF SortListing, ReadFails, ParseRaises, Parse, Finish, Reading, FoundOK
  <1>4. CASE TreeStep
    <2> SUFFICES ASSUME phase' = "list", NEW f \in File, Untouched(f)'
                 PROVE  f \in ToSet(listed') \/ DirOf[f] \in agenda' \/ Top \in agenda'
      BY DEF FoundOK
    <2>1. Untouched(f)
      BY <1>4, UntouchedBefore DEF Untouched
    <2>2. UNCHANGED <<phase, listed, agenda>>
      BY <1>4 DEF TreeStep, scan
    <2> QED
      BY <2>1, <2>2 DEF FoundOK
  <1>5. CASE UNCHANGED vars
    BY <1>5 DEF vars, scan, world, FoundOK, Untouched
  <1> QED
    BY <1>1, <1>2, <1>3, <1>4, <1>5, StepKinds

\* What was found of the files that stand still is in the queue.
LEMMA QueuePreserved ==
    ASSUME TypeOK, WorldOK, FoundOK, QueueOK, [Next]_vars
    PROVE  QueueOK'
  <1>1. CASE Check \/ (\E d \in Dir : ListDir(d)) \/ Finish
    BY <1>1 DEF Check, ListDir, Finish, QueueOK
  <1>2. CASE SortListing
    <2>1. queue' = Sorted(listed) /\ listed' = listed /\ UNCHANGED <<at, been>>
      BY <1>2 DEF SortListing, world
    <2>2. ToSet(Sorted(listed)) = ToSet(listed)
      BY SortedType DEF TypeOK
    <2>3. \A f \in File : Untouched(f) => f \in ToSet(listed)
      BY <1>2 DEF SortListing, FoundOK
    <2> QED
      BY <2>1, <2>2, <2>3 DEF QueueOK, Untouched, Sorted
  <1>3. CASE ReadFails \/ ParseRaises \/ Parse \/ UNCHANGED vars
    <2>1. UNCHANGED <<queue, listed, phase, at, been>>
      BY <1>3 DEF ReadFails, ParseRaises, Parse, vars, scan, world
    <2> QED
      BY <2>1 DEF QueueOK, Untouched, Sorted
  <1>4. CASE TreeStep
    <2>1. \A f \in File : Untouched(f)' => Untouched(f)
      BY <1>4, UntouchedBefore DEF Untouched
    <2>2. UNCHANGED <<phase, listed, queue>>
      BY <1>4 DEF TreeStep, scan
    <2> QED
      BY <2>1, <2>2 DEF QueueOK, Sorted
  <1> QED
    BY <1>1, <1>2, <1>3, <1>4, StepKinds

\* td, cpp, scrape: the i-th result is of the i-th file.
LEMMA FilesPreserved ==
    ASSUME TypeOK, WorldOK, NothingRead, FilesOK, [Next]_vars
    PROVE  FilesOK'
  <1>1. CASE Check \/ (\E d \in Dir : ListDir(d)) \/ Finish
    BY <1>1 DEF Check, ListDir, Finish, FilesOK
  <1>2. CASE SortListing
    BY <1>2 DEF SortListing, NothingRead, FilesOK
  <1>3. ASSUME NEW e \in Result, Reading, consumer # "grab", e.file = Current,
               files' = Append(files, e), done' = done + 1,
               UNCHANGED <<phase, consumer, queue, records, issues>>
        PROVE  FilesOK'
    <2>1. done \in Nat /\ Current = queue[done + 1] /\ phase = "read"
      BY <1>3, CurrentFile
    <2>2. files \in Seq(Result) /\ Len(files) = done /\ \A i \in 1..done : files[i].file = queue[i]
      BY <1>3, <2>1 DEF TypeOK, FilesOK
    <2>3. /\ Len(files') = done + 1 /\ files'[done + 1] = e
          /\ \A i \in 1..done : files'[i] = files[i]
      BY <1>3, <2>2, AppendProperties
    <2>4. \A i \in 1..(done + 1) : i \in 1..done \/ i = done + 1
      BY <2>1
    <2>5. \A i \in 1..(done + 1) : files'[i].file = queue[i]
      BY <1>3, <2>1, <2>2, <2>3, <2>4
    <2> QED
      BY <1>3, <2>1, <2>3, <2>5 DEF FilesOK
  <1>4. CASE ReadFails \/ ParseRaises \/ Parse
    <2>1. Reading /\ Current \in File /\ done' = done + 1 /\ UNCHANGED <<phase, consumer, queue>>
      BY <1>4, CurrentFile DEF ReadFails, ParseRaises, Parse
    <2>2. CASE consumer = "grab"
      BY <1>4, <2>1, <2>2 DEF ReadFails, ParseRaises, Parse, Skip, FilesOK, Reading
    <2>3. CASE consumer # "grab"
      <3>1. UNCHANGED <<records, issues>>
        BY <1>4, <2>3 DEF ReadFails, ParseRaises, Parse, Skip
      <3>2. \/ \E why \in Error : files' = Append(files, Failed(Current, why))
            \/ Source(Current) \in Text /\ files' = Append(files, Parsed(Current, Source(Current)))
        BY <1>4, <2>3 DEF ReadFails, ParseRaises, Parse, Skip, Error
      <3>3. \E e \in Result : e.file = Current /\ files' = Append(files, e)
        <4>1. ASSUME NEW why \in Error
              PROVE  Failed(Current, why) \in Result /\ Failed(Current, why).file = Current
          BY <2>1, ResultTypes DEF Failed
        <4>2. ASSUME NEW text \in Text
              PROVE  Parsed(Current, text) \in Result /\ Parsed(Current, text).file = Current
          BY <2>1, ResultTypes DEF Parsed
        <4> QED
          BY <3>2, <4>1, <4>2
      <3> QED
        BY <1>3, <2>1, <2>3, <3>1, <3>3
    <2> QED
      BY <2>2, <2>3
  <1>5. CASE TreeStep \/ UNCHANGED vars
    BY <1>5 DEF TreeStep, vars, scan, FilesOK
  <1> QED
    BY <1>1, <1>2, <1>4, <1>5, StepKinds

-----------------------------------------------------------------------------
(***************************************************************************)
(* What is held of each file that has been read.                           *)
(***************************************************************************)
\* What has been the case of a file stays so.
LEMMA HistoryGrows ==
    ASSUME TypeOK, WorldOK, [Next]_vars
    PROVE  /\ consumer' = consumer /\ broken \subseteq broken'
           /\ \A f \in File : been[f] \subseteq been'[f]
           /\ \A f \in File, why \in Error : HasFailed(f, why) => HasFailed(f, why)'
  <1>1. consumer' = consumer /\ broken \subseteq broken'
    BY StepKinds DEF Check, ListDir, SortListing, ReadFails, ParseRaises, Parse, Finish,
       TreeStep, world, scan, vars
  <1>2. \A f \in File : been[f] \subseteq been'[f]
    <2>1. CASE TreeStep
      BY <2>1 DEF TreeStep
    <2>2. CASE ~TreeStep
      BY <2>2, StepKinds DEF Check, ListDir, SortListing, ReadFails, ParseRaises, Parse,
         Finish, world, vars
    <2> QED
      BY <2>1, <2>2
  <1> QED
    BY <1>1, <1>2 DEF HasFailed

\* Of the file that is read next: why it is skipped, or what it holds.
LEMMA SkippedHasFailed ==
    ASSUME TypeOK, WorldOK, ReadFails \/ ParseRaises
    PROVE  \E f \in File, why \in Error : f = Current /\ Skip(f, why) /\ HasFailed(f, why)'
  <1>1. Reading /\ Current \in File
    BY CurrentFile DEF ReadFails, ParseRaises
  <1>2. PICK f \in File : f = Current
    BY <1>1
  <1>3. CASE ReadFails
    <2>1. at[f] \in been[f] /\ at[f] \notin Text /\ been' = been
      BY <1>2, <1>3 DEF ReadFails, WorldOK, Source, world
    <2>2. HasFailed(f, "read_error")'
      BY <2>1 DEF HasFailed
    <2> QED
      BY <1>2, <1>3, <2>2 DEF ReadFails, Error
  <1>4. CASE ParseRaises
    <2>1. HasFailed(f, "parse_exception")'
      BY <1>2, <1>4 DEF ParseRaises, HasFailed
    <2> QED
      BY <1>2, <1>4, <2>1 DEF ParseRaises, Error
  <1> QED
    BY <1>3, <1>4

\* A text that is parsed was in its file.
LEMMA ParsedIsHistory ==
    ASSUME TypeOK, WorldOK, Parse
    PROVE  \E f \in File, text \in Text :
              /\ f = Current /\ text = Source(Current)
              /\ text \in been[f] /\ been' = been
  BY CurrentFile DEF Parse, Source, WorldOK, world

\* A result stays one of a version of its file.
LEMMA EntryStays ==
    ASSUME TypeOK, WorldOK, [Next]_vars, NEW e \in Result, EntryOK(e)
    PROVE  EntryOK(e)'
  <1>1. e.file \in File /\ (e.error = None \/ e.error \in Error)
    BY DEF Result
  <1>2. /\ \A text : Parsed(e.file, text)' = Parsed(e.file, text)
        /\ \A why : Failed(e.file, why)' = Failed(e.file, why)
    BY HistoryGrows DEF Parsed, Failed, KindsOf
  <1>3. CASE e.error = None
    BY <1>1, <1>2, <1>3, HistoryGrows DEF EntryOK
  <1>4. CASE e.error # None
    BY <1>1, <1>2, <1>4, HistoryGrows DEF EntryOK
  <1> QED
    BY <1>3, <1>4

\* Each result is of one version of its file.
LEMMA EntriesPreserved ==
    ASSUME TypeOK, WorldOK, EntriesOK, [Next]_vars
    PROVE  EntriesOK'
  <1>1. \/ files' = files
        \/ \E e \in Result : files' = Append(files, e) /\ EntryOK(e)'
    <2>1. CASE ReadFails \/ ParseRaises
      <3>1. PICK f \in File, why \in Error : Skip(f, why) /\ HasFailed(f, why)'
        BY <2>1, SkippedHasFailed
      <3>2. PICK e \in Result : e = Failed(f, why)
        BY ResultTypes
      <3>3. e.file = f /\ e.error = why /\ why # None
        BY <3>2, ConstantsDistinct DEF Failed, Error
      <3>4. Failed(f, why)' = Failed(f, why)
        BY HistoryGrows DEF Failed, KindsOf
      <3>5. EntryOK(e)'
        BY <3>1, <3>2, <3>3, <3>4 DEF EntryOK, HasFailed
      <3> QED
        BY <3>1, <3>2, <3>5 DEF Skip
    <2>2. CASE Parse
      <3>1. PICK f \in File, text \in Text :
               f = Current /\ text = Source(Current) /\ text \in been[f] /\ been' = been
        BY <2>2, ParsedIsHistory
      <3>2. PICK e \in Result : e = Parsed(f, text)
        BY ResultTypes
      <3>3. e.file = f /\ e.error = None
        BY <3>2 DEF Parsed
      <3>4. Parsed(f, text)' = Parsed(f, text)
        BY HistoryGrows DEF Parsed, KindsOf
      <3>5. EntryOK(e)'
        BY <3>1, <3>2, <3>3, <3>4 DEF EntryOK
      <3> QED
        BY <2>2, <3>1, <3>2, <3>5 DEF Parse
    <2>3. CASE ~(ReadFails \/ ParseRaises \/ Parse)
      BY <2>3, StepKinds DEF Check, ListDir, SortListing, Finish, TreeStep, scan, vars
    <2> QED
      BY <2>1, <2>2, <2>3
  <1>2. \/ issues' = issues
        \/ \E x \in Issue : issues' = Append(issues, x) /\ HasFailed(x.file, x.error)'
    <2>1. CASE ReadFails \/ ParseRaises
      <3>1. PICK f \in File, why \in Error : Skip(f, why) /\ HasFailed(f, why)'
        BY <2>1, SkippedHasFailed
      <3>2. PICK x \in Issue : x = [file |-> f, error |-> why]
        BY DEF Issue
      <3>3. x.file = f /\ x.error = why
        BY <3>2
      <3>4. HasFailed(x.file, x.error)'
        BY <3>1, <3>3 DEF HasFailed
      <3> QED
        BY <3>1, <3>2, <3>4 DEF Skip
    <2>2. CASE ~(ReadFails \/ ParseRaises)
      BY <2>2, StepKinds DEF Check, ListDir, SortListing, Parse, Finish, TreeStep, scan, vars
    <2> QED
      BY <2>1, <2>2
  <1>3. files \in Seq(Result) /\ issues \in Seq(Issue)
    BY DEF TypeOK, Issue
  <1>4. \A i \in DOMAIN files' : EntryOK(files[i])'
    <2>1. ASSUME NEW i \in DOMAIN files, NEW x, x = files[i] PROVE EntryOK(x)'
      <3>1. x \in Result /\ EntryOK(x)
        BY <1>3, <2>1 DEF EntriesOK
      <3> QED
        BY <3>1, EntryStays
    <2>2. CASE files' = files
      <3> TAKE i \in DOMAIN files'
      <3>1. PICK x : x = files[i]
        OBVIOUS
      <3>2. EntryOK(x)' /\ files'[i] = x
        BY <2>1, <2>2, <3>1
      <3> QED
        BY <3>2 DEF EntryOK, HasFailed, Parsed, Failed
    <2>3. CASE \E e \in Result : files' = Append(files, e) /\ EntryOK(e)'
      <3>1. PICK e \in Result : files' = Append(files, e) /\ EntryOK(e)'
        BY <2>3
      <3>2. ASSUME NEW i \in DOMAIN files' PROVE \E x : x = files'[i] /\ EntryOK(x)'
        <4>1. CASE i \in DOMAIN files
          BY <1>3, <2>1, <3>1, <4>1, AppendProperties, LenProperties
        <4>2. CASE i \notin DOMAIN files
          BY <1>3, <3>1, <4>2, AppendProperties, LenProperties
        <4> QED
          BY <4>1, <4>2
      <3> TAKE i \in DOMAIN files'
      <3>3. PICK x : x = files'[i] /\ EntryOK(x)'
        BY <3>2
      <3> QED
        BY <3>3 DEF EntryOK, HasFailed, Parsed, Failed
    <2> QED
      BY <1>1, <2>2, <2>3
  <1>5. \A i \in DOMAIN issues' : HasFailed(issues[i].file, issues[i].error)'
    <2>1. ASSUME NEW i \in DOMAIN issues, NEW x, x = issues[i]
          PROVE  HasFailed(x.file, x.error)'
      <3>1. x \in Issue
        BY <1>3, <2>1, ElementOfSeq
      <3>2. x.file \in File /\ x.error \in Error
        BY <3>1 DEF Issue
      <3>3. HasFailed(x.file, x.error)
        BY <2>1 DEF EntriesOK, HasFailed
      <3> QED
        BY <3>2, <3>3, HistoryGrows
    <2>2. CASE issues' = issues
      BY <2>1, <2>2 DEF HasFailed
    <2>3. CASE \E x \in Issue : issues' = Append(issues, x) /\ HasFailed(x.file, x.error)'
      <3>1. PICK e \in Issue : issues' = Append(issues, e) /\ HasFailed(e.file, e.error)'
        BY <2>3
      <3> TAKE i \in DOMAIN issues'
      <3>2. \E x : x = issues'[i] /\ HasFailed(x.file, x.error)'
        <4>1. CASE i \in DOMAIN issues
          BY <1>3, <2>1, <3>1, <4>1, AppendProperties, LenProperties
        <4>2. CASE i \notin DOMAIN issues
          BY <1>3, <3>1, <4>2, AppendProperties, LenProperties
        <4> QED
          BY <4>1, <4>2
      <3> QED
        BY <3>2 DEF HasFailed
    <2> QED
      BY <1>2, <2>2, <2>3
  <1> QED
    BY <1>4, <1>5 DEF EntriesOK

\* grab: a file that has held no text is in the issues once it has been read.
LEMMA IssuesPreserved ==
    ASSUME TypeOK, WorldOK, NothingRead, IssuesOK, [Next]_vars
    PROVE  IssuesOK'
  <1> SUFFICES ASSUME phase' = "read", consumer' = "grab", NEW k \in 1..done',
                      been'[queue'[k]] \cap Text = {}
               PROVE  \E i \in DOMAIN issues' : issues'[i].file = queue'[k]
    BY DEF IssuesOK
  <1>1. consumer = "grab" /\ done \in Nat /\ issues \in Seq(Issue) /\ queue \in Seq(File)
    BY HistoryGrows, LenProperties DEF TypeOK, Issue
  <1>2. ASSUME phase = "read", k \in 1..done, queue' = queue
        PROVE  \E i \in DOMAIN issues : issues[i].file = queue[k]
    <2>1. queue[k] \in File
      BY <1>1, <1>2, LenProperties DEF TypeOK
    <2>2. been[queue[k]] \subseteq been'[queue[k]]
      BY <2>1, HistoryGrows
    <2> QED
      BY <1>1, <1>2, <2>2 DEF IssuesOK
  <1>3. CASE SortListing
    BY <1>3 DEF SortListing, NothingRead
  <1>4. CASE ReadFails \/ ParseRaises
    <2>1. PICK f \in File, why \in Error : f = Current /\ Skip(f, why)
      BY <1>4, SkippedHasFailed
    <2>2. PICK x \in Issue : x = [file |-> f, error |-> why]
      BY DEF Issue
    <2>3. issues' = Append(issues, x) /\ x.file = f
      BY <1>1, <2>1, <2>2 DEF Skip
    <2>4. /\ Len(issues) + 1 \in DOMAIN issues' /\ issues'[Len(issues) + 1] = x
          /\ \A i \in DOMAIN issues : i \in DOMAIN issues' /\ issues'[i] = issues[i]
      BY <1>1, <2>3, AppendProperties, LenProperties
    <2>5. phase = "read" /\ queue' = queue /\ done' = done + 1 /\ f = queue[done + 1]
      BY <1>4, <2>1, CurrentFile DEF ReadFails, ParseRaises
    <2>6. CASE k \in 1..done
      BY <1>2, <2>4, <2>5, <2>6
    <2>7. CASE k = done + 1
      BY <2>3, <2>4, <2>5, <2>7
    <2> QED
      BY <1>1, <2>5, <2>6, <2>7
  <1>5. CASE Parse
    <2>1. PICK f \in File, text \in Text : f = Current /\ text \in been[f] /\ been' = been
      BY <1>5, ParsedIsHistory
    <2>2. /\ phase = "read" /\ queue' = queue /\ done' = done + 1 /\ f = queue[done + 1]
          /\ issues' = issues
      BY <1>5, <2>1, CurrentFile DEF Parse
    <2>3. k # done + 1
      BY <2>1, <2>2
    <2>4. k \in 1..done
      BY <1>1, <2>2, <2>3
    <2> QED
      BY <1>2, <2>2, <2>4
  <1>6. CASE TreeStep \/ UNCHANGED vars
    <2>1. UNCHANGED <<phase, done, queue, issues>>
      BY <1>6 DEF TreeStep, scan, vars
    <2> QED
      BY <1>2, <2>1
  <1>7. CASE Check \/ (\E d \in Dir : ListDir(d)) \/ Finish
    BY <1>7 DEF Check, ListDir, Finish
  <1> QED
    BY <1>3, <1>4, <1>5, <1>6, <1>7, StepKinds

-----------------------------------------------------------------------------
(***************************************************************************)
(* The records of grab.                                                    *)
(***************************************************************************)
\* What is held of a file stays what one version of it held.
LEMMA HeldStays ==
    ASSUME TypeOK, WorldOK, [Next]_vars, NEW rs, NEW f \in File, HeldOf(rs, f)
    PROVE  HeldOf(rs, f)'
  BY HistoryGrows DEF HeldOf

\* Records that are not of a file do not matter to what is held of it.
LEMMA HeldOfOthers ==
    ASSUME NEW rs \in Seq(Record), NEW more \in Seq(Record), NEW f \in File,
           \A i \in DOMAIN more : more[i].file # f
    PROVE  Selected(rs \o more, OfFile(f)) = Selected(rs, OfFile(f))
  <1> DEFINE S == OfFile(f)
  <1>1. ToSet(more) \cap S = {}
    BY DEF ToSet, OfFile
  <1> HIDE DEF S
  <1>2. Selected(rs \o more, S) = Selected(rs, S)
    BY <1>1, SelectedOfNone
  <1> QED
    BY <1>2 DEF S

\* Nothing is held of a file that no record is of.
LEMMA HeldOfNone ==
    ASSUME NEW rs \in Seq(Record), NEW f, \A i \in DOMAIN rs : rs[i].file # f
    PROVE  Selected(rs, OfFile(f)) = <<>>
  <1> DEFINE S == OfFile(f)
  <1>1. ToSet(rs) \cap S = {}
    BY DEF ToSet, OfFile
  <1> HIDE DEF S
  <1>2. Selected(rs, S) \in Seq(Record) /\ ToSet(Selected(rs, S)) = {}
    BY <1>1, SelectedType
  <1>3. Selected(rs, S) = <<>>
    <2>1. PICK t \in Seq(Record) : t = Selected(rs, S) /\ ToSet(t) = {}
      BY <1>2
    <2>2. PICK n \in Nat : n = Len(t) /\ DOMAIN t = 1..n
      BY LenProperties
    <2>3. 1 \notin 1..n
      BY <2>1, <2>2 DEF ToSet
    <2>4. t = <<>>
      BY <2>2, <2>3, EmptySeq
    <2> QED
      BY <2>1, <2>4
  <1> QED
    BY <1>3 DEF S

\* The records of a text, once they are added, are all that is held of its file.
LEMMA HeldOfText ==
    ASSUME NEW rs \in Seq(Record), NEW f \in File, NEW text \in Text,
           \A i \in DOMAIN rs : rs[i].file # f
    PROVE  Selected(rs \o RecordsOf(f, text), OfFile(f)) = RecordsOf(f, text)
  <1> DEFINE S == OfFile(f)
             more == RecordsOf(f, text)
  <1>1. ToSet(rs) \cap S = {}
    BY DEF ToSet, OfFile
  <1>2. more \in Seq(Record) /\ \A i \in DOMAIN more : more[i].file = f
    BY RecordsOfType
  <1> HIDE DEF more
  <1>3. ToSet(more) \subseteq S
    BY <1>2, ElementOfSeq, LenProperties DEF ToSet, OfFile
  <1> HIDE DEF S
  <1>4. Selected(rs \o more, S) = more
    BY <1>1, <1>2, <1>3, SelectedOfAll
  <1> QED
    BY <1>4 DEF S, more

\* grab: each file that was read has all its records or none.
LEMMA RecordsPreserved ==
    ASSUME TypeOK, WorldOK, NothingRead, QueueOK, RecordsOK, [Next]_vars
    PROVE  RecordsOK'
  <1> SUFFICES ASSUME phase' = "read", consumer' = "grab"
               PROVE  /\ \A i \in DOMAIN records' : \E k \in 1..done' : records'[i].file = queue'[k]
                      /\ \A k \in 1..done' : HeldOf(records, queue[k])'
    BY DEF RecordsOK
  <1>1. /\ consumer = "grab" /\ done \in 0..Len(queue) /\ done \in Nat /\ Len(queue) \in Nat
        /\ records \in Seq(Record) /\ queue \in Seq(File)
        /\ \A k \in 1..done : queue[k] \in File
    BY HistoryGrows, LenProperties, ElementOfSeq DEF TypeOK
  <1>2. CASE SortListing
    BY <1>2 DEF SortListing, NothingRead
  <1>3. CASE TreeStep \/ UNCHANGED vars
    <2>1. UNCHANGED <<phase, done, queue, records>>
      BY <1>3 DEF TreeStep, scan, vars
    <2>2. ASSUME NEW k \in 1..done PROVE HeldOf(records, queue[k])'
      <3>1. PICK rs \in Seq(Record), f \in File : rs = records /\ f = queue[k]
        BY <1>1
      <3>2. HeldOf(rs, f)'
        BY <1>1, <2>1, <3>1, HeldStays DEF RecordsOK
      <3> QED
        BY <2>1, <3>1, <3>2 DEF HeldOf, HasFailed
    <2> QED
      BY <1>1, <2>1, <2>2 DEF RecordsOK
  <1>4. CASE ReadFails \/ ParseRaises \/ Parse
    <2>1. Reading /\ done' = done + 1 /\ UNCHANGED <<phase, queue>>
      BY <1>4 DEF ReadFails, ParseRaises, Parse
    <2>2. PICK f \in File : f = Current /\ f = queue[done + 1] /\ done + 1 \in 1..Len(queue)
      BY <2>1, CurrentFile
    <2>3. \A k \in 1..done : queue[k] # f
      <3>1. IsInjective(queue)
        BY <2>1, SortedType DEF QueueOK, Reading, TypeOK
      <3>2. \A k \in 1..done : k \in DOMAIN queue /\ done + 1 \in DOMAIN queue /\ k # done + 1
        BY <1>1, <2>2, LenProperties
      <3> QED
        BY <2>2, <3>1, <3>2 DEF IsInjective
    <2>4. \A i \in DOMAIN records : \E k \in 1..done : records[i].file = queue[k]
      BY <1>1, <2>1 DEF RecordsOK, Reading
    <2>5. PICK more \in Seq(Record) :
             /\ records' = records \o more
             /\ \A i \in DOMAIN more : more[i].file = f
             /\ \A rs \in Seq(Record) :
                   (\A i \in DOMAIN rs : rs[i].file # f) => HeldOf(rs \o more, f)'
      <3>1. CASE ReadFails \/ ParseRaises
        <4>1. PICK g \in File, why \in Error : g = Current /\ HasFailed(g, why)'
          BY <3>1, SkippedHasFailed
        <4>2. \E reason \in Error : HasFailed(f, reason)'
          BY <2>2, <4>1
        <4>3. PICK more \in Seq(Record) :
                 DOMAIN more = {} /\ \A rs \in Seq(Record) : rs \o more = rs
          <5>1. <<>> \in Seq(Record) /\ DOMAIN <<>> = {}
            BY EmptySeq, LenProperties
          <5>2. \A rs \in Seq(Record) : rs \o <<>> = rs
            OBVIOUS
          <5> QED
            BY <5>1, <5>2
        <4>4. ASSUME NEW rs \in Seq(Record), \A i \in DOMAIN rs : rs[i].file # f
              PROVE  HeldOf(rs \o more, f)'
          <5>1. rs \o more = rs
            BY <4>3
          <5>2. Selected(rs, OfFile(f)) = <<>>
            BY <4>4, HeldOfNone
          <5> QED
            BY <4>2, <5>1, <5>2 DEF HeldOf
        <4>5. records' = records \o more
          BY <1>1, <3>1, <4>3 DEF ReadFails, ParseRaises
        <4> QED
          BY <4>3, <4>4, <4>5
      <3>2. CASE Parse
        <4>1. PICK g \in File, text \in Text :
                 g = Current /\ text = Source(Current) /\ text \in been[g] /\ been' = been
          BY <3>2, ParsedIsHistory
        <4>2. text \in been'[f] \cap Text
          BY <2>2, <4>1
        <4>3. PICK more : more = RecordsOf(f, text)
          OBVIOUS
        <4>4. more \in Seq(Record) /\ \A i \in DOMAIN more : more[i].file = f
          BY <4>3, RecordsOfType
        <4>5. records' = records \o more
          BY <1>1, <2>2, <3>2, <4>1, <4>3 DEF Parse
        <4>6. ASSUME NEW rs \in Seq(Record), \A i \in DOMAIN rs : rs[i].file # f
              PROVE  HeldOf(rs \o more, f)'
          <5>1. Selected(rs \o more, OfFile(f)) = RecordsOf(f, text)
            BY <4>3, <4>6, HeldOfText
          <5> QED
            BY <4>2, <5>1 DEF HeldOf
        <4> QED
          BY <4>4, <4>5, <4>6
      <3> QED
        BY <1>4, <3>1, <3>2
    <2>6. ASSUME NEW i \in DOMAIN records' PROVE \E k \in 1..done' : records'[i].file = queue'[k]
      <3>1. records'[i] \in ToSet(records) \cup ToSet(more)
        BY <1>1, <2>5, ConcatSet DEF ToSet
      <3>2. \A j \in DOMAIN records : \E k \in 1..(done + 1) : records[j].file = queue[k]
        BY <1>1, <2>4
      <3>3. \A j \in DOMAIN more : \E k \in 1..(done + 1) : more[j].file = queue[k]
        <4>1. done + 1 \in 1..(done + 1)
          BY <1>1
        <4> QED
          BY <2>2, <2>5, <4>1
      <3> QED
        BY <2>1, <3>1, <3>2, <3>3 DEF ToSet
    <2>7. ASSUME NEW k \in 1..done PROVE HeldOf(records, queue[k])'
      <3>1. PICK rs \in Seq(Record), g \in File : rs = records /\ g = queue[k]
        BY <1>1
      <3>2. HeldOf(rs, g)
        BY <1>1, <2>1, <3>1 DEF RecordsOK, Reading
      <3>3. Selected(rs \o more, OfFile(g)) = Selected(rs, OfFile(g))
        BY <2>3, <2>5, <3>1, HeldOfOthers
      <3>4. HeldOf(rs, g)'
        BY <3>2, HeldStays
      <3>5. HeldOf(rs \o more, g)'
        BY <3>3, <3>4 DEF HeldOf
      <3>6. records' = rs \o more /\ queue'[k] = g
        BY <2>1, <2>5, <3>1
      <3> QED
        BY <3>5, <3>6 DEF HeldOf, HasFailed
    <2>8. ASSUME NEW k \in 1..done', k \notin 1..done PROVE HeldOf(records, queue[k])'
      <3>1. PICK rs \in Seq(Record) : rs = records
        BY <1>1
      <3>2. HeldOf(rs \o more, f)'
        BY <2>3, <2>4, <2>5, <3>1
      <3>3. k = done + 1
        BY <1>1, <2>1, <2>8
      <3>4. records' = rs \o more /\ queue'[k] = f
        BY <2>1, <2>2, <2>5, <3>1, <3>3
      <3> QED
        BY <3>2, <3>4 DEF HeldOf, HasFailed
    <2> QED
      BY <2>6, <2>7, <2>8
  <1>5. CASE Check \/ (\E d \in Dir : ListDir(d)) \/ Finish
    BY <1>5 DEF Check, ListDir, Finish
  <1> QED
    BY <1>2, <1>3, <1>4, <1>5, StepKinds

\* A scan begins with the invariant ...
LEMMA InitInv ==
    ASSUME Init
    PROVE  IInv
  <1> USE DEF Init
  <1>1. Top \in Dir /\ \A f \in File : DirOf[f] \in Dir
    BY TreeAssumption
  <1>2. TypeOK
    <2>1. <<>> \in Seq(File) /\ <<>> \in Seq(Result) /\ <<>> \in Seq(Record) /\ <<>> \in Seq(Issue)
          /\ 0 \in 0..Len(<<>>)
      BY EmptySeq
    <2>2. been \in [File -> SUBSET Content]
      BY DEF Content
    <2>3. 0 \in 0..MaxTouches
      BY BoundAssumption
    <2> QED
      BY <2>1, <2>2, <2>3 DEF TypeOK, Content, Issue
  <1>3. WorldOK
    BY <1>1 DEF WorldOK
  <1>4. EntriesOK
    <2>1. DOMAIN <<>> = {}
      OBVIOUS
    <2> QED
      BY <2>1 DEF EntriesOK
  <1> QED
    BY <1>2, <1>3, <1>4 DEF IInv, NothingRead, FoundOK, QueueOK, FilesOK, IssuesOK, RecordsOK

\* ... each step keeps it ...
LEMMA NextInv ==
    ASSUME IInv, [Next]_vars
    PROVE  IInv'
  BY TypePreserved, WorldPreserved, NothingReadPreserved, FoundPreserved, QueuePreserved,
     FilesPreserved, EntriesPreserved, IssuesPreserved, RecordsPreserved DEF IInv

\* ... and so it always holds.
LEMMA SpecInv == Spec => []IInv
  BY InitInv, NextInv, PTL DEF Spec

-----------------------------------------------------------------------------
(***************************************************************************)
(* What is reported of the files that stood still.                         *)
(***************************************************************************)
StillFiles == {f \in Still : at[f] \in Text}

\* The files that stood still, when the report is made.
LEMMA StillProperties ==
    ASSUME IInv
    PROVE  /\ ToSet(StillText) = StillFiles
           /\ StillFiles \subseteq File
           /\ \A f \in StillFiles : Untouched(f) /\ been[f] = {at[f]} /\ at[f] \in Text
           /\ \A p : p \in Places <=>
                 \E f \in StillFiles : \E i \in DOMAIN Nodes[at[f]] : p = <<f, i>>
           /\ \A f \in Still, why \in Error : at[f] \in Text => ~HasFailed(f, why)
  <1>1. StillFiles \subseteq File
    BY DEF StillFiles, Still
  <1>2. ToSet(StillText) = StillFiles
    <2>1. PathOrder \in Seq(File)
      BY FilesFinite
    <2>2. ToSet(Selected(PathOrder, StillFiles)) = ToSet(PathOrder) \cap StillFiles
      BY <2>1, SelectedType
    <2> QED
      BY <1>1, <2>2 DEF StillText, StillFiles, File
  <1>3. \A f \in StillFiles : Untouched(f) /\ been[f] = {at[f]} /\ at[f] \in Text
    BY ConstantsDistinct DEF StillFiles, Still, Untouched
  <1>4. \A f \in Still, why \in Error : at[f] \in Text => ~HasFailed(f, why)
    BY DEF Still, HasFailed
  <1> QED
    BY <1>1, <1>2, <1>3, <1>4 DEF Places

\* td, cpp, scrape: their results, in order.
LEMMA FilesReported ==
    ASSUME IInv, phase = "read", consumer # "grab", done = Len(queue)
    PROVE  FilesStillThere(files)
  <1> DEFINE S == StillFiles
             E == {e \in ToSet(files) : e.file \in Still /\ e.error = None}
  <1>1. PICK n \in Nat : n = Len(queue) /\ DOMAIN queue = 1..n /\ n = Len(files) /\ DOMAIN files = 1..n
    BY LenProperties DEF IInv, TypeOK, FilesOK
  <1>2. files \in Seq(Result) /\ queue \in Seq(File) /\ \A i \in 1..n : files[i].file = queue[i]
    BY <1>1 DEF IInv, TypeOK, FilesOK
  <1>3. \A f \in S : f \in File /\ Untouched(f) /\ been[f] = {at[f]} /\ at[f] \in Text
    BY StillProperties
  <1>4. Selected(queue, S) = StillText
    <2>1. queue = Selected(PathOrder, ToSet(listed)) /\ listed \in Seq(File)
      BY DEF IInv, QueueOK, TypeOK, Sorted
    <2>2. ToSet(listed) \cap S = S
      <3>1. ToSet(queue) = ToSet(listed)
        BY <2>1, SortedType DEF Sorted
      <3>2. \A f \in S : f \in ToSet(queue)
        BY <1>3 DEF IInv, QueueOK
      <3> QED
        BY <3>1, <3>2
    <2> DEFINE L == ToSet(listed)
    <2> HIDE DEF S, L
    <2>3. Selected(Selected(PathOrder, L), S) = Selected(PathOrder, L \cap S)
      BY FilesFinite, SelectedTwice
    <2> QED
      BY <2>1, <2>2, <2>3 DEF StillText, S, L, StillFiles
  <1>5. ASSUME NEW i \in 1..n
        PROVE  /\ files[i] \in E <=> queue[i] \in S
               /\ queue[i] \in S => files[i] = Parsed(queue[i], at[queue[i]])
    <2>1. files[i] \in Result /\ files[i] \in ToSet(files) /\ files[i].file = queue[i]
      BY <1>1, <1>2 DEF ToSet
    <2>2. EntryOK(files[i])
      BY <1>1 DEF IInv, EntriesOK
    <2>3. files[i].error = None \/ files[i].error \in Error
      BY <2>1 DEF Result
    <2>4. ASSUME queue[i] \in S
          PROVE  files[i].error = None /\ files[i] = Parsed(queue[i], at[queue[i]])
      <3>1. queue[i] \in Still /\ been[queue[i]] = {at[queue[i]]} /\ at[queue[i]] \in Text
        BY <1>3, <2>4 DEF StillFiles
      <3>2. files[i].error = None
        BY <2>1, <2>2, <2>3, <3>1, StillProperties DEF EntryOK
      <3> QED
        BY <2>1, <2>2, <3>1, <3>2 DEF EntryOK
    <2>5. ASSUME queue[i] \in Still, files[i].error = None PROVE queue[i] \in S
      BY <2>1, <2>2, <2>5 DEF EntryOK, Still, StillFiles
    <2> QED
      BY <2>1, <2>4, <2>5 DEF StillFiles
  <1> HIDE DEF S, E
  <1>6. PlacesIn(files, E) = PlacesIn(queue, S)
    BY <1>1, <1>5 DEF PlacesIn
  <1>7a. PICK m \in Nat : \E b : Picks(queue, S, m, b) /\ StillText = [k \in 1..m |-> queue[b[k]]]
    BY <1>2, <1>4, SelectedPicks
  <1>7. PICK b : Picks(queue, S, m, b) /\ StillText = [k \in 1..m |-> queue[b[k]]]
    BY <1>7a
  <1>8. Selected(files, E) = [k \in 1..m |-> files[b[k]]]
    <2>1. Picks(files, E, m, b)
      BY <1>6, <1>7 DEF Picks
    <2> QED
      BY <1>2, <2>1, SelectedUnique
  <1>9. \A k \in 1..m : b[k] \in 1..n /\ queue[b[k]] \in S
    BY <1>1, <1>7 DEF Picks, PlacesIn
  <1>10. \A k \in 1..m : files[b[k]] = Parsed(StillText[k], at[StillText[k]])
    BY <1>5, <1>7, <1>9
  <1>11. DOMAIN StillText = 1..m
    BY <1>7
  <1> QED
    BY <1>8, <1>10, <1>11 DEF FilesStillThere, E

\* The declarations of a text that grab makes a record of.
Recorded(text) ==
    {j \in DOMAIN Nodes[text] : Nodes[text][j].named /\ Nodes[text][j].kind \in ToSet(PoolKinds)}

\* The records of a text are those of its declarations, each as often.
LEMMA RecordsOfNodes ==
    ASSUME NEW f \in File, NEW text \in Text
    PROVE  /\ \A i \in DOMAIN RecordsOf(f, text) : \E j \in Recorded(text) :
                 RecordsOf(f, text)[i] = RecordOf(f, text, Nodes[text][j])
           /\ IsFiniteSet(Recorded(text))
           /\ \A x : Cardinality(PlacesIn(RecordsOf(f, text), {x}))
                        = Cardinality({j \in Recorded(text) : RecordOf(f, text, Nodes[text][j]) = x})
  <1> DEFINE s == Nodes[text]
             J == Recorded(text)
             S == {n \in ToSet(s) : n.named /\ n.kind \in ToSet(PoolKinds)}
             found == Selected(s, S)
  <1>1. s \in Seq(Node)
    BY TextAssumption
  <1>2. RecordsOf(f, text) = [i \in DOMAIN found |-> RecordOf(f, text, found[i])]
    BY DEF RecordsOf
  <1>3. PlacesIn(s, S) = J
    BY DEF PlacesIn, ToSet, Recorded
  <1>4. \A j \in DOMAIN s : j \in J <=> s[j] \in S
    BY DEF ToSet, Recorded
  <1>5. J \subseteq DOMAIN s
    BY DEF Recorded
  <1> HIDE DEF s, S, J
  <1>6a. PICK m \in Nat : \E at1 : Picks(s, S, m, at1) /\ found = [k \in 1..m |-> s[at1[k]]]
    BY <1>1, SelectedPicks
  <1>6. PICK at1 : Picks(s, S, m, at1) /\ found = [k \in 1..m |-> s[at1[k]]]
    BY <1>6a
  <1>7. \A k \in 1..m : at1[k] \in J
    BY <1>3, <1>6 DEF Picks
  <1>8. \A i \in DOMAIN RecordsOf(f, text) : \E j \in J :
           RecordsOf(f, text)[i] = RecordOf(f, text, s[j])
    BY <1>2, <1>6, <1>7
  <1>9. IsFiniteSet(J)
    BY <1>1, <1>3, PlacesOrdered
  <1>10. ASSUME NEW x
         PROVE  Cardinality(PlacesIn(RecordsOf(f, text), {x}))
                   = Cardinality({j \in J : RecordOf(f, text, s[j]) = x})
    <2> DEFINE V == {n \in Node : RecordOf(f, text, n) = x}
    <2>1. \A i \in DOMAIN found : found[i] \in Node
      BY <1>1, <1>6, SelectedType, ElementOfSeq, LenProperties
    <2>2. PlacesIn(found, V) = PlacesIn(RecordsOf(f, text), {x})
      BY <1>2, <2>1 DEF PlacesIn
    <2>3. PlacesIn(s, S \cap V) = {j \in J : RecordOf(f, text, s[j]) = x}
      <3>1. \A j \in DOMAIN s : s[j] \in Node
        BY <1>1, ElementOfSeq, LenProperties
      <3> QED
        BY <1>4, <1>5, <3>1 DEF PlacesIn
    <2> HIDE DEF V
    <2>4. Cardinality(PlacesIn(found, V)) = Cardinality(PlacesIn(s, S \cap V))
      BY <1>1, SelectedCount
    <2> QED
      BY <2>2, <2>3, <2>4
  <1> QED
    BY <1>8, <1>9, <1>10 DEF s, J

\* grab: of a file that stood still, all records are held.
LEMMA StillHeld ==
    ASSUME IInv, phase = "read", consumer = "grab", done = Len(queue), NEW f \in Still
    PROVE  /\ f \in StillFiles => Selected(records, OfFile(f)) = RecordsOf(f, at[f])
           /\ (\E i \in DOMAIN records : records[i].file = f) => f \in StillFiles
  <1>1. DOMAIN queue = 1..done /\ records \in Seq(Record) /\ f \in File /\ been[f] = {at[f]}
    BY LenProperties DEF IInv, TypeOK, Still
  <1>2. ASSUME f \in StillFiles PROVE Selected(records, OfFile(f)) = RecordsOf(f, at[f])
    <2>1. Untouched(f) /\ at[f] \in Text
      BY <1>2, StillProperties
    <2>2. PICK k \in 1..done : queue[k] = f
      BY <1>1, <2>1 DEF IInv, QueueOK, ToSet
    <2>3. HeldOf(records, f)
      BY <2>2 DEF IInv, RecordsOK
    <2>4. \A why \in Error : ~HasFailed(f, why)
      BY <2>1, StillProperties
    <2> QED
      BY <1>1, <2>3, <2>4 DEF HeldOf
  <1>3. ASSUME NEW i \in DOMAIN records, records[i].file = f PROVE f \in StillFiles
    <2>1. PICK k \in 1..done : queue[k] = f
      BY <1>3 DEF IInv, RecordsOK
    <2>2. HeldOf(records, f)
      BY <2>1 DEF IInv, RecordsOK
    <2>3. Selected(records, OfFile(f)) # <<>>
      <3>1. records[i] \in Record
        BY <1>1, ElementOfSeq, LenProperties
      <3>2. records[i] \in ToSet(records) \cap OfFile(f)
        BY <1>3, <3>1 DEF ToSet, OfFile
      <3>3. ToSet(<<>>) = {}
        BY DEF ToSet
      <3> QED
        BY <1>1, <3>2, <3>3, SelectedType
    <2>4. at[f] \in Text
      BY <1>1, <2>2, <2>3 DEF HeldOf
    <2> QED
      BY <2>4 DEF StillFiles
  <1> QED
    BY <1>2, <1>3

\* grab: its records, sorted.
LEMMA RecordsReported ==
    ASSUME IInv, phase = "read", consumer = "grab", done = Len(queue)
    PROVE  RecordsStillThere(SortedRecords(records))
  <1> DEFINE out == SortedRecords(records)
  <1>1. PICK n \in Nat : n = Len(records) /\ DOMAIN records = 1..n /\ records \in Seq(Record)
    BY LenProperties DEF IInv, TypeOK
  <1>2. /\ out \in Seq(Record) /\ DOMAIN out = 1..n
        /\ \A i, j \in 1..n : i < j => ~Precedes(PoolKey(out[j]), PoolKey(out[i]))
    BY <1>1, SortedRecordsProperties, LenProperties
  <1>3. \A i \in 1..n : \E k \in 1..n : out[i] = records[k]
    <2>1. ToSet(out) = ToSet(records)
      BY <1>1, SortedRecordsProperties
    <2> QED
      BY <1>1, <1>2, <2>1 DEF ToSet
  <1>4. \A x : Cardinality(PlacesIn(out, {x})) = Cardinality(PlacesIn(records, {x}))
    BY <1>1, SortedRecordsProperties
  <1> HIDE DEF out
  <1>5. \A d : d \in RecordPlaces <=> \E f \in StillFiles : \E j \in Recorded(at[f]) : d = <<f, j>>
    BY StillProperties DEF RecordPlaces, NodeAt, Recorded
  <1>6. \A f \in StillFiles : \A j \in Recorded(at[f]) :
           RecordAt(<<f, j>>) = RecordOf(f, at[f], Nodes[at[f]][j])
    BY DEF RecordAt, NodeAt
  <1>7. \A f \in StillFiles : f \in File /\ f \in Still /\ at[f] \in Text
    BY StillProperties DEF StillFiles
  <1>8. ASSUME NEW k \in 1..n, records[k].file \in Still
        PROVE  \E d \in RecordPlaces : records[k] = RecordAt(d)
    <2>1. PICK f \in Still : f = records[k].file
      BY <1>8
    <2>2. f \in StillFiles /\ Selected(records, OfFile(f)) = RecordsOf(f, at[f])
      BY <1>1, <2>1, StillHeld
    <2>3. records[k] \in ToSet(RecordsOf(f, at[f]))
      <3>1. records[k] \in ToSet(records) \cap OfFile(f)
        BY <1>1, <2>1, ElementOfSeq DEF ToSet, OfFile
      <3> QED
        BY <1>1, <2>2, <3>1, SelectedType
    <2>4. PICK j \in Recorded(at[f]) : records[k] = RecordOf(f, at[f], Nodes[at[f]][j])
      BY <1>7, <2>2, <2>3, RecordsOfNodes DEF ToSet
    <2>5. <<f, j>> \in RecordPlaces
      BY <1>5, <2>2, <2>4
    <2> QED
      BY <1>6, <2>2, <2>4, <2>5
  <1>9. ASSUME NEW d \in RecordPlaces
        PROVE  Cardinality(PlacesIn(records, {RecordAt(d)}))
                  = Cardinality({e \in RecordPlaces : RecordAt(e) = RecordAt(d)})
    <2>1. PICK f \in StillFiles : \E j \in Recorded(at[f]) : d = <<f, j>>
      BY <1>5
    <2>2. PICK j0 \in Recorded(at[f]) : d = <<f, j0>>
      BY <2>1
    <2> DEFINE x == RecordAt(d)
    <2>3. f \in File /\ f \in Still /\ at[f] \in Text /\ x = RecordOf(f, at[f], Nodes[at[f]][j0])
      BY <1>6, <1>7, <2>2
    <2> HIDE DEF x
    <2>4. x \in OfFile(f)
      <3>1. Nodes[at[f]][j0] \in Node /\ Nodes[at[f]][j0].kind \in ToSet(PoolKinds)
        BY <2>3, TextAssumption, ElementOfSeq, LenProperties DEF Recorded
      <3> QED
        BY <2>3, <3>1 DEF OfFile, RecordOf, Record, Node
    <2> DEFINE H == {j \in Recorded(at[f]) : RecordOf(f, at[f], Nodes[at[f]][j]) = x}
               E == {e \in RecordPlaces : RecordAt(e) = x}
               g == [j \in H |-> <<f, j>>]
    <2>5. Cardinality(PlacesIn(records, {x})) = Cardinality(PlacesIn(RecordsOf(f, at[f]), {x}))
      <3>1. OfFile(f) \cap {x} = {x}
        BY <2>4
      <3>2. Selected(records, OfFile(f)) = RecordsOf(f, at[f])
        BY <2>1, <2>3, StillHeld
      <3>3. Cardinality(PlacesIn(Selected(records, OfFile(f)), {x}))
               = Cardinality(PlacesIn(records, OfFile(f) \cap {x}))
        BY <1>1, SelectedCount
      <3> QED
        BY <3>1, <3>2, <3>3
    <2>6. Cardinality(PlacesIn(RecordsOf(f, at[f]), {x})) = Cardinality(H) /\ IsFiniteSet(Recorded(at[f]))
      <3>1. PICK text \in Text : text = at[f]
        BY <2>3
      <3>2. /\ \A y : Cardinality(PlacesIn(RecordsOf(f, text), {y}))
                       = Cardinality({j \in Recorded(text) : RecordOf(f, text, Nodes[text][j]) = y})
            /\ IsFiniteSet(Recorded(text))
        BY <2>3, RecordsOfNodes, Zenon
      <3> QED
        BY <3>1, <3>2
    <2>7. IsFiniteSet(H)
      BY <2>6, FS_Subset
    <2>8. g \in [H -> E] /\ \A i, j \in H : g[i] = g[j] => i = j
      BY <1>5, <1>6, <2>1
    <2>9. \A e \in E : \E j \in H : g[j] = e
      <3> TAKE e \in E
      <3>1. PICK h \in StillFiles : \E j \in Recorded(at[h]) : e = <<h, j>>
        BY <1>5
      <3>2. PICK j \in Recorded(at[h]) : e = <<h, j>>
        BY <3>1
      <3>3. RecordOf(h, at[h], Nodes[at[h]][j]) = x
        BY <1>6, <3>2
      <3>4. h = f
        BY <2>3, <3>3 DEF RecordOf
      <3> QED
        BY <3>2, <3>3, <3>4
    <2> HIDE DEF H, E, g
    <2>10. Cardinality(E) = Cardinality(H)
      BY <2>7, <2>8, <2>9, SameSize
    <2> QED
      BY <2>5, <2>6, <2>10 DEF E, x
  <1>10. \A x : {i \in DOMAIN out : out[i] = x} = PlacesIn(out, {x})
    BY DEF PlacesIn
  <1>11. Shows(out, [d \in RecordPlaces |-> RecordAt(d)])
    <2> DEFINE shown == [d \in RecordPlaces |-> RecordAt(d)]
    <2>1. DOMAIN shown = RecordPlaces /\ \A d \in RecordPlaces : shown[d] = RecordAt(d)
      OBVIOUS
    <2>2. \A i \in DOMAIN out : out[i].file \in Still => \E d \in RecordPlaces : out[i] = RecordAt(d)
      BY <1>2, <1>3, <1>8
    <2>3. ASSUME NEW d \in RecordPlaces
          PROVE  Cardinality({i \in DOMAIN out : out[i] = shown[d]})
                    = Cardinality({e \in RecordPlaces : shown[e] = shown[d]})
      <3>1. {e \in RecordPlaces : shown[e] = shown[d]} = {e \in RecordPlaces : RecordAt(e) = RecordAt(d)}
        BY <2>1
      <3>2. {i \in DOMAIN out : out[i] = shown[d]} = PlacesIn(out, {RecordAt(d)})
        BY <1>10, <2>1
      <3> QED
        BY <1>4, <1>9, <3>1, <3>2
    <2> HIDE DEF shown
    <2>4. Shows(out, shown)
      BY <2>1, <2>2, <2>3 DEF Shows
    <2> QED
      BY <2>4 DEF shown
  <1>12. Ascend([i \in DOMAIN out |-> PoolKey(out[i])])
    BY <1>2 DEF Ascend
  <1> QED
    BY <1>11, <1>12 DEF RecordsStillThere, out

-----------------------------------------------------------------------------
(***************************************************************************)
(* The categories of scrape: which rows stand for which declarations.      *)
(***************************************************************************)
PoolRow == [file : File, line : Nat, kind : ToSet(PoolKinds), name : Names]
FlatRow == [file : File, line : Nat, name : Names \cup {None}]

\* The rows of a result are of its file.
LEMMA FlatRowsType ==
    ASSUME NEW e \in Result, consumer = "scrape", NEW kind \in TdKind
    PROVE  FlatRows(e, kind) \in Seq({r \in FlatRow : r.file = e.file})
  <1>1. e.rows[kind] \in Seq(Row) /\ e.file \in File
    BY DEF Result, KindsOf
  <1>2. PICK rows \in Seq(Row) : rows = e.rows[kind]
    BY <1>1
  <1>3. PICK n \in Nat : n = Len(rows) /\ DOMAIN rows = 1..n
    BY LenProperties
  <1>4. FlatRows(e, kind)
          = [i \in 1..n |-> [file |-> e.file, line |-> rows[i].line, name |-> rows[i].name]]
    BY <1>2, <1>3 DEF FlatRows
  <1>5. ASSUME NEW i \in 1..n
        PROVE  [file |-> e.file, line |-> rows[i].line, name |-> rows[i].name]
                  \in {r \in FlatRow : r.file = e.file}
    <2>1. rows[i] \in Row
      BY <1>3
    <2> QED
      BY <1>1, <2>1 DEF FlatRow, Row
  <1> QED
    BY <1>4, <1>5, IsASeq

\* Those of the pool have a name.
LEMMA PoolRowsType ==
    ASSUME NEW e \in Result, consumer = "scrape", NEW kind \in ToSet(PoolKinds)
    PROVE  PoolRows(e, kind) \in Seq({r \in PoolRow : r.file = e.file})
  <1> DEFINE S == {row \in ToSet(e.rows[kind]) : row.name # None}
             named == Selected(e.rows[kind], S)
  <1>1. e.rows[kind] \in Seq(Row) /\ e.file \in File
    BY DEF Result, KindsOf, TdKind
  <1>2. named \in Seq(Row) /\ ToSet(named) = ToSet(e.rows[kind]) \cap S
    <2> HIDE DEF S
    <2> QED
      BY <1>1, SelectedType
  <1>3. PoolRows(e, kind)
          = [i \in DOMAIN named |-> [file |-> e.file, line |-> named[i].line,
                                     kind |-> kind, name |-> named[i].name]]
    BY DEF PoolRows
  <1>4. \A row \in ToSet(named) : row.name # None
    BY <1>2
  <1> HIDE DEF named
  <1>5. PICK n \in Nat : n = Len(named) /\ DOMAIN named = 1..n
    BY <1>2, LenProperties
  <1>6. ASSUME NEW i \in 1..n
        PROVE  [file |-> e.file, line |-> named[i].line, kind |-> kind, name |-> named[i].name]
                  \in {r \in PoolRow : r.file = e.file}
    <2>1. named[i] \in Row /\ named[i] \in ToSet(named)
      BY <1>2, <1>5 DEF ToSet
    <2> QED
      BY <1>1, <1>4, <2>1 DEF PoolRow, Row
  <1> QED
    BY <1>3, <1>5, <1>6, IsASeq

\* The rows of what stood still.
StillRow == {r \in FlatRow : r.file \in Still}

\* What stands for the nodes of a text in a structural category: all rows of the list.
LEMMA FlatPairing ==
    ASSUME NEW f \in Still, NEW text \in Text, NEW kind \in TdKind, consumer = "scrape", NEW row,
           \A j \in KindPlaces(text, kind) :
              row[<<f, j>>] = [file |-> f, line |-> Nodes[text][j].line, name |-> Nodes[text][j].name]
    PROVE  \E g : StandsFor(g, FlatRows(Parsed(f, text), kind), StillRow,
                            {<<f, j>> : j \in KindPlaces(text, kind)}, row)
  <1> DEFINE ss == FlatRows(Parsed(f, text), kind)
             J == KindPlaces(text, kind)
             P == PlacesIn(ss, StillRow)
             Q == {<<f, j>> : j \in J}
  <1>1. PICK m \in Nat : \E b : RowEach(RowsOf(text, kind), text, kind, m, b)
    BY RowsEach
  <1>2. PICK b : RowEach(RowsOf(text, kind), text, kind, m, b)
    BY <1>1
  <1>3. Parsed(f, text).file = f /\ Parsed(f, text).rows[kind] = RowsOf(text, kind)
    BY DEF Parsed, KindsOf
  <1>4. Pairing(b, 1..m, J)
    BY <1>2 DEF RowEach
  <1>5. /\ DOMAIN ss = 1..m
        /\ \A k \in 1..m : ss[k] = [file |-> f, line |-> Nodes[text][b[k]].line,
                                    name |-> Nodes[text][b[k]].name]
    <2> DEFINE rows == [k \in 1..m |-> [line |-> Nodes[text][b[k]].line, name |-> Nodes[text][b[k]].name]]
    <2>1. Parsed(f, text).rows[kind] = rows
      BY <1>2, <1>3 DEF RowEach
    <2>2. ss = [k \in DOMAIN rows |-> [file |-> f, line |-> rows[k].line, name |-> rows[k].name]]
      BY <1>3, <2>1 DEF FlatRows
    <2> QED
      BY <2>2
  <1>6. f \in File
    BY DEF Still
  <1> HIDE DEF J, ss
  <1>7. \A k \in 1..m : b[k] \in J
    BY <1>4 DEF Pairing
  <1>8. ASSUME NEW k \in 1..m PROVE ss[k] = row[<<f, b[k]>>] /\ ss[k] \in StillRow
    <2>1. PICK j \in J : j = b[k]
      BY <1>7
    <2>2. ss[k] = [file |-> f, line |-> Nodes[text][j].line, name |-> Nodes[text][j].name]
      BY <1>5, <2>1
    <2>3. row[<<f, j>>] = ss[k]
      BY <2>2 DEF J
    <2>4. Nodes[text][j].line \in Nat /\ Nodes[text][j].name \in Names \cup {None}
      BY NodesOfText DEF J, KindPlaces
    <2> QED
      BY <1>6, <2>1, <2>2, <2>3, <2>4 DEF StillRow, FlatRow
  <1>9. P = 1..m
    BY <1>5, <1>8 DEF PlacesIn
  <1> DEFINE g == [k \in P |-> <<f, b[k]>>]
  <1> HIDE DEF P
  <1>10. g \in [P -> Q] /\ \A k \in P : ss[k] = row[g[k]]
    BY <1>7, <1>8, <1>9
  <1>11. ASSUME NEW k \in P, NEW l \in P, g[k] = g[l] PROVE k = l
    BY <1>4, <1>9, <1>11 DEF Pairing
  <1>12. ASSUME NEW q \in Q PROVE \E k \in P : g[k] = q
    BY <1>4, <1>9 DEF Pairing
  <1> HIDE DEF g, Q
  <1>13. Pairing(g, P, Q)
    BY <1>10, <1>11, <1>12 DEF Pairing
  <1> QED
    BY <1>10, <1>13 DEF P, Q, ss, J, StandsFor

\* What is listed of a name of a category.
PoolOf(c) == {r \in PoolRow : r.file \in Still /\ r.name \in Matching[c]}

\* The nodes of a kind that match a category.
KindMatches(text, kind, c) == {j \in KindPlaces(text, kind) : Nodes[text][j].name \in Matching[c]}

\* What stands for the declarations of a kind in a keyword category: the rows that
\* have a name, if it matches.
LEMMA PoolPairing ==
    ASSUME NEW f \in Still, NEW text \in Text, NEW kind \in ToSet(PoolKinds), consumer = "scrape",
           NEW c \in DOMAIN Matching, NEW row,
           \A j \in KindPlaces(text, kind) :
              row[<<f, j>>] = [file |-> f, line |-> Nodes[text][j].line,
                               kind |-> kind, name |-> Nodes[text][j].name]
    PROVE  \E g : StandsFor(g, PoolRows(Parsed(f, text), kind), PoolOf(c),
                            {<<f, j>> : j \in KindMatches(text, kind, c)}, row)
  <1> DEFINE rows == RowsOf(text, kind)
             S == {r \in ToSet(rows) : r.name # None}
             named == Selected(rows, S)
             ss == PoolRows(Parsed(f, text), kind)
             J == KindPlaces(text, kind)
             P == PlacesIn(ss, PoolOf(c))
             Q == {<<f, j>> : j \in KindMatches(text, kind, c)}
  <1>1. f \in File /\ Matching[c] \subseteq Names /\ None \notin Names
    BY NamesAssumption DEF Still
  <1>2. PICK m \in Nat : \E b : RowEach(rows, text, kind, m, b)
    BY RowsEach
  <1>3. PICK b : RowEach(rows, text, kind, m, b)
    BY <1>2
  <1>4. Pairing(b, 1..m, J) /\ DOMAIN rows = 1..m
    BY <1>3 DEF RowEach
  <1>5. \A i \in 1..m : rows[i] = [line |-> Nodes[text][b[i]].line, name |-> Nodes[text][b[i]].name]
    BY <1>3 DEF RowEach
  <1>6. ss = [k \in DOMAIN named |-> [file |-> f, line |-> named[k].line,
                                     kind |-> kind, name |-> named[k].name]]
    BY DEF Parsed, KindsOf, TdKind, PoolRows
  <1>7. rows \in Seq(Row)
    BY RowsOfType
  <1>8. \A i : i \in PlacesIn(rows, S) <=> i \in 1..m /\ rows[i].name # None
    BY <1>4 DEF PlacesIn, ToSet
  <1> HIDE DEF rows, S, J
  <1>9. PICK n \in Nat : \E a : Picks(rows, S, n, a) /\ named = [k \in 1..n |-> rows[a[k]]]
    BY <1>7, SelectedPicks
  <1>10. PICK a : Picks(rows, S, n, a) /\ named = [k \in 1..n |-> rows[a[k]]]
    BY <1>9
  <1> HIDE DEF named
  <1>11. /\ \A k \in 1..n : a[k] \in 1..m /\ b[a[k]] \in J
         /\ \A k, l \in 1..n : a[k] = a[l] => k = l
    <2>1. \A k \in 1..n : a[k] \in 1..m
      BY <1>8, <1>10 DEF Picks
    <2>2. \A k \in 1..n : b[a[k]] \in J
      BY <1>4, <2>1 DEF Pairing
    <2>3. ASSUME NEW k \in 1..n, NEW l \in 1..n, a[k] = a[l] PROVE k = l
      <3>1. k < l \/ l < k \/ k = l
        OBVIOUS
      <3>2. a[k] \in 1..m /\ a[l] \in 1..m
        BY <2>1
      <3> QED
        BY <1>10, <2>3, <3>1, <3>2 DEF Picks
    <2> QED
      BY <2>1, <2>2, <2>3
  <1>12. /\ DOMAIN ss = 1..n
         /\ \A k \in 1..n : ss[k] = [file |-> f, line |-> Nodes[text][b[a[k]]].line,
                                     kind |-> kind, name |-> Nodes[text][b[a[k]]].name]
    <2>1. DOMAIN named = 1..n /\ \A k \in 1..n : named[k] = rows[a[k]]
      BY <1>10
    <2>2. \A k \in 1..n : named[k] = [line |-> Nodes[text][b[a[k]]].line,
                                      name |-> Nodes[text][b[a[k]]].name]
      BY <1>5, <1>11, <2>1
    <2> QED
      BY <1>6, <2>1, <2>2
  <1> HIDE DEF ss
  <1>13. ASSUME NEW k \in 1..n
         PROVE  /\ ss[k] = row[<<f, b[a[k]]>>]
                /\ ss[k] \in PoolOf(c) <=> Nodes[text][b[a[k]]].name \in Matching[c]
    <2>1. PICK j \in J : j = b[a[k]]
      BY <1>11
    <2>2. ss[k] = [file |-> f, line |-> Nodes[text][j].line, kind |-> kind, name |-> Nodes[text][j].name]
      BY <1>12, <2>1
    <2>3. row[<<f, j>>] = ss[k]
      BY <2>2 DEF J
    <2>4. Nodes[text][j].line \in Nat
      BY NodesOfText DEF J, KindPlaces
    <2>5. ss[k] \in PoolOf(c) <=> Nodes[text][j].name \in Matching[c]
      BY <1>1, <2>2, <2>4 DEF PoolOf, PoolRow
    <2> QED
      BY <2>1, <2>3, <2>5
  <1>14. \A k : k \in P <=> k \in 1..n /\ Nodes[text][b[a[k]]].name \in Matching[c]
    BY <1>12, <1>13 DEF PlacesIn
  <1> DEFINE g == [k \in P |-> <<f, b[a[k]]>>]
  <1> HIDE DEF P
  <1>15. g \in [P -> Q]
    BY <1>11, <1>14 DEF KindMatches, J
  <1>16. \A k \in P : ss[k] = row[g[k]]
    BY <1>13, <1>14
  <1>17. ASSUME NEW k \in P, NEW l \in P, g[k] = g[l] PROVE k = l
    <2>1. k \in 1..n /\ l \in 1..n /\ b[a[k]] = b[a[l]]
      BY <1>14, <1>17
    <2>2. a[k] = a[l]
      BY <1>4, <1>11, <2>1 DEF Pairing
    <2> QED
      BY <1>11, <2>1, <2>2
  <1>18. ASSUME NEW q \in Q PROVE \E k \in P : g[k] = q
    <2>1. PICK j \in J : q = <<f, j>> /\ Nodes[text][j].name \in Matching[c]
      BY DEF KindMatches, J
    <2>2. PICK i \in 1..m : b[i] = j
      BY <1>4 DEF Pairing
    <2>3. rows[i].name = Nodes[text][j].name
      <3>1. rows[i] = [line |-> Nodes[text][b[i]].line, name |-> Nodes[text][b[i]].name]
        BY <1>5
      <3> QED
        BY ONLY <2>2, <3>1
    <2>4. i \in PlacesIn(rows, S)
      BY <1>1, <1>8, <2>1, <2>3
    <2>5. PICK k \in 1..n : a[k] = i
      BY <1>10, <2>4 DEF Picks
    <2> QED
      BY <1>14, <2>1, <2>2, <2>5
  <1> HIDE DEF g, Q
  <1>19. Pairing(g, P, Q)
    BY <1>15, <1>17, <1>18 DEF Pairing
  <1> QED
    BY <1>16, <1>19 DEF P, Q, ss, StandsFor

\* What the pools of the kinds hold, that of the file does.
LEMMA FilePoolType ==
    ASSUME NEW T, NEW e, \A kind \in ToSet(PoolKinds) : PoolRows(e, kind) \in Seq(T)
    PROVE  /\ [j \in 1..4 |-> PoolRows(e, PoolKinds[j])] \in [1..4 -> Seq(T)]
           /\ FilePool(e) = Concatenated([j \in 1..4 |-> PoolRows(e, PoolKinds[j])])
           /\ FilePool(e) \in Seq(T)
  <1> DEFINE ss == [j \in 1..4 |-> PoolRows(e, PoolKinds[j])]
  <1>1. DOMAIN PoolKinds = 1..4
    BY DEF PoolKinds
  <1>2. ss \in [1..4 -> Seq(T)]
    BY <1>1 DEF ToSet
  <1>3. FilePool(e) = Concatenated(ss)
    BY <1>1 DEF FilePool
  <1> HIDE DEF ss
  <1>4. Concatenated(ss) \in Seq(T)
    BY <1>2, ConcatenatedProperties
  <1> QED
    BY <1>2, <1>3, <1>4 DEF ss

\* A file that failed has nothing in the pool.
LEMMA FilePoolOfFailed ==
    ASSUME NEW f, NEW why, consumer = "scrape"
    PROVE  FilePool(Failed(f, why)) \in Seq({})
  <1> SUFFICES ASSUME NEW kind \in ToSet(PoolKinds) PROVE PoolRows(Failed(f, why), kind) \in Seq({})
    BY FilePoolType
  <1>1. Failed(f, why).rows[kind] = <<>>
    BY DEF Failed, KindsOf, TdKind
  <1> DEFINE named == Selected(<<>>, {row \in ToSet(<<>>) : row.name # None})
  <1>2. named \in Seq({})
    BY EmptySeq, SelectedType
  <1>3. PoolRows(Failed(f, why), kind)
          = [i \in DOMAIN named |-> [file |-> Failed(f, why).file, line |-> named[i].line,
                                     kind |-> kind, name |-> named[i].name]]
    BY <1>1 DEF PoolRows
  <1> HIDE DEF named
  <1>4. DOMAIN named = 1..0
    <2>1. Len(named) \in Nat /\ DOMAIN named = 1..Len(named)
      BY <1>2, LenProperties
    <2>2. \A i \in 1..Len(named) : named[i] \in {}
      BY <1>2, ElementOfSeq
    <2> QED
      BY <2>1, <2>2
  <1> QED
    BY <1>3, <1>4, IsASeq

\* The declarations of a text that match a category.
Matches(text, c) == {h \in Recorded(text) : Nodes[text][h].name \in Matching[c]}

\* What stands for the declarations of a file in a keyword category.
LEMMA FilePoolPairing ==
    ASSUME NEW f \in Still, NEW text \in Text, consumer = "scrape", NEW c \in DOMAIN Matching,
           NEW row,
           \A j \in DOMAIN Nodes[text] :
              row[<<f, j>>] = [file |-> f, line |-> Nodes[text][j].line,
                               kind |-> Nodes[text][j].kind, name |-> Nodes[text][j].name]
    PROVE  /\ FilePool(Parsed(f, text)) \in Seq({r \in PoolRow : r.file = f})
           /\ \E g : StandsFor(g, FilePool(Parsed(f, text)), PoolOf(c),
                               {<<f, j>> : j \in Matches(text, c)}, row)
  <1> DEFINE T == {r \in PoolRow : r.file = f}
             V == PoolOf(c)
             D == {<<f, j>> : j \in Matches(text, c)}
             of(kind) == {<<f, j>> : j \in KindMatches(text, kind, c)}
             part == [k \in 1..4 |-> of(PoolKinds[k])]
             ss == [k \in 1..4 |-> PoolRows(Parsed(f, text), PoolKinds[k])]
  <1>1. f \in File
    BY DEF Still
  <1>2. \A kind \in ToSet(PoolKinds) : PoolRows(Parsed(f, text), kind) \in Seq(T)
    <2>1. PICK e \in Result : e = Parsed(f, text) /\ e.file = f
      BY <1>1, ResultTypes DEF Parsed
    <2> QED
      BY <2>1, PoolRowsType
  <1>3. /\ ss \in [1..4 -> Seq(T)] /\ FilePool(Parsed(f, text)) = Concatenated(ss)
        /\ FilePool(Parsed(f, text)) \in Seq(T)
    <2> HIDE DEF T
    <2> QED
      BY <1>2, FilePoolType
  <1>4. DOMAIN PoolKinds = 1..4 /\ \A k, l \in 1..4 : PoolKinds[k] = PoolKinds[l] => k = l
    BY DEF PoolKinds
  <1>5. \A j \in DOMAIN Nodes[text] : Nodes[text][j].name \in Matching[c] =>
           (j \in Recorded(text) <=> \E k \in 1..4 : Nodes[text][j].kind = PoolKinds[k])
    <2>1. Matching[c] \subseteq Names /\ None \notin Names
      BY NamesAssumption
    <2>2. \A j \in DOMAIN Nodes[text] : Nodes[text][j].name \in Matching[c] => Nodes[text][j].named
      BY <2>1, NodesOfText
    <2> QED
      BY <1>4, <2>2 DEF Recorded, ToSet
  <1>6. ASSUME NEW d
        PROVE  d \in D <=> \E k \in 1..4 : d \in part[k]
    BY <1>5 DEF Matches, Recorded, KindMatches, KindPlaces
  <1>7. \A k, l \in 1..4 : k # l => part[k] \cap part[l] = {}
    <2> SUFFICES ASSUME NEW k \in 1..4, NEW l \in 1..4, NEW d, d \in part[k], d \in part[l] PROVE k = l
      OBVIOUS
    <2>1. PICK j \in KindPlaces(text, PoolKinds[k]) : d = <<f, j>>
      BY DEF KindMatches
    <2>2. PICK h \in KindPlaces(text, PoolKinds[l]) : d = <<f, h>>
      BY DEF KindMatches
    <2>3. j = h
      BY <2>1, <2>2
    <2> QED
      BY <1>4, <2>1, <2>2, <2>3 DEF KindPlaces
  <1>8. ASSUME NEW k \in 1..4
        PROVE  \E g : StandsFor(g, ss[k], V, part[k], row)
    <2>1. PICK kind \in ToSet(PoolKinds) : kind = PoolKinds[k]
      BY <1>4 DEF ToSet
    <2>2. \A j \in KindPlaces(text, kind) :
             row[<<f, j>>] = [file |-> f, line |-> Nodes[text][j].line,
                              kind |-> kind, name |-> Nodes[text][j].name]
      BY <2>1 DEF KindPlaces
    <2>3. ss[k] = PoolRows(Parsed(f, text), kind) /\ part[k] = of(kind)
      BY <2>1
    <2>4. \E g : StandsFor(g, PoolRows(Parsed(f, text), kind), PoolOf(c), of(kind), row)
      BY <2>2, PoolPairing
    <2> HIDE DEF ss, part, of
    <2> QED
      BY <2>3, <2>4
  <1> HIDE DEF T, V, D, part, ss
  <1>9. \E h : StandsFor(h, Concatenated(ss), V, D, row)
    BY ONLY <1>3, <1>6, <1>7, <1>8, ConcatenatedPairing
  <1> QED
    BY <1>3, <1>9 DEF T, V, D

\* The results of scrape, when the report is made: one for each file, and of a file
\* that stood still what it holds.
LEMMA ResultsAtEnd ==
    ASSUME IInv, phase = "read", consumer = "scrape", done = Len(queue)
    PROVE  /\ done \in Nat /\ DOMAIN files = 1..done /\ Len(files) = done
           /\ \A i \in 1..done : /\ files[i] \in Result /\ queue[i] \in File /\ files[i].file = queue[i]
                                 /\ queue[i] \in StillFiles => files[i] = Parsed(queue[i], at[queue[i]])
                                 /\ queue[i] \in Still \ StillFiles =>
                                       \E why \in Error : files[i] = Failed(queue[i], why)
           /\ \A i, j \in 1..done : queue[i] = queue[j] => i = j
           /\ \A f \in StillFiles : \E i \in 1..done : queue[i] = f
  <1>1. /\ done \in Nat /\ DOMAIN queue = 1..done /\ Len(files) = done /\ DOMAIN files = 1..done
        /\ files \in Seq(Result) /\ queue \in Seq(File)
        /\ \A i \in 1..done : files[i].file = queue[i]
    BY LenProperties DEF IInv, TypeOK, FilesOK
  <1>2. IsInjective(queue)
    BY SortedType DEF IInv, QueueOK, TypeOK
  <1>3. \A i, j \in 1..done : queue[i] = queue[j] => i = j
    BY <1>1, <1>2 DEF IsInjective
  <1>4. ASSUME NEW f \in StillFiles PROVE \E i \in 1..done : queue[i] = f
    <2>1. f \in File /\ Untouched(f)
      BY StillProperties
    <2> QED
      BY <1>1, <2>1 DEF IInv, QueueOK, ToSet
  <1>5. ASSUME NEW i \in 1..done
        PROVE  /\ files[i] \in Result /\ queue[i] \in File /\ files[i].file = queue[i]
               /\ queue[i] \in StillFiles => files[i] = Parsed(queue[i], at[queue[i]])
               /\ queue[i] \in Still \ StillFiles => \E why \in Error : files[i] = Failed(queue[i], why)
    <2>1. files[i] \in Result /\ queue[i] \in File /\ files[i].file = queue[i]
      BY <1>1
    <2>2. EntryOK(files[i])
      BY <1>1 DEF IInv, EntriesOK
    <2>3. files[i].error = None \/ files[i].error \in Error
      BY <2>1 DEF Result
    <2>4. ASSUME queue[i] \in StillFiles PROVE files[i] = Parsed(queue[i], at[queue[i]])
      <3>1. queue[i] \in Still /\ been[queue[i]] = {at[queue[i]]} /\ at[queue[i]] \in Text
        BY <2>4, StillProperties DEF StillFiles
      <3>2. files[i].error = None
        BY <2>1, <2>2, <2>3, <3>1, StillProperties DEF EntryOK
      <3> QED
        BY <2>1, <2>2, <3>1, <3>2 DEF EntryOK
    <2>5. ASSUME queue[i] \in Still \ StillFiles
          PROVE  \E why \in Error : files[i] = Failed(queue[i], why)
      <3>1. been[queue[i]] = {at[queue[i]]} /\ at[queue[i]] \notin Text
        BY <2>5 DEF Still, StillFiles
      <3>2. files[i].error # None
        BY <2>1, <2>2, <3>1 DEF EntryOK
      <3> QED
        BY <2>1, <2>2, <2>3, <3>2 DEF EntryOK
    <2> QED
      BY <2>1, <2>4, <2>5
  <1> QED
    BY <1>1, <1>3, <1>4, <1>5

\* What holds of each file that stood still holds of all: its rows stand for its
\* declarations, and no other file has rows that count.
LEMMA FileByFile ==
    ASSUME IInv, phase = "read", consumer = "scrape", done = Len(queue),
           NEW T, NEW ss \in [1..done -> Seq(T)], NEW V, NEW D, NEW row, NEW in,
           \A d : d \in D <=> \E f \in StillFiles : d \in in[f],
           \A f \in StillFiles : \A d \in in[f] : d[1] = f,
           \A i \in 1..done : queue[i] \in StillFiles => \E g : StandsFor(g, ss[i], V, in[queue[i]], row),
           \A i \in 1..done : queue[i] \notin StillFiles => PlacesIn(ss[i], V) = {}
    PROVE  \E h : StandsFor(h, Concatenated(ss), V, D, row)
  <1> DEFINE part == [i \in 1..done |-> IF queue[i] \in StillFiles THEN in[queue[i]] ELSE {}]
  <1>1. /\ done \in Nat
        /\ \A i, j \in 1..done : queue[i] = queue[j] => i = j
        /\ \A f \in StillFiles : \E i \in 1..done : queue[i] = f
    BY ResultsAtEnd
  <1>2. ASSUME NEW d PROVE d \in D <=> \E i \in 1..done : d \in part[i]
    BY <1>1
  <1>3. ASSUME NEW i \in 1..done, NEW j \in 1..done, i # j PROVE part[i] \cap part[j] = {}
    <2> SUFFICES ASSUME NEW d, d \in part[i], d \in part[j] PROVE FALSE
      OBVIOUS
    <2>1. queue[i] \in StillFiles /\ queue[j] \in StillFiles /\ d \in in[queue[i]] /\ d \in in[queue[j]]
      OBVIOUS
    <2>2. d[1] = queue[i] /\ d[1] = queue[j]
      BY <2>1
    <2> QED
      BY <1>1, <1>3, <2>2
  <1>4. ASSUME NEW i \in 1..done PROVE \E g : StandsFor(g, ss[i], V, part[i], row)
    <2>1. CASE queue[i] \in StillFiles
      BY <2>1
    <2>2. CASE queue[i] \notin StillFiles
      <3>1. PlacesIn(ss[i], V) = {} /\ part[i] = {}
        BY <2>2
      <3>2. PICK g : g = [x \in {} |-> x]
        OBVIOUS
      <3>3. Pairing(g, {}, {})
        BY <3>2 DEF Pairing
      <3>4. StandsFor(g, ss[i], V, part[i], row)
        BY ONLY <3>1, <3>3 DEF StandsFor
      <3> QED
        BY <3>4
    <2> QED
      BY <2>1, <2>2
  <1> HIDE DEF part
  <1>5. ss \in [1..done -> Seq(T)] /\ done \in Nat
    BY <1>1
  <1> QED
    BY ONLY <1>2, <1>3, <1>4, <1>5, ConcatenatedPairing

\* What counts is in M, and no other row of T that is in M is of a file that stood
\* still.
Counts(T, M, V) == V \subseteq M /\ \A r \in T : r \in M /\ r.file \in Still => r \in V

\* shown is row, for the elements of D.
RowsFor(shown, row, D) == DOMAIN shown = D /\ \A d \in D : shown[d] = row[d]

\* A list that has a row for each element of D is complete after it is sorted and
\* what is not in M is left out.
LEMMA SortedShows ==
    ASSUME NEW T, NEW pool \in Seq(T), NEW m \in Nat, NEW keys \in [DOMAIN pool -> [1..m -> Nat]],
           NEW V, NEW D, NEW row, NEW h, StandsFor(h, pool, V, D, row),
           NEW M, Counts(T, M, V), NEW shown, RowsFor(shown, row, D),
           NEW rows, rows = Selected(SortedBy(pool, keys), M)
    PROVE  Shows(rows, shown) /\ InOrder(rows, pool, keys, M)
  <1>1. InOrder(rows, pool, keys, M)
    BY SelectedFromSorted
  <1>2. /\ ToSet(pool) \cap V = {row[d] : d \in D}
        /\ \A x \in V : Cardinality(PlacesIn(pool, {x})) = Cardinality({d \in D : row[d] = x})
    BY PairingCount
  <1>3. \A r \in ToSet(pool) : r \in T
    BY ElementOfSeq, LenProperties DEF ToSet
  <1>4. ASSUME NEW i \in DOMAIN rows, rows[i].file \in Still
        PROVE  \E d \in D : rows[i] = shown[d]
    <2>1. rows[i] \in ToSet(pool) /\ rows[i] \in M
      BY <1>1 DEF InOrder, ToSet
    <2>2. rows[i] \in ToSet(pool) \cap V
      BY <1>3, <1>4, <2>1 DEF Counts
    <2> QED
      BY <1>2, <2>2 DEF RowsFor
  <1>5. ASSUME NEW d \in D
        PROVE  Cardinality({i \in DOMAIN rows : rows[i] = shown[d]})
                  = Cardinality({e \in D : shown[e] = shown[d]})
    <2>1. PICK x \in V : x = row[d]
      BY <1>2
    <2> DEFINE out == SortedBy(pool, keys)
    <2>2. out \in Seq(T)
      BY SortedByProperties
    <2>3. Cardinality(PlacesIn(out, {x})) = Cardinality(PlacesIn(pool, {x}))
      BY SortedByCount
    <2> HIDE DEF out
    <2>4. Cardinality(PlacesIn(Selected(out, M), {x})) = Cardinality(PlacesIn(out, M \cap {x}))
      BY <2>2, SelectedCount
    <2>5. M \cap {x} = {x}
      BY <2>1 DEF Counts
    <2>6. rows = Selected(out, M)
      BY DEF out
    <2>7. {i \in DOMAIN rows : rows[i] = shown[d]} = PlacesIn(rows, {x})
      BY <2>1 DEF PlacesIn, RowsFor
    <2>8. {e \in D : shown[e] = shown[d]} = {e \in D : row[e] = x}
      BY <2>1 DEF RowsFor
    <2>9. Cardinality(PlacesIn(pool, {x})) = Cardinality({e \in D : row[e] = x})
      BY <1>2, <2>1
    <2> QED
      BY <2>3, <2>4, <2>5, <2>6, <2>7, <2>8, <2>9
  <1>6. Shows(rows, shown)
    BY <1>4, <1>5 DEF Shows, RowsFor
  <1> QED
    BY <1>1, <1>6

\* The rows that stand for the nodes, in the pool and in a list of their own.
PoolRowFor == [p \in Places |-> PoolRowAt(p)]
FlatRowFor == [p \in Places |-> FlatRowAt(p)]

\* A node of a file that stood still is at its place.
LEMMA PlacesOfFile ==
    ASSUME IInv, NEW f \in StillFiles, NEW j \in DOMAIN Nodes[at[f]]
    PROVE  /\ <<f, j>> \in Places /\ NodeAt(<<f, j>>) = Nodes[at[f]][j]
           /\ PoolRowFor[<<f, j>>] = [file |-> f, line |-> Nodes[at[f]][j].line,
                                      kind |-> Nodes[at[f]][j].kind, name |-> Nodes[at[f]][j].name]
           /\ FlatRowFor[<<f, j>>] = [file |-> f, line |-> Nodes[at[f]][j].line,
                                      name |-> Nodes[at[f]][j].name]
  <1>1. <<f, j>> \in Places
    BY StillProperties
  <1>2. NodeAt(<<f, j>>) = Nodes[at[f]][j]
    BY DEF NodeAt
  <1> QED
    BY <1>1, <1>2 DEF PoolRowFor, PoolRowAt, FlatRowFor, FlatRowAt

\* A keyword category of what has been read.
LEMMA KeywordsListed ==
    ASSUME IInv, phase = "read", consumer = "scrape", done = Len(queue), NEW c \in DOMAIN Matching
    PROVE  KeywordComplete(KeywordRecords(files, c), c)
  <1> DEFINE V == PoolOf(c)
             D == InCategory(c)
             ss == [i \in 1..done |-> FilePool(files[i])]
             pool == Concatenated(ss)
             keys == [i \in DOMAIN pool |-> PoolKey(pool[i])]
             in == [f \in StillFiles |-> {<<f, j>> : j \in Matches(at[f], c)}]
  <1>1. /\ done \in Nat /\ DOMAIN files = 1..done
        /\ \A i \in 1..done : /\ files[i] \in Result /\ queue[i] \in File /\ files[i].file = queue[i]
                              /\ queue[i] \in StillFiles => files[i] = Parsed(queue[i], at[queue[i]])
                              /\ queue[i] \in Still \ StillFiles =>
                                    \E why \in Error : files[i] = Failed(queue[i], why)
    BY ResultsAtEnd
  <1>2. \A f \in StillFiles : f \in Still /\ at[f] \in Text
    BY DEF StillFiles
  <1>3. ASSUME NEW i \in 1..done
        PROVE  ss[i] \in Seq({r \in PoolRow : r.file = queue[i]}) /\ ss[i] \in Seq(PoolRow)
    <2> DEFINE T == {r \in PoolRow : r.file = queue[i]}
    <2>1. PICK e \in Result : e = files[i] /\ e.file = queue[i]
      BY <1>1
    <2>2. \A kind \in ToSet(PoolKinds) : PoolRows(e, kind) \in Seq(T)
      BY <2>1, PoolRowsType
    <2>3. T \subseteq PoolRow
      OBVIOUS
    <2> HIDE DEF T
    <2>4. FilePool(e) \in Seq(T)
      BY <2>2, FilePoolType
    <2>5. FilePool(e) \in Seq(PoolRow)
      BY <2>3, <2>4, SeqOfMore
    <2> QED
      BY <2>1, <2>4, <2>5 DEF T
  <1>4. ss \in [1..done -> Seq(PoolRow)]
    BY <1>3
  <1>5. \A d : d \in D <=> \E f \in StillFiles : d \in in[f]
    <2>1. \A f \in StillFiles : \A j \in DOMAIN Nodes[at[f]] : NodeAt(<<f, j>>) = Nodes[at[f]][j]
      BY PlacesOfFile
    <2> QED
      BY <2>1, StillProperties DEF InCategory, Matches, Recorded
  <1>6. \A f \in StillFiles : \A d \in in[f] : d[1] = f
    OBVIOUS
  <1>7. ASSUME NEW i \in 1..done, queue[i] \in StillFiles
        PROVE  \E g : StandsFor(g, ss[i], V, in[queue[i]], PoolRowFor)
    <2>1. PICK f \in Still, text \in Text : f = queue[i] /\ text = at[f]
      BY <1>2, <1>7
    <2>2. \A j \in DOMAIN Nodes[text] :
             PoolRowFor[<<f, j>>] = [file |-> f, line |-> Nodes[text][j].line,
                                    kind |-> Nodes[text][j].kind, name |-> Nodes[text][j].name]
      BY <1>7, <2>1, PlacesOfFile
    <2>3. \E g : StandsFor(g, FilePool(Parsed(f, text)), PoolOf(c), {<<f, j>> : j \in Matches(text, c)},
                           PoolRowFor)
      BY <2>2, FilePoolPairing
    <2>4. ss[i] = FilePool(Parsed(f, text)) /\ in[queue[i]] = {<<f, j>> : j \in Matches(text, c)}
      BY <1>1, <1>7, <2>1
    <2> HIDE DEF ss, in
    <2> QED
      BY <2>3, <2>4
  <1>8. ASSUME NEW i \in 1..done, queue[i] \notin StillFiles PROVE PlacesIn(ss[i], V) = {}
    <2>1. CASE queue[i] \in Still
      <3>1. PICK why \in Error : files[i] = Failed(queue[i], why)
        BY <1>1, <1>8, <2>1
      <3>2. ss[i] \in Seq({})
        BY <3>1, FilePoolOfFailed
      <3>3. \A k \in DOMAIN ss[i] : ss[i][k] \in {}
        BY <3>2, ElementOfSeq, LenProperties
      <3> QED
        BY <3>3 DEF PlacesIn
    <2>2. CASE queue[i] \notin Still
      <3>1. \A k \in DOMAIN ss[i] : ss[i][k] \in {r \in PoolRow : r.file = queue[i]}
        BY <1>3, ElementOfSeq, LenProperties
      <3> QED
        BY <2>2, <3>1 DEF PlacesIn, PoolOf
    <2> QED
      BY <2>1, <2>2
  <1> HIDE DEF in, ss, V, D
  <1>9. PICK h : StandsFor(h, pool, V, D, PoolRowFor)
    BY <1>4, <1>5, <1>6, <1>7, <1>8, FileByFile
  <1>10. pool \in Seq(PoolRow)
    BY <1>1, <1>4, ConcatenatedProperties
  <1> HIDE DEF pool
  <1>11. keys \in [DOMAIN pool -> [1..4 -> Nat]]
    <2> SUFFICES ASSUME NEW a \in DOMAIN pool PROVE PoolKey(pool[a]) \in [1..4 -> Nat]
      OBVIOUS
    <2>1. pool[a] \in PoolRow
      BY <1>10, ElementOfSeq, LenProperties
    <2>2. pool[a].line \in Nat
      BY <2>1 DEF PoolRow
    <2> QED
      BY <2>2, KeyTypes
  <1> DEFINE M == {r \in PoolRow : r.name \in Matching[c]}
             out == KeywordRecords(files, c)
             shown == [p \in InCategory(c) |-> PoolRowAt(p)]
  <1>12. out = Selected(SortedBy(pool, keys), M)
    <2> DEFINE np == SortedBy(pool, keys)
               S == {r \in ToSet(np) : r.name \in Matching[c]}
    <2>1. NamedPool(files) = np
      BY <1>1 DEF NamedPool, pool, ss
    <2>2. np \in Seq(PoolRow)
      BY <1>10, <1>11, SortedByProperties
    <2> HIDE DEF np
    <2>3. \A x \in ToSet(np) \cap PoolRow : x \in S <=> x \in M
      OBVIOUS
    <2>4. out = Selected(np, S)
      BY <2>1 DEF KeywordRecords
    <2> HIDE DEF S, M, out
    <2>5. out = Selected(np, M)
      BY <2>2, <2>3, <2>4, SelectedSame
    <2> QED
      BY <2>5 DEF np
  <1>13. Counts(PoolRow, M, V)
    BY DEF V, PoolOf, Counts
  <1>14. RowsFor(shown, PoolRowFor, D)
    BY DEF D, InCategory, PoolRowFor, RowsFor
  <1>15. \A a \in DOMAIN pool : keys[a] = PoolKey(pool[a])
    OBVIOUS
  <1> HIDE DEF out, M, shown, keys
  <1>16. Shows(out, shown) /\ InOrder(out, pool, keys, M)
    <2>1. PICK m \in Nat : m = 4
      OBVIOUS
    <2>2. keys \in [DOMAIN pool -> [1..m -> Nat]]
      BY <1>11, <2>1
    <2> QED
      BY ONLY <1>9, <1>10, <1>12, <1>13, <1>14, <2>2, SortedShows
  <1>17. Ascend([i \in DOMAIN out |-> PoolKey(out[i])])
    BY <1>15, <1>16 DEF InOrder, Ascend
  <1> QED
    BY <1>16, <1>17 DEF KeywordComplete, out, shown

\* A structural category of what has been read.
LEMMA StructuresListed ==
    ASSUME IInv, phase = "read", consumer = "scrape", done = Len(queue), NEW kind \in TdKind
    PROVE  StructuralComplete(FlatRecords(files, kind), kind)
  <1> DEFINE V == StillRow
             D == OfKind(kind)
             ss == [i \in 1..done |-> FlatRows(files[i], kind)]
             rows == Concatenated(ss)
             keys == [i \in DOMAIN rows |-> FlatKey(rows[i])]
             in == [f \in StillFiles |-> {<<f, j>> : j \in KindPlaces(at[f], kind)}]
  <1>1. /\ done \in Nat /\ DOMAIN files = 1..done
        /\ \A i \in 1..done : /\ files[i] \in Result /\ queue[i] \in File /\ files[i].file = queue[i]
                              /\ queue[i] \in StillFiles => files[i] = Parsed(queue[i], at[queue[i]])
                              /\ queue[i] \in Still \ StillFiles =>
                                    \E why \in Error : files[i] = Failed(queue[i], why)
    BY ResultsAtEnd
  <1>2. \A f \in StillFiles : f \in Still /\ at[f] \in Text
    BY DEF StillFiles
  <1>3. ASSUME NEW i \in 1..done
        PROVE  ss[i] \in Seq({r \in FlatRow : r.file = queue[i]}) /\ ss[i] \in Seq(FlatRow)
    <2> DEFINE T == {r \in FlatRow : r.file = queue[i]}
    <2>1. PICK e \in Result : e = files[i] /\ e.file = queue[i]
      BY <1>1
    <2>2. FlatRows(e, kind) \in Seq(T)
      BY <2>1, FlatRowsType
    <2>3. T \subseteq FlatRow
      OBVIOUS
    <2> HIDE DEF T
    <2>4. FlatRows(e, kind) \in Seq(FlatRow)
      BY <2>2, <2>3, SeqOfMore
    <2> QED
      BY <2>1, <2>2, <2>4 DEF T
  <1>4. ss \in [1..done -> Seq(FlatRow)]
    BY <1>3
  <1>5. \A d : d \in D <=> \E f \in StillFiles : d \in in[f]
    <2>1. \A f \in StillFiles : \A j \in DOMAIN Nodes[at[f]] : NodeAt(<<f, j>>) = Nodes[at[f]][j]
      BY PlacesOfFile
    <2> QED
      BY <2>1, StillProperties DEF OfKind, KindPlaces
  <1>6. \A f \in StillFiles : \A d \in in[f] : d[1] = f
    OBVIOUS
  <1>7. ASSUME NEW i \in 1..done, queue[i] \in StillFiles
        PROVE  \E g : StandsFor(g, ss[i], V, in[queue[i]], FlatRowFor)
    <2>1. PICK f \in Still, text \in Text : f = queue[i] /\ text = at[f]
      BY <1>2, <1>7
    <2>2. \A j \in KindPlaces(text, kind) :
             FlatRowFor[<<f, j>>] = [file |-> f, line |-> Nodes[text][j].line, name |-> Nodes[text][j].name]
      BY <1>7, <2>1, PlacesOfFile DEF KindPlaces
    <2>3. \E g : StandsFor(g, FlatRows(Parsed(f, text), kind), StillRow,
                           {<<f, j>> : j \in KindPlaces(text, kind)}, FlatRowFor)
      BY <2>2, FlatPairing
    <2>4. ss[i] = FlatRows(Parsed(f, text), kind) /\ in[queue[i]] = {<<f, j>> : j \in KindPlaces(text, kind)}
      BY <1>1, <1>7, <2>1
    <2> HIDE DEF ss, in
    <2> QED
      BY <2>3, <2>4
  <1>8. ASSUME NEW i \in 1..done, queue[i] \notin StillFiles PROVE PlacesIn(ss[i], V) = {}
    <2>1. CASE queue[i] \in Still
      <3>1. PICK why \in Error : files[i] = Failed(queue[i], why)
        BY <1>1, <1>8, <2>1
      <3>2. files[i].rows[kind] = <<>>
        BY <3>1 DEF Failed, KindsOf
      <3>3. DOMAIN ss[i] = {}
        BY <3>2 DEF FlatRows
      <3> QED
        BY <3>3 DEF PlacesIn
    <2>2. CASE queue[i] \notin Still
      <3>1. \A k \in DOMAIN ss[i] : ss[i][k] \in {r \in FlatRow : r.file = queue[i]}
        BY <1>3, ElementOfSeq, LenProperties
      <3> QED
        BY <2>2, <3>1 DEF PlacesIn, StillRow
    <2> QED
      BY <2>1, <2>2
  <1> HIDE DEF in, ss, V, D
  <1>9. PICK h : StandsFor(h, rows, V, D, FlatRowFor)
    BY <1>4, <1>5, <1>6, <1>7, <1>8, FileByFile
  <1>10. rows \in Seq(FlatRow)
    BY <1>1, <1>4, ConcatenatedProperties
  <1> HIDE DEF rows
  <1>11. keys \in [DOMAIN rows -> [1..3 -> Nat]]
    <2> SUFFICES ASSUME NEW a \in DOMAIN rows PROVE FlatKey(rows[a]) \in [1..3 -> Nat]
      OBVIOUS
    <2>1. rows[a] \in FlatRow
      BY <1>10, ElementOfSeq, LenProperties
    <2>2. rows[a].line \in Nat
      BY <2>1 DEF FlatRow
    <2> QED
      BY <2>2, KeyTypes
  <1> DEFINE out == FlatRecords(files, kind)
             shown == [p \in OfKind(kind) |-> FlatRowAt(p)]
  <1>12. out = Selected(SortedBy(rows, keys), FlatRow)
    <2>1. out = SortedBy(rows, keys)
      BY <1>1 DEF FlatRecords, rows, ss
    <2> HIDE DEF out, keys
    <2>2. out \in Seq(FlatRow)
      <3>1. SortedBy(rows, keys) \in Seq(FlatRow)
        BY <1>10, <1>11, SortedByProperties
      <3> QED
        BY <2>1, <3>1
    <2>3. ToSet(out) \subseteq FlatRow
      BY <2>2, ElementOfSeq, LenProperties DEF ToSet
    <2>4. Selected(out, FlatRow) = out
      BY <2>2, <2>3, SelectedItself
    <2> QED
      BY <2>1, <2>4
  <1>13. Counts(FlatRow, FlatRow, V)
    BY DEF V, StillRow, Counts
  <1>14. RowsFor(shown, FlatRowFor, D)
    BY DEF D, OfKind, FlatRowFor, RowsFor
  <1>15. \A a \in DOMAIN rows : keys[a] = FlatKey(rows[a])
    OBVIOUS
  <1> HIDE DEF out, shown, keys
  <1>16. Shows(out, shown) /\ InOrder(out, rows, keys, FlatRow)
    <2>1. PICK m \in Nat : m = 3
      OBVIOUS
    <2>2. keys \in [DOMAIN rows -> [1..m -> Nat]]
      BY <1>11, <2>1
    <2> QED
      BY ONLY <1>9, <1>10, <1>12, <1>13, <1>14, <2>2, SortedShows
  <1>17. Ascend([i \in DOMAIN out |-> FlatKey(out[i])])
    BY <1>15, <1>16 DEF InOrder, Ascend
  <1> QED
    BY <1>16, <1>17 DEF StructuralComplete, out, shown

-----------------------------------------------------------------------------
(***************************************************************************)
(* The theorems.                                                           *)
(***************************************************************************)
\* Types of the state: each result has all lists of its program (_parse_td_file,
\* parse_cpp_file), however the tree changes.
THEOREM TypeCorrect == Spec => []TypeOK
  <1>1. IInv => TypeOK
    BY DEF IInv
  <1> QED
    BY <1>1, SpecInv, PTL

\* Nothing is reported of a file but what one version of it held during the
\* scan, and it is reported as failed only if it was (_parse_td_file,
\* _parse_arch_records).
THEOREM OnlyHistory == Spec => []EntriesAreHistory
  <1>1. ASSUME IInv PROVE EntriesAreHistory
    <2>1. EntriesOK
      BY <1>1 DEF IInv
    <2>2. ASSUME phase = "read", NEW f \in {records[i].file : i \in DOMAIN records}
          PROVE  \E text \in been[f] \cap Text :
                    Selected(records, {r \in ToSet(records) : r.file = f}) = RecordsOf(f, text)
      <3>1. PICK i \in DOMAIN records : records[i].file = f
        OBVIOUS
      <3>2. records \in Seq(Record) /\ records[i] \in Record
        BY <1>1, ElementOfSeq, LenProperties DEF IInv, TypeOK
      <3>3. consumer = "grab"
        BY <1>1, <2>2, <3>1 DEF IInv, FilesOK
      <3>4. PICK k \in 1..done : queue[k] = f
        BY <1>1, <2>2, <3>1, <3>3 DEF IInv, RecordsOK
      <3>5. HeldOf(records, f)
        BY <1>1, <2>2, <3>3, <3>4 DEF IInv, RecordsOK
      <3>6. Selected(records, OfFile(f)) # <<>>
        <4>1. records[i] \in ToSet(records) \cap OfFile(f)
          BY <3>1, <3>2 DEF ToSet, OfFile
        <4>2. ToSet(<<>>) = {}
          BY DEF ToSet
        <4> QED
          BY <3>2, <4>1, <4>2, SelectedType
      <3>7. Selected(records, {r \in ToSet(records) : r.file = f}) = Selected(records, OfFile(f))
        <4>1. \A j \in DOMAIN records : records[j] \in Record /\ records[j] \in ToSet(records)
          BY <3>2, ElementOfSeq, LenProperties DEF ToSet
        <4>2. PlacesIn(records, {r \in ToSet(records) : r.file = f}) = PlacesIn(records, OfFile(f))
          BY <4>1 DEF PlacesIn, OfFile
        <4> QED
          BY <4>2 DEF Selected
      <3> QED
        BY <3>5, <3>6, <3>7 DEF HeldOf
    <2> QED
      BY <2>1, <2>2 DEF EntriesAreHistory, EntriesOK, EntryOK
  <1> QED
    BY <1>1, SpecInv, PTL

\* The report begins with the last step, and then nothing changes any more.
LEMMA ReportIsLast ==
    ASSUME IInv, [Next]_vars, phase' = "result"
    PROVE  UNCHANGED vars \/ Finish
  BY StepKinds DEF IInv, Check, ListDir, SortListing, ReadFails, ParseRaises, Parse, Reading,
     TreeStep, scan, vars

\* GUIDE.md, "Shape check": every file that was listed is accounted for, also
\* one that could not be read; in grab, which has no entry of its own for it,
\* by an issue.
THEOREM EveryFileAccounted == Spec => []EveryListedFileAccounted
  <1>1. Init => EveryListedFileAccounted
    BY DEF Init, EveryListedFileAccounted
  <1>2. ASSUME IInv, EveryListedFileAccounted, [Next]_vars PROVE EveryListedFileAccounted'
    <2> SUFFICES ASSUME phase' = "result" PROVE EveryListedFileAccounted'
      BY DEF EveryListedFileAccounted
    <2>1. CASE UNCHANGED vars
      BY <1>2, <2>1 DEF EveryListedFileAccounted, vars, scan, world
    <2>2. CASE Finish
      <3>1. /\ phase = "read" /\ done = Len(queue) /\ UNCHANGED <<been, consumer, queue, files, issues>>
        BY <2>2 DEF Finish, world
      <3>2. DOMAIN queue = 1..done
        BY <1>2, <3>1, LenProperties DEF IInv, TypeOK
      <3>3. CASE consumer = "grab"
        BY <1>2, <3>1, <3>2, <3>3 DEF IInv, IssuesOK, EveryListedFileAccounted, ToSet
      <3>4. CASE consumer # "grab"
        BY <1>2, <3>1, <3>2, <3>4 DEF IInv, FilesOK, EveryListedFileAccounted
      <3> QED
        BY <3>3, <3>4
    <2> QED
      BY <1>2, <2>1, <2>2, ReportIsLast
  <1> QED
    BY <1>1, <1>2, SpecInv, PTL DEF Spec

\* A file that stands still is in the report once, at its place in the order and
\* with what it holds, whatever becomes of the others: the loops of
\* _parse_td_files and _parse_arch_records.
THEOREM WhatStoodStillReported == Spec => []ReportsWhatStoodStill
  <1>1. Init => ReportsWhatStoodStill
    BY DEF Init, ReportsWhatStoodStill
  <1>2. ASSUME IInv, ReportsWhatStoodStill, [Next]_vars PROVE ReportsWhatStoodStill'
    <2> SUFFICES ASSUME phase' = "result" PROVE ReportsWhatStoodStill'
      BY DEF ReportsWhatStoodStill
    <2>1. UNCHANGED <<at, been, broken, consumer>>
      BY <1>2, ReportIsLast DEF Finish, vars, scan, world
    <2>2. Still' = Still /\ StillText' = StillText
      BY <2>1 DEF Still, StillText
    <2>3. ASSUME NEW fs, FilesStillThere(fs) PROVE FilesStillThere(fs)'
      BY <2>1, <2>2, <2>3 DEF FilesStillThere, Parsed, KindsOf
    <2>4. RecordPlaces' = RecordPlaces /\ \A d : RecordAt(d)' = RecordAt(d)
      BY <2>1, <2>2 DEF RecordPlaces, Places, RecordAt, NodeAt
    <2>5. ASSUME NEW rs, RecordsStillThere(rs) PROVE RecordsStillThere(rs)'
      BY <2>2, <2>4, <2>5 DEF RecordsStillThere, Shows, Ascend
    <2>6. CASE UNCHANGED vars
      <3>1. PICK rs, fs : rs = records /\ fs = files
        OBVIOUS
      <3>2. phase = "result" /\ records' = rs /\ files' = fs
        BY <2>6, <3>1 DEF vars, scan
      <3>3. IF consumer = "grab" THEN RecordsStillThere(rs)' ELSE FilesStillThere(fs)'
        BY <1>2, <2>3, <2>5, <3>1, <3>2 DEF ReportsWhatStoodStill
      <3> QED
        BY <2>1, <3>2, <3>3 DEF ReportsWhatStoodStill, RecordsStillThere, FilesStillThere
    <2>7. CASE Finish
      <3>1. phase = "read" /\ done = Len(queue)
        BY <2>7 DEF Finish
      <3>2. CASE consumer = "grab"
        <4>1. PICK rs : rs = SortedRecords(records) /\ RecordsStillThere(rs)
          BY <1>2, <3>1, <3>2, RecordsReported
        <4>2. records' = rs /\ RecordsStillThere(rs)'
          BY <2>5, <2>7, <4>1 DEF Finish
        <4> QED
          BY <2>1, <3>2, <4>2 DEF ReportsWhatStoodStill, RecordsStillThere
      <3>3. CASE consumer # "grab"
        <4>1. PICK fs : fs = files /\ FilesStillThere(fs)
          BY <1>2, <3>1, <3>3, FilesReported
        <4>2. files' = fs /\ FilesStillThere(fs)'
          BY <2>3, <2>7, <4>1 DEF Finish
        <4> QED
          BY <2>1, <3>3, <4>2 DEF ReportsWhatStoodStill, FilesStillThere
      <3> QED
        BY <3>2, <3>3
    <2> QED
      BY <1>2, <2>6, <2>7, ReportIsLast
  <1> QED
    BY <1>1, <1>2, SpecInv, PTL DEF Spec

\* GUIDE.md, "Per-file error policy": no file stops the scan, whatever it is or
\* becomes, but in grab a text that cannot be decoded; and a directory that goes
\* away may.
THEOREM NoFileStopsTheScan == Spec => []RaisesOnlyIfGone
  <1>1. Init => RaisesOnlyIfGone
    BY DEF Init, RaisesOnlyIfGone
  <1>2. ASSUME IInv, RaisesOnlyIfGone, [Next]_vars PROVE RaisesOnlyIfGone'
    <2> SUFFICES ASSUME phase' = "raised" PROVE RaisesOnlyIfGone'
      BY DEF RaisesOnlyIfGone
    <2>1. CASE Check
      <3>1. Top \in Dir
        BY TreeAssumption
      <3> QED
        BY <2>1, <3>1 DEF Check, RaisesOnlyIfGone, world
    <2>2. ASSUME NEW d \in Dir, ListDir(d) PROVE RaisesOnlyIfGone'
      BY <2>2, <1>2 DEF ListDir, RaisesOnlyIfGone, world, IInv, TypeOK
    <2>3. CASE Finish
      <3>1. PICK i \in DOMAIN records : records[i].bad
        BY <2>3 DEF Finish
      <3>2. consumer = "grab" /\ phase = "read"
        BY <1>2, <2>3, <3>1 DEF Finish, IInv, FilesOK
      <3>3. records \in Seq(Record) /\ records[i] \in Record
        BY <1>2, ElementOfSeq, LenProperties DEF IInv, TypeOK
      <3>4. PICK f \in File : f = records[i].file
        BY <3>3 DEF Record
      <3>5. HeldOf(records, f)
        BY <1>2, <3>2, <3>4 DEF IInv, RecordsOK
      <3>6. records[i] \in ToSet(Selected(records, OfFile(f)))
        <4>1. records[i] \in ToSet(records) \cap OfFile(f)
          BY <3>3, <3>4 DEF ToSet, OfFile
        <4> QED
          BY <3>3, <4>1, SelectedType
      <3>7. PICK text \in been[f] \cap Text : records[i] \in ToSet(RecordsOf(f, text))
        BY <3>5, <3>6 DEF HeldOf, ToSet
      <3>8. text \in Undecodable
        BY <3>1, <3>7, RecordsOfType DEF ToSet
      <3> QED
        BY <2>3, <3>2, <3>7, <3>8 DEF Finish, RaisesOnlyIfGone, world
    <2>4. CASE UNCHANGED vars
      BY <1>2, <2>4 DEF RaisesOnlyIfGone, vars, scan, world
    <2>5. CASE SortListing \/ ReadFails \/ ParseRaises \/ Parse \/ TreeStep
      BY <2>5 DEF SortListing, ReadFails, ParseRaises, Parse, Reading, TreeStep, scan
    <2> QED
      BY <1>2, <2>1, <2>2, <2>3, <2>4, <2>5, StepKinds DEF IInv
  <1> QED
    BY <1>1, <1>2, SpecInv, PTL DEF Spec

\* The categories of scrape are complete: a keyword category has each matching
\* declaration of a file that stood still, and a structural one each declaration,
\* anonymous or not, and each keyword token, as often as there is one, in the order
\* of file names as strings (_flat_records, _named_pool, _keyword_records).
THEOREM CategoriesAreComplete == Spec => []CategoriesComplete
  <1>1. Init => CategoriesComplete
    BY DEF Init, CategoriesComplete
  <1>2. ASSUME IInv, CategoriesComplete, [Next]_vars PROVE CategoriesComplete'
    <2> SUFFICES ASSUME phase' = "result", consumer' = "scrape" PROVE CategoriesComplete'
      BY DEF CategoriesComplete
    <2>1. UNCHANGED <<at, been, broken, consumer, files>>
      BY <1>2, ReportIsLast DEF Finish, vars, scan, world
    <2>2. /\ \A c \in DOMAIN Matching : KeywordComplete(KeywordRecords(files, c), c)
          /\ \A k \in TdKind : StructuralComplete(FlatRecords(files, k), k)
      <3>1. CASE phase = "result"
        BY <1>2, <2>1, <3>1 DEF CategoriesComplete
      <3>2. CASE phase # "result"
        <4>1. phase = "read" /\ done = Len(queue)
          BY <1>2, <3>2, ReportIsLast DEF Finish, vars, scan
        <4> QED
          BY <1>2, <2>1, <4>1, KeywordsListed, StructuresListed
      <3> QED
        BY <3>1, <3>2
    <2>3. Still' = Still /\ StillText' = StillText
      BY <2>1 DEF Still, StillText
    <2>4. Places' = Places /\ \A p : NodeAt(p)' = NodeAt(p)
      BY <2>1, <2>3 DEF Places, NodeAt
    <2>5. ASSUME NEW rows, NEW c, KeywordComplete(rows, c) PROVE KeywordComplete(rows, c)'
      <3>1. InCategory(c)' = InCategory(c)
        BY <2>4 DEF InCategory
      <3>2. PICK shown : shown = [p \in InCategory(c) |-> PoolRowAt(p)]
        OBVIOUS
      <3>3. shown = [p \in InCategory(c) |-> PoolRowAt(p)]'
        BY <2>4, <3>1, <3>2 DEF PoolRowAt
      <3>4. Shows(rows, shown)'
        BY <2>3, <2>5, <3>2 DEF KeywordComplete, Shows
      <3> QED
        BY <2>5, <3>3, <3>4 DEF KeywordComplete, Ascend
    <2>6. ASSUME NEW rows, NEW k, StructuralComplete(rows, k) PROVE StructuralComplete(rows, k)'
      <3>1. OfKind(k)' = OfKind(k)
        BY <2>4 DEF OfKind
      <3>2. PICK shown : shown = [p \in OfKind(k) |-> FlatRowAt(p)]
        OBVIOUS
      <3>3. shown = [p \in OfKind(k) |-> FlatRowAt(p)]'
        BY <2>4, <3>1, <3>2 DEF FlatRowAt
      <3>4. Shows(rows, shown)'
        BY <2>3, <2>6, <3>2 DEF StructuralComplete, Shows
      <3> QED
        BY <2>6, <3>3, <3>4 DEF StructuralComplete, Ascend
    <2>7. ASSUME NEW c \in DOMAIN Matching PROVE KeywordComplete(KeywordRecords(files, c), c)'
      <3>1. PICK rows : rows = KeywordRecords(files, c) /\ KeywordComplete(rows, c)
        BY <2>2
      <3>2. rows = KeywordRecords(files, c)' /\ KeywordComplete(rows, c)'
        BY <2>1, <2>5, <3>1
      <3> QED
        BY <3>2 DEF KeywordComplete
    <2>8. ASSUME NEW k \in TdKind PROVE StructuralComplete(FlatRecords(files, k), k)'
      <3>1. PICK rows : rows = FlatRecords(files, k) /\ StructuralComplete(rows, k)
        BY <2>2
      <3>2. rows = FlatRecords(files, k)' /\ StructuralComplete(rows, k)'
        BY <2>1, <2>6, <3>1
      <3> QED
        BY <3>2 DEF StructuralComplete
    <2> QED
      BY <2>7, <2>8 DEF CategoriesComplete
  <1> QED
    BY <1>1, <1>2, SpecInv, PTL DEF Spec
===============================================================================
