---------------------------- MODULE ScrapeProofs ----------------------------
(***************************************************************************)
(* What scrape promises about its exit status and its files, for any       *)
(* number of runs, architectures and categories, any command lines, and    *)
(* any number of writes that fail and runs that are killed.                *)
(***************************************************************************)
EXTENDS ScrapeCmd, SequenceLemmas, FiniteSetTheorems

-----------------------------------------------------------------------------
LEMMA NotASingleton ==
    ASSUME NEW S, NEW s \in Seq(S), Len(s) >= 2, NEW c PROVE s # <<c>>
<1>1. SUFFICES ASSUME s = <<c>> PROVE FALSE
      OBVIOUS
<1>2. Len(s) = 1
      BY <1>1
<1>3. ~(1 >= 2)
      OBVIOUS
<1>. QED BY <1>2, <1>3, Zenon

(***************************************************************************)
(* The arguments that are accepted, and the files they lead to.            *)
(***************************************************************************)
Accepted(args) == ~Refused(args) /\ args.output # Mirror

\* A combination that is accepted is one of two or more combinable categories.
LEMMA CombineAccepted ==
    ASSUME NEW args \in CommandLine, Accepted(args)
    PROVE  /\ args.selected \in Seq(Category) /\ IsInjective(args.selected)
           /\ args.merge \in FileName \cup {None} /\ args.combineFile \in FileName \cup {None}
           /\ args.output \in Dir \cup {None}
           /\ ToSet(CombineOf(args)) \subseteq ToSet(args.selected)
           /\ CombineOf(args) # <<>> =>
                 /\ CombineOf(args) \in FileName \ Absolute
                 /\ CombineOf(args) \in Seq(Category)
                 /\ Len(CombineOf(args)) >= 2
                 /\ args.merge = None
<1>0. args \in Args /\ IsInjective(args.selected)
      BY CommandLineAssumption
<1>1. /\ args.selected \in Seq(Category)
      /\ args.merge \in FileName \cup {None} /\ args.combineFile \in FileName \cup {None}
      /\ args.output \in Dir \cup {None}
      /\ args.combine \in Seq(STRING) \cup {None}
      BY <1>0 DEF Args, Accepted
<1>2. CASE CombineOf(args) = <<>>
  <2>1. ToSet(<<>>) = {}
        BY DEF ToSet
  <2>. QED BY <1>0, <1>1, <1>2, <2>1
<1>3. CASE CombineOf(args) # <<>>
  <2>1. args.combine = CombineOf(args) /\ args.combine # None /\ args.combine \in Seq(STRING)
        BY <1>1, <1>3 DEF CombineOf
  <2>2. /\ ToSet(args.combine) \subseteq Combinable
        /\ Missing(args) = {} /\ ~(Len(args.combine) < 2)
        /\ args.merge = None
        BY <1>3, <2>1 DEF Accepted, Refused, CombineRefused
  <2>3. args.combine \in Seq(Combinable)
        BY <2>1, <2>2 DEF ToSet
  <2>4. args.combine \in FileName \ Absolute
        BY <1>3, <2>1, <2>3, NamesAssumption
  <2>5. ToSet(CombineOf(args)) \subseteq ToSet(args.selected)
        BY <2>2 DEF Missing
  <2>6. Len(args.combine) >= 2 /\ args.combine \in Seq(Category)
        BY <2>1, <2>2, <2>3, CategoriesAssumption
  <2>. QED BY <1>0, <1>1, <2>1, <2>2, <2>4, <2>5, <2>6
<1>. QED BY <1>2, <1>3

\* So no lookup of a category misses.
LEMMA NoLookupRaises ==
    ASSUME NEW r, run[r].args \in CommandLine, Accepted(run[r].args) PROVE ~LookupRaises(r)
BY CombineAccepted DEF LookupRaises

\* Each turn has a file name.
LEMMA TurnTypes ==
    ASSUME NEW args \in CommandLine, Accepted(args), NEW i \in Turns(args)
    PROVE  /\ i \in 0..Len(args.selected)
           /\ NameOf(args, i) \in FileName
           /\ CategoriesOf(args, i) \in SUBSET Category
<1>0. /\ args.selected \in Seq(Category)
      /\ args.merge \in FileName \cup {None} /\ args.combineFile \in FileName \cup {None}
      /\ CombineOf(args) # <<>> => CombineOf(args) \in FileName
      /\ ToSet(CombineOf(args)) \subseteq ToSet(args.selected)
      BY CombineAccepted
<1>1. ToSet(args.selected) \subseteq Category
      BY <1>0 DEF ToSet
<1>2. i \in 0..Len(args.selected)
      BY <1>0 DEF Turns
<1>3. CASE i # 0
  <2>1. args.selected[i] \in Category
        BY <1>0, <1>2, <1>3
  <2>2. <<args.selected[i]>> \in FileName
        BY <2>1, NamesAssumption
  <2>. QED BY <1>2, <1>3, <2>1, <2>2 DEF NameOf, CategoriesOf
<1>4. CASE i = 0
  <2>1. args.merge # None \/ CombineOf(args) # <<>>
        BY <1>0, <1>4 DEF Turns
  <2>2. NameOf(args, i) \in FileName
        BY <1>0, <1>4, <2>1 DEF NameOf
  <2>3. CategoriesOf(args, i) \in SUBSET Category
        BY <1>0, <1>1, <1>4 DEF CategoriesOf
  <2>. QED BY <1>2, <2>2, <2>3
<1>. QED BY <1>3, <1>4

LEMMA FileTypes ==
    ASSUME NEW args \in CommandLine, Accepted(args), args.output # None,
           NEW i \in Turns(args), NEW a \in Arch, NEW r \in Run
    PROVE  FileOf(args, a, i, r).path \in Path /\ FileOf(args, a, i, r).body \in Body
<1>0. args.output \in Dir /\ NameOf(args, i) \in FileName /\ CategoriesOf(args, i) \in SUBSET Category
      BY CombineAccepted, TurnTypes
<1>1. PathOf(args.output, a, NameOf(args, i)) \in Path
      BY <1>0 DEF PathOf, Path
<1>. QED BY <1>0, <1>1 DEF FileOf, Body

\* When names are distinct, so are the files of two turns or two architectures.
LEMMA FilesDistinct ==
    ASSUME NEW args \in CommandLine, Accepted(args), NamesDistinct(args),
           NEW a \in Arch, NEW b \in Arch, NEW i \in Turns(args), NEW j \in Turns(args),
           PathOf(args.output, a, NameOf(args, i)) = PathOf(args.output, b, NameOf(args, j))
    PROVE  a = b /\ i = j
<1>. DEFINE combine == CombineOf(args)
<1>0. /\ args.selected \in Seq(Category) /\ IsInjective(args.selected)
      /\ combine # <<>> => /\ combine \notin Absolute /\ args.merge = None
                           /\ combine \in Seq(Category) /\ Len(combine) >= 2
      /\ \A c \in Category : <<c>> \notin Absolute
      /\ args.merge \notin Absolute /\ args.combineFile \notin Absolute
      BY CombineAccepted, NamesAssumption DEF NamesDistinct
<1>1. ASSUME NEW k \in Turns(args) PROVE NameOf(args, k) \notin Absolute
  <2>1. CASE k # 0
    <3>1. args.selected[k] \in Category
          BY <1>0, <1>1, <2>1, TurnTypes
    <3>. QED BY <1>0, <2>1, <3>1 DEF NameOf
  <2>2. CASE k = 0
    <3>1. args.merge # None \/ combine # <<>>
          BY <1>0, <1>1, <2>2 DEF Turns
    <3>. QED BY <1>0, <2>2, <3>1 DEF NameOf
  <2>. QED BY <2>1, <2>2
<1>2. a = b /\ NameOf(args, i) = NameOf(args, j)
  <2>1. /\ PathOf(args.output, a, NameOf(args, i)) = <<args.output, a, NameOf(args, i)>>
        /\ PathOf(args.output, b, NameOf(args, j)) = <<args.output, b, NameOf(args, j)>>
        BY <1>1 DEF PathOf
  <2>2. <<args.output, a, NameOf(args, i)>> = <<args.output, b, NameOf(args, j)>>
        BY <2>1
  <2>. QED BY <2>2
<1>3. ASSUME NEW k \in Turns(args), k # 0 PROVE NameOf(args, 0) # NameOf(args, k) \/ 0 \notin Turns(args)
  <2>1. SUFFICES ASSUME 0 \in Turns(args) PROVE NameOf(args, 0) # NameOf(args, k)
        OBVIOUS
  <2>2. args.merge = None /\ combine # <<>>
        BY <1>0, <1>3, <2>1 DEF Turns
  <2>3. k \in DOMAIN args.selected /\ args.selected[k] \notin ToSet(combine)
        BY <1>3, <2>2 DEF Turns
  <2>4. NameOf(args, k) = <<args.selected[k]>>
        BY <1>3 DEF NameOf
  <2>5. CASE args.combineFile = None
    <3>1. NameOf(args, 0) = combine
          BY <2>2, <2>5 DEF NameOf
    <3>2. CombineOf(args) \in Seq(Category) /\ Len(CombineOf(args)) >= 2
          BY <2>2, CombineAccepted
    <3>3. CombineOf(args) # <<args.selected[k]>>
          BY <3>2, NotASingleton
    <3>. QED BY <2>4, <3>1, <3>3
  <2>6. CASE args.combineFile # None
    <3>1. NameOf(args, 0) = args.combineFile
          BY <2>2, <2>6 DEF NameOf
    <3>2. args.selected[k] \in ToSet(args.selected) \ ToSet(combine)
          BY <2>3 DEF ToSet
    <3>. QED BY <2>4, <3>1, <3>2 DEF NamesDistinct
  <2>. QED BY <2>5, <2>6
<1>4. ASSUME i # 0, j # 0 PROVE i = j
  <2>1. i \in DOMAIN args.selected /\ j \in DOMAIN args.selected
        BY <1>0, <1>4, TurnTypes
  <2>2. <<args.selected[i]>> = <<args.selected[j]>>
        BY <1>2, <1>4 DEF NameOf
  <2>3. args.selected[i] = args.selected[j]
        BY <2>2
  <2>. QED BY <1>0, <2>1, <2>3 DEF IsInjective
<1>. QED BY <1>2, <1>3, <1>4

\* Each selected category is in the file of some turn.
LEMMA EveryCategoryHasTurn ==
    ASSUME NEW args \in CommandLine, Accepted(args), NEW c \in ToSet(args.selected)
    PROVE  \E i \in Turns(args) : c \in CategoriesOf(args, i)
<1>. DEFINE combine == CombineOf(args)
<1>0. combine # <<>> => args.merge = None
      BY CombineAccepted
<1>1. PICK k \in DOMAIN args.selected : args.selected[k] = c
      BY DEF ToSet
<1>2. args.selected \in Seq(Category) /\ k # 0
      BY CombineAccepted
<1>3. CASE args.merge # None
      BY <1>3 DEF Turns, CategoriesOf
<1>4. CASE args.merge = None /\ combine # <<>> /\ c \in ToSet(combine)
      BY <1>4 DEF Turns, CategoriesOf
<1>5. CASE args.merge = None /\ ~(combine # <<>> /\ c \in ToSet(combine))
  <2>1. k \in Turns(args)
        BY <1>1, <1>5 DEF Turns
  <2>2. c \in CategoriesOf(args, k)
        BY <1>1, <1>2 DEF CategoriesOf
  <2>. QED BY <2>1, <2>2
<1>. QED BY <1>3, <1>4, <1>5

-----------------------------------------------------------------------------
(***************************************************************************)
(* The turns that a run has before it, written for the run as a record.    *)
(***************************************************************************)
Coming(g) == {i \in Turns(g.args) : i >= g.next}
TurnOf(g) == CHOOSE i \in Coming(g) : \A j \in Coming(g) : i <= j
ArchOf(g) == g.plan[Len(g.settled) + 1]
NowFile(g, r) == FileOf(g.args, ArchOf(g), TurnOf(g), r)

\* The next turn is the first of those to come.
LEMMA FirstTurn ==
    ASSUME NEW g, g.args \in CommandLine, Accepted(g.args), Coming(g) # {}
    PROVE  /\ TurnOf(g) \in Turns(g.args) /\ TurnOf(g) \in Nat /\ TurnOf(g) >= g.next
           /\ \A j \in Turns(g.args) : j >= g.next => TurnOf(g) <= j
<1>1. Coming(g) \in SUBSET Nat
      BY TurnTypes DEF Coming
<1>2. \E i \in Coming(g) : \A j \in Coming(g) : i <= j
      BY <1>1, MinInSet
<1>3. TurnOf(g) \in Coming(g) /\ \A j \in Coming(g) : TurnOf(g) <= j
      BY <1>2 DEF TurnOf
<1>. QED BY <1>1, <1>3 DEF Coming

-----------------------------------------------------------------------------
(***************************************************************************)
(* A run and its arguments, plan, rows and position fit together.          *)
(***************************************************************************)
Fits(g) ==
    /\ g.phase = "idle" => g = NotStarted(g.args)
    /\ g.phase = "running" => Accepted(g.args) /\ g.plan = PlanOf(g.args) /\ g.code = 0
    /\ g.plan # <<>> => Accepted(g.args) /\ g.plan = PlanOf(g.args)
    /\ Len(g.settled) <= Len(g.plan)
    /\ \A n \in DOMAIN g.settled : g.settled[n].arch = g.plan[n]
    /\ g.step # "build" => Len(g.settled) < Len(g.plan) /\ g.args.output # None
    /\ g.step = "writing" => Coming(g) # {}
    /\ g.phase = "over" /\ g.code = 0 =>
          /\ Len(g.settled) = Len(g.plan)
          /\ \A n \in DOMAIN g.settled : g.settled[n].ok

\* Runs are started one after the other.
RunsOK ==
    \A r \in Run : /\ Fits(run[r])
                   /\ r > current => run[r].phase = "idle"
                   /\ r < current => run[r].phase = "over"

TInv == TypeOK /\ RunsOK

LEMMA PlanType ==
    ASSUME NEW args \in CommandLine
    PROVE  PlanOf(args) \in Seq(Arch) /\ IsInjective(PlanOf(args))
<1>1. args.arch \in Arch \cup {"ALL"}
      BY CommandLineAssumption DEF Args
<1>2. CASE args.arch = "ALL"
      BY <1>2, ArchitecturesAssumption DEF PlanOf
<1>3. CASE args.arch \in Arch /\ args.arch # "ALL"
      BY <1>3, SingletonSeq DEF PlanOf
<1>. QED BY <1>1, <1>2, <1>3

\* What the names of the model are for the run as a record.
LEMMA MeFacts ==
    ASSUME TInv
    PROVE  /\ current \in Run /\ me = run[current] /\ me \in RunType /\ Fits(me)
           /\ me.args \in CommandLine /\ me.plan \in Seq(Arch)
           /\ me.settled \in Seq([arch : Arch, ok : BOOLEAN])
           /\ me.written \in Seq(Path) /\ me.next \in Nat
           /\ IsInjective(me.plan)
           /\ ToCome = Coming(me) /\ MyTurn = TurnOf(me) /\ MyArch = ArchOf(me)
           /\ MyFile = NowFile(me, current)
<1>1. current \in Run /\ me = run[current] /\ me \in RunType /\ Fits(me)
      BY DEF TInv, TypeOK, RunsOK, me
<1>2. IsInjective(me.plan)
  <2>1. CASE me.plan = <<>>
        BY <2>1 DEF IsInjective
  <2>2. CASE me.plan # <<>>
        BY <1>1, <2>2, PlanType DEF Fits, RunType
  <2>. QED BY <2>1, <2>2
<1>3. ToCome = Coming(me)
      BY DEF ToCome, Coming
<1>4. MyTurn = TurnOf(me)
      BY <1>3 DEF MyTurn, TurnOf
<1>5. MyArch = ArchOf(me)
      BY DEF MyArch, ArchOf
<1>. QED BY <1>1, <1>2, <1>3, <1>4, <1>5 DEF RunType, MyFile, NowFile

\* A run that has an architecture to go has accepted arguments.
LEMMA WorkingFacts ==
    ASSUME TInv, Working
    PROVE  /\ MyArch \in Arch /\ Accepted(me.args) /\ me.phase = "running"
           /\ Len(me.settled) < Len(me.plan) /\ me.code = 0 /\ me.plan = PlanOf(me.args)
BY MeFacts DEF Working, Fits, ArchOf

\* A run that writes a file has a turn.
LEMMA WritingFacts ==
    ASSUME TInv, Working, me.step # "build", MoreFiles
    PROVE  /\ MyTurn \in Turns(me.args) /\ MyTurn \in Nat /\ MyTurn >= me.next
           /\ \A j \in Turns(me.args) : j >= me.next => MyTurn <= j
           /\ MyFile.path \in Path /\ MyFile.body \in Body
           /\ me.args.output # None
<1>1. me.args.output # None /\ Coming(me) # {}
      BY MeFacts DEF Fits, MoreFiles
<1>2. /\ MyTurn \in Turns(me.args) /\ MyTurn \in Nat /\ MyTurn >= me.next
      /\ \A j \in Turns(me.args) : j >= me.next => MyTurn <= j
      BY <1>1, MeFacts, WorkingFacts, FirstTurn
<1>3. MyFile.path \in Path /\ MyFile.body \in Body
      BY <1>1, <1>2, MeFacts, WorkingFacts, FileTypes DEF NowFile
<1>. QED BY <1>1, <1>2, <1>3

-----------------------------------------------------------------------------
(***************************************************************************)
(* What each change of the current run makes of it.                        *)
(***************************************************************************)
OthersStay == \A r \in Run \ {current} : run'[r] = run[r]

LEMMA EndsEffect ==
    ASSUME TInv, NEW code \in 0..255, Ends(code)
    PROVE  /\ OthersStay /\ run' \in [Run -> RunType]
           /\ run'[current].phase = "over" /\ run'[current].code = code
           /\ run'[current].args = me.args /\ run'[current].plan = me.plan
           /\ run'[current].settled = me.settled /\ run'[current].step = me.step
           /\ run'[current].next = me.next /\ run'[current].written = me.written
<1>. DEFINE g == [me EXCEPT !.phase = "over", !.code = code]
<1>0. me \in RunType /\ me = run[current] /\ current \in Run /\ run \in [Run -> RunType]
      BY MeFacts DEF TInv, TypeOK
<1>1. g \in RunType
      BY <1>0 DEF RunType
<1>5. /\ g.phase = "over" /\ g.code = code
      /\ g.args = me.args /\ g.plan = me.plan /\ g.settled = me.settled /\ g.step = me.step
      /\ g.next = me.next /\ g.written = me.written
      BY <1>0 DEF RunType
<1>2. run' = [run EXCEPT ![current] = g]
      BY DEF Ends, me
<1>. HIDE DEF g
<1>. QED BY <1>0, <1>1, <1>2, <1>5 DEF OthersStay

LEMMA BeginEffect ==
    ASSUME TInv, Begin
    PROVE  /\ OthersStay /\ run' \in [Run -> RunType]
           /\ run'[current].phase = "running" /\ run'[current].plan = PlanOf(me.args)
           /\ run'[current].args = me.args /\ run'[current].code = me.code
           /\ run'[current].settled = me.settled /\ run'[current].step = me.step
           /\ run'[current].next = me.next /\ run'[current].written = me.written
<1>. DEFINE g == [me EXCEPT !.phase = "running", !.plan = PlanOf(me.args)]
<1>0. /\ me \in RunType /\ me = run[current] /\ current \in Run /\ run \in [Run -> RunType]
      /\ PlanOf(me.args) \in Seq(Arch)
      BY MeFacts, PlanType DEF TInv, TypeOK
<1>1. g \in RunType
      BY <1>0 DEF RunType
<1>5. /\ g.phase = "running" /\ g.plan = PlanOf(me.args)
      /\ g.args = me.args /\ g.code = me.code /\ g.settled = me.settled /\ g.step = me.step
      /\ g.next = me.next /\ g.written = me.written
      BY <1>0 DEF RunType
<1>2. run' = [run EXCEPT ![current] = g]
      BY DEF Begin, me
<1>. HIDE DEF g
<1>. QED BY <1>0, <1>1, <1>2, <1>5 DEF OthersStay

LEMMA SettleEffect ==
    ASSUME TInv, Working, NEW ok \in BOOLEAN, SettleWith(ok)
    PROVE  /\ OthersStay /\ run' \in [Run -> RunType]
           /\ run'[current].settled = Append(me.settled, [arch |-> MyArch, ok |-> ok])
           /\ run'[current].step = "build" /\ run'[current].next = 0
           /\ run'[current].args = me.args /\ run'[current].plan = me.plan
           /\ run'[current].phase = me.phase /\ run'[current].code = me.code
           /\ run'[current].written = me.written
<1>. DEFINE row == [arch |-> MyArch, ok |-> ok]
            g == [me EXCEPT !.settled = Append(@, row), !.step = "build", !.next = 0]
<1>0. /\ me \in RunType /\ me = run[current] /\ current \in Run /\ run \in [Run -> RunType]
      /\ row \in [arch : Arch, ok : BOOLEAN] /\ me.settled \in Seq([arch : Arch, ok : BOOLEAN])
      BY MeFacts, WorkingFacts DEF TInv, TypeOK
<1>2. run' = [run EXCEPT ![current] = g]
      BY DEF SettleWith, me
<1>. HIDE DEF row
<1>3. Append(me.settled, row) \in Seq([arch : Arch, ok : BOOLEAN])
      BY <1>0
<1>. DEFINE all == Append(me.settled, row)
<1>4. g = [me EXCEPT !.settled = all, !.step = "build", !.next = 0]
      OBVIOUS
<1>. HIDE DEF all
<1>1. g \in RunType
      BY <1>0, <1>3, <1>4 DEF RunType, all
<1>5. /\ g.settled = all /\ g.step = "build" /\ g.next = 0
      /\ g.args = me.args /\ g.plan = me.plan /\ g.phase = me.phase /\ g.code = me.code
      /\ g.written = me.written
      BY <1>0, <1>4 DEF RunType
<1>. HIDE DEF g
<1>. QED BY <1>0, <1>1, <1>2, <1>5 DEF OthersStay, row, all

\* Going from one step to the next, for Build and OpenFile.
LEMMA ToStepEffect ==
    ASSUME TInv, NEW step \in {"write", "writing"}, run' = [run EXCEPT ![current].step = step]
    PROVE  /\ OthersStay /\ run' \in [Run -> RunType]
           /\ run'[current].step = step
           /\ run'[current].args = me.args /\ run'[current].plan = me.plan
           /\ run'[current].phase = me.phase /\ run'[current].code = me.code
           /\ run'[current].settled = me.settled /\ run'[current].next = me.next
           /\ run'[current].written = me.written
<1>. DEFINE g == [me EXCEPT !.step = step]
<1>0. me \in RunType /\ me = run[current] /\ current \in Run /\ run \in [Run -> RunType]
      BY MeFacts DEF TInv, TypeOK
<1>1. g \in RunType
      BY <1>0 DEF RunType
<1>3. /\ g.step = step
      /\ g.args = me.args /\ g.plan = me.plan /\ g.phase = me.phase /\ g.code = me.code
      /\ g.settled = me.settled /\ g.next = me.next /\ g.written = me.written
      BY <1>0 DEF RunType
<1>2. run' = [run EXCEPT ![current] = g]
      BY DEF me
<1>. HIDE DEF g
<1>. QED BY <1>0, <1>1, <1>2, <1>3 DEF OthersStay

LEMMA CloseEffect ==
    ASSUME TInv, CloseFile
    PROVE  /\ OthersStay /\ run' \in [Run -> RunType]
           /\ run'[current].step = "write" /\ run'[current].next = MyTurn + 1
           /\ run'[current].written = Append(me.written, MyFile.path)
           /\ run'[current].args = me.args /\ run'[current].plan = me.plan
           /\ run'[current].phase = me.phase /\ run'[current].code = me.code
           /\ run'[current].settled = me.settled
<1>. DEFINE g == [me EXCEPT !.step = "write", !.next = MyTurn + 1,
                            !.written = Append(@, MyFile.path)]
<1>0. /\ me \in RunType /\ me = run[current] /\ current \in Run /\ run \in [Run -> RunType]
      /\ MyTurn \in Nat /\ MyFile.path \in Path /\ me.written \in Seq(Path)
      BY MeFacts, WritingFacts DEF TInv, TypeOK, CloseFile, Fits, MoreFiles
<1>2. run' = [run EXCEPT ![current] = g]
      BY DEF CloseFile, me
<1>3. Append(me.written, MyFile.path) \in Seq(Path) /\ MyTurn + 1 \in Nat
      BY <1>0
<1>1. g \in RunType
      BY <1>0, <1>3 DEF RunType
<1>5. /\ g.step = "write" /\ g.next = MyTurn + 1
      /\ g.written = Append(me.written, MyFile.path)
      /\ g.args = me.args /\ g.plan = me.plan /\ g.phase = me.phase /\ g.code = me.code
      /\ g.settled = me.settled
      BY <1>0, <1>3 DEF RunType
<1>. HIDE DEF g
<1>. QED BY <1>0, <1>1, <1>2, <1>5 DEF OthersStay

-----------------------------------------------------------------------------
(***************************************************************************)
(* Types, and the position of each run.                                    *)
(***************************************************************************)
LEMMA FileStepTypes ==
    ASSUME NEW f \in OutputFileType, NEW r \in Run, NEW b \in Body
    PROVE  /\ Opened(f, r, b) \in OutputFileType
           /\ Abandoned(f, r) \in OutputFileType
           /\ Closed(f, r) \in OutputFileType
<1>1. Opened(f, r, b) \in OutputFileType
      BY DEF Opened, OutputFileType
<1>2. WrittenBy(f, r) \subseteq Body
      BY DEF WrittenBy, OutputFileType
<1>. DEFINE left == {o \in f.open : o[1] # r}
<1>5. left \subseteq Run \X Body
      BY DEF OutputFileType
<1>6. Abandoned(f, r) = [f EXCEPT !.bodies = @ \cup WrittenBy(f, r), !.open = left]
      BY DEF Abandoned
<1>. HIDE DEF left
<1>3. Abandoned(f, r) \in OutputFileType
      BY <1>2, <1>5, <1>6 DEF OutputFileType
<1>4. Closed(f, r) \in OutputFileType
      BY <1>3 DEF Closed, OutputFileType
<1>. QED BY <1>1, <1>3, <1>4

\* What each change of the disk makes of the files.
LEMMA OpenDisk ==
    ASSUME TInv, OpenFile
    PROVE  /\ MyFile.path \in Path /\ MyFile.body \in Body
           /\ disk' \in [Path -> OutputFileType]
           /\ \A q \in Path \ {MyFile.path} : disk'[q] = disk[q]
           /\ disk'[MyFile.path] = Opened(disk[MyFile.path], current, MyFile.body)
<1>0. /\ MyFile.path \in Path /\ MyFile.body \in Body /\ current \in Run
      /\ disk \in [Path -> OutputFileType]
      BY WritingFacts DEF OpenFile, TInv, TypeOK
<1>. DEFINE p == MyFile.path
            f == Opened(disk[p], current, MyFile.body)
<1>1. f \in OutputFileType
      BY <1>0, FileStepTypes
<1>2. disk' = [disk EXCEPT ![p] = f]
      BY DEF OpenFile
<1>3. p \in Path
      BY <1>0
<1>. HIDE DEF f, p
<1>4. disk' \in [Path -> OutputFileType] /\ disk'[p] = f /\ \A q \in Path \ {p} : disk'[q] = disk[q]
      BY <1>0, <1>1, <1>2, <1>3
<1>. QED BY <1>0, <1>4 DEF f, p

LEMMA CloseDisk ==
    ASSUME TInv, CloseFile
    PROVE  /\ MyFile.path \in Path /\ MyFile.body \in Body
           /\ disk' \in [Path -> OutputFileType]
           /\ \A q \in Path \ {MyFile.path} : disk'[q] = disk[q]
           /\ disk'[MyFile.path] = Closed(disk[MyFile.path], current)
<1>0. /\ MyFile.path \in Path /\ MyFile.body \in Body /\ current \in Run
      /\ disk \in [Path -> OutputFileType]
      BY WritingFacts, MeFacts DEF CloseFile, TInv, TypeOK, Fits, MoreFiles
<1>. DEFINE p == MyFile.path
            f == Closed(disk[p], current)
<1>1. f \in OutputFileType
      BY <1>0, FileStepTypes
<1>2. disk' = [disk EXCEPT ![p] = f]
      BY DEF CloseFile
<1>3. p \in Path
      BY <1>0
<1>. HIDE DEF f, p
<1>4. disk' \in [Path -> OutputFileType] /\ disk'[p] = f /\ \A q \in Path \ {p} : disk'[q] = disk[q]
      BY <1>0, <1>1, <1>2, <1>3
<1>. QED BY <1>0, <1>4 DEF f, p

LEMMA TornDisk ==
    ASSUME TInv, Working, me.step = "writing", disk' = Torn
    PROVE  /\ MyFile.path \in Path /\ MyFile.body \in Body
           /\ disk' \in [Path -> OutputFileType]
           /\ \A q \in Path \ {MyFile.path} : disk'[q] = disk[q]
           /\ disk'[MyFile.path] = Abandoned(disk[MyFile.path], current)
<1>0. /\ MyFile.path \in Path /\ MyFile.body \in Body /\ current \in Run
      /\ disk \in [Path -> OutputFileType]
      BY WritingFacts, MeFacts DEF TInv, TypeOK, Fits, MoreFiles
<1>. DEFINE p == MyFile.path
            f == Abandoned(disk[p], current)
<1>1. f \in OutputFileType
      BY <1>0, FileStepTypes
<1>2. disk' = [disk EXCEPT ![p] = f]
      BY DEF Torn
<1>3. p \in Path
      BY <1>0
<1>. HIDE DEF f, p
<1>4. disk' \in [Path -> OutputFileType] /\ disk'[p] = f /\ \A q \in Path \ {p} : disk'[q] = disk[q]
      BY <1>0, <1>1, <1>2, <1>3
<1>. QED BY <1>0, <1>4 DEF f, p

LEMMA InitTInv == ASSUME Init PROVE TInv
<1>1. \A args : Fits(NotStarted(args))
      BY DEF Fits, NotStarted
<1>2. \A args \in CommandLine : NotStarted(args) \in RunType
      BY DEF NotStarted, RunType
<1>3. Absent \in OutputFileType
      BY DEF Absent, OutputFileType
<1>4. \A r \in Run : \E args \in CommandLine : run[r] = NotStarted(args)
      BY DEF Init
<1>5. ASSUME NEW r \in Run PROVE run[r] \in RunType /\ Fits(run[r]) /\ run[r].phase = "idle"
  <2>1. PICK args \in CommandLine : run[r] = NotStarted(args)
        BY <1>4
  <2>2. NotStarted(args).phase = "idle"
        BY DEF NotStarted
  <2>. QED BY <1>1, <1>2, <2>1, <2>2
<1>6. run \in [Run -> RunType]
      BY <1>5 DEF Init
<1>7. current = 1 /\ current \in Run /\ faults \in 0..MaxFaults
      BY BoundAssumption DEF Init, Run
<1>8. TypeOK
      BY <1>3, <1>6, <1>7 DEF TypeOK, Init
<1>9. RunsOK
      BY <1>5, <1>7 DEF RunsOK, Run
<1>. QED BY <1>8, <1>9 DEF TInv

\* A step of the current run leaves the others where they are.
LEMMA OwnKeepsTInv ==
    ASSUME TInv, current' = current, OthersStay, run' \in [Run -> RunType], Fits(run'[current]),
           tree' = tree, disk' \in [Path -> OutputFileType], faults' \in 0..MaxFaults
    PROVE  TInv'
<1>1. TypeOK'
      BY DEF TInv, TypeOK
<1>2. ASSUME NEW r \in Run
      PROVE  /\ Fits(run'[r])
             /\ r > current' => run'[r].phase = "idle"
             /\ r < current' => run'[r].phase = "over"
  <2>1. CASE r = current
        BY <2>1 DEF TInv, TypeOK, Run
  <2>2. CASE r # current
        BY <2>2 DEF TInv, RunsOK, OthersStay
  <2>. QED BY <2>1, <2>2
<1>3. RunsOK'
      BY <1>2 DEF RunsOK
<1>. QED BY <1>1, <1>3 DEF TInv

\* Settling an architecture keeps the position of a run.
LEMMA SettleFits ==
    ASSUME TInv, Working, NEW ok \in BOOLEAN, SettleWith(ok) PROVE Fits(run'[current])
<1>. DEFINE g == run'[current]
            all == Append(me.settled, [arch |-> MyArch, ok |-> ok])
<1>1. /\ g.settled = all /\ g.step = "build" /\ g.next = 0
      /\ g.args = me.args /\ g.plan = me.plan /\ g.phase = "running" /\ g.code = 0
      BY SettleEffect, WorkingFacts
<1>2. /\ Accepted(me.args) /\ me.plan = PlanOf(me.args) /\ Len(me.settled) < Len(me.plan)
      /\ me.settled \in Seq([arch : Arch, ok : BOOLEAN]) /\ me.plan \in Seq(Arch)
      /\ \A n \in DOMAIN me.settled : me.settled[n].arch = me.plan[n]
      /\ MyArch = me.plan[Len(me.settled) + 1]
      BY WorkingFacts, MeFacts DEF Fits, MyArch
<1>3. PICK n \in Nat : n = Len(me.settled)
      BY <1>2
<1>4. /\ Len(all) = n + 1 /\ DOMAIN all = 1..(n + 1)
      /\ \A k \in 1..n : all[k] = me.settled[k]
      /\ all[n + 1] = [arch |-> MyArch, ok |-> ok]
      /\ DOMAIN me.settled = 1..n
      BY <1>2, <1>3
<1>5. \A k \in DOMAIN all : all[k].arch = me.plan[k]
  <2>1. \A k \in 1..(n + 1) : k \in 1..n \/ k = n + 1
        OBVIOUS
  <2>2. all[n + 1].arch = me.plan[n + 1]
        BY <1>2, <1>3, <1>4
  <2>3. \A k \in 1..n : all[k].arch = me.plan[k]
        BY <1>2, <1>4
  <2>. QED BY <1>4, <2>1, <2>2, <2>3
<1>6. Len(all) <= Len(me.plan)
      BY <1>2, <1>3, <1>4
<1>. HIDE DEF g, all
<1>7. Fits(g)
      BY <1>1, <1>2, <1>5, <1>6 DEF Fits
<1>. QED BY <1>7 DEF g

LEMMA EndsFits ==
    ASSUME TInv, NEW code \in 0..255, Ends(code),
           code = 0 => /\ Len(me.settled) = Len(me.plan)
                       /\ \A n \in DOMAIN me.settled : me.settled[n].ok
    PROVE  Fits(run'[current])
<1>. DEFINE g == run'[current]
<1>1. /\ g.phase = "over" /\ g.code = code /\ g.args = me.args /\ g.plan = me.plan
      /\ g.settled = me.settled /\ g.step = me.step /\ g.next = me.next
      BY EndsEffect
<1>2. Fits(me)
      BY MeFacts
<1>. HIDE DEF g
<1>3. Coming(g) = Coming(me)
      BY <1>1 DEF Coming
<1>4. Fits(g)
      BY <1>1, <1>2, <1>3 DEF Fits
<1>. QED BY <1>4 DEF g

LEMMA BeginFits == ASSUME TInv, Begin PROVE Fits(run'[current])
<1>. DEFINE g == run'[current]
<1>1. /\ g.phase = "running" /\ g.plan = PlanOf(me.args) /\ g.args = me.args /\ g.code = me.code
      /\ g.settled = me.settled /\ g.step = me.step /\ g.next = me.next
      BY BeginEffect
<1>2. me = NotStarted(me.args) /\ Accepted(me.args) /\ PlanOf(me.args) \in Seq(Arch)
      BY MeFacts, PlanType DEF Fits, Begin, Accepted
<1>3. me.code = 0 /\ me.settled = <<>> /\ me.step = "build"
      BY <1>2 DEF NotStarted
<1>. HIDE DEF g
<1>4. Fits(g)
      BY <1>1, <1>2, <1>3 DEF Fits
<1>. QED BY <1>4 DEF g

\* Settling, or going on to write.
LEMMA BuildCases ==
    ASSUME TInv, Build
    PROVE  \/ MyArch \notin tree /\ SettleWith(FALSE)
           \/ me.args.output = None /\ SettleWith(TRUE)
           \/ me.args.output # None /\ run' = [run EXCEPT ![current].step = "write"]
<1>1. ~LookupRaises(current)
      BY MeFacts, WorkingFacts, NoLookupRaises DEF Build
<1>. QED BY <1>1 DEF Build

LEMMA BuildToWriteFits ==
    ASSUME TInv, Working, me.args.output # None, run' = [run EXCEPT ![current].step = "write"]
    PROVE  Fits(run'[current])
<1>. DEFINE g == run'[current]
<1>1. /\ g.step = "write" /\ g.args = me.args /\ g.plan = me.plan /\ g.phase = me.phase
      /\ g.code = me.code /\ g.settled = me.settled /\ g.next = me.next
      BY ToStepEffect
<1>2. Fits(me) /\ Len(me.settled) < Len(me.plan) /\ me.phase = "running"
      BY MeFacts, WorkingFacts
<1>. HIDE DEF g
<1>4. Fits(g)
      BY <1>1, <1>2 DEF Fits
<1>. QED BY <1>4 DEF g

LEMMA OpenFits == ASSUME TInv, OpenFile PROVE Fits(run'[current])
<1>. DEFINE g == run'[current]
<1>1. /\ g.step = "writing" /\ g.args = me.args /\ g.plan = me.plan /\ g.phase = me.phase
      /\ g.code = me.code /\ g.settled = me.settled /\ g.next = me.next
      BY ToStepEffect DEF OpenFile
<1>2. /\ Fits(me) /\ Len(me.settled) < Len(me.plan) /\ me.phase = "running"
      /\ me.step = "write" /\ Coming(me) # {}
      BY MeFacts, WorkingFacts DEF OpenFile, MoreFiles
<1>. HIDE DEF g
<1>3. Coming(g) = Coming(me)
      BY <1>1 DEF Coming
<1>4. Fits(g)
      BY <1>1, <1>2, <1>3 DEF Fits
<1>. QED BY <1>4 DEF g

LEMMA CloseFits == ASSUME TInv, CloseFile PROVE Fits(run'[current])
<1>. DEFINE g == run'[current]
<1>1. /\ g.step = "write" /\ g.args = me.args /\ g.plan = me.plan /\ g.phase = me.phase
      /\ g.code = me.code /\ g.settled = me.settled
      BY CloseEffect
<1>2. /\ Fits(me) /\ Len(me.settled) < Len(me.plan) /\ me.phase = "running"
      /\ me.step = "writing"
      BY MeFacts, WorkingFacts DEF CloseFile
<1>. HIDE DEF g
<1>4. Fits(g)
      BY <1>1, <1>2 DEF Fits
<1>. QED BY <1>4 DEF g

LEMMA NextTInv == ASSUME TInv, [Next]_vars PROVE TInv'
<1>0. /\ tree \subseteq Arch /\ disk \in [Path -> OutputFileType] /\ run \in [Run -> RunType]
      /\ current \in Run /\ faults \in 0..MaxFaults /\ MaxFaults \in Nat
      BY BoundAssumption DEF TInv, TypeOK
<1>1. CASE Refuse
      BY <1>0, <1>1, EndsEffect, EndsFits, OwnKeepsTInv DEF Refuse
<1>2. CASE ResolveRaises
      BY <1>0, <1>2, EndsEffect, EndsFits, OwnKeepsTInv DEF ResolveRaises
<1>3. CASE Begin
      BY <1>0, <1>3, BeginEffect, BeginFits, OwnKeepsTInv DEF Begin
<1>4. CASE Build
  <2>1. UNCHANGED <<tree, disk, current, faults>> /\ Working
        BY <1>4 DEF Build
  <2>2. ASSUME NEW ok \in BOOLEAN, SettleWith(ok) PROVE TInv'
        BY <1>0, <2>1, <2>2, SettleEffect, SettleFits, OwnKeepsTInv
  <2>3. CASE me.args.output # None /\ run' = [run EXCEPT ![current].step = "write"]
        BY <1>0, <2>1, <2>3, ToStepEffect, BuildToWriteFits, OwnKeepsTInv
  <2>. QED BY <1>4, <2>2, <2>3, BuildCases
<1>5. CASE OpenFile
  <2>1. OthersStay /\ run' \in [Run -> RunType]
        BY <1>5, ToStepEffect DEF OpenFile
  <2>. QED BY <1>0, <1>5, <2>1, OpenDisk, OpenFits, OwnKeepsTInv DEF OpenFile
<1>6. CASE CloseFile
      BY <1>0, <1>6, CloseEffect, CloseDisk, CloseFits, OwnKeepsTInv DEF CloseFile
<1>7. CASE ArchDone
      BY <1>0, <1>7, SettleEffect, SettleFits, OwnKeepsTInv DEF ArchDone
<1>8. CASE Report
  <2>1. ExitCode(current) = 0 => \A n \in DOMAIN me.settled : me.settled[n].ok
        BY DEF ExitCode, Failures, me
  <2>2. ExitCode(current) \in 0..255
        BY DEF ExitCode
  <2>3. Ends(ExitCode(current)) /\ UNCHANGED <<tree, disk, current, faults>>
             /\ Len(me.settled) = Len(me.plan)
        BY <1>8 DEF Report
  <2>4. OthersStay /\ run' \in [Run -> RunType]
        BY <2>2, <2>3, EndsEffect
  <2>5. Fits(run'[current])
        BY <2>1, <2>2, <2>3, EndsFits
  <2>. QED BY <1>0, <2>3, <2>4, <2>5, OwnKeepsTInv
<1>9. CASE WriteFails
  <2>1. disk' \in [Path -> OutputFileType]
        BY <1>0, <1>9, TornDisk DEF WriteFails
  <2>2. faults' \in 0..MaxFaults
        BY <1>0, <1>9 DEF WriteFails
  <2>3. Working /\ SettleWith(FALSE) /\ UNCHANGED <<tree, current>>
        BY <1>9 DEF WriteFails
  <2>. QED BY <1>0, <2>1, <2>2, <2>3, SettleEffect, SettleFits, OwnKeepsTInv
<1>10. CASE Kill
  <2>1. disk' \in [Path -> OutputFileType]
        BY <1>0, <1>10, TornDisk, MeFacts DEF Kill, Fits, Working
  <2>2. faults' \in 0..MaxFaults
        BY <1>0, <1>10 DEF Kill
  <2>3. Ends(137) /\ UNCHANGED <<tree, current>>
        BY <1>10 DEF Kill
  <2>4. 137 \in 0..255 /\ 137 # 0
        OBVIOUS
  <2>5. OthersStay /\ run' \in [Run -> RunType]
        BY <2>3, <2>4, EndsEffect
  <2>6. Fits(run'[current])
        BY <2>3, <2>4, EndsFits
  <2>. QED BY <2>1, <2>2, <2>3, <2>5, <2>6, OwnKeepsTInv
<1>11. CASE NextRun
  <2>1. current' = current + 1 /\ current' \in Run /\ run' = run /\ me.phase = "over"
        BY <1>0, <1>11, BoundAssumption DEF NextRun, Run
  <2>2. TypeOK'
        BY <1>0, <1>11, <2>1 DEF NextRun, TypeOK
  <2>3. ASSUME NEW r \in Run
        PROVE  /\ Fits(run'[r])
               /\ r > current' => run'[r].phase = "idle"
               /\ r < current' => run'[r].phase = "over"
    <3>1. r < current + 1 => r < current \/ r = current
          BY <1>0 DEF Run
    <3>2. r > current + 1 => r > current
          BY <1>0 DEF Run
    <3>. QED BY <2>1, <3>1, <3>2 DEF TInv, RunsOK, me
  <2>. QED BY <2>2, <2>3 DEF TInv, RunsOK
<1>12. CASE UNCHANGED vars
      BY <1>12 DEF vars, TInv, TypeOK, RunsOK
<1>. QED BY <1>1, <1>2, <1>3, <1>4, <1>5, <1>6, <1>7, <1>8, <1>9, <1>10, <1>11, <1>12
         DEF Next, Own

(***************************************************************************)
(* A run is where its rows and its step say, and all fields have their     *)
(* types: whatever fails or is killed.                                     *)
(***************************************************************************)
THEOREM ScrapeTypes == Spec => []TypeOK
<1>1. TInv => TypeOK
      BY DEF TInv
<1>. QED BY <1>1, InitTInv, NextTInv, PTL DEF Spec

-----------------------------------------------------------------------------
(***************************************************************************)
(* Why architectures fail.                                                 *)
(***************************************************************************)
\* The failures after a step that settles an architecture.
LEMMA SettleFailures ==
    ASSUME TInv, Working, NEW ok \in BOOLEAN, SettleWith(ok)
    PROVE  \A i \in DOMAIN run'[current].settled :
              \/ i \in DOMAIN me.settled /\ run'[current].settled[i] = me.settled[i]
              \/ i = Len(me.settled) + 1 /\ run'[current].settled[i] = [arch |-> MyArch, ok |-> ok]
<1>1. /\ run'[current].settled = Append(me.settled, [arch |-> MyArch, ok |-> ok])
      /\ me.settled \in Seq([arch : Arch, ok : BOOLEAN])
      BY SettleEffect, MeFacts
<1>2. PICK n \in Nat : n = Len(me.settled) /\ DOMAIN me.settled = 1..n
      BY <1>1
<1>. DEFINE all == Append(me.settled, [arch |-> MyArch, ok |-> ok])
<1>3. /\ DOMAIN all = 1..(n + 1)
      /\ \A k \in 1..n : all[k] = me.settled[k]
      /\ all[n + 1] = [arch |-> MyArch, ok |-> ok]
      BY <1>1, <1>2
<1>4. \A k \in 1..(n + 1) : k \in 1..n \/ k = n + 1
      OBVIOUS
<1>. HIDE DEF all
<1>. QED BY <1>1, <1>2, <1>3, <1>4 DEF all

Caused(g, directories, count) ==
    \A i \in DOMAIN g.settled :
       ~g.settled[i].ok => g.settled[i].arch \notin directories \/ count > 0

LEMMA NextCause ==
    ASSUME TInv, FailuresHaveCause, [Next]_vars PROVE FailuresHaveCause'
<1>0. Caused(me, tree, faults) /\ faults \in Nat
      BY BoundAssumption DEF FailuresHaveCause, Failures, me, Caused, TInv, TypeOK
<1>. SUFFICES Caused(run'[current'], tree', faults')
     BY DEF FailuresHaveCause, Failures, me, Caused
<1>1. ASSUME NEW code \in 0..255, Ends(code), tree' = tree, current' = current,
             faults' = faults \/ faults' = faults + 1
      PROVE  Caused(run'[current'], tree', faults')
  <2>1. run'[current'].settled = me.settled
        BY <1>1, EndsEffect
  <2>2. faults > 0 => faults' > 0
        BY <1>0, <1>1
  <2>. QED BY <1>0, <1>1, <2>1, <2>2 DEF Caused
<1>2. ASSUME run'[current].settled = me.settled, UNCHANGED <<tree, current, faults>>
      PROVE  Caused(run'[current'], tree', faults')
      BY <1>0, <1>2 DEF Caused
<1>3. ASSUME NEW ok \in BOOLEAN, Working, SettleWith(ok), tree' = tree, current' = current,
             \/ faults' = faults /\ (ok \/ MyArch \notin tree)
             \/ faults' = faults + 1
      PROVE  Caused(run'[current'], tree', faults')
  <2>2. CASE faults' = faults + 1
        BY <1>0, <2>2 DEF Caused
  <2>3. CASE faults' = faults /\ (ok \/ MyArch \notin tree)
    <3>1. SUFFICES ASSUME NEW i \in DOMAIN run'[current].settled,
                          ~run'[current].settled[i].ok
                   PROVE  run'[current].settled[i].arch \notin tree \/ faults > 0
          BY <1>3, <2>3 DEF Caused
    <3>2. CASE i \in DOMAIN me.settled /\ run'[current].settled[i] = me.settled[i]
          BY <1>0, <3>1, <3>2 DEF Caused
    <3>3. CASE run'[current].settled[i] = [arch |-> MyArch, ok |-> ok]
          BY <2>3, <3>1, <3>3
    <3>. QED BY <1>3, <3>2, <3>3, SettleFailures
  <2>. QED BY <1>3, <2>2, <2>3
<1>4. CASE Refuse \/ ResolveRaises
      BY <1>1, <1>4 DEF Refuse, ResolveRaises
<1>5. CASE Begin
      BY <1>2, <1>5, BeginEffect DEF Begin
<1>6. CASE Build
  <2>1. UNCHANGED <<tree, disk, current, faults>> /\ Working
        BY <1>6 DEF Build
  <2>2. CASE MyArch \notin tree /\ SettleWith(FALSE)
        BY <1>3, <2>1, <2>2
  <2>3. CASE SettleWith(TRUE)
        BY <1>3, <2>1, <2>3
  <2>4. CASE run' = [run EXCEPT ![current].step = "write"]
        BY <1>2, <2>1, <2>4, ToStepEffect
  <2>. QED BY <1>6, <2>2, <2>3, <2>4, BuildCases
<1>7. CASE OpenFile
      BY <1>2, <1>7, ToStepEffect DEF OpenFile
<1>8. CASE CloseFile
      BY <1>2, <1>8, CloseEffect DEF CloseFile
<1>9. CASE ArchDone
      BY <1>3, <1>9 DEF ArchDone
<1>10. CASE Report
  <2>1. ExitCode(current) \in 0..255
        BY DEF ExitCode
  <2>. QED BY <1>1, <1>10, <2>1 DEF Report
<1>11. CASE WriteFails
  <2>1. Working /\ SettleWith(FALSE) /\ faults' = faults + 1 /\ UNCHANGED <<tree, current>>
        BY <1>11 DEF WriteFails
  <2>. QED BY <1>3, <2>1
<1>12. CASE Kill
  <2>1. Ends(137) /\ faults' = faults + 1 /\ UNCHANGED <<tree, current>>
        BY <1>12 DEF Kill
  <2>. QED BY <1>1, <2>1
<1>13. CASE NextRun
  <2>1. current' = current + 1 /\ current' \in Run /\ run' = run /\ current' > current
        BY <1>13, BoundAssumption DEF NextRun, Run, TInv, TypeOK
  <2>2. run[current'] = NotStarted(run[current'].args)
        BY <2>1 DEF TInv, RunsOK, Fits
  <2>3. run'[current'].settled = <<>>
        BY <2>1, <2>2 DEF NotStarted
  <2>. QED BY <2>3 DEF Caused
<1>14. CASE UNCHANGED vars
      BY <1>2, <1>14 DEF vars, me
<1>. QED BY <1>4, <1>5, <1>6, <1>7, <1>8, <1>9, <1>10, <1>11, <1>12, <1>13, <1>14
         DEF Next, Own

(***************************************************************************)
(* An architecture of scrape fails only because its directory is missing   *)
(* or a write failed: whatever the arguments, once they are accepted the   *)
(* lookup of a combined category cannot miss.                              *)
(***************************************************************************)
THEOREM ScrapeFailuresHaveCause == Spec => []FailuresHaveCause
<1>1. Init => FailuresHaveCause
  <2>1. SUFFICES ASSUME Init PROVE FailuresHaveCause
        OBVIOUS
  <2>2. current \in Run
        BY <2>1, InitTInv DEF TInv, TypeOK
  <2>3. \E args \in CommandLine : run[current] = NotStarted(args)
        BY <2>1, <2>2 DEF Init
  <2>4. run[current].settled = <<>>
        BY <2>3 DEF NotStarted
  <2>. QED BY <2>4 DEF FailuresHaveCause, Failures
<1>. QED BY <1>1, InitTInv, NextTInv, NextCause, PTL DEF Spec

-----------------------------------------------------------------------------
(***************************************************************************)
(* The promise of ArchBatch.                                               *)
(***************************************************************************)
\* There are as many architectures as the tuple is long.
LEMMA ArchFinite == IsFiniteSet(Arch) /\ Cardinality(Arch) = Len(Architectures)
<1>. DEFINE n == Len(Architectures)
<1>1. Architectures \in [1..n -> Arch] /\ n \in Nat /\ IsInjective(Architectures)
      BY ArchitecturesAssumption
<1>2. \A a \in Arch : \E i \in 1..n : Architectures[i] = a
      BY <1>1 DEF Arch, ToSet
<1>3. ExistsBijection(1..n, Arch)
      BY <1>1, <1>2 DEF ExistsBijection, Bijection, Injection, Surjection, IsInjective
<1>. QED BY <1>1, <1>3, FS_CountingElements, FS_NatBijection

\* The plans of ArchBatch are those of this module.
LEMMA SamePlans ==
    Batch!Plans = {p \in BoundedSeq(Arch, Cardinality(Arch)) : IsInjective(p)}
<1>1. Batch!Cardinality(Arch) = Cardinality(Arch)
      BY Zenon DEF Cardinality, Batch!Cardinality
<1>2. \A n : Batch!BoundedSeq(Arch, n) = BoundedSeq(Arch, n)
      BY Zenon DEF BoundedSeq, SeqOf, Batch!BoundedSeq, Batch!SeqOf
<1>3. \A p : Batch!IsInjective(p) = IsInjective(p)
      BY Zenon DEF IsInjective, Batch!IsInjective
<1>. QED BY <1>1, <1>2, <1>3, Zenon DEF Batch!Plans

LEMMA PlanIsPlan == ASSUME NEW args \in CommandLine PROVE PlanOf(args) \in Batch!Plans
<1>0. PlanOf(args) \in Seq(Arch) /\ IsInjective(PlanOf(args))
      BY PlanType
<1>1. CASE args.arch = "ALL"
  <2>1. PlanOf(args) = Architectures
        BY <1>1 DEF PlanOf
  <2>2. Len(Architectures) \in 0..Cardinality(Arch)
        BY ArchFinite, ArchitecturesAssumption
  <2>3. Architectures \in [1..Len(Architectures) -> Arch]
        BY ArchitecturesAssumption
  <2>4. Architectures \in BoundedSeq(Arch, Cardinality(Arch))
        BY <2>2, <2>3, Zenon DEF BoundedSeq, SeqOf
  <2>. QED BY <1>0, <2>1, <2>4, SamePlans
<1>2. CASE args.arch # "ALL"
  <2>1. args.arch \in Arch /\ PlanOf(args) = <<args.arch>>
        BY <1>2, CommandLineAssumption DEF PlanOf, Args
  <2>2. Cardinality(Arch) \in Nat /\ 1 <= Cardinality(Arch)
        BY <2>1, ArchFinite, FS_EmptySet, FS_CardinalityType
  <2>3. PlanOf(args) \in [1..1 -> Arch]
        BY <2>1
  <2>4. 1 \in 0..Cardinality(Arch)
        BY <2>2
  <2>5. PlanOf(args) \in BoundedSeq(Arch, Cardinality(Arch))
        BY <2>4, <2>3, Zenon DEF BoundedSeq, SeqOf
  <2>. QED BY <1>0, <2>5, SamePlans
<1>. QED BY <1>1, <1>2

\* To end is to end.
LEMMA EndsIsEndsWith ==
    ASSUME TInv, NEW r \in Run, r = current,
           NEW codes \in SUBSET (0..255), NEW code \in codes, Ends(code)
    PROVE  Batch!EndsWith(r, codes)
<1>1. /\ run' \in [Run -> RunType] /\ run \in [Run -> RunType]
      /\ \A q \in Run \ {r} : run'[q] = run[q]
      /\ run'[r].phase = "over" /\ run'[r].code = code
      /\ run'[r].plan = run[r].plan /\ run'[r].settled = run[r].settled
      BY EndsEffect DEF OthersStay, TInv, TypeOK, me
<1>2. [q \in Run |-> run[q].phase]' = [[q \in Run |-> run[q].phase] EXCEPT ![r] = "over"]
      BY <1>1
<1>3. [q \in Run |-> run[q].code]' = [[q \in Run |-> run[q].code] EXCEPT ![r] = code]
      BY <1>1
<1>4. [q \in Run |-> run[q].plan]' = [q \in Run |-> run[q].plan]
      BY <1>1
<1>5. \A q \in Run : run'[q].settled = run[q].settled
      BY <1>1
<1>. QED BY <1>2, <1>3, <1>4, <1>5 DEF Batch!EndsWith

\* A row settles the architecture whose turn it is.
LEMMA SettleIsSettle ==
    ASSUME TInv, NEW r \in Run, r = current, Working, NEW ok \in BOOLEAN, SettleWith(ok)
    PROVE  Batch!Settle(r)
<1>. DEFINE row == [arch |-> MyArch, ok |-> ok]
            rows == [q \in Run |-> run[q].settled]
<1>1. /\ run' \in [Run -> RunType] /\ run \in [Run -> RunType]
      /\ \A q \in Run \ {r} : run'[q] = run[q]
      /\ run'[r].phase = run[r].phase /\ run'[r].code = run[r].code
      /\ run'[r].plan = run[r].plan
      /\ run'[r].settled = Append(run[r].settled, row)
      BY SettleEffect DEF OthersStay, TInv, TypeOK, me
<1>2. /\ [q \in Run |-> run[q].phase]' = [q \in Run |-> run[q].phase]
      /\ [q \in Run |-> run[q].plan]' = [q \in Run |-> run[q].plan]
      /\ [q \in Run |-> run[q].code]' = [q \in Run |-> run[q].code]
      BY <1>1
<1>3. rows' = [rows EXCEPT ![r] = Append(@, row)]
      BY <1>1
<1>4. MyArch = run[r].plan[Len(run[r].settled) + 1]
      BY DEF MyArch, me
<1>5. run[r].phase = "running" /\ Len(run[r].settled) < Len(run[r].plan)
      BY DEF Working, me
<1>. QED BY <1>1, <1>2, <1>3, <1>4, <1>5 DEF Batch!Settle

\* Nothing changes for ArchBatch.
LEMMA QuietIsStutter ==
    ASSUME TInv, OthersStay, run' \in [Run -> RunType],
           run'[current].phase = me.phase, run'[current].plan = me.plan,
           run'[current].settled = me.settled, run'[current].code = me.code
    PROVE  UNCHANGED Batch!vars
<1>1. \A r \in Run : /\ run'[r].phase = run[r].phase /\ run'[r].plan = run[r].plan
                     /\ run'[r].settled = run[r].settled /\ run'[r].code = run[r].code
      BY DEF OthersStay, me
<1>2. /\ [r \in Run |-> run[r].phase]' = [r \in Run |-> run[r].phase]
      /\ [r \in Run |-> run[r].plan]' = [r \in Run |-> run[r].plan]
      /\ [r \in Run |-> run[r].settled]' = [r \in Run |-> run[r].settled]
      /\ [r \in Run |-> run[r].code]' = [r \in Run |-> run[r].code]
      BY <1>1
<1>. QED BY <1>2 DEF Batch!vars

LEMMA BeginIsBegin == ASSUME TInv, NEW r \in Run, r = current, Begin PROVE Batch!Begin(r)
<1>1. /\ run' \in [Run -> RunType] /\ run \in [Run -> RunType]
      /\ \A q \in Run \ {r} : run'[q] = run[q]
      /\ run'[r].phase = "running" /\ run'[r].code = run[r].code
      /\ run'[r].plan = PlanOf(me.args) /\ run'[r].settled = run[r].settled
      BY BeginEffect DEF OthersStay, TInv, TypeOK, me
<1>2. PlanOf(me.args) \in Batch!Plans
      BY MeFacts, PlanIsPlan
<1>3. /\ [q \in Run |-> run[q].phase]' = [[q \in Run |-> run[q].phase] EXCEPT ![r] = "running"]
      /\ [q \in Run |-> run[q].plan]' = [[q \in Run |-> run[q].plan] EXCEPT ![r] = PlanOf(me.args)]
      /\ [q \in Run |-> run[q].code]' = [q \in Run |-> run[q].code]
      /\ [q \in Run |-> run[q].settled]' = [q \in Run |-> run[q].settled]
      BY <1>1
<1>4. run[r].phase = "idle"
      BY DEF Begin, me
<1>. QED BY <1>1, <1>2, <1>3, <1>4 DEF Batch!Begin

LEMMA ReportIsConclude ==
    ASSUME TInv, NEW r \in Run, r = current, Report PROVE Batch!Conclude(r)
<1>1. run[r].settled = me.settled /\ run[r].plan = me.plan
      /\ run[r].phase = "running" /\ Len(me.settled) = Len(me.plan)
      BY MeFacts DEF Report, me
<1>2. Batch!AllOk(r) <=> Failures(r) = {}
      BY <1>1 DEF Batch!AllOk, Failures
<1>3. CASE Failures(r) = {}
  <2>1. ExitCode(current) = 0 /\ Ends(0)
        BY <1>3 DEF ExitCode, Report
  <2>2. Batch!EndsWith(r, {0})
        BY <2>1, EndsIsEndsWith
  <2>. QED BY <1>1, <1>2, <1>3, <2>2 DEF Batch!Conclude, Batch!EndsWith
<1>4. CASE Failures(r) # {}
  <2>1. ExitCode(current) = 1 /\ Ends(1)
        BY <1>4 DEF ExitCode, Report
  <2>2. Batch!EndsWith(r, Batch!Failure)
        BY <2>1, EndsIsEndsWith DEF Batch!Failure
  <2>. QED BY <1>1, <1>2, <1>4, <2>2 DEF Batch!Conclude, Batch!EndsWith
<1>. QED BY <1>3, <1>4

\* Each step of scrape is a step of ArchBatch, or none.
LEMMA StepIsBatchStep ==
    ASSUME TInv, [Next]_vars PROVE [Batch!Next]_(Batch!vars)
<1>0. PICK r \in Run : r = current /\ me = run[r]
      BY DEF TInv, TypeOK, me
<1>1. CASE Refuse
  <2>1. Batch!EndsWith(r, {2})
        BY <1>0, <1>1, EndsIsEndsWith DEF Refuse
  <2>. QED BY <1>0, <1>1, <2>1 DEF Refuse, Batch!Refuse, Batch!Next
<1>2. CASE ResolveRaises
  <2>1. Batch!EndsWith(r, Batch!Failure)
        BY <1>0, <1>2, EndsIsEndsWith DEF ResolveRaises, Batch!Failure
  <2>. QED BY <1>0, <1>2, <2>1 DEF ResolveRaises, Batch!Abort, Batch!Next
<1>3. CASE Begin
      BY <1>0, <1>3, BeginIsBegin DEF Batch!Next
<1>4. ASSUME NEW ok \in BOOLEAN, Working, SettleWith(ok) PROVE [Batch!Next]_(Batch!vars)
      BY <1>0, <1>4, SettleIsSettle DEF Batch!Next
<1>5. CASE Build
  <2>1. CASE run' = [run EXCEPT ![current].step = "write"]
    <3>1. UNCHANGED Batch!vars
          BY <2>1, ToStepEffect, QuietIsStutter
    <3>. QED BY <3>1
  <2>. QED BY <1>4, <1>5, <2>1, BuildCases DEF Build
<1>6. CASE OpenFile
  <2>1. UNCHANGED Batch!vars
        BY <1>6, ToStepEffect, QuietIsStutter DEF OpenFile
  <2>. QED BY <2>1
<1>7. CASE CloseFile
  <2>1. UNCHANGED Batch!vars
        BY <1>7, CloseEffect, QuietIsStutter
  <2>. QED BY <2>1
<1>8. CASE ArchDone
      BY <1>4, <1>8 DEF ArchDone
<1>9. CASE Report
      BY <1>0, <1>9, ReportIsConclude DEF Batch!Next
<1>10. CASE WriteFails
      BY <1>4, <1>10 DEF WriteFails
<1>11. CASE Kill
  <2>1. Batch!EndsWith(r, Batch!Failure)
        BY <1>0, <1>11, EndsIsEndsWith DEF Kill, Batch!Failure
  <2>. QED BY <1>0, <1>11, <2>1 DEF Kill, Batch!Abort, Batch!Next
<1>12. CASE NextRun
      BY <1>12 DEF NextRun, Batch!vars
<1>13. CASE UNCHANGED vars
      BY <1>13 DEF vars, Batch!vars
<1>. QED BY <1>1, <1>2, <1>3, <1>5, <1>6, <1>7, <1>8, <1>9, <1>10, <1>11, <1>12, <1>13
         DEF Next, Own

LEMMA InitIsBatchInit == ASSUME Init PROVE Batch!Init
<1>1. ASSUME NEW r \in Run
      PROVE  /\ run[r].phase = "idle" /\ run[r].plan = <<>>
             /\ run[r].settled = <<>> /\ run[r].code = 0
  <2>1. PICK args \in CommandLine : run[r] = NotStarted(args)
        BY DEF Init
  <2>. QED BY <2>1 DEF NotStarted
<1>. QED BY <1>1 DEF Batch!Init

(***************************************************************************)
(* scrape keeps the promise of ArchBatch for any architectures, command    *)
(* lines and runs, whatever fails or is killed: architectures are settled  *)
(* in the order of the plan, a failure of one never stops the next, and a  *)
(* run has status 0 exactly if it went through its plan well.              *)
(***************************************************************************)
THEOREM ScrapeKeepsPromise == Spec => ImplementsBatch
<1>1. Spec => []TInv
      BY InitTInv, NextTInv, PTL DEF Spec
<1>2. Init => Batch!Init
      BY InitIsBatchInit
<1>3. TInv /\ [Next]_vars => [Batch!Next]_(Batch!vars)
      BY StepIsBatchStep
<1>. QED BY <1>1, <1>2, <1>3, PTL DEF Spec, ImplementsBatch, Batch!Spec

-----------------------------------------------------------------------------
(***************************************************************************)
(* The files of the runs.  A run holds one file open while it writes it;   *)
(* every other file there is holds the body of the run that opened it last *)
(* and is whole, unless that run was killed or counts a failure for it.    *)
(***************************************************************************)
Busy(g) == g.phase = "running" /\ Len(g.settled) < Len(g.plan) /\ g.step = "writing"

Held(f, r, b) ==
    f.exists /\ f.last = r /\ ~f.done /\ f.bodies = {} /\ f.open = {<<r, b>>}

Rests(f) ==
    /\ f.open = {}
    /\ f.exists => \E b \in Body : f.bodies = {b} /\ f.last = b.run
    /\ ~f.exists => f.bodies = {}

\* The run was killed, or failed on the architecture in whose directory p is.
Excused(p, g) ==
    \/ g.code = 137
    \/ \E i \in DOMAIN g.settled : ~g.settled[i].ok /\ p[2] \in {g.settled[i].arch, None}

DiskOK ==
    /\ Busy(me) => Held(disk[NowFile(me, current).path], current, NowFile(me, current).body)
    /\ \A p \in Path : ~(Busy(me) /\ p = NowFile(me, current).path) =>
          /\ Rests(disk[p])
          /\ disk[p].exists => /\ disk[p].last \in Run /\ disk[p].last <= current
                               /\ disk[p].done \/ Excused(p, run[disk[p].last])

\* Rows and the status of a run are kept.
Grown(g, h) ==
    /\ \A i \in DOMAIN g.settled : i \in DOMAIN h.settled /\ h.settled[i] = g.settled[i]
    /\ g.code # 0 => h.code = g.code
    /\ h.args = g.args

LEMMA RunsGrow ==
    ASSUME TInv, [Next]_vars, NEW r \in Run PROVE Grown(run[r], run'[r])
<1>1. ASSUME OthersStay, run'[current].settled = me.settled, run'[current].args = me.args,
             me.code # 0 => run'[current].code = me.code
      PROVE  Grown(run[r], run'[r])
  <2>1. CASE r = current
        BY <1>1, <2>1 DEF me, Grown
  <2>2. CASE r # current
        BY <1>1, <2>2 DEF OthersStay, Grown
  <2>. QED BY <2>1, <2>2
<1>2. ASSUME NEW ok \in BOOLEAN, Working, SettleWith(ok) PROVE Grown(run[r], run'[r])
  <2>1. CASE r = current
    <3>1. run'[current].settled = Append(me.settled, [arch |-> MyArch, ok |-> ok])
          BY <1>2, SettleEffect
    <3>2. me.settled \in Seq([arch : Arch, ok : BOOLEAN])
          BY MeFacts
    <3>3. \A i \in DOMAIN me.settled :
             /\ i \in DOMAIN Append(me.settled, [arch |-> MyArch, ok |-> ok])
             /\ Append(me.settled, [arch |-> MyArch, ok |-> ok])[i] = me.settled[i]
          BY <3>2
    <3>4. run'[current].code = me.code /\ run'[current].args = me.args
          BY <1>2, SettleEffect
    <3>. QED BY <2>1, <3>1, <3>3, <3>4 DEF me, Grown
  <2>2. CASE r # current
        BY <1>2, <2>2, SettleEffect DEF OthersStay, Grown
  <2>. QED BY <2>1, <2>2
<1>3. me.phase # "over" => me.code = 0
  <2>1. CASE me.phase = "idle"
        BY <2>1, MeFacts DEF Fits, NotStarted
  <2>2. CASE me.phase = "running"
        BY <2>2, MeFacts DEF Fits
  <2>. QED BY <2>1, <2>2, MeFacts DEF RunType
<1>4. ASSUME NEW code \in 0..255, Ends(code), me.phase # "over" PROVE Grown(run[r], run'[r])
      BY <1>1, <1>3, <1>4, EndsEffect
<1>5. CASE Refuse \/ ResolveRaises
      BY <1>4, <1>5 DEF Refuse, ResolveRaises
<1>6. CASE Begin
      BY <1>1, <1>6, BeginEffect
<1>7. CASE Build
  <2>1. Working
        BY <1>7 DEF Build
  <2>2. ASSUME NEW ok \in BOOLEAN, SettleWith(ok) PROVE Grown(run[r], run'[r])
        BY <1>2, <2>1, <2>2
  <2>3. CASE run' = [run EXCEPT ![current].step = "write"]
        BY <1>1, <2>3, ToStepEffect
  <2>. QED BY <1>7, <2>2, <2>3, BuildCases
<1>8. CASE OpenFile
      BY <1>1, <1>8, ToStepEffect DEF OpenFile
<1>9. CASE CloseFile
      BY <1>1, <1>9, CloseEffect
<1>10. CASE ArchDone
      BY <1>2, <1>10 DEF ArchDone
<1>11. CASE Report
  <2>1. ExitCode(current) \in 0..255
        BY DEF ExitCode
  <2>. QED BY <1>4, <1>11, <2>1 DEF Report
<1>12. CASE WriteFails
      BY <1>2, <1>12 DEF WriteFails
<1>13. CASE Kill
      BY <1>4, <1>13 DEF Kill
<1>14. CASE NextRun \/ UNCHANGED vars
      BY <1>14 DEF NextRun, vars, Grown
<1>. QED BY <1>5, <1>6, <1>7, <1>8, <1>9, <1>10, <1>11, <1>12, <1>13, <1>14 DEF Next, Own

\* So an excuse stays one.
LEMMA ExcuseStays ==
    ASSUME TInv, [Next]_vars, NEW r \in Run, NEW p, Excused(p, run[r])
    PROVE  Excused(p, run'[r])
<1>1. CASE run[r].code = 137
      BY <1>1, RunsGrow DEF Excused, Grown
<1>2. ASSUME NEW i \in DOMAIN run[r].settled,
             ~run[r].settled[i].ok /\ p[2] \in {run[r].settled[i].arch, None}
      PROVE  Excused(p, run'[r])
  <2>1. i \in DOMAIN run'[r].settled /\ run'[r].settled[i] = run[r].settled[i]
        BY RunsGrow DEF Grown
  <2>. QED BY <1>2, <2>1 DEF Excused
<1>. QED BY <1>1, <1>2 DEF Excused

-----------------------------------------------------------------------------
(***************************************************************************)
(* A step changes no file, or opens the one whose turn it is, or closes    *)
(* it, or leaves it as it is for a reason that the run reports.            *)
(***************************************************************************)
SamePlace(g, h) ==
    /\ h.args = g.args /\ h.plan = g.plan /\ h.settled = g.settled
    /\ h.next = g.next /\ h.written = g.written

Settles(g, h, ok) ==
    /\ h.args = g.args /\ h.plan = g.plan /\ h.written = g.written
    /\ h.settled = Append(g.settled, [arch |-> ArchOf(g), ok |-> ok]) /\ h.next = 0
    /\ ok => g.args.output = None \/ Coming(g) = {}

Fresh(g) == g.settled = <<>> /\ g.next = 0 /\ g.written = <<>>

Moves(g, h) ==
    SamePlace(g, h) \/ Settles(g, h, TRUE) \/ Settles(g, h, FALSE) \/ (Fresh(g) /\ Fresh(h))

Still ==
    /\ disk' = disk /\ ~Busy(me) /\ ~Busy(run'[current'])
    /\ \/ current' = current /\ Moves(me, run'[current])
       \/ current' = current + 1 /\ current' \in Run /\ Fresh(run'[current'])

Tears ==
    /\ Busy(me) /\ disk' = Torn /\ current' = current
    /\ ~Busy(run'[current]) /\ Excused(MyFile.path, run'[current])
    /\ SamePlace(me, run'[current]) \/ Settles(me, run'[current], FALSE)

LEMMA BusyFacts ==
    ASSUME TInv
    PROVE  /\ Busy(me) <=> Working /\ me.step = "writing"
           /\ MyFile = NowFile(me, current)
           /\ Busy(me) => MoreFiles /\ MyFile.path \in Path /\ MyFile.body \in Body
<1>1. Busy(me) <=> Working /\ me.step = "writing"
      BY DEF Busy, Working
<1>2. Busy(me) => MoreFiles
      BY MeFacts DEF Busy, Fits, MoreFiles
<1>. QED BY <1>1, <1>2, MeFacts, WritingFacts

\* The file of a failure is in the directory of the architecture.
LEMMA FileDirectory ==
    ASSUME NEW args, NEW a, NEW i, NEW r
    PROVE  FileOf(args, a, i, r).path[2] \in {a, None}
BY DEF FileOf, PathOf

LEMMA StepKinds ==
    ASSUME TInv, [Next]_vars
    PROVE  Still \/ UNCHANGED vars \/ OpenFile \/ CloseFile \/ Tears
<1>1. ASSUME NEW code \in 0..255, Ends(code), ~Busy(me), disk' = disk, current' = current
      PROVE  Still
  <2>1. ~Busy(run'[current]) /\ SamePlace(me, run'[current])
        BY <1>1, EndsEffect DEF Busy, SamePlace
  <2>. QED BY <1>1, <2>1 DEF Moves, Still
<1>a. ASSUME NEW ok \in BOOLEAN, Working, SettleWith(ok),
             ok => me.args.output = None \/ ~MoreFiles
      PROVE  ~Busy(run'[current]) /\ Settles(me, run'[current], ok)
  <2>1. ok => me.args.output = None \/ Coming(me) = {}
        BY <1>a, MeFacts DEF MoreFiles
  <2>2. MyArch = ArchOf(me)
        BY MeFacts
  <2>3. ~Busy(run'[current])
        BY <1>a, SettleEffect DEF Busy
  <2>. QED BY <1>a, <2>1, <2>2, <2>3, SettleEffect DEF Settles
<1>2. ASSUME NEW ok \in BOOLEAN, Working, SettleWith(ok), me.step # "writing",
             disk' = disk, current' = current, ok => me.args.output = None \/ ~MoreFiles
      PROVE  Still
  <2>1. ~Busy(me) /\ ~Busy(run'[current]) /\ Settles(me, run'[current], ok)
        BY <1>a, <1>2 DEF Busy
  <2>2. ok = TRUE \/ ok = FALSE
        OBVIOUS
  <2>. QED BY <1>2, <2>1, <2>2 DEF Moves, Still
<1>3. CASE Refuse \/ ResolveRaises
      BY <1>1, <1>3 DEF Refuse, ResolveRaises, Busy
<1>4. CASE Begin
  <2>1. me = NotStarted(me.args)
        BY <1>4, MeFacts DEF Begin, Fits
  <2>2. me.step = "build" /\ Fresh(me)
        BY <2>1 DEF NotStarted, Fresh
  <2>3. ~Busy(me) /\ ~Busy(run'[current]) /\ Fresh(run'[current])
        BY <1>4, <2>2, BeginEffect DEF Busy, Fresh
  <2>4. disk' = disk /\ current' = current
        BY <1>4 DEF Begin
  <2>. QED BY <2>2, <2>3, <2>4 DEF Moves, Still
<1>5. CASE Build
  <2>1. Working /\ me.step = "build" /\ disk' = disk /\ current' = current
        BY <1>5 DEF Build
  <2>2. CASE SettleWith(FALSE)
        BY <1>2, <2>1, <2>2
  <2>3. CASE me.args.output = None /\ SettleWith(TRUE)
        BY <1>2, <2>1, <2>3
  <2>4. CASE run' = [run EXCEPT ![current].step = "write"]
    <3>1. ~Busy(me) /\ ~Busy(run'[current]) /\ SamePlace(me, run'[current])
          BY <2>1, <2>4, ToStepEffect DEF Busy, SamePlace
    <3>. QED BY <2>1, <3>1 DEF Moves, Still
  <2>. QED BY <1>5, <2>2, <2>3, <2>4, BuildCases
<1>6. CASE ArchDone
      BY <1>2, <1>6 DEF ArchDone
<1>7. CASE Report
  <2>1. ExitCode(current) \in 0..255 /\ ~Busy(me) /\ Ends(ExitCode(current))
        BY <1>7, MeFacts DEF ExitCode, Busy, Report
  <2>. QED BY <1>1, <1>7, <2>1 DEF Report
<1>8. CASE WriteFails
  <2>1. Working /\ SettleWith(FALSE) /\ current' = current
        BY <1>8 DEF WriteFails
  <2>2. CASE me.step # "writing"
        BY <1>2, <1>8, <2>1, <2>2 DEF WriteFails
  <2>3. CASE me.step = "writing"
    <3>1. Busy(me) /\ disk' = Torn
          BY <1>8, <2>3 DEF WriteFails, Busy, Working
    <3>6. ~Busy(run'[current]) /\ Settles(me, run'[current], FALSE)
          BY <1>a, <2>1
    <3>2. PICK n \in Nat : n = Len(me.settled)
          BY MeFacts
    <3>3. /\ n + 1 \in DOMAIN run'[current].settled
          /\ run'[current].settled[n + 1] = [arch |-> MyArch, ok |-> FALSE]
      <4>1. run'[current].settled = Append(me.settled, [arch |-> MyArch, ok |-> FALSE])
            BY <2>1, SettleEffect
      <4>2. me.settled \in Seq([arch : Arch, ok : BOOLEAN])
            BY MeFacts
      <4>. QED BY <3>2, <4>1, <4>2
    <3>4. MyFile.path[2] \in {MyArch, None}
          BY FileDirectory DEF MyFile
    <3>5. Excused(MyFile.path, run'[current])
          BY <3>3, <3>4 DEF Excused
    <3>. QED BY <2>1, <3>1, <3>5, <3>6 DEF Tears
  <2>. QED BY <2>2, <2>3
<1>9. CASE Kill
  <2>1. Ends(137) /\ current' = current /\ me.phase = "running"
        BY <1>9 DEF Kill
  <2>2. CASE me.step # "writing"
        BY <1>1, <1>9, <2>1, <2>2 DEF Kill, Busy
  <2>3. CASE me.step = "writing"
    <3>1. Busy(me)
          BY <2>1, <2>3, MeFacts DEF Busy, Fits
    <3>3. disk' = Torn
          BY <1>9, <2>3 DEF Kill
    <3>2. ~Busy(run'[current]) /\ Excused(MyFile.path, run'[current])
      <4>1. 137 \in 0..255
            OBVIOUS
      <4>2. run'[current].phase = "over" /\ run'[current].code = 137
            BY <2>1, <4>1, EndsEffect
      <4>. QED BY <4>2 DEF Busy, Excused
    <3>4. SamePlace(me, run'[current])
      <4>1. 137 \in 0..255
            OBVIOUS
      <4>. QED BY <2>1, <4>1, EndsEffect DEF SamePlace
    <3>. QED BY <2>1, <3>1, <3>2, <3>3, <3>4 DEF Tears
  <2>. QED BY <2>2, <2>3
<1>10. CASE NextRun
  <2>1. current' = current + 1 /\ current' \in Run /\ current' > current /\ run' = run
        BY <1>10, BoundAssumption DEF NextRun, Run, TInv, TypeOK
  <2>2. run[current'].phase = "idle" /\ run[current'] = NotStarted(run[current'].args)
        BY <2>1 DEF TInv, RunsOK, Fits
  <2>3. Fresh(run[current'])
        BY <2>2 DEF NotStarted, Fresh
  <2>. QED BY <1>10, <2>1, <2>2, <2>3 DEF NextRun, Busy, Still
<1>. QED BY <1>3, <1>4, <1>5, <1>6, <1>7, <1>8, <1>9, <1>10 DEF Next, Own

\* The file whose turn it is stays that one while its run goes on with it.
LEMMA SameNowFile ==
    ASSUME NEW g, NEW h, NEW r, h.args = g.args, h.plan = g.plan,
           h.settled = g.settled, h.next = g.next
    PROVE  NowFile(h, r) = NowFile(g, r)
<1>1. Coming(h) = Coming(g)
      BY DEF Coming
<1>2. TurnOf(h) = TurnOf(g)
      BY <1>1 DEF TurnOf
<1>. QED BY <1>2 DEF NowFile, ArchOf

\* What opening, closing and leaving the file whose turn it is make of it.
LEMMA OpenedHeld ==
    ASSUME NEW f, f.open = {}, NEW r, NEW b PROVE Held(Opened(f, r, b), r, b)
BY DEF Held, Opened

LEMMA LeftRests ==
    ASSUME NEW f \in OutputFileType, NEW r \in Run, NEW b \in Body, b.run = r, Held(f, r, b)
    PROVE  /\ Rests(Closed(f, r)) /\ Closed(f, r).exists /\ Closed(f, r).last = r
           /\ Closed(f, r).done /\ Closed(f, r).bodies = {b}
           /\ Rests(Abandoned(f, r)) /\ Abandoned(f, r).exists /\ Abandoned(f, r).last = r
<1>1. /\ f.exists /\ f.last = r /\ f.bodies = {} /\ f.open = {<<r, b>>}
      BY DEF Held
<1>2. WrittenBy(f, r) = {b}
  <2>1. {o \in f.open : o[1] = r} = {<<r, b>>}
        BY <1>1
  <2>2. <<r, b>>[2] = b
        OBVIOUS
  <2>3. {e[2] : e \in {<<r, b>>}} = {b}
        BY <2>2, Zenon
  <2>. QED BY <2>1, <2>3 DEF WrittenBy
<1>3. {o \in f.open : o[1] # r} = {}
      BY <1>1
<1>4. /\ Abandoned(f, r).open = {} /\ Abandoned(f, r).bodies = {b}
      /\ Abandoned(f, r).exists /\ Abandoned(f, r).last = r
      BY <1>1, <1>2, <1>3 DEF Abandoned, OutputFileType
<1>5. /\ Closed(f, r).open = {} /\ Closed(f, r).bodies = {b}
      /\ Closed(f, r).exists /\ Closed(f, r).last = r /\ Closed(f, r).done
      BY <1>1, <1>2, <1>3 DEF Closed, Abandoned, OutputFileType
<1>. QED BY <1>4, <1>5 DEF Rests

\* What DiskOK says of a file that is not being written.
Stands(p, f, all, bound) ==
    /\ Rests(f)
    /\ f.exists => /\ f.last \in Run /\ f.last <= bound
                   /\ f.done \/ Excused(p, all[f.last])

LEMMA StandsOn ==
    ASSUME TInv, [Next]_vars, NEW p, NEW f, Stands(p, f, run, current),
           current' \in {current, current + 1}
    PROVE  Stands(p, f, run', current')
<1>1. current \in Int /\ current' >= current
      BY DEF TInv, TypeOK, Run
<1>2. ASSUME f.exists
      PROVE  f.last \in Run /\ f.last <= current' /\ (f.done \/ Excused(p, run'[f.last]))
  <2>1. f.last \in Run /\ f.last <= current /\ (f.done \/ Excused(p, run[f.last]))
        BY <1>2 DEF Stands
  <2>2. f.last <= current'
        BY <1>1, <2>1 DEF Run
  <2>. QED BY <2>1, <2>2, ExcuseStays
<1>. QED BY <1>2 DEF Stands

LEMMA InitDisk == ASSUME Init PROVE DiskOK
<1>1. TInv
      BY InitTInv
<1>2. me.phase = "idle"
  <2>1. \E args \in CommandLine : run[current] = NotStarted(args)
        BY <1>1 DEF Init, TInv, TypeOK
  <2>. QED BY <2>1 DEF me, NotStarted
<1>3. \A p \in Path : Rests(disk[p]) /\ ~disk[p].exists
      BY DEF Init, Absent, Rests
<1>. QED BY <1>2, <1>3 DEF DiskOK, Busy

LEMMA NextDisk == ASSUME TInv, DiskOK, [Next]_vars PROVE DiskOK'
<1>. DEFINE p == MyFile.path
            b == MyFile.body
<1>0. /\ current \in Run /\ disk \in [Path -> OutputFileType] /\ b.run = current
      /\ NowFile(me, current) = MyFile
      BY BusyFacts DEF TInv, TypeOK, NowFile, FileOf
<1>a. /\ Busy(me) => Held(disk[p], current, b)
      /\ \A q \in Path : ~(Busy(me) /\ q = p) => Stands(q, disk[q], run, current)
      BY <1>0 DEF DiskOK, Stands
<1>b. ASSUME ~Busy(run'[current']), \A q \in Path : Stands(q, disk'[q], run', current')
      PROVE  DiskOK'
      BY <1>b DEF DiskOK, Stands, me
<1>1. CASE Still
  <2>2. disk' = disk /\ ~Busy(me) /\ current' \in {current, current + 1}
        BY <1>1 DEF Still
  <2>1. \A q \in Path : Stands(q, disk'[q], run', current')
        BY <1>a, <2>2, StandsOn
  <2>. QED BY <1>1, <1>b, <2>1 DEF Still
<1>2. CASE UNCHANGED vars
  <2>1. disk' = disk /\ run' = run /\ current' = current
        BY <1>2 DEF vars
  <2>. QED BY <2>1 DEF DiskOK, me
<1>3. CASE OpenFile
  <2>1. /\ p \in Path /\ disk'[p] = Opened(disk[p], current, b)
        /\ \A q \in Path \ {p} : disk'[q] = disk[q]
        /\ current' = current /\ ~Busy(me)
        BY <1>3, OpenDisk DEF OpenFile, Busy
  <2>2. /\ run'[current].args = me.args /\ run'[current].plan = me.plan
        /\ run'[current].settled = me.settled /\ run'[current].next = me.next
        BY <1>3, ToStepEffect DEF OpenFile
  <2>3. NowFile(run'[current], current) = MyFile
        BY <1>0, <2>2, SameNowFile
  <2>4. disk[p].open = {}
        BY <1>a, <2>1 DEF Stands, Rests
  <2>5. Held(disk'[p], current, b)
        BY <2>1, <2>4, OpenedHeld
  <2>6. \A q \in Path \ {p} : Stands(q, disk'[q], run', current')
        BY <1>a, <2>1, StandsOn
  <2>. HIDE DEF p, b
  <2>7. NowFile(run'[current], current).path = p /\ NowFile(run'[current], current).body = b
        BY <2>3 DEF p, b
  <2>8. Busy(run'[current])
        BY <1>3, ToStepEffect, WorkingFacts DEF OpenFile, Busy
  <2>9. \A q \in Path : ~(Busy(run'[current']) /\ q = NowFile(run'[current'], current').path) =>
           Stands(q, disk'[q], run', current')
        BY <2>1, <2>6, <2>7, <2>8
  <2>. QED BY <2>1, <2>5, <2>7, <2>9 DEF DiskOK, Stands, me
<1>4. CASE CloseFile
  <2>1. /\ p \in Path /\ disk'[p] = Closed(disk[p], current) /\ b \in Body
        /\ \A q \in Path \ {p} : disk'[q] = disk[q]
        /\ current' = current /\ Busy(me)
        BY <1>4, CloseDisk, BusyFacts DEF CloseFile
  <2>2. /\ Rests(disk'[p]) /\ disk'[p].last = current /\ disk'[p].done
        BY <1>0, <1>a, <2>1, LeftRests
  <2>3. current <= current
        BY <1>0 DEF Run
  <2>4. Stands(p, disk'[p], run', current')
        BY <1>0, <2>1, <2>2, <2>3 DEF Stands
  <2>5. \A q \in Path \ {p} : Stands(q, disk'[q], run', current')
        BY <1>a, <2>1, StandsOn
  <2>6. ~Busy(run'[current'])
        BY <1>4, <2>1, CloseEffect DEF Busy
  <2>. QED BY <1>b, <2>4, <2>5, <2>6
<1>5. CASE Tears
  <2>1. /\ p \in Path /\ disk'[p] = Abandoned(disk[p], current) /\ b \in Body
        /\ \A q \in Path \ {p} : disk'[q] = disk[q]
        /\ current' = current /\ Busy(me)
        BY <1>5, TornDisk, BusyFacts DEF Tears
  <2>2. /\ Rests(disk'[p]) /\ disk'[p].last = current
        BY <1>0, <1>a, <2>1, LeftRests
  <2>3. current <= current
        BY <1>0 DEF Run
  <2>4. Stands(p, disk'[p], run', current')
        BY <1>0, <1>5, <2>1, <2>2, <2>3 DEF Stands, Tears
  <2>5. \A q \in Path \ {p} : Stands(q, disk'[q], run', current')
        BY <1>a, <2>1, StandsOn
  <2>. QED BY <1>5, <1>b, <2>1, <2>4, <2>5 DEF Tears
<1>. QED BY <1>1, <1>2, <1>3, <1>4, <1>5, StepKinds

\* A file at rest that is whole reads as the body in it.
LEMMA WholeReads ==
    ASSUME NEW f, Rests(f), f.exists
    PROVE  \E b \in Body : /\ Contents(f) = {b} /\ f.bodies = {b} /\ f.last = b.run
                           /\ f.done => Reads(f) = {b} /\ Whole(f)
<1>1. PICK b \in Body : f.bodies = {b} /\ f.last = b.run
      BY DEF Rests
<1>2. Contents(f) = {b}
  <2>1. {o[2] : o \in {}} = {}
        OBVIOUS
  <2>2. {o[2] : o \in f.open} = {}
        BY <2>1 DEF Rests
  <2>. QED BY <1>1, <2>2 DEF Contents
<1>3. f.done => Reads(f) = {b}
      BY <1>2 DEF Reads
<1>4. f.done => Whole(f)
      BY <1>3, InvalidAssumption DEF Whole
<1>. QED BY <1>1, <1>2, <1>3, <1>4

(***************************************************************************)
(* A file that cannot be read back is being written, or the run that wrote *)
(* it last was killed or counts a failed architecture: the architecture    *)
(* whose directory the file is in.  So whoever finds one knows which run   *)
(* to look at, after any number of runs.                                   *)
(***************************************************************************)
THEOREM TornFilesAreReported == Spec => []TornIsReported
<1>1. TInv /\ DiskOK => TornIsReported
  <2>1. SUFFICES ASSUME TInv, DiskOK, NEW p \in Path, disk[p].exists, ~Whole(disk[p]),
                        NEW r, r = disk[p].last
                 PROVE  \/ r = current /\ me.step = "writing" /\ MyFile.path = p
                        \/ run[r].code = 137
                        \/ \E i \in Failures(r) : p[2] \in {run[r].settled[i].arch, None}
        BY Zenon DEF TornIsReported
  <2>2. CASE Busy(me) /\ p = NowFile(me, current).path
        BY <2>1, <2>2, BusyFacts DEF DiskOK, Held, Busy
  <2>3. CASE ~(Busy(me) /\ p = NowFile(me, current).path)
    <3>1. Rests(disk[p]) /\ (disk[p].done \/ Excused(p, run[r]))
          BY <2>1, <2>3 DEF DiskOK
    <3>2. ~disk[p].done
          BY <2>1, <3>1, WholeReads
    <3>. QED BY <3>1, <3>2 DEF Excused, Failures
  <2>. QED BY <2>2, <2>3
<1>. QED BY <1>1, InitTInv, InitDisk, NextTInv, NextDisk, PTL DEF Spec

-----------------------------------------------------------------------------
(***************************************************************************)
(* What a run has touched, and what it reports.                            *)
(***************************************************************************)
Trouble(g) == g.code = 137 \/ \E i \in DOMAIN g.settled : ~g.settled[i].ok

Listed(g, d, r) ==
    /\ \A p \in ToSet(g.written) : p \in Path /\ d[p].exists /\ d[p].last = r
    /\ \A p \in Path : d[p].exists /\ d[p].last = r =>
          p \in ToSet(g.written) \/ (Busy(g) /\ p = NowFile(g, r).path) \/ Trouble(g)

ListedOK == Listed(me, disk, current)

LEMMA TroubleStays ==
    ASSUME TInv, [Next]_vars, current' = current, Trouble(me) PROVE Trouble(run'[current])
<1>1. Grown(me, run'[current])
      BY RunsGrow, MeFacts
<1>2. CASE me.code = 137
      BY <1>1, <1>2 DEF Grown, Trouble
<1>3. CASE \E i \in DOMAIN me.settled : ~me.settled[i].ok
      BY <1>1, <1>3 DEF Grown, Trouble
<1>. QED BY <1>2, <1>3 DEF Trouble

LEMMA MovesKeepWritten ==
    ASSUME NEW g, NEW h, Moves(g, h) PROVE h.written = g.written
BY DEF Moves, SamePlace, Settles, Fresh

LEMMA NextListed == ASSUME TInv, DiskOK, ListedOK, [Next]_vars PROVE ListedOK'
<1>. DEFINE h == run'[current']
            p == MyFile.path
<1>0. /\ current \in Run /\ MyFile = NowFile(me, current) /\ me.written \in Seq(Path)
      /\ \A q \in ToSet(me.written) : q \in Path /\ disk[q].exists /\ disk[q].last = current
      /\ \A q \in Path : disk[q].exists /\ disk[q].last = current =>
            q \in ToSet(me.written) \/ (Busy(me) /\ q = p) \/ Trouble(me)
      BY MeFacts DEF ListedOK, Listed
<1>. SUFFICES /\ \A q \in ToSet(h.written) : q \in Path /\ disk'[q].exists /\ disk'[q].last = current'
              /\ \A q \in Path : disk'[q].exists /\ disk'[q].last = current' =>
                    q \in ToSet(h.written) \/ (Busy(h) /\ q = NowFile(h, current').path) \/ Trouble(h)
     BY DEF ListedOK, Listed, me
<1>1. CASE Still
  <2>1. CASE current' = current /\ Moves(me, h)
    <3>1. h.written = me.written
          BY <2>1, MovesKeepWritten
    <3>2. Trouble(me) => Trouble(h)
          BY <2>1, TroubleStays
    <3>. HIDE DEF h, p
    <3>. QED BY <1>0, <1>1, <2>1, <3>1, <3>2 DEF Still
  <2>2. CASE current' = current + 1 /\ current' \in Run /\ Fresh(h)
    <3>1. ToSet(h.written) = {}
          BY <2>2 DEF Fresh, ToSet
    <3>2. \A q \in Path : disk[q].exists => disk[q].last <= current /\ disk[q].last \in Run
          BY <1>1 DEF DiskOK, Still
    <3>3. \A q \in Path : disk'[q].exists => disk'[q].last # current'
      <4>1. \A r \in Run : r <= current => r # current + 1
            BY <1>0 DEF Run
      <4>. QED BY <1>1, <2>2, <3>2, <4>1 DEF Still
    <3>. QED BY <3>1, <3>3
  <2>. QED BY <1>1, <2>1, <2>2 DEF Still
<1>2. CASE UNCHANGED vars
  <2>1. disk' = disk /\ current' = current /\ h = me
        BY <1>2 DEF vars, me
  <2>. HIDE DEF h
  <2>. QED BY <1>0, <2>1
<1>3. CASE OpenFile
  <2>1. /\ p \in Path /\ disk'[p] = Opened(disk[p], current, MyFile.body)
        /\ \A q \in Path \ {p} : disk'[q] = disk[q]
        /\ current' = current /\ ~Busy(me)
        BY <1>3, OpenDisk DEF OpenFile, Busy
  <2>2. /\ h.args = me.args /\ h.plan = me.plan /\ h.written = me.written
        /\ h.settled = me.settled /\ h.next = me.next
        BY <1>3, <2>1, ToStepEffect DEF OpenFile
  <2>3. NowFile(h, current) = MyFile
        BY <1>0, <2>2, SameNowFile
  <2>4. Busy(h)
        BY <1>3, <2>1, ToStepEffect, WorkingFacts DEF OpenFile, Busy
  <2>5. disk'[p].exists /\ disk'[p].last = current
        BY <2>1 DEF Opened
  <2>6. Trouble(me) => Trouble(h)
        BY <2>1, TroubleStays
  <2>. HIDE DEF h
  <2>. QED BY <1>0, <2>1, <2>2, <2>3, <2>4, <2>5, <2>6
<1>4. CASE CloseFile
  <2>1. /\ p \in Path /\ disk'[p] = Closed(disk[p], current) /\ MyFile.body \in Body
        /\ \A q \in Path \ {p} : disk'[q] = disk[q]
        /\ current' = current /\ Busy(me)
        BY <1>4, CloseDisk, BusyFacts DEF CloseFile
  <2>2. MyFile.body.run = current /\ Held(disk[p], current, MyFile.body)
        BY <1>0, <2>1 DEF DiskOK, MyFile, FileOf
  <2>3. disk'[p].exists /\ disk'[p].last = current
        BY <1>0, <2>1, <2>2, LeftRests DEF TInv, TypeOK
  <2>4. h.written = Append(me.written, p)
        BY <1>4, <2>1, CloseEffect
  <2>5. ToSet(h.written) = ToSet(me.written) \cup {p}
        BY <1>0, <2>1, <2>4, AppendSet
  <2>6. Trouble(me) => Trouble(h)
        BY <2>1, TroubleStays
  <2>. HIDE DEF h, p
  <2>. QED BY <1>0, <2>1, <2>3, <2>5, <2>6
<1>5. CASE Tears
  <2>1. /\ p \in Path /\ disk'[p] = Abandoned(disk[p], current) /\ MyFile.body \in Body
        /\ \A q \in Path \ {p} : disk'[q] = disk[q]
        /\ current' = current /\ Busy(me)
        BY <1>5, TornDisk, BusyFacts DEF Tears
  <2>2. MyFile.body.run = current /\ Held(disk[p], current, MyFile.body)
        BY <1>0, <2>1 DEF DiskOK, MyFile, FileOf
  <2>3. disk'[p].exists /\ disk'[p].last = current
        BY <1>0, <2>1, <2>2, LeftRests DEF TInv, TypeOK
  <2>4. h.written = me.written
        BY <1>5, <2>1 DEF Tears, SamePlace, Settles
  <2>5. Trouble(h)
        BY <1>5, <2>1 DEF Tears, Excused, Trouble
  <2>. HIDE DEF h, p
  <2>. QED BY <1>0, <2>1, <2>3, <2>4, <2>5
<1>. QED BY <1>1, <1>2, <1>3, <1>4, <1>5, StepKinds

LEMMA InitListed == ASSUME Init PROVE ListedOK
<1>1. TInv
      BY InitTInv
<1>2. \E args \in CommandLine : run[current] = NotStarted(args)
      BY <1>1 DEF Init, TInv, TypeOK
<1>3. ToSet(me.written) = {}
      BY <1>2 DEF me, NotStarted, ToSet
<1>4. \A p \in Path : ~disk[p].exists
      BY DEF Init, Absent
<1>. QED BY <1>3, <1>4 DEF ListedOK, Listed

\* A run that ended with status 0 had no trouble.
LEMMA ZeroIsQuiet ==
    ASSUME TInv, Over, me.code = 0 PROVE ~Trouble(me) /\ ~Busy(me)
BY MeFacts DEF Fits, Trouble, Over, Busy

\* What a file that is not being written holds, and since when.
LEMMA RestingFile ==
    ASSUME DiskOK, ~Busy(me), NEW p \in Path
    PROVE  /\ Rests(disk[p])
           /\ disk[p].exists => disk[p].done \/ Excused(p, run[disk[p].last])
           /\ \A b \in Contents(disk[p]) : disk[p].exists /\ disk[p].last = b.run
<1>1. /\ Rests(disk[p])
      /\ disk[p].exists => disk[p].done \/ Excused(p, run[disk[p].last])
      BY DEF DiskOK
<1>2. ~disk[p].exists => Contents(disk[p]) = {}
      BY <1>1 DEF Rests, Contents
<1>. QED BY <1>1, <1>2, WholeReads

(***************************************************************************)
(* A run with status 0 has touched no file but those it reports in         *)
(* written_files, and has touched all of those: whatever earlier runs      *)
(* left.                                                                   *)
(***************************************************************************)
THEOREM NoFileUnreported == Spec => []NoUnreportedFile
<1>1. TInv /\ DiskOK /\ ListedOK => NoUnreportedFile
  <2>1. SUFFICES ASSUME TInv, DiskOK, ListedOK, Over, me.code = 0
                 PROVE  {p \in Path : \E b \in Contents(disk[p]) : b.run = current} = ToSet(me.written)
        BY DEF NoUnreportedFile
  <2>2. ~Trouble(me) /\ ~Busy(me)
        BY <2>1, ZeroIsQuiet
  <2>3. ASSUME NEW p \in Path, NEW b \in Contents(disk[p]), b.run = current
        PROVE  p \in ToSet(me.written)
    <3>1. disk[p].exists /\ disk[p].last = current
          BY <2>1, <2>2, <2>3, RestingFile
    <3>. QED BY <2>1, <2>2, <3>1 DEF ListedOK, Listed
  <2>4. ASSUME NEW p \in ToSet(me.written)
        PROVE  p \in Path /\ \E b \in Contents(disk[p]) : b.run = current
    <3>1. p \in Path /\ disk[p].exists /\ disk[p].last = current
          BY <2>1, <2>4 DEF ListedOK, Listed
    <3>2. \E b \in Body : Contents(disk[p]) = {b} /\ disk[p].last = b.run
          BY <2>1, <2>2, <3>1, RestingFile, WholeReads
    <3>. QED BY <3>1, <3>2
  <2>. QED BY <2>3, <2>4
<1>. QED BY <1>1, InitTInv, InitDisk, InitListed, NextTInv, NextDisk, NextListed, PTL DEF Spec

-----------------------------------------------------------------------------
(***************************************************************************)
(* When each file has a name of its own, the files that a run has written  *)
(* are those of the architectures and turns behind it, each as it wrote it.*)
(***************************************************************************)
FileAt(g, k, i, r) == FileOf(g.args, g.plan[k], i, r)

Past(g, k, i) ==
    k <= Len(g.settled) \/ (k = Len(g.settled) + 1 /\ i < g.next)

\* All that was to be written for the architecture up to this turn.
Finished(g, k, i) ==
    \/ k <= Len(g.settled) /\ g.settled[k].ok
    \/ k = Len(g.settled) + 1 /\ i < g.next

Good(f, b) == f.exists /\ f.done /\ f.open = {} /\ f.bodies = {b}

Placed(g, d, r) ==
    /\ \A p \in ToSet(g.written) : \E k \in DOMAIN g.plan, i \in Turns(g.args) :
          Past(g, k, i) /\ p = FileAt(g, k, i, r).path /\ Good(d[p], FileAt(g, k, i, r).body)
    /\ \A k \in DOMAIN g.plan, i \in Turns(g.args) :
          Finished(g, k, i) => FileAt(g, k, i, r).path \in ToSet(g.written)

PlacedOK ==
    /\ me.args.output = None => me.written = <<>>
    /\ NamesDistinct(me.args) /\ me.args.output # None => Placed(me, disk, current)

\* The file whose turn it is is not among those of the turns behind it.
LEMMA PastIsElsewhere ==
    ASSUME TInv, Working, me.step # "build", MoreFiles, NamesDistinct(me.args),
           NEW k \in DOMAIN me.plan, NEW i \in Turns(me.args), Past(me, k, i)
    PROVE  FileAt(me, k, i, current).path # MyFile.path
<1>. SUFFICES ASSUME FileAt(me, k, i, current).path = MyFile.path PROVE FALSE
     OBVIOUS
<1>0. /\ me.args \in CommandLine /\ Accepted(me.args) /\ me.plan \in Seq(Arch)
      /\ IsInjective(me.plan) /\ MyArch = me.plan[Len(me.settled) + 1] /\ MyArch \in Arch
      /\ Len(me.settled) < Len(me.plan) /\ Len(me.settled) \in Nat /\ me.next \in Nat
      BY MeFacts, WorkingFacts DEF MyArch
<1>1. MyTurn \in Turns(me.args) /\ MyTurn \in Nat /\ MyTurn >= me.next
      BY WritingFacts
<1>2. PathOf(me.args.output, me.plan[k], NameOf(me.args, i))
         = PathOf(me.args.output, MyArch, NameOf(me.args, MyTurn))
      BY DEF FileAt, FileOf, MyFile
<1>3. me.plan[k] \in Arch
      BY <1>0
<1>4. me.plan[k] = MyArch /\ i = MyTurn
  <2>1. \A a, b \in Arch : \A s, t \in Turns(me.args) :
           PathOf(me.args.output, a, NameOf(me.args, s)) = PathOf(me.args.output, b, NameOf(me.args, t))
              => a = b /\ s = t
        BY <1>0, FilesDistinct
  <2>2. MyArch \in Arch /\ MyTurn \in Turns(me.args)
        BY <1>0, <1>1
  <2>. QED BY <1>2, <1>3, <2>1, <2>2, Zenon
<1>5. Len(me.settled) + 1 \in DOMAIN me.plan
      BY <1>0
<1>6. k = Len(me.settled) + 1
      BY <1>0, <1>4, <1>5 DEF IsInjective
<1>7. ~(k <= Len(me.settled)) /\ ~(i < me.next)
      BY <1>0, <1>1, <1>4, <1>6
<1>. QED BY <1>7 DEF Past

\* A fresh run has written nothing.
LEMMA FreshPlaced ==
    ASSUME NEW g, Fresh(g), g.args \in CommandLine, g.plan \in Seq(Arch),
           g.plan # <<>> => Accepted(g.args), NEW d, NEW r
    PROVE  Placed(g, d, r)
<1>1. ToSet(g.written) = {} /\ Len(g.settled) = 0
      BY DEF Fresh, ToSet
<1>2. ASSUME NEW k \in DOMAIN g.plan, NEW i \in Turns(g.args) PROVE ~Finished(g, k, i)
  <2>1. k \in Nat /\ k >= 1 /\ g.plan # <<>>
        OBVIOUS
  <2>2. i \in Nat
        BY <2>1, TurnTypes
  <2>. QED BY <1>1, <2>1, <2>2 DEF Finished, Fresh
<1>. QED BY <1>1, <1>2 DEF Placed

\* What the lemmas below need of a run and two states of the disk: the files
\* behind it are the same in both.
SameBehind(g, d, e, r) ==
    \A k \in DOMAIN g.plan, i \in Turns(g.args) :
       Past(g, k, i) => e[FileAt(g, k, i, r).path] = d[FileAt(g, k, i, r).path]

LEMMA SamePlaced ==
    ASSUME NEW g, NEW h, SamePlace(g, h), NEW d, NEW e, NEW r,
           Placed(g, d, r), SameBehind(g, d, e, r)
    PROVE  Placed(h, e, r)
<1>1. \A k, i : /\ Past(h, k, i) <=> Past(g, k, i)
                /\ Finished(h, k, i) <=> Finished(g, k, i)
                /\ FileAt(h, k, i, r) = FileAt(g, k, i, r)
      BY DEF SamePlace, Past, Finished, FileAt
<1>2. ASSUME NEW p \in ToSet(g.written)
      PROVE  \E k \in DOMAIN g.plan, i \in Turns(g.args) :
                Past(g, k, i) /\ p = FileAt(g, k, i, r).path /\ Good(e[p], FileAt(g, k, i, r).body)
  <2>1. PICK k \in DOMAIN g.plan, i \in Turns(g.args) :
           Past(g, k, i) /\ p = FileAt(g, k, i, r).path /\ Good(d[p], FileAt(g, k, i, r).body)
        BY DEF Placed
  <2>2. e[p] = d[p]
        BY <2>1 DEF SameBehind
  <2>. QED BY <2>1, <2>2
<1>. QED BY <1>1, <1>2 DEF Placed, SamePlace

LEMMA SettlePlaced ==
    ASSUME NEW g, NEW h, NEW ok \in BOOLEAN, Settles(g, h, ok), NEW d, NEW e, NEW r,
           g.settled \in Seq([arch : Arch, ok : BOOLEAN]), g.plan \in Seq(Arch),
           Turns(g.args) \subseteq Nat, g.next \in Nat, g.args.output # None,
           Placed(g, d, r), SameBehind(g, d, e, r)
    PROVE  Placed(h, e, r)
<1>0. PICK n \in Nat : n = Len(g.settled) /\ DOMAIN g.settled = 1..n
      OBVIOUS
<1>1. /\ Len(h.settled) = n + 1
      /\ \A k \in 1..n : h.settled[k] = g.settled[k]
      /\ h.settled[n + 1].ok = ok /\ h.next = 0
      /\ h.args = g.args /\ h.plan = g.plan /\ h.written = g.written
      BY <1>0 DEF Settles
<1>2. DOMAIN g.plan \subseteq Nat \ {0}
      OBVIOUS
<1>3. ASSUME NEW k \in DOMAIN g.plan, NEW i \in Turns(g.args)
      PROVE  /\ Past(g, k, i) => Past(h, k, i)
             /\ Finished(h, k, i) => Finished(g, k, i)
             /\ FileAt(h, k, i, r) = FileAt(g, k, i, r)
  <2>0. k \in Nat \ {0} /\ i \in Nat
        BY <1>2
  <2>1. Past(g, k, i) => Past(h, k, i)
        BY <1>0, <1>1, <2>0 DEF Past
  <2>2. ASSUME Finished(h, k, i) PROVE Finished(g, k, i)
    <3>1. k <= n + 1 /\ h.settled[k].ok
          BY <1>1, <2>0, <2>2 DEF Finished
    <3>2. CASE k <= n
      <4>1. k \in 1..n
            BY <2>0, <3>2
      <4>. QED BY <1>0, <1>1, <3>1, <3>2, <4>1 DEF Finished
    <3>3. CASE ~(k <= n)
      <4>1. k = n + 1
            BY <2>0, <3>1, <3>3
      <4>2. Coming(g) = {}
            BY <1>1, <3>1, <4>1 DEF Settles
      <4>3. i < g.next
            BY <2>0, <4>2 DEF Coming
      <4>. QED BY <1>0, <4>1, <4>3 DEF Finished
    <3>. QED BY <3>2, <3>3
  <2>3. FileAt(h, k, i, r) = FileAt(g, k, i, r)
        BY <1>1 DEF FileAt
  <2>. QED BY <2>1, <2>2, <2>3
<1>4. ASSUME NEW p \in ToSet(g.written)
      PROVE  \E k \in DOMAIN g.plan, i \in Turns(g.args) :
                Past(h, k, i) /\ p = FileAt(h, k, i, r).path /\ Good(e[p], FileAt(h, k, i, r).body)
  <2>1. PICK k \in DOMAIN g.plan, i \in Turns(g.args) :
           Past(g, k, i) /\ p = FileAt(g, k, i, r).path /\ Good(d[p], FileAt(g, k, i, r).body)
        BY DEF Placed
  <2>2. e[p] = d[p]
        BY <2>1 DEF SameBehind
  <2>. QED BY <1>3, <2>1, <2>2
<1>. QED BY <1>1, <1>3, <1>4 DEF Placed

LEMMA ClosePlaced ==
    ASSUME NEW g, NEW h, NEW d, NEW e, NEW r, NEW t \in Turns(g.args), NEW m \in DOMAIN g.plan,
           g.settled \in Seq([arch : Arch, ok : BOOLEAN]), g.plan \in Seq(Arch),
           Turns(g.args) \subseteq Nat, g.next \in Nat, m = Len(g.settled) + 1,
           g.written \in Seq(Path), FileAt(g, m, t, r).path \in Path,
           t >= g.next, \A j \in Turns(g.args) : j >= g.next => t <= j,
           h.args = g.args, h.plan = g.plan, h.settled = g.settled, h.next = t + 1,
           h.written = Append(g.written, FileAt(g, m, t, r).path),
           Good(e[FileAt(g, m, t, r).path], FileAt(g, m, t, r).body),
           Placed(g, d, r), SameBehind(g, d, e, r)
    PROVE  Placed(h, e, r)
<1>. DEFINE new == FileAt(g, m, t, r).path
<1>1. ToSet(h.written) = ToSet(g.written) \cup {new}
      BY AppendSet
<1>2. \A k, i : FileAt(h, k, i, r) = FileAt(g, k, i, r)
      BY DEF FileAt
<1>a. Len(g.settled) \in Nat
      OBVIOUS
<1>b. t \in Nat /\ g.next \in Nat
      OBVIOUS
<1>0. t \in Nat /\ g.next \in Nat /\ Len(g.settled) \in Nat
      BY <1>a, <1>b
<1>3. ASSUME NEW k \in DOMAIN g.plan, NEW i \in Turns(g.args), Past(g, k, i) PROVE Past(h, k, i)
  <2>1. i \in Nat
        OBVIOUS
  <2>2. i < g.next => i < t + 1
        BY <1>0, <2>1
  <2>. QED BY <1>3, <2>2 DEF Past
<1>4. Past(h, m, t)
      BY <1>0 DEF Past
<1>5. ASSUME NEW k \in DOMAIN g.plan, NEW i \in Turns(g.args), Finished(h, k, i)
      PROVE  Finished(g, k, i) \/ (k = m /\ i = t)
  <2>1. i \in Nat
        OBVIOUS
  <2>3. i >= g.next => t <= i
        OBVIOUS
  <2>4. \A a, b, c \in Nat : a < b + 1 => a < c \/ a = b \/ ~(a >= c => b <= a)
        OBVIOUS
  <2>2. i < t + 1 => i < g.next \/ i = t
        BY <1>0, <2>1, <2>3, <2>4, Zenon
  <2>. QED BY <1>5, <2>2 DEF Finished
<1>6. ASSUME NEW p \in ToSet(h.written)
      PROVE  \E k \in DOMAIN g.plan, i \in Turns(g.args) :
                Past(h, k, i) /\ p = FileAt(g, k, i, r).path /\ Good(e[p], FileAt(g, k, i, r).body)
  <2>1. CASE p = new
        BY <1>4, <2>1
  <2>2. CASE p \in ToSet(g.written)
    <3>1. PICK k \in DOMAIN g.plan, i \in Turns(g.args) :
             Past(g, k, i) /\ p = FileAt(g, k, i, r).path /\ Good(d[p], FileAt(g, k, i, r).body)
          BY <2>2 DEF Placed
    <3>2. e[p] = d[p]
          BY <3>1 DEF SameBehind
    <3>. QED BY <1>3, <3>1, <3>2
  <2>. QED BY <1>1, <2>1, <2>2
<1>7. ASSUME NEW k \in DOMAIN g.plan, NEW i \in Turns(g.args), Finished(h, k, i)
      PROVE  FileAt(g, k, i, r).path \in ToSet(h.written)
      BY <1>1, <1>5, <1>7 DEF Placed
<1>8. \A p \in ToSet(h.written) : \E k \in DOMAIN h.plan, i \in Turns(h.args) :
         Past(h, k, i) /\ p = FileAt(h, k, i, r).path /\ Good(e[p], FileAt(h, k, i, r).body)
      BY <1>2, <1>6
<1>9. \A k \in DOMAIN h.plan, i \in Turns(h.args) :
         Finished(h, k, i) => FileAt(h, k, i, r).path \in ToSet(h.written)
      BY <1>2, <1>7
<1>. QED BY <1>8, <1>9 DEF Placed

\* What those lemmas need of a run that has begun.
LEMMA PlaceTypes ==
    ASSUME TInv
    PROVE  /\ me.settled \in Seq([arch : Arch, ok : BOOLEAN]) /\ me.plan \in Seq(Arch)
           /\ me.next \in Nat /\ me.written \in Seq(Path)
           /\ me.plan # <<>> => Accepted(me.args) /\ Turns(me.args) \subseteq Nat
           /\ me.args.output # None =>
                 \A k \in DOMAIN me.plan, i \in Turns(me.args) : FileAt(me, k, i, current).path \in Path
<1>1. me.plan # <<>> => Accepted(me.args)
      BY MeFacts DEF Fits
<1>2. me.plan # <<>> => Turns(me.args) \subseteq Nat
      BY <1>1, MeFacts, TurnTypes
<1>3. ASSUME me.args.output # None, NEW k \in DOMAIN me.plan, NEW i \in Turns(me.args)
      PROVE  FileAt(me, k, i, current).path \in Path
  <2>1. me.plan[k] \in Arch /\ me.plan # <<>>
        BY MeFacts
  <2>. QED BY <1>1, <1>3, <2>1, MeFacts, FileTypes DEF FileAt
<1>. QED BY <1>1, <1>2, <1>3, MeFacts

\* Only the file whose turn it is changes.
LEMMA BehindStays ==
    ASSUME TInv, Working, me.step # "build", MoreFiles, NamesDistinct(me.args),
           \A q \in Path \ {MyFile.path} : disk'[q] = disk[q]
    PROVE  SameBehind(me, disk, disk', current)
<1>1. me.args.output # None
      BY WritingFacts
<1>2. ASSUME NEW k \in DOMAIN me.plan, NEW i \in Turns(me.args), Past(me, k, i)
      PROVE  disk'[FileAt(me, k, i, current).path] = disk[FileAt(me, k, i, current).path]
  <2>1. FileAt(me, k, i, current).path \in Path \ {MyFile.path}
        BY <1>1, <1>2, PlaceTypes, PastIsElsewhere
  <2>. QED BY <2>1
<1>. QED BY <1>2 DEF SameBehind

\* A run that writes has somewhere to write to.
LEMMA NextWritten ==
    ASSUME TInv, PlacedOK, [Next]_vars
    PROVE  (me.args.output = None => me.written = <<>>)'
<1>. DEFINE h == run'[current']
<1>0. me.args.output = None => me.written = <<>>
      BY DEF PlacedOK
<1>. SUFFICES h.args.output = None => h.written = <<>>
     BY DEF me
<1>1. CASE Still
  <2>1. CASE current' = current /\ Moves(me, h)
    <3>1. h.written = me.written
          BY <2>1, MovesKeepWritten
    <3>2. h.args = me.args
          BY <2>1, RunsGrow, MeFacts DEF Grown
    <3>. QED BY <1>0, <3>1, <3>2
  <2>2. CASE current' = current + 1 /\ Fresh(h)
        BY <2>2 DEF Fresh
  <2>. QED BY <1>1, <2>1, <2>2 DEF Still
<1>2. CASE UNCHANGED vars
      BY <1>0, <1>2 DEF vars, me
<1>3. CASE OpenFile
      BY <1>0, <1>3, ToStepEffect DEF OpenFile
<1>4. CASE CloseFile
      BY <1>4, CloseEffect, MeFacts DEF CloseFile, Fits
<1>5. CASE Tears
      BY <1>0, <1>5 DEF Tears, SamePlace, Settles
<1>. QED BY <1>1, <1>2, <1>3, <1>4, <1>5, StepKinds

LEMMA NextPlaced == ASSUME TInv, DiskOK, PlacedOK, [Next]_vars PROVE PlacedOK'
<1>. DEFINE h == run'[current']
<1>. SUFFICES ASSUME NamesDistinct(h.args), h.args.output # None
              PROVE  Placed(h, disk', current')
     BY NextWritten DEF PlacedOK, me
<1>0. /\ me.settled \in Seq([arch : Arch, ok : BOOLEAN]) /\ me.plan \in Seq(Arch)
      /\ me.next \in Nat /\ me.written \in Seq(Path) /\ current \in Run
      /\ MyFile = NowFile(me, current)
      BY PlaceTypes, MeFacts
<1>a. ASSUME current' = current, disk' = disk PROVE SameBehind(me, disk, disk', current')
      BY <1>a DEF SameBehind
<1>b. ASSUME current' = current
      PROVE  /\ h.args = me.args /\ NamesDistinct(me.args) /\ me.args.output # None
             /\ Placed(me, disk, current')
      BY <1>b, RunsGrow, MeFacts DEF Grown, PlacedOK
<1>1. CASE Still
  <2>1. CASE current' = current /\ SamePlace(me, h)
        BY <1>1, <1>a, <1>b, <2>1, SamePlaced DEF Still
  <2>2. ASSUME NEW ok \in BOOLEAN, current' = current, Settles(me, h, ok)
        PROVE  Placed(h, disk', current')
    <3>1. SameBehind(me, disk, disk', current')
          BY <1>1, <1>a, <2>2 DEF Still
    <3>2. CASE me.plan # <<>>
          BY <1>0, <1>b, <2>2, <3>1, <3>2, PlaceTypes, SettlePlaced
    <3>3. CASE me.plan = <<>>
      <4>1. h.plan = <<>> /\ h.written = me.written
            BY <2>2, <3>3 DEF Settles
      <4>2. ToSet(h.written) = {}
            BY <1>b, <2>2, <3>3, <4>1 DEF Placed
      <4>. QED BY <4>1, <4>2 DEF Placed
    <3>. QED BY <3>2, <3>3
  <2>3. CASE Fresh(h)
    <3>1. current' \in Run
          BY <1>0, <1>1 DEF Still
    <3>2. /\ h.args \in CommandLine /\ h.plan \in Seq(Arch) /\ (h.plan # <<>> => Accepted(h.args))
      <4>1. TInv'
            BY NextTInv
      <4>2. h \in RunType /\ Fits(h)
            BY <3>1, <4>1 DEF TInv, TypeOK, RunsOK
      <4>. HIDE DEF h
      <4>. QED BY <4>2 DEF RunType, Fits
    <3>. QED BY <2>3, <3>2, FreshPlaced
  <2>. QED BY <1>1, <2>1, <2>2, <2>3 DEF Still, Moves
<1>2. CASE UNCHANGED vars
  <2>1. disk' = disk /\ current' = current /\ SamePlace(me, h)
        BY <1>2 DEF vars, me, SamePlace
  <2>. QED BY <1>a, <1>b, <2>1, SamePlaced
<1>3. CASE OpenFile
  <2>1. current' = current /\ SamePlace(me, h)
        BY <1>3, ToStepEffect DEF OpenFile, SamePlace
  <2>2. Working /\ me.step # "build" /\ MoreFiles
        BY <1>3 DEF OpenFile
  <2>3. \A q \in Path \ {MyFile.path} : disk'[q] = disk[q]
        BY <1>3, OpenDisk
  <2>4. SameBehind(me, disk, disk', current')
        BY <1>b, <2>1, <2>2, <2>3, BehindStays
  <2>. QED BY <1>b, <2>1, <2>4, SamePlaced
<1>4. CASE CloseFile
  <2>1. /\ current' = current /\ Working /\ me.step = "writing" /\ MoreFiles /\ Busy(me)
        /\ MyFile.path \in Path /\ MyFile.body \in Body
        /\ disk'[MyFile.path] = Closed(disk[MyFile.path], current)
        /\ \A q \in Path \ {MyFile.path} : disk'[q] = disk[q]
        BY <1>4, CloseDisk, BusyFacts DEF CloseFile, Busy, Working
  <2>2. SameBehind(me, disk, disk', current')
        BY <1>b, <2>1, BehindStays
  <2>3. MyFile = FileAt(me, Len(me.settled) + 1, MyTurn, current)
        BY DEF MyFile, FileAt, MyArch
  <2>4. MyFile.body.run = current /\ Held(disk[MyFile.path], current, MyFile.body)
        BY <1>0, <2>1 DEF DiskOK, MyFile, FileOf
  <2>5. Good(disk'[MyFile.path], MyFile.body)
    <3>1. disk[MyFile.path] \in OutputFileType
          BY <2>1 DEF TInv, TypeOK
    <3>. QED BY <1>0, <2>1, <2>4, <3>1, LeftRests DEF Good, Rests
  <2>6. /\ h.args = me.args /\ h.plan = me.plan /\ h.settled = me.settled
        /\ h.next = MyTurn + 1 /\ h.written = Append(me.written, MyFile.path)
        BY <1>4, <2>1, CloseEffect
  <2>7. /\ MyTurn \in Turns(me.args) /\ MyTurn >= me.next
        /\ \A j \in Turns(me.args) : j >= me.next => MyTurn <= j
        BY <2>1, WritingFacts
  <2>8. Len(me.settled) + 1 \in DOMAIN me.plan /\ me.plan # <<>>
        BY <1>0, <2>1 DEF Working
  <2>9. Turns(me.args) \subseteq Nat
        BY <2>8, PlaceTypes
  <2>. DEFINE m == Len(me.settled) + 1
              file == FileAt(me, m, MyTurn, current)
  <2>a. /\ file.path \in Path /\ h.written = Append(me.written, file.path)
        /\ Good(disk'[file.path], file.body)
        BY <2>1, <2>3, <2>5, <2>6
  <2>b. Placed(me, disk, current) /\ SameBehind(me, disk, disk', current)
        BY <1>b, <2>1, <2>2
  <2>. HIDE DEF h
  <2>c. Placed(h, disk', current)
        BY <1>0, <2>6, <2>7, <2>8, <2>9, <2>a, <2>b, ClosePlaced
  <2>. QED BY <2>1, <2>c
<1>5. CASE Tears
  <2>1. /\ current' = current /\ Working /\ me.step = "writing" /\ MoreFiles
        /\ \A q \in Path \ {MyFile.path} : disk'[q] = disk[q]
        BY <1>5, TornDisk, BusyFacts DEF Tears
  <2>2. SameBehind(me, disk, disk', current')
        BY <1>b, <2>1, BehindStays
  <2>3. CASE SamePlace(me, h)
        BY <1>b, <2>1, <2>2, <2>3, SamePlaced
  <2>4. CASE Settles(me, h, FALSE)
    <3>1. me.plan # <<>>
          BY <1>0, <2>1 DEF Working
    <3>. QED BY <1>0, <1>b, <2>1, <2>2, <2>4, <3>1, PlaceTypes, SettlePlaced
  <2>. QED BY <1>5, <2>1, <2>3, <2>4 DEF Tears
<1>. QED BY <1>1, <1>2, <1>3, <1>4, <1>5, StepKinds

LEMMA InitPlaced == ASSUME Init PROVE PlacedOK
<1>1. TInv
      BY InitTInv
<1>2. \E args \in CommandLine : run[current] = NotStarted(args)
      BY <1>1 DEF Init, TInv, TypeOK
<1>3. Fresh(me) /\ me.written = <<>> /\ me.plan = <<>>
      BY <1>2 DEF me, NotStarted, Fresh
<1>4. Placed(me, disk, current)
      BY <1>1, <1>3, MeFacts, FreshPlaced
<1>. QED BY <1>3, <1>4 DEF PlacedOK

\* Whatever is good can be read, and reads as what was written.
LEMMA GoodReads ==
    ASSUME NEW f, NEW b, Good(f, b) PROVE Contents(f) = {b} /\ Reads(f) = {b}
<1>1. {o[2] : o \in {}} = {}
      OBVIOUS
<1>2. Contents(f) = {b}
  <2>1. {o[2] : o \in f.open} = {}
        BY <1>1 DEF Good
  <2>. QED BY <2>1 DEF Contents, Good
<1>. QED BY <1>2 DEF Reads, Good

(***************************************************************************)
(* The files a run reports as written are whole and its own, also when it  *)
(* fails or is killed later on, if its files have names of their own; and  *)
(* whatever their names are when it ends with status 0.                    *)
(***************************************************************************)
THEOREM ReportedAsWritten == Spec => []WrittenFilesWhole
<1>1. TInv /\ DiskOK /\ ListedOK /\ PlacedOK => WrittenFilesWhole
  <2>1. SUFFICES ASSUME TInv, DiskOK, ListedOK, PlacedOK, Over,
                        me.code = 0 \/ NamesDistinct(me.args), NEW p \in ToSet(me.written)
                 PROVE  \E b \in Contents(disk[p]) : Reads(disk[p]) = {b} /\ b.run = current
        BY DEF WrittenFilesWhole
  <2>2. p \in Path /\ disk[p].exists /\ disk[p].last = current
        BY <2>1 DEF ListedOK, Listed
  <2>3. CASE me.code = 0
    <3>1. ~Trouble(me) /\ ~Busy(me)
          BY <2>1, <2>3, ZeroIsQuiet
    <3>2. disk[p].done
          BY <2>1, <2>2, <3>1, RestingFile DEF Excused, Trouble, me
    <3>. QED BY <2>1, <2>2, <3>1, <3>2, RestingFile, WholeReads
  <2>4. CASE NamesDistinct(me.args)
    <3>1. me.args.output # None
      <4>1. ToSet(<<>>) = {}
            BY DEF ToSet
      <4>. QED BY <2>1, <4>1 DEF PlacedOK
    <3>2. Placed(me, disk, current)
          BY <2>1, <2>4, <3>1 DEF PlacedOK
    <3>3. PICK k \in DOMAIN me.plan, i \in Turns(me.args) :
             Good(disk[p], FileAt(me, k, i, current).body)
          BY <2>1, <3>2 DEF Placed
    <3>4. FileAt(me, k, i, current).body.run = current
          BY DEF FileAt, FileOf
    <3>. QED BY <3>3, <3>4, GoodReads
  <2>. QED BY <2>1, <2>3, <2>4
<1>. QED BY <1>1, InitTInv, InitDisk, InitListed, InitPlaced, NextTInv, NextDisk, NextListed,
            NextPlaced, PTL DEF Spec

(***************************************************************************)
(* When every file has a name of its own, each selected category of each   *)
(* architecture that succeeded can be read back from a file that the run   *)
(* reports: neither --merge nor --combine, nor the failure of another      *)
(* architecture, nor what earlier runs left, loses one.                    *)
(***************************************************************************)
THEOREM SelectedAreKept == Spec => []SelectedSurvive
<1>1. TInv /\ PlacedOK => SelectedSurvive
  <2>1. SUFFICES ASSUME TInv, PlacedOK, Over, me.args.output # None, NamesDistinct(me.args),
                        NEW n \in DOMAIN me.settled \ Failures(current),
                        NEW c \in ToSet(me.args.selected)
                 PROVE  Survives(me.settled[n].arch, c)
        BY DEF SelectedSurvive
  <2>2. /\ n \in Nat /\ n <= Len(me.settled) /\ n \in DOMAIN me.plan
        /\ me.settled[n].ok /\ me.settled[n].arch = me.plan[n]
        /\ me.plan # <<>> /\ me.plan \in Seq(Arch) /\ me.args \in CommandLine
        /\ me.plan[n] \in Arch
    <3>1. /\ me.settled \in Seq([arch : Arch, ok : BOOLEAN]) /\ me.plan \in Seq(Arch)
          /\ Len(me.settled) <= Len(me.plan) /\ me.args \in CommandLine
          /\ \A i \in DOMAIN me.settled : me.settled[i].arch = me.plan[i]
          BY <2>1, MeFacts DEF Fits
    <3>2. n \in Nat /\ n <= Len(me.settled) /\ n \in DOMAIN me.plan
          BY <3>1
    <3>3. me.settled[n].ok
          BY <2>1 DEF Failures, me
    <3>. QED BY <3>1, <3>2, <3>3
  <2>3. Accepted(me.args)
        BY <2>1, <2>2, PlaceTypes
  <2>4. PICK t \in Turns(me.args) : c \in CategoriesOf(me.args, t)
        BY <2>2, <2>3, EveryCategoryHasTurn
  <2>. DEFINE p == FileAt(me, n, t, current).path
  <2>5. Placed(me, disk, current)
        BY <2>1 DEF PlacedOK
  <2>6. Finished(me, n, t)
        BY <2>2 DEF Finished
  <2>7. p \in ToSet(me.written)
        BY <2>2, <2>5, <2>6 DEF Placed
  <2>8. PICK k \in DOMAIN me.plan, i \in Turns(me.args) :
           p = FileAt(me, k, i, current).path /\ Good(disk[p], FileAt(me, k, i, current).body)
        BY <2>5, <2>7 DEF Placed
  <2>9. me.plan[n] = me.plan[k] /\ t = i
    <3>1. PathOf(me.args.output, me.plan[n], NameOf(me.args, t))
             = PathOf(me.args.output, me.plan[k], NameOf(me.args, i))
          BY <2>8 DEF FileAt, FileOf
    <3>2. me.plan[k] \in Arch
          BY <2>2
    <3>3. \A a, b \in Arch : \A s, u \in Turns(me.args) :
             PathOf(me.args.output, a, NameOf(me.args, s)) = PathOf(me.args.output, b, NameOf(me.args, u))
                => a = b /\ s = u
          BY <2>1, <2>2, <2>3, FilesDistinct
    <3>4. me.plan[n] \in Arch
          BY <2>2
    <3>5. t \in Turns(me.args) /\ i \in Turns(me.args)
          OBVIOUS
    <3>. HIDE DEF p
    <3>6. \A s, u \in Turns(me.args) :
             PathOf(me.args.output, me.plan[n], NameOf(me.args, s))
                = PathOf(me.args.output, me.plan[k], NameOf(me.args, u))
                => me.plan[n] = me.plan[k] /\ s = u
          BY <3>2, <3>3, <3>4, Zenon
    <3>. QED BY <3>1, <3>5, <3>6
  <2>. DEFINE b == [arch |-> me.plan[n], categories |-> CategoriesOf(me.args, t), run |-> current]
  <2>10. FileAt(me, k, i, current).body = b
        BY <2>9 DEF FileAt, FileOf
  <2>11. Contents(disk[p]) = {b} /\ Reads(disk[p]) = {b}
        BY <2>8, <2>10, GoodReads
  <2>12. b.arch = me.settled[n].arch /\ c \in b.categories /\ b.run = current
        BY <2>2, <2>4
  <2>. HIDE DEF p, b
  <2>. QED BY <2>7, <2>11, <2>12 DEF Survives
<1>. QED BY <1>1, InitTInv, InitDisk, InitPlaced, NextTInv, NextDisk, NextPlaced, PTL DEF Spec
=============================================================================
