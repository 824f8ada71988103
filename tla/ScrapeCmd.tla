------------------------------ MODULE ScrapeCmd ------------------------------
(***************************************************************************)
(* The scrape command: the rules its arguments must meet, the loop over    *)
(* architectures that scrapes the selected categories in this process,     *)
(* and the files it writes for each, one per category, one for all of them *)
(* (--merge), or one for some and one per remaining category (--combine).  *)
(* A file is overwritten in place, so a run that fails or is killed leaves *)
(* what it has done, on top of what earlier runs left.                     *)
(***************************************************************************)
EXTENDS Integers, Sequences, SequencesExt, FiniteSets

CONSTANTS
    Architectures,  \* ARCHITECTURES, in the order of the tuple
    Categories,     \* SCRAPE_CATEGORY_NAMES, in the order of the tuple
    Combinable,     \* COMBINABLE_SCRAPE_CATEGORIES
    FileName,       \* file names
    Absolute,       \* those that are absolute paths
    Dir,            \* the directories --output names
    Mirror,         \* one inside TD-Scrape/, which is refused
    CommandLine,    \* the arguments runs are given
    MaxRuns,        \* bound on runs, one after the other
    MaxFaults,      \* bound on writes that fail and runs that are killed
    None, Nobody, Invalid

Arch == ToSet(Architectures)
Category == ToSet(Categories)
Run == 1..MaxRuns

(***************************************************************************)
(* A file name is the sequence of its words: <<c>> is c.json for a         *)
(* category c, and <<c, d>> the C-D.json that --combine c,d chooses.       *)
(***************************************************************************)
ASSUME ArchitecturesAssumption ==
    Architectures \in Seq(Arch) /\ IsInjective(Architectures) /\ "ALL" \notin Arch
ASSUME CategoriesAssumption == IsInjective(Categories) /\ Combinable \subseteq Category
ASSUME NamesAssumption ==
    /\ {<<c>> : c \in Category} \cup {<<"Collection">>} \subseteq FileName \ Absolute
    /\ \A args \in CommandLine :
          args.combine \in Seq(Combinable) \ {<<>>} => args.combine \in FileName \ Absolute
ASSUME MirrorAssumption == {Mirror, None, "/"} \cap Dir = {} /\ None \notin Arch
ASSUME BoundAssumption == MaxRuns \in Nat \ {0} /\ MaxFaults \in Nat

\* <output>/<arch>/<name>; an absolute name replaces all of it.
Path == (Dir \X Arch \X (FileName \ Absolute)) \cup ({"/"} \X {None} \X Absolute)
PathOf(dir, a, name) == IF name \in Absolute THEN <<"/", None, name>> ELSE <<dir, a, name>>

\* What a file holds: the categories of an architecture, scraped by a run.
Body == [arch : Arch, categories : SUBSET Category, run : Run]

INSTANCE OutputFile WITH Writer <- Run

ASSUME InvalidAssumption == Invalid \notin Body

\* A command line, as argparse and the splitting of --combine leave it.
Args ==
    [selected : Seq(Category), merge : FileName \cup {None}, combine : Seq(STRING) \cup {None},
     combineFile : FileName \cup {None}, output : Dir \cup {Mirror, None}, arch : Arch \cup {"ALL"}]

\* _selected_scrape_categories goes through the tuple of the categories once.
ASSUME CommandLineAssumption ==
    CommandLine \subseteq Args /\ \A args \in CommandLine : IsInjective(args.selected)

VARIABLES
    tree,     \* the architectures that have a directory in the LLVM tree
    disk,     \* the output files
    run,      \* the runs
    current,  \* the last run that was started
    faults    \* how many writes have failed and runs have been killed

vars == <<tree, disk, run, current, faults>>

-----------------------------------------------------------------------------
(***************************************************************************)
(* The arguments.  combine is the list _parse_csv_categories makes of      *)
(* --combine, or None without that option; "," gives the empty list.       *)
(***************************************************************************)
CombineOf(args) == IF args.combine = None THEN <<>> ELSE args.combine

FaultyMissing(args) == {}
Missing(args) == ToSet(CombineOf(args)) \ ToSet(args.selected)

CombineRefused(args) ==
    LET combine == CombineOf(args)
    IN /\ combine # <<>>
       /\ \/ ~(ToSet(combine) \subseteq Combinable)
          \/ Missing(args) # {}
          \/ Len(combine) < 2

Refused(args) ==
    \/ args.selected = <<>>
    \/ args.merge # None /\ args.combine # None
    \/ args.combineFile # None /\ args.combine = None
    \/ CombineRefused(args)
    \/ /\ args.merge # None \/ CombineOf(args) # <<>> \/ args.combineFile # None
       /\ args.output = None

PlanOf(args) == IF args.arch = "ALL" THEN Architectures ELSE <<args.arch>>

(***************************************************************************)
(* The files written for an architecture.  Each has its turn: at 0 the one *)
(* that --merge or --combine makes of several categories, then at i the    *)
(* one of the i-th selected category.  With --merge there are no others,   *)
(* and with --combine the loop continues past the categories combined.     *)
(***************************************************************************)
\* --combine leaves out what it does not combine.
FaultyTurns(args) ==
    IF args.merge # None \/ CombineOf(args) # <<>> THEN {0} ELSE DOMAIN args.selected

Turns(args) ==
    LET combine == CombineOf(args)
    IN CASE args.merge # None -> {0}
         [] args.merge = None /\ combine # <<>> ->
               {0} \cup {i \in DOMAIN args.selected : args.selected[i] \notin ToSet(combine)}
         [] OTHER -> DOMAIN args.selected

CategoriesOf(args, i) ==
    CASE i # 0 -> {args.selected[i]}
      [] i = 0 /\ args.merge # None -> ToSet(args.selected)
      [] OTHER -> ToSet(CombineOf(args))

NameOf(args, i) ==
    CASE i # 0 -> <<args.selected[i]>>
      [] i = 0 /\ args.merge # None -> args.merge
      [] i = 0 /\ args.merge = None /\ args.combineFile # None -> args.combineFile
      [] OTHER -> CombineOf(args)

FileOf(args, a, i, r) ==
    [path |-> PathOf(args.output, a, NameOf(args, i)),
     body |-> [arch |-> a, categories |-> CategoriesOf(args, i), run |-> r]]

\* categories[name] of a category that was not scraped.
LookupRaises(r) ==
    LET args == run[r].args
    IN args.merge = None /\ ~(ToSet(CombineOf(args)) \subseteq ToSet(args.selected))

-----------------------------------------------------------------------------
NotStarted(args) ==
    [args |-> args, phase |-> "idle", plan |-> <<>>, settled |-> <<>>, step |-> "build",
     next |-> 0, written |-> <<>>, code |-> 0]

Init ==
    /\ tree \in SUBSET Arch
    /\ disk = [p \in Path |-> Absent]
    /\ run \in [Run -> {NotStarted(args) : args \in CommandLine}]
    /\ current = 1
    /\ faults = 0

me == run[current]
MyArch == me.plan[Len(me.settled) + 1]
Working == me.phase = "running" /\ Len(me.settled) < Len(me.plan)

Ends(code) == run' = [run EXCEPT ![current].phase = "over", ![current].code = code]

\* The next run is started when this one is over, maybe on another tree.
NextRun ==
    /\ current < MaxRuns
    /\ me.phase = "over"
    /\ current' = current + 1
    /\ tree' \in SUBSET Arch
    /\ UNCHANGED <<disk, run, faults>>

Refuse ==
    /\ me.phase = "idle"
    /\ Refused(me.args)
    /\ Ends(2)
    /\ UNCHANGED <<tree, disk, current, faults>>

\* _resolve_output_path raises a ValueError that nobody catches.
ResolveRaises ==
    /\ me.phase = "idle"
    /\ ~Refused(me.args)
    /\ me.args.output = Mirror
    /\ Ends(1)
    /\ UNCHANGED <<tree, disk, current, faults>>

Begin ==
    /\ me.phase = "idle"
    /\ ~Refused(me.args)
    /\ me.args.output # Mirror
    /\ run' = [run EXCEPT ![current].phase = "running", ![current].plan = PlanOf(me.args)]
    /\ UNCHANGED <<tree, disk, current, faults>>

SettleWith(ok) ==
    run' = [run EXCEPT ![current].settled = Append(@, [arch |-> MyArch, ok |-> ok]),
                       ![current].step = "build",
                       ![current].next = 0]

(***************************************************************************)
(* build_scrape_payload: all categories are scraped before any is written. *)
(***************************************************************************)
Build ==
    /\ Working
    /\ me.step = "build"
    /\ IF MyArch \notin tree \/ (me.args.output # None /\ LookupRaises(current))
       THEN SettleWith(FALSE)
       ELSE IF me.args.output = None
            THEN SettleWith(TRUE)
            ELSE run' = [run EXCEPT ![current].step = "write"]
    /\ UNCHANGED <<tree, disk, current, faults>>

\* The turns that are still to come, and the first of them.
ToCome == {i \in Turns(me.args) : i >= me.next}
MoreFiles == ToCome # {}
MyTurn == CHOOSE i \in ToCome : \A j \in ToCome : i <= j
MyFile == FileOf(me.args, MyArch, MyTurn, current)

\* The file being written, left as it is.
Torn == [disk EXCEPT ![MyFile.path] = Abandoned(@, current)]

\* _write_json
OpenFile ==
    /\ Working
    /\ me.step = "write" /\ MoreFiles
    /\ disk' = [disk EXCEPT ![MyFile.path] = Opened(@, current, MyFile.body)]
    /\ run' = [run EXCEPT ![current].step = "writing"]
    /\ UNCHANGED <<tree, current, faults>>

\* An error of the last write is lost.
FaultyCloseFile ==
    /\ Working
    /\ me.step = "writing"
    /\ disk' = Torn
    /\ run' = [run EXCEPT ![current].step = "write",
                          ![current].next = MyTurn + 1,
                          ![current].written = Append(@, MyFile.path)]
    /\ UNCHANGED <<tree, current, faults>>

CloseFile ==
    /\ Working
    /\ me.step = "writing"
    /\ disk' = [disk EXCEPT ![MyFile.path] = Closed(@, current)]
    /\ run' = [run EXCEPT ![current].step = "write",
                          ![current].next = MyTurn + 1,
                          ![current].written = Append(@, MyFile.path)]
    /\ UNCHANGED <<tree, current, faults>>

ArchDone ==
    /\ Working
    /\ me.step = "write" /\ ~MoreFiles
    /\ SettleWith(TRUE)
    /\ UNCHANGED <<tree, disk, current, faults>>

\* The exception is handled per file, and its architecture not counted.
FaultyWriteFails ==
    /\ Working
    /\ faults < MaxFaults
    /\ me.step \in {"write", "writing"} /\ MoreFiles
    /\ disk' = IF me.step = "writing" THEN Torn ELSE disk
    /\ SettleWith(TRUE)
    /\ faults' = faults + 1
    /\ UNCHANGED <<tree, current>>

(***************************************************************************)
(* A file cannot be opened, or not written to the end: the architecture    *)
(* has failed, its remaining files are not written, the loop goes on.      *)
(***************************************************************************)
WriteFails ==
    /\ Working
    /\ faults < MaxFaults
    /\ me.step \in {"write", "writing"} /\ MoreFiles
    /\ disk' = IF me.step = "writing" THEN Torn ELSE disk
    /\ SettleWith(FALSE)
    /\ faults' = faults + 1
    /\ UNCHANGED <<tree, current>>

\* The process is killed (status 128 + 9).
Kill ==
    /\ faults < MaxFaults
    /\ me.phase = "running"
    /\ disk' = IF me.step = "writing" THEN Torn ELSE disk
    /\ Ends(137)
    /\ faults' = faults + 1
    /\ UNCHANGED <<tree, current>>

Failures(r) == {i \in DOMAIN run[r].settled : ~run[r].settled[i].ok}

\* Returns the number of failures, negated.
FaultyFailureCount(r) == -Cardinality(Failures(r))

\* Succeeds when one architecture does.
FaultyExitCode(r) == IF Failures(r) = DOMAIN run[r].settled THEN 1 ELSE 0
ExitCode(r) == IF Failures(r) # {} THEN 1 ELSE 0

\* Nothing is reported, and the run hangs, when an architecture has failed.
FaultyReport ==
    /\ me.phase = "running"
    /\ Len(me.settled) = Len(me.plan)
    /\ Failures(current) = {}
    /\ Ends(ExitCode(current))
    /\ UNCHANGED <<tree, disk, current, faults>>

\* The report is the last thing the run does.
Report ==
    /\ me.phase = "running"
    /\ Len(me.settled) = Len(me.plan)
    /\ Ends(ExitCode(current))
    /\ UNCHANGED <<tree, disk, current, faults>>

Own ==
    \/ Refuse \/ ResolveRaises \/ Begin \/ Build
    \/ OpenFile \/ CloseFile \/ ArchDone \/ Report

Next == Own \/ WriteFails \/ Kill \/ NextRun

\* A started run goes on until it ends; nothing makes it fail or start.
Spec == Init /\ [][Next]_vars /\ WF_vars(Own)

-----------------------------------------------------------------------------
RunType ==
    [args : CommandLine, phase : {"idle", "running", "over"}, plan : Seq(Arch),
     settled : Seq([arch : Arch, ok : BOOLEAN]), step : {"build", "write", "writing"},
     next : Nat, written : Seq(Path), code : 0..255]

\* Types of the state.
TypeOK ==
    /\ tree \subseteq Arch
    /\ disk \in [Path -> OutputFileType]
    /\ run \in [Run -> RunType]
    /\ current \in Run
    /\ faults \in 0..MaxFaults

(***************************************************************************)
(* scrape keeps the promise of ArchBatch, whatever fails.                  *)
(***************************************************************************)
Batch == INSTANCE ArchBatch WITH
    Inv <- Run,
    phase <- [r \in Run |-> run[r].phase],
    plan <- [r \in Run |-> run[r].plan],
    settled <- [r \in Run |-> run[r].settled],
    verdict <- [r \in Run |-> run[r].code]

ImplementsBatch == Batch!Spec

\* Each file of the run has a name of its own.
NamesDistinct(args) ==
    LET separate == ToSet(args.selected) \ ToSet(CombineOf(args))
    IN /\ {args.merge, args.combineFile} \cap Absolute = {}
       /\ args.combineFile \notin {<<c>> : c \in separate}

\* The current run is over, however it ended.
Over == me.phase = "over"

(***************************************************************************)
(* The files a run reports as written are whole and its own, also when it  *)
(* fails or is killed later on.  Without names of their own, this takes a  *)
(* run without failures: a later architecture may overwrite the file of an *)
(* earlier one, and break it.                                              *)
(***************************************************************************)
WrittenFilesWhole ==
    Over /\ (me.code = 0 \/ NamesDistinct(me.args)) =>
       \A p \in ToSet(me.written) :
          \E b \in Contents(disk[p]) : Reads(disk[p]) = {b} /\ b.run = current

(***************************************************************************)
(* A run with status 0 has touched no file but those it reports in         *)
(* written_files.                                                          *)
(***************************************************************************)
NoUnreportedFile ==
    Over /\ me.code = 0 =>
       {p \in Path : \E b \in Contents(disk[p]) : b.run = current} = ToSet(me.written)

(***************************************************************************)
(* A file that cannot be read back is being written, or the run that wrote *)
(* it last was killed or counts a failed architecture: the architecture    *)
(* whose directory the file is in.                                         *)
(***************************************************************************)
TornIsReported ==
    \A p \in Path : disk[p].exists /\ ~Whole(disk[p]) =>
       LET r == disk[p].last
       IN \/ r = current /\ me.step = "writing" /\ MyFile.path = p
          \/ run[r].code = 137
          \/ \E i \in Failures(r) : p[2] \in {run[r].settled[i].arch, None}

\* Category c of architecture a can be found in a file the run reports.
Survives(a, c) ==
    \E p \in ToSet(me.written) : \E b \in Contents(disk[p]) :
       /\ Reads(disk[p]) = {b}
       /\ b.arch = a /\ c \in b.categories /\ b.run = current

(***************************************************************************)
(* When every file has a name of its own, each selected category of each   *)
(* architecture that succeeded is in a file of this run: neither --merge   *)
(* nor --combine, nor the failure of another architecture, loses one.      *)
(***************************************************************************)
SelectedSurvive ==
    Over /\ me.args.output # None /\ NamesDistinct(me.args) =>
       \A i \in DOMAIN me.settled \ Failures(current) :
          \A c \in ToSet(me.args.selected) : Survives(me.settled[i].arch, c)

(***************************************************************************)
(* GUIDE.md 5.4, of --combine: "combine only selected subset categories    *)
(* into one file".  When a run has succeeded there is such a file for each *)
(* architecture, whatever --combine-file is called.                        *)
(***************************************************************************)
CombinedInOneFile ==
    Over /\ me.code = 0 /\ CombineOf(me.args) # <<>> =>
       \A i \in DOMAIN me.settled :
          \E p \in ToSet(me.written) : \E b \in Contents(disk[p]) :
             /\ Reads(disk[p]) = {b}
             /\ b.arch = me.settled[i].arch /\ b.run = current
             /\ ToSet(CombineOf(me.args)) \subseteq b.categories

(***************************************************************************)
(* An architecture fails only because its directory is missing or a write  *)
(* failed: once the arguments are accepted, no lookup of a category can    *)
(* miss.                                                                   *)
(***************************************************************************)
FailuresHaveCause ==
    \A i \in Failures(current) : me.settled[i].arch \notin tree \/ faults > 0

(***************************************************************************)
(* cmd_scrape's message "--combine requires at least two categories".      *)
(***************************************************************************)
CombineNeedsTwo ==
    me.phase = "running" /\ CombineOf(me.args) # <<>> =>
       Cardinality(ToSet(CombineOf(me.args))) >= 2

\* A run that has been started ends, whichever architectures or files fail.
AllEnd == \A r \in Run : current = r ~> run[r].phase = "over"
=============================================================================
