------------------------------ MODULE Dispatch ------------------------------
(***************************************************************************)
(* td run, td smoke, cpp run and cpp smoke: invocations of the command     *)
(* line, any number at a time, each of which spawns the scraper script     *)
(* once per architecture and waits for it.  The script (run_td_scrape, or  *)
(* main of scrape_cpp.py) checks the architecture's directory, lists and   *)
(* parses its files and writes one inventory.  Invocations share the       *)
(* output files and the LLVM tree, and neither is locked: the tree may be  *)
(* updated, and any process may be killed, at every point.                 *)
(***************************************************************************)
EXTENDS Integers, Sequences, SequencesExt, FiniteSets

CONSTANTS
    Inv,            \* invocations
    Others,         \* processes of other commands that write the same files
    Architectures,  \* ARCHITECTURES, in the order of the tuple
    ByName,         \* the same in sorted() order
    OutDir,         \* the directories that --output and --output-dir name
    Mirror,         \* the one of them inside TD-Scrape/
    Mix,            \* the command lines the invocations are started with
    Leftover,       \* sets of paths that hold an inventory from before
    MaxVersion,     \* bound on updates of the LLVM tree
    MaxFaults,      \* bound on processes that fail or are killed
    None, Nobody, Invalid

Arch == ToSet(Architectures)
Kind == {"td", "cpp"}

ASSUME ArchitecturesAssumption ==
    Architectures \in Seq(Arch) /\ IsInjective(Architectures)
ASSUME ByNameAssumption == ToSet(ByName) = Arch /\ IsInjective(ByName)
ASSUME BoundAssumption == MaxVersion \in Nat \ {0, 1} /\ MaxFaults \in Nat
ASSUME OutDirAssumption == Mirror \in OutDir /\ "output" \notin OutDir
ASSUME KeywordsAssumption == {"ALL", "found"} \cap Arch = {}

\* Where "output" stands for <repo>/output/<arch>/<kind>_inventory.json, and
\* a directory d for d/<arch>.json (td) or d/<arch>.cpp.json (cpp).
Path == (OutDir \cup {"output"}) \X Arch \X Kind

\* A command line: run takes an --output file, smoke an --output-dir.
Job ==
    [command : {"run"}, kind : Kind, select : Arch \cup {"ALL"}, output : Path \cup {None}]
    \cup [command : {"smoke"}, kind : Kind, select : Arch \cup {"ALL", "found"}, output : OutDir]

ASSUME NoneAssumption == None \notin Path
ASSUME MixAssumption == Mix \subseteq [Inv -> Job]

\* What a file holds: an inventory, or the payload that grab writes to files of
\* the same name; and the update of the tree it was taken from.
Absence == 0
Earlier == 1
First == 2
Version == Absence..MaxVersion
Body == [kind : Kind \cup {"grab"}, arch : Arch, ver : Version]

INSTANCE OutputFile WITH Writer <- Inv \cup Others

ASSUME InvalidAssumption == Invalid \notin Body
ASSUME NobodyAssumption == Nobody \notin Inv \cup Others
ASSUME LeftoverAssumption == Leftover \subseteq SUBSET Path

VARIABLES
    root,     \* whether the LLVM root directory exists
    scripts,  \* the scraper scripts that are installed
    tree,     \* the version of each architecture's directory, or Absence
    latest,   \* the last version the tree was updated to
    disk,     \* the output files
    inv,      \* the invocations
    child,    \* the script each invocation has spawned last
    faults    \* how many processes have failed or been killed

vars == <<root, scripts, tree, latest, disk, inv, child, faults>>

-----------------------------------------------------------------------------
JobOf(v) == inv[v].job

\* _default_td_output, _default_cpp_output and the out_path of a smoke test
OutPath(job, a) ==
    CASE job.command = "smoke" -> <<job.output, a, job.kind>>
      [] job.output = None -> <<"output", a, job.kind>>
      [] OTHER -> job.output

\* _resolve_output_path accepts it.
Resolves(job) ==
    job.output # None =>
       Mirror # (IF job.command = "smoke" THEN job.output ELSE job.output[1])

AllWithOutput(job) == job.command = "run" /\ job.select = "ALL" /\ job.output # None

Before(a, b) ==
    \E i, j \in DOMAIN ByName : i < j /\ ByName[i] = a /\ ByName[j] = b

\* _scan_arch_dirs: the directories that are there, sorted by name.
Found ==
    {p \in BoundedSeq(Arch, Cardinality(Arch)) :
        /\ ToSet(p) = {a \in Arch : tree[a] # Absence}
        /\ IsInjective(p)
        /\ \A i, j \in DOMAIN p : i < j => Before(p[i], p[j])}

\* The architectures the command goes over.
PlansOf(job) ==
    CASE job.select = "ALL" -> {Architectures}
      [] job.select = "found" -> Found
      [] OTHER -> {<<job.select>>}

ScansMissingRoot(job) == job.select = "found" /\ ~root

\* A return code, as the exit status the caller of the program sees.
FaultyExitStatus(rc) == rc
ExitStatus(rc) == rc % 256

Idle(job) ==
    [job |-> job, phase |-> "idle", plan |-> <<>>, settled |-> <<>>, rc |-> 0, code |-> 0]

NoChild ==
    [phase |-> "none", arch |-> None, path |-> None, since |-> Absence, body |-> None, rc |-> 0]

Init ==
    /\ root \in BOOLEAN
    /\ scripts \in SUBSET Kind
    /\ tree \in [Arch -> IF root THEN {Absence, First} ELSE {Absence}]
    /\ latest = First
    /\ \E mix \in Mix :
          /\ inv = [v \in Inv |-> Idle(mix[v])]
          /\ \E old \in Leftover :
                disk = [p \in Path |-> IF p \in old
                                       THEN Old([kind |-> p[3], arch |-> p[2], ver |-> Earlier])
                                       ELSE Absent]
    /\ child = [v \in Inv |-> NoChild]
    /\ faults = 0

Ends(v, code) == inv' = [inv EXCEPT ![v].phase = "over", ![v].code = code]

-----------------------------------------------------------------------------
(***************************************************************************)
(* The parent.                                                             *)
(***************************************************************************)
Refuses(job) ==
    \/ job.kind \notin scripts
    \/ ~ScansMissingRoot(job) /\ (AllWithOutput(job) \/ ~Resolves(job))

Refuse(v) ==
    /\ inv[v].phase = "idle"
    /\ Refuses(JobOf(v))
    /\ Ends(v, 2)
    /\ UNCHANGED <<root, scripts, tree, latest, disk, child, faults>>

\* _scan_arch_dirs of a root that is not there: iterdir raises, nobody catches.
ScanRaises(v) ==
    /\ inv[v].phase = "idle"
    /\ JobOf(v).kind \in scripts
    /\ ScansMissingRoot(JobOf(v))
    /\ Ends(v, 1)
    /\ UNCHANGED <<root, scripts, tree, latest, disk, child, faults>>

Begin(v) ==
    /\ inv[v].phase = "idle"
    /\ ~Refuses(JobOf(v)) /\ ~ScansMissingRoot(JobOf(v))
    /\ \E p \in PlansOf(JobOf(v)) :
          inv' = [inv EXCEPT ![v].phase = "running", ![v].plan = p]
    /\ UNCHANGED <<root, scripts, tree, latest, disk, child, faults>>

Settled(v) == Len(inv[v].settled)
Current(v) == inv[v].plan[Settled(v) + 1]
Waiting(v) == inv[v].phase = "running" /\ Settled(v) < Len(inv[v].plan)

Spawn(v) ==
    /\ Waiting(v)
    /\ child[v].phase = "none"
    /\ child' = [child EXCEPT ![v] =
          [phase |-> "check", arch |-> Current(v), path |-> OutPath(JobOf(v), Current(v)),
           since |-> tree[Current(v)], body |-> None, rc |-> 0]]
    /\ UNCHANGED <<root, scripts, tree, latest, disk, inv, faults>>

\* Goes on while the script is still writing.
FaultyFinished(v) == child[v].phase \in {"writing", "exited"}

\* subprocess.run returns when the script has exited.
Finished(v) == child[v].phase = "exited"

\* The return code is not looked at.
FaultySucceeded(rc) == TRUE
Succeeded(rc) == rc = 0

Row(v, ok, why, ver) ==
    [arch |-> Current(v), ok |-> ok, why |-> why, ver |-> ver, since |-> child[v].since]

Reports(v, row) ==
    inv' = [inv EXCEPT ![v].settled = Append(@, row), ![v].rc = child[v].rc]

\* The file is read and decoded outside the try block.
FaultyReadBack(v, r) ==
    IF r = Invalid \/ r.kind # JobOf(v).kind
    THEN Ends(v, 1)
    ELSE Reports(v, Row(v, TRUE, "ok", r.ver))

(***************************************************************************)
(* A smoke test reads the inventory back.  What has no summary fails the   *)
(* architecture.  The counters are taken from the summary after the try    *)
(* block: those of the other kind of inventory are missing there, and the  *)
(* KeyError ends the program.                                              *)
(***************************************************************************)
HasSummary(r) == r # Invalid /\ r.kind \in Kind

ReadBack(v, r) ==
    CASE ~HasSummary(r) -> Reports(v, Row(v, FALSE, "readback", Absence))
      [] HasSummary(r) /\ r.kind = JobOf(v).kind -> Reports(v, Row(v, TRUE, "ok", r.ver))
      [] HasSummary(r) /\ r.kind # JobOf(v).kind -> Ends(v, 1)

Settle(v) ==
    /\ Waiting(v)
    /\ Finished(v)
    /\ IF ~Succeeded(child[v].rc)
       THEN Reports(v, Row(v, FALSE, "child", Absence))
       ELSE IF JobOf(v).command = "smoke"
            THEN \E r \in Reads(disk[child[v].path]) : ReadBack(v, r)
            ELSE Reports(v, Row(v, TRUE, "ok", Absence))
    /\ child' = [child EXCEPT ![v] = NoChild]
    /\ UNCHANGED <<root, scripts, tree, latest, disk, faults>>

Failures(v) == {i \in DOMAIN inv[v].settled : ~inv[v].settled[i].ok}

\* Only the last architecture counts.
FaultyExitCode(v) == ExitStatus(inv[v].rc)

\* run of one architecture passes the script's code on, the others give 1 or 0.
ExitCode(v) ==
    IF JobOf(v).command = "run" /\ JobOf(v).select # "ALL"
    THEN ExitStatus(inv[v].rc)
    ELSE IF Failures(v) # {} THEN 1 ELSE 0

\* With nothing to do the command waits.
FaultyConclude(v) ==
    /\ inv[v].phase = "running"
    /\ inv[v].plan # <<>>
    /\ Settled(v) = Len(inv[v].plan)
    /\ Ends(v, ExitCode(v))
    /\ UNCHANGED <<root, scripts, tree, latest, disk, child, faults>>

Conclude(v) ==
    /\ inv[v].phase = "running"
    /\ Settled(v) = Len(inv[v].plan)
    /\ Ends(v, ExitCode(v))
    /\ UNCHANGED <<root, scripts, tree, latest, disk, child, faults>>

-----------------------------------------------------------------------------
(***************************************************************************)
(* The script.                                                             *)
(***************************************************************************)
ToPhase(v, phase) == child' = [child EXCEPT ![v].phase = phase]
Exits(v, rc) == child' = [child EXCEPT ![v].phase = "exited", ![v].rc = rc]

\* source_root.is_dir()
ChildCheck(v) ==
    /\ child[v].phase = "check"
    /\ IF tree[child[v].arch] = Absence THEN Exits(v, 1) ELSE ToPhase(v, "list")
    /\ UNCHANGED <<root, scripts, tree, latest, disk, inv, faults>>

(***************************************************************************)
(* source_root.rglob(...) and the parsing of what it found.  If the        *)
(* directory has gone since it was checked, rglob gives nothing, or raises *)
(* when it goes while rglob looks.                                         *)
(***************************************************************************)
ChildList(v) ==
    LET a == child[v].arch
    IN /\ child[v].phase = "list"
       /\ \/ child' = [child EXCEPT ![v].phase = "write",
                ![v].body = [kind |-> JobOf(v).kind, arch |-> a, ver |-> tree[a]]]
          \/ tree[a] = Absence /\ Exits(v, 1)
       /\ UNCHANGED <<root, scripts, tree, latest, disk, inv, faults>>

ChildOpen(v) ==
    /\ child[v].phase = "write"
    /\ disk' = [disk EXCEPT ![child[v].path] = Opened(@, v, child[v].body)]
    /\ ToPhase(v, "writing")
    /\ UNCHANGED <<root, scripts, tree, latest, inv, faults>>

ChildClose(v) ==
    /\ child[v].phase = "writing"
    /\ disk' = [disk EXCEPT ![child[v].path] = Closed(@, v)]
    /\ Exits(v, 0)
    /\ UNCHANGED <<root, scripts, tree, latest, inv, faults>>

\* An error while writing is swallowed.
FaultyRcOfFault(v) == IF child[v].phase = "writing" THEN {0} ELSE {1, -9}

\* 1: an exception nobody catches.  -9: subprocess's code for SIGKILL.
RcOfFault(v) == {1, -9}

ChildFails(v) ==
    /\ faults < MaxFaults
    /\ child[v].phase \in {"check", "list", "write", "writing"}
    /\ \E rc \in RcOfFault(v) : Exits(v, rc)
    /\ disk' = IF child[v].phase = "writing"
               THEN [disk EXCEPT ![child[v].path] = Abandoned(@, v)]
               ELSE disk
    /\ faults' = faults + 1
    /\ UNCHANGED <<root, scripts, tree, latest, inv>>

ChildStep(v) == ChildCheck(v) \/ ChildList(v) \/ ChildOpen(v) \/ ChildClose(v) \/ ChildFails(v)

-----------------------------------------------------------------------------
(***************************************************************************)
(* The environment.                                                        *)
(***************************************************************************)
\* The parent is killed (status 128 + 9); the script it waits for runs on.
KillParent(v) ==
    /\ faults < MaxFaults
    /\ inv[v].phase = "running"
    /\ Ends(v, 137)
    /\ faults' = faults + 1
    /\ UNCHANGED <<root, scripts, tree, latest, disk, child>>

\* A directory of the LLVM tree is replaced by another version, or removed.
UpdateTree(a) ==
    /\ root
    /\ latest < MaxVersion
    /\ latest' = latest + 1
    /\ \E ver \in {Absence, latest + 1} : tree' = [tree EXCEPT ![a] = ver]
    /\ UNCHANGED <<root, scripts, disk, inv, child, faults>>

ParentStep(v) ==
    Refuse(v) \/ ScanRaises(v) \/ Begin(v) \/ Spawn(v) \/ Settle(v) \/ Conclude(v)

Next ==
    \/ \E v \in Inv : ParentStep(v) \/ ChildStep(v) \/ KillParent(v)
    \/ \E a \in Arch : UpdateTree(a)

(***************************************************************************)
(* Each process is run until it ends.  Nothing makes the tree change or a  *)
(* process be killed.                                                      *)
(***************************************************************************)
Fairness == \A v \in Inv : WF_vars(ParentStep(v)) /\ WF_vars(ChildStep(v))

Spec == Init /\ [][Next]_vars /\ Fairness

-----------------------------------------------------------------------------
RowType ==
    [arch : Arch, ok : BOOLEAN, why : {"ok", "child", "readback"}, ver : Version, since : Version]

ChildType ==
    [phase : {"none", "check", "list", "write", "writing", "exited"},
     arch : Arch \cup {None}, path : Path \cup {None}, since : Version,
     body : Body \cup {None}, rc : {0, 1, -9}]

InvType ==
    [job : Job, phase : {"idle", "running", "over"}, plan : Seq(Arch),
     settled : Seq(RowType), rc : {0, 1, -9}, code : 0..255]

\* Types of the state; an exit status is a byte.
TypeOK ==
    /\ root \in BOOLEAN
    /\ scripts \subseteq Kind
    /\ tree \in [Arch -> Version]
    /\ latest \in Version
    /\ disk \in [Path -> OutputFileType]
    /\ inv \in [Inv -> InvType]
    /\ child \in [Inv -> ChildType]
    /\ faults \in 0..MaxFaults

(***************************************************************************)
(* The four commands keep the promise of ArchBatch, whatever becomes of    *)
(* the scripts, the tree and the output files.                             *)
(***************************************************************************)
Batch == INSTANCE ArchBatch WITH
    phase <- [v \in Inv |-> inv[v].phase],
    plan <- [v \in Inv |-> inv[v].plan],
    settled <- [v \in Inv |-> [i \in DOMAIN inv[v].settled |->
                   [arch |-> inv[v].settled[i].arch, ok |-> inv[v].settled[i].ok]]],
    verdict <- [v \in Inv |-> inv[v].code]

ImplementsBatch == Batch!Spec

\* The files an invocation may write, whatever the tree looks like, and the
\* architectures it would write to one of them.
Scope(job) == IF job.select \in Arch THEN {job.select} ELSE Arch
Targets(v) == {OutPath(JobOf(v), a) : a \in Scope(JobOf(v))}
ArchsAt(v, p) == {a \in Scope(JobOf(v)) : OutPath(JobOf(v), a) = p}

Sharing(v, p) == {u \in Inv \ {v} : p \in Targets(u)}

PathOfRow(v, i) == OutPath(JobOf(v), inv[v].settled[i].arch)

(***************************************************************************)
(* An OK row of a smoke test reports the inventory its own script made:    *)
(* one not older than the tree was when the script was spawned (or, if the *)
(* directory went away meanwhile, an empty one), never one left over from  *)
(* before; unless another invocation writes the same file.                 *)
(***************************************************************************)
OkRowFresh ==
    \A v \in Inv : \A i \in DOMAIN inv[v].settled :
       LET row == inv[v].settled[i]
       IN JobOf(v).command = "smoke" /\ row.ok /\ Sharing(v, PathOfRow(v, i)) = {} =>
             row.ver = Absence \/ row.ver >= row.since

(***************************************************************************)
(* A smoke test fails an architecture for what it reads back only when     *)
(* another invocation writes the same file: with files of its own, a       *)
(* script that returned 0 has left a whole inventory.                      *)
(***************************************************************************)
ReadbackFailsOnlyIfShared ==
    \A v \in Inv : \A i \in DOMAIN inv[v].settled :
       inv[v].settled[i].why = "readback" => Sharing(v, PathOfRow(v, i)) # {}

(***************************************************************************)
(* Once the root is there, the loop dies of a traceback only when an       *)
(* invocation of the other kind writes the same file: the lookups that     *)
(* cmd_td_smoke and cmd_cpp_smoke make outside their try blocks succeed    *)
(* on whatever the invocation's own script writes.                         *)
(***************************************************************************)
TracebackOnlyOnForeignFile ==
    \A v \in Inv :
       /\ inv[v].phase = "over" /\ inv[v].code = 1
       /\ Settled(v) < Len(inv[v].plan)
       => \E u \in Sharing(v, OutPath(JobOf(v), Current(v))) : JobOf(u).kind # JobOf(v).kind

AtRest(u) == inv[u].phase = "over" /\ child[u].phase = "none"

\* Nobody else writes p, or all who do have succeeded, for the same architecture,
\* on one version of the tree and with the same script.
Undisturbed(v, p) ==
    \/ Sharing(v, p) = {}
    \/ /\ latest = First
       /\ \A u \in Sharing(v, p) :
             /\ AtRest(u) /\ inv[u].code = 0
             /\ JobOf(u).kind = JobOf(v).kind /\ ArchsAt(u, p) = ArchsAt(v, p)

(***************************************************************************)
(* Status 0 means the inventories are there: each planned architecture's   *)
(* file is whole, and of that architecture and kind.  That holds also for  *)
(* concurrent runs of the same command that overwrite each other, as long  *)
(* as all of them succeed and see the same tree.                           *)
(***************************************************************************)
SuccessLeavesInventory ==
    \A v \in Inv : inv[v].phase = "over" /\ inv[v].code = 0 =>
       \A i \in DOMAIN inv[v].plan :
          LET p == OutPath(JobOf(v), inv[v].plan[i])
          IN Undisturbed(v, p) =>
                \E b \in Body :
                   /\ Reads(disk[p]) = {b}
                   /\ b.kind = JobOf(v).kind /\ b.arch = inv[v].plan[i]

(***************************************************************************)
(* Every invocation comes to an end, and no script is left behind: neither *)
(* a failing script nor the death of a parent keeps anyone waiting.        *)
(***************************************************************************)
AllEnd ==
    \A v \in Inv : <>[](inv[v].phase = "over" /\ child[v].phase \in {"none", "exited"})

(***************************************************************************)
(* GUIDE.md, "Exit Codes and Failure Semantics": "2: invalid root path or  *)
(* missing scraper script path".                                           *)
(***************************************************************************)
ExitTwoOnBadRoot ==
    \A v \in Inv : inv[v].phase = "over" /\ ~root => inv[v].code = 2
=============================================================================
