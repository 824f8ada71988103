------------------------------- MODULE GrabCmd -------------------------------
(***************************************************************************)
(* grab --all, grab --arch and arch verify.  Each scans the LLVM root once *)
(* and decides by what it finds there.  grab builds the payload of an      *)
(* architecture in its own process and then writes <arch>.json in place;   *)
(* --all goes on after a failure and counts it, --arch ends with status 2. *)
(* The root, the tree and the files may be changed by others meanwhile.    *)
(***************************************************************************)
EXTENDS Integers, Sequences, SequencesExt, FiniteSets

CONSTANTS
    Grabs,          \* invocations
    Others,         \* processes of other commands that write the same files
    Architectures,  \* ARCHITECTURES, in the order of the tuple
    ByName,         \* the same in sorted() order
    OutDir,         \* the directories --output names
    Here,           \* the one of them that is the repository
    Mirror,         \* the one inside TD-Scrape/
    Dotted,         \* those whose name has a suffix
    WrongSuffix,    \* an --output that names a file of another suffix than .json
    GrabMix,        \* the command lines the invocations are started with
    MaxVersion,     \* bound on updates of the LLVM tree
    MaxFaults,      \* bound on exceptions and kills
    None, Nobody, Invalid

Arch == ToSet(Architectures)

\* d/<arch>.json ("td") and d/<arch>.cpp.json ("cpp"), as in Dispatch.
Path == (OutDir \cup {"output"}) \X Arch \X {"td", "cpp"}

Job ==
    [command : {"all"}, arch : {None}, output : OutDir \cup {None}]
    \cup [command : {"arch"}, arch : Arch, output : Path \cup {WrongSuffix, None}]
    \cup [command : {"verify"}, arch : {None}, output : {None}]

ASSUME GrabNamesAssumption ==
    /\ ToSet(ByName) = Arch /\ IsInjective(ByName)
    /\ {Here, Mirror} \subseteq OutDir /\ Here # Mirror /\ Dotted \subseteq OutDir \ {Here}
    /\ None \notin Arch \cup OutDir \cup Path /\ WrongSuffix \notin Path \cup {None}
ASSUME GrabBoundAssumption == MaxVersion \in Nat \ {0, 1} /\ MaxFaults \in Nat
ASSUME GrabMixAssumption == GrabMix \subseteq [Grabs -> Job]
ASSUME WritersAssumption == Grabs \cap Others = {} /\ Nobody \notin Grabs \cup Others

Absence == 0
First == 2
Version == Absence..MaxVersion
Body == [kind : {"td", "cpp", "grab"}, arch : Arch, ver : Version]

INSTANCE OutputFile WITH Writer <- Grabs \cup Others

VARIABLES
    root,     \* whether the LLVM root directory exists
    tree,     \* the version of each architecture's directory, or Absence
    latest,   \* the last version the tree was updated to
    disk,     \* the output files
    grab,     \* the invocations
    faults    \* how many exceptions and kills there have been

grabVars == <<root, tree, latest, disk, grab, faults>>

-----------------------------------------------------------------------------
GrabJob(v) == grab[v].job

\* _default_grab_output, below --output or the repository
GrabPath(job, a) ==
    CASE job.command = "all" -> <<IF job.output = None THEN Here ELSE job.output, a, "td">>
      [] job.command = "arch" /\ job.output = None -> <<Here, a, "td">>
      [] OTHER -> job.output

InMirror(job) ==
    IF job.command = "arch"
    THEN job.output \in Path /\ job.output[1] = Mirror
    ELSE job.output = Mirror

ComesBefore(a, b) ==
    \E i, j \in DOMAIN ByName : i < j /\ ByName[i] = a /\ ByName[j] = b

\* _scan_arch_dirs: the directories that are there, sorted by name.
Present == {a \in Arch : tree[a] # Absence}
FoundByName ==
    {p \in BoundedSeq(Arch, Cardinality(Arch)) :
        /\ ToSet(p) = Present
        /\ IsInjective(p)
        /\ \A i, j \in DOMAIN p : i < j => ComesBefore(p[i], p[j])}

IdleGrab(job) ==
    [job |-> job, phase |-> "idle", plan |-> <<>>, settled |-> <<>>, step |-> "check",
     since |-> Absence, body |-> None, code |-> 0]

GrabInit ==
    \E mix \in GrabMix : grab = [v \in Grabs |-> IdleGrab(mix[v])]

GrabEnds(v, code) == grab' = [grab EXCEPT ![v].phase = "over", ![v].code = code]

-----------------------------------------------------------------------------
(***************************************************************************)
(* The scan.                                                               *)
(***************************************************************************)
CheckRoot(v) ==
    /\ grab[v].phase = "idle"
    /\ IF root THEN grab' = [grab EXCEPT ![v].phase = "rooted"] ELSE GrabEnds(v, 2)
    /\ UNCHANGED <<root, tree, latest, disk, faults>>

\* The difference is taken the wrong way round.
FaultyMissing(found) == found \ Arch
Missing(found) == Arch \ found

\* For arch verify it is the last step.
Verify(v) ==
    /\ GrabJob(v).command = "verify"
    /\ GrabEnds(v, IF Missing(Present) = {} THEN 0 ELSE 1)

\* grab --all: the ValueError of _resolve_output_path is not caught.
PlanAll(v) ==
    LET job == GrabJob(v)
    IN /\ job.command = "all"
       /\ CASE InMirror(job) -> GrabEnds(v, 1)
            [] ~InMirror(job) /\ (job.output \in Dotted \/ Present = {}) -> GrabEnds(v, 2)
            [] OTHER -> \E found \in FoundByName :
                  grab' = [grab EXCEPT ![v].phase = "running", ![v].plan = found]

\* grab --arch: it is caught.
PlanOne(v) ==
    LET job == GrabJob(v)
    IN /\ job.command = "arch"
       /\ IF job.arch \notin Present \/ InMirror(job)
          THEN GrabEnds(v, 2)
          ELSE grab' = [grab EXCEPT ![v].phase = "running", ![v].plan = <<job.arch>>]

\* The root has gone since it was checked: iterdir raises, nobody catches.
Scan(v) ==
    /\ grab[v].phase = "rooted"
    /\ IF root THEN Verify(v) \/ PlanAll(v) \/ PlanOne(v) ELSE GrabEnds(v, 1)
    /\ UNCHANGED <<root, tree, latest, disk, faults>>

-----------------------------------------------------------------------------
(***************************************************************************)
(* The loop over architectures; --arch goes through it once.               *)
(***************************************************************************)
GrabCurrent(v) == grab[v].plan[Len(grab[v].settled) + 1]
GrabFile(v) == GrabPath(GrabJob(v), GrabCurrent(v))
GrabWorking(v) == grab[v].phase = "running" /\ Len(grab[v].settled) < Len(grab[v].plan)
AtStep(v, step) == GrabWorking(v) /\ grab[v].step = step

\* Ends the turn of the current architecture.
TurnEnds(v, why) ==
    grab' = [grab EXCEPT
        ![v].settled = Append(@, [arch |-> GrabCurrent(v), ok |-> why = "ok", why |-> why,
                                  body |-> grab[v].body, since |-> grab[v].since]),
        ![v].step = "check", ![v].since = Absence, ![v].body = None]

\* source_root.is_dir()
CheckArch(v) ==
    /\ AtStep(v, "check")
    /\ IF tree[GrabCurrent(v)] = Absence
       THEN TurnEnds(v, "payload")
       ELSE grab' = [grab EXCEPT ![v].step = "build", ![v].since = tree[GrabCurrent(v)]]
    /\ UNCHANGED <<root, tree, latest, disk, faults>>

\* What could not be built is written all the same.
FaultyBuild(v) ==
    LET a == GrabCurrent(v)
    IN /\ AtStep(v, "build")
       /\ \/ grab' = [grab EXCEPT ![v].step = "write",
                ![v].body = [kind |-> "grab", arch |-> a, ver |-> tree[a]]]
          \/ tree[a] = Absence /\ grab' = [grab EXCEPT ![v].step = "write"]
       /\ UNCHANGED <<root, tree, latest, disk, faults>>

\* The file is opened before the payload is built.
FaultyOpenFirst(v) ==
    LET a == GrabCurrent(v)
        body == [kind |-> "grab", arch |-> a, ver |-> tree[a]]
    IN /\ AtStep(v, "build")
       /\ \/ grab' = [grab EXCEPT ![v].step = "write", ![v].body = body] /\ UNCHANGED disk
          \/ /\ tree[a] = Absence /\ TurnEnds(v, "payload")
             /\ GrabFile(v) # WrongSuffix
             /\ disk' = [disk EXCEPT ![GrabFile(v)] = Abandoned(Opened(@, v, body), v)]
       /\ UNCHANGED <<root, tree, latest, faults>>

(***************************************************************************)
(* _parse_arch_records and the grouping.  A directory that has gone gives  *)
(* an empty payload, or an exception if it goes while rglob looks.         *)
(***************************************************************************)
Build(v) ==
    LET a == GrabCurrent(v)
    IN /\ AtStep(v, "build")
       /\ \/ grab' = [grab EXCEPT ![v].step = "write",
                ![v].body = [kind |-> "grab", arch |-> a, ver |-> tree[a]]]
          \/ tree[a] = Absence /\ TurnEnds(v, "payload")
       /\ UNCHANGED <<root, tree, latest, disk, faults>>

\* The suffix is checked before the file is opened.
OpenGrab(v) ==
    /\ AtStep(v, "write")
    /\ IF GrabFile(v) = WrongSuffix
       THEN TurnEnds(v, "write") /\ UNCHANGED disk
       ELSE /\ disk' = [disk EXCEPT ![GrabFile(v)] = Opened(@, v, grab[v].body)]
            /\ grab' = [grab EXCEPT ![v].step = "writing"]
    /\ UNCHANGED <<root, tree, latest, faults>>

CloseGrab(v) ==
    /\ AtStep(v, "writing")
    /\ disk' = [disk EXCEPT ![GrabFile(v)] = Closed(@, v)]
    /\ TurnEnds(v, "ok")
    /\ UNCHANGED <<root, tree, latest, faults>>

\* What becomes of the file when the process stops writing it.
LeaveFile(v) ==
    disk' = IF AtStep(v, "writing")
            THEN [disk EXCEPT ![GrabFile(v)] = Abandoned(@, v)]
            ELSE disk

\* The file is taken for written.
FaultyWhyRaised(v) == IF grab[v].step = "writing" THEN "ok" ELSE "payload"

WhyRaised(v) == IF grab[v].step = "build" THEN "payload" ELSE "write"

(***************************************************************************)
(* build_grab_payload or write_grab_payload raises.  A text that cannot be *)
(* decoded is one reason, a full disk another.                             *)
(***************************************************************************)
Raises(v) ==
    /\ faults < MaxFaults
    /\ GrabWorking(v) /\ grab[v].step # "check"
    /\ TurnEnds(v, WhyRaised(v))
    /\ LeaveFile(v)
    /\ faults' = faults + 1
    /\ UNCHANGED <<root, tree, latest>>

GrabFailures(v) == {i \in DOMAIN grab[v].settled : ~grab[v].settled[i].ok}

\* The counter is reset in each turn.
FaultyGrabStatus(v) ==
    IF ~Last(grab[v].settled).ok THEN 1 ELSE 0

GrabStatus(v) ==
    CASE GrabFailures(v) = {} -> 0
      [] GrabFailures(v) # {} /\ GrabJob(v).command = "all" -> 1
      [] OTHER -> 2

ConcludeGrab(v) ==
    /\ grab[v].phase = "running"
    /\ Len(grab[v].settled) = Len(grab[v].plan)
    /\ GrabEnds(v, GrabStatus(v))
    /\ UNCHANGED <<root, tree, latest, disk, faults>>

\* A failed --all stops at the first failure, and waits.
FaultyGrabStep(v) ==
    \/ CheckRoot(v) \/ Scan(v)
    \/ GrabFailures(v) = {} /\ (CheckArch(v) \/ Build(v) \/ OpenGrab(v) \/ CloseGrab(v))
    \/ Raises(v) \/ ConcludeGrab(v)

GrabStep(v) ==
    \/ CheckRoot(v) \/ Scan(v)
    \/ CheckArch(v) \/ Build(v) \/ OpenGrab(v) \/ CloseGrab(v) \/ Raises(v)
    \/ ConcludeGrab(v)

-----------------------------------------------------------------------------
\* The process is killed; nothing goes on after it.
KillGrab(v) ==
    /\ faults < MaxFaults
    /\ grab[v].phase \in {"rooted", "running"}
    /\ GrabEnds(v, 137)
    /\ LeaveFile(v)
    /\ faults' = faults + 1
    /\ UNCHANGED <<root, tree, latest>>

\* The whole LLVM root goes away.
RemoveRoot ==
    /\ root
    /\ latest < MaxVersion
    /\ root' = FALSE
    /\ tree' = [a \in Arch |-> Absence]
    /\ latest' = latest + 1
    /\ UNCHANGED <<disk, grab, faults>>

\* A directory of it is replaced by another version, or removed.
UpdateArch(a) ==
    /\ root
    /\ latest < MaxVersion
    /\ latest' = latest + 1
    /\ \E ver \in {Absence, latest + 1} : tree' = [tree EXCEPT ![a] = ver]
    /\ UNCHANGED <<root, disk, grab, faults>>

Environment == RemoveRoot \/ \E a \in Arch : UpdateArch(a)

-----------------------------------------------------------------------------
GrabRow ==
    [arch : Arch, ok : BOOLEAN, why : {"ok", "payload", "write"}, body : Body \cup {None},
     since : Version]

GrabType ==
    [job : Job, phase : {"idle", "rooted", "running", "over"}, plan : Seq(Arch),
     settled : Seq(GrabRow), step : {"check", "build", "write", "writing"},
     since : Version, body : Body \cup {None}, code : 0..255]

GrabTypeOK ==
    /\ root \in BOOLEAN
    /\ tree \in [Arch -> Version]
    /\ latest \in Version
    /\ disk \in [Path -> OutputFileType]
    /\ grab \in [Grabs -> GrabType]
    /\ faults \in 0..MaxFaults

(***************************************************************************)
(* What is left when the verdict is ArchBatch's: arch verify goes over     *)
(* nothing, and the step from idle to rooted is no step of the promise.    *)
(***************************************************************************)
IsGrab(v) == GrabJob(v).command # "verify"

GrabBatch == INSTANCE ArchBatch WITH
    Inv <- Grabs,
    phase <- [v \in Grabs |->
                IF IsGrab(v) /\ grab[v].phase # "rooted" THEN grab[v].phase ELSE "idle"],
    plan <- [v \in Grabs |-> grab[v].plan],
    settled <- [v \in Grabs |-> [i \in DOMAIN grab[v].settled |->
                   [arch |-> grab[v].settled[i].arch, ok |-> grab[v].settled[i].ok]]],
    verdict <- [v \in Grabs |-> IF IsGrab(v) THEN grab[v].code ELSE 0]

GrabImplementsBatch == GrabBatch!Spec

\* The files a grab may write, whatever the tree looks like.
GrabTargets(v) ==
    LET job == GrabJob(v)
    IN CASE job.command = "all" -> {GrabPath(job, a) : a \in Arch}
         [] job.command = "arch" -> {GrabPath(job, job.arch)}
         [] OTHER -> {}

(***************************************************************************)
(* The payload is built before its file is opened: an architecture that    *)
(* grab could not build has the file that was there before.                *)
(***************************************************************************)
FailureKeepsOldFile ==
    \A v \in Grabs : \A i \in DOMAIN grab[v].settled :
       LET row == grab[v].settled[i]
           p == GrabPath(GrabJob(v), row.arch)
       IN row.why = "payload" /\ p \in Path => disk[p].last # v

(***************************************************************************)
(* arch verify is a prediction of grab --all: on a tree that has not been  *)
(* updated, grab goes over all of ARCHITECTURES exactly if verify gives 0. *)
(* Both are told the same thing by two scans of their own.                 *)
(***************************************************************************)
VerifyPredictsPlan ==
    \A v, u \in Grabs :
       /\ latest = First
       /\ GrabJob(v).command = "verify" /\ grab[v].phase = "over" /\ grab[v].code \in {0, 1}
       /\ GrabJob(u).command = "all" /\ grab[u].plan # <<>>
       => (grab[v].code = 0 <=> ToSet(grab[u].plan) = ToSet(ByName))
=============================================================================
