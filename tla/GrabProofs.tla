------------------------------ MODULE GrabProofs ------------------------------
(***************************************************************************)
(* The types of SharedOutput; that grab, verify and the td and cpp         *)
(* commands all keep the promise of ArchBatch while they interfere; and    *)
(* what they promise about the files they share: for any number of         *)
(* invocations, architectures, faults and updates.  What concerns Dispatch *)
(* is taken from the modules about it: the other commands only change      *)
(* what it lets change at any time.                                        *)
(***************************************************************************)
EXTENDS SharedOutput, FiniteSetTheorems, TLAPS

\* Dispatch as in SharedOutput, with the theorems about it.
DP == INSTANCE DispatchProofs WITH Others <- Grabs, Mix <- {t.dispatch : t \in Together}

-----------------------------------------------------------------------------
DispatchAssumptions ==
    /\ DP!ArchitecturesAssumption /\ DP!ByNameAssumption /\ DP!BoundAssumption
    /\ DP!OutDirAssumption /\ DP!KeywordsAssumption /\ DP!NoneAssumption
    /\ DP!MixAssumption /\ DP!InvalidAssumption /\ DP!LeftoverAssumption
    /\ DP!NobodyAssumption

\* The sets both components are about are the same.
LEMMA SameSets ==
    /\ DP!Arch = Arch /\ DP!Kind = {"td", "cpp"} /\ DP!Path = Path
    /\ DP!Version = Version /\ DP!Body = Body /\ DP!OutputFileType = OutputFileType
<1>1. DP!Arch = Arch /\ DP!Kind = {"td", "cpp"}
      BY Zenon DEF Arch, DP!Arch, ToSet, DP!ToSet, DP!Kind
<1>2. DP!Path = Path
      BY <1>1, Zenon DEF Path, DP!Path
<1>3. DP!Version = Version /\ DP!Body = Body
      BY <1>1 DEF Body, DP!Body, DP!Kind, Version, DP!Version, Absence, DP!Absence
<1>4. Inv \cup Grabs = Grabs \cup Others
      BY TogetherAssumption
<1>5. DP!OutputFileType = OutputFileType
      BY <1>3, <1>4 DEF OutputFileType, DP!OutputFileType
<1>. QED BY <1>1, <1>2, <1>3, <1>5

\* Dispatch's assumptions hold here.
LEMMA AssumptionsHold == DispatchAssumptions
<1>1. DP!ArchitecturesAssumption
      BY SameSets, DispatchAssumption DEF IsInjective, DP!IsInjective
<1>2. DP!ByNameAssumption
      BY SameSets, GrabNamesAssumption, Zenon DEF IsInjective, DP!IsInjective, ToSet, DP!ToSet
<1>3. DP!BoundAssumption
      BY GrabBoundAssumption
<1>4. DP!OutDirAssumption
      BY DispatchAssumption, GrabNamesAssumption
<1>5. DP!KeywordsAssumption
      BY SameSets, DispatchAssumption
<1>6. DP!NoneAssumption
      BY SameSets, GrabNamesAssumption
<1>7. DP!MixAssumption
  <2>1. D!Job = DP!Job
        BY Zenon DEF D!Job, DP!Job, D!Path, DP!Path, D!Arch, DP!Arch, D!Kind, DP!Kind,
                     D!ToSet, DP!ToSet
  <2>. QED BY <2>1, TogetherAssumption
<1>8. DP!InvalidAssumption
      BY SameSets, DispatchAssumption
<1>9. DP!LeftoverAssumption
      BY SameSets, DispatchAssumption
<1>10. DP!NobodyAssumption
      BY WritersAssumption, TogetherAssumption
<1>. QED
     BY <1>1, <1>2, <1>3, <1>4, <1>5, <1>6, <1>7, <1>8, <1>9, <1>10 DEF DispatchAssumptions

\* A step of Dispatch keeps its invariant and is a step of its promise.
LEMMA DispatchNext ==
    DP!IInv /\ [DP!Next]_(DP!vars) => DP!IInv' /\ [DP!Batch!Next]_(DP!Batch!vars)
BY DP!NextIInv, DP!StepIsBatchStep, AssumptionsHold DEF DispatchAssumptions

-----------------------------------------------------------------------------
\* The initial states are the same.
LEMMA SameInit == D!Init => DP!Init
BY Zenon DEF D!Init, DP!Init, D!Kind, DP!Kind, D!Arch, DP!Arch, D!ToSet, DP!ToSet,
             D!Absence, DP!Absence, D!First, DP!First, D!Earlier, DP!Earlier,
             D!Idle, DP!Idle, D!NoChild, DP!NoChild, D!Path, DP!Path,
             D!Old, DP!Old, D!Absent, DP!Absent

LEMMA DispatchInit == D!Init => DP!IInv /\ DP!Batch!Init
BY SameInit, DP!InitIInv, DP!InitIsBatchInit, AssumptionsHold DEF DispatchAssumptions

\* The steps of Dispatch are the same.
LEMMA SameSteps ==
    ASSUME NEW v \in Inv
    PROVE  /\ D!ParentStep(v) => DP!ParentStep(v)
           /\ D!ChildStep(v) => DP!ChildStep(v)
           /\ D!KillParent(v) => DP!KillParent(v)
<1>1. D!Refuse(v) => DP!Refuse(v)
      BY Zenon DEF D!Refuse, DP!Refuse, D!Refuses, DP!Refuses, D!JobOf, DP!JobOf,
                    D!ScansMissingRoot, DP!ScansMissingRoot, D!AllWithOutput, DP!AllWithOutput,
                    D!Resolves, DP!Resolves, D!Ends, DP!Ends
<1>2. D!ScanRaises(v) => DP!ScanRaises(v)
      BY Zenon DEF D!ScanRaises, DP!ScanRaises, D!JobOf, DP!JobOf, D!ScansMissingRoot,
                    DP!ScansMissingRoot, D!Ends, DP!Ends
<1>3. D!Begin(v) => DP!Begin(v)
      BY Zenon DEF D!Begin, DP!Begin, D!Refuses, DP!Refuses, D!JobOf, DP!JobOf, D!ScansMissingRoot,
                    DP!ScansMissingRoot, D!AllWithOutput, DP!AllWithOutput, D!Resolves, DP!Resolves,
                    D!PlansOf, DP!PlansOf, D!Found, DP!Found, D!Before, DP!Before, D!BoundedSeq,
                    DP!BoundedSeq, D!SeqOf, DP!SeqOf, D!ToSet, DP!ToSet, D!IsInjective,
                    DP!IsInjective, D!Arch, DP!Arch, D!Absence, DP!Absence, D!Cardinality,
                    DP!Cardinality
<1>4. D!Spawn(v) => DP!Spawn(v)
      BY Zenon DEF D!Spawn, DP!Spawn, D!Waiting, DP!Waiting, D!Settled, DP!Settled, D!Current,
                    DP!Current, D!OutPath, DP!OutPath, D!JobOf, DP!JobOf
<1>5. D!Settle(v) => DP!Settle(v)
      BY Zenon DEF D!Settle, DP!Settle, D!Waiting, DP!Waiting, D!Finished, DP!Finished, D!Settled,
                    DP!Settled, D!Current, DP!Current, D!Succeeded, DP!Succeeded, D!Reports,
                    DP!Reports, D!Row, DP!Row, D!JobOf, DP!JobOf, D!Reads, DP!Reads, D!Contents,
                    DP!Contents, D!ReadBack, DP!ReadBack, D!HasSummary, DP!HasSummary, D!Kind,
                    DP!Kind, D!Absence, DP!Absence, D!NoChild, DP!NoChild, D!Ends, DP!Ends
<1>6. D!Conclude(v) => DP!Conclude(v)
      BY Zenon DEF D!Conclude, DP!Conclude, D!Settled, DP!Settled, D!Ends, DP!Ends, D!ExitCode,
                    DP!ExitCode, D!ExitStatus, DP!ExitStatus, D!Failures, DP!Failures, D!JobOf,
                    DP!JobOf
<1>7. D!ChildCheck(v) => DP!ChildCheck(v)
      BY Zenon DEF D!ChildCheck, DP!ChildCheck, D!Exits, DP!Exits, D!ToPhase, DP!ToPhase,
                    D!Absence, DP!Absence
<1>8. D!ChildList(v) => DP!ChildList(v)
      BY Zenon DEF D!ChildList, DP!ChildList, D!Exits, DP!Exits, D!JobOf, DP!JobOf, D!Absence,
                    DP!Absence
<1>9. D!ChildOpen(v) => DP!ChildOpen(v)
      BY Zenon DEF D!ChildOpen, DP!ChildOpen, D!Opened, DP!Opened, D!ToPhase, DP!ToPhase
<1>10. D!ChildClose(v) => DP!ChildClose(v)
      BY Zenon DEF D!ChildClose, DP!ChildClose, D!Closed, DP!Closed, D!Abandoned, DP!Abandoned,
                    D!WrittenBy, DP!WrittenBy, D!Exits, DP!Exits
<1>11. D!ChildFails(v) => DP!ChildFails(v)
      BY Zenon DEF D!ChildFails, DP!ChildFails, D!Exits, DP!Exits, D!RcOfFault, DP!RcOfFault,
                    D!Abandoned, DP!Abandoned, D!WrittenBy, DP!WrittenBy
<1>12. D!ParentStep(v) => DP!ParentStep(v)
       BY <1>1, <1>2, <1>3, <1>4, <1>5, <1>6 DEF D!ParentStep, DP!ParentStep
<1>13. D!ChildStep(v) => DP!ChildStep(v)
       BY <1>7, <1>8, <1>9, <1>10, <1>11 DEF D!ChildStep, DP!ChildStep
<1>14. D!KillParent(v) => DP!KillParent(v)
       BY Zenon DEF D!KillParent, DP!KillParent, D!Ends, DP!Ends
<1>. QED BY <1>12, <1>13, <1>14

-----------------------------------------------------------------------------
\* An invocation in the loop is a grab; one that writes has a payload.
GrabOK ==
    \A v \in Grabs :
       /\ grab[v].phase = "running" => grab[v].job.command # "verify"
       /\ grab[v].step = "write" => grab[v].body \in Body

GInv == grab \in [Grabs -> GrabType] /\ GrabOK

IInv == DP!IInv /\ GInv

Shared ==
    /\ root \in BOOLEAN /\ tree \in [Arch -> Version] /\ latest \in Version
    /\ disk \in [Path -> OutputFileType] /\ faults \in 0..MaxFaults

\* What Dispatch knows of the files and the tree.
LEMMA SharedTypes == DP!IInv => Shared
BY SameSets DEF Shared, DP!IInv, DP!TInv, DP!TypeOK

\* The files, the tree and the number of faults are all that the other commands
\* have to keep in order for Dispatch.
LEMMA OnlyTypes ==
    ASSUME DP!IInv, UNCHANGED dispatchVars, Shared' PROVE DP!IInv'
<1>1. UNCHANGED <<scripts, inv, child>>
      BY DEF dispatchVars
<1>2. DP!TypeOK'
      BY <1>1, SameSets DEF Shared, DP!IInv, DP!TInv, DP!TypeOK
<1>3. DP!ChildOK'
      BY <1>1 DEF DP!IInv, DP!TInv, DP!ChildOK
<1>4. DP!RcFits'
      BY <1>1 DEF DP!IInv, DP!RcFits, DP!JobOf, DP!Settled
<1>. QED BY <1>2, <1>3, <1>4 DEF DP!IInv, DP!TInv

\* A step of one invocation, to a state of its type.
LEMMA GrabMoves ==
    ASSUME GInv, NEW v \in Grabs, NEW g \in GrabType, grab' = [grab EXCEPT ![v] = g],
           g.phase = "running" => g.job.command # "verify",
           g.step = "write" => g.body \in Body
    PROVE  GInv'
BY DEF GInv, GrabOK

\* Ending an invocation keeps the types.
LEMMA GrabEndsType ==
    ASSUME GInv, NEW v \in Grabs, NEW code \in 0..255, GrabEnds(v, code) PROVE GInv'
<1>. DEFINE g == [grab[v] EXCEPT !.phase = "over", !.code = code]
<1>1. grab[v] \in GrabType /\ (grab[v].step = "write" => grab[v].body \in Body)
      BY DEF GInv, GrabOK
<1>2. /\ g \in GrabType
      /\ g.phase = "over" /\ g.step = grab[v].step /\ g.body = grab[v].body
      BY <1>1 DEF GrabType
<1>3. grab' = [grab EXCEPT ![v] = g]
      BY DEF GrabEnds
<1>. QED BY <1>1, <1>2, <1>3, GrabMoves

\* The architecture whose turn it is.
LEMMA GrabCurrentType ==
    ASSUME GInv, NEW v \in Grabs, GrabWorking(v) PROVE GrabCurrent(v) \in Arch
<1>1. grab[v].plan \in Seq(Arch) /\ Len(grab[v].settled) \in Nat
      BY DEF GInv, GrabType
<1>2. Len(grab[v].settled) + 1 \in 1..Len(grab[v].plan)
      BY <1>1 DEF GrabWorking
<1>. QED BY <1>1, <1>2 DEF GrabCurrent

\* The row that ends a turn.
RowOf(v, why) ==
    [arch |-> GrabCurrent(v), ok |-> why = "ok", why |-> why,
     body |-> grab[v].body, since |-> grab[v].since]

LEMMA RowOfType ==
    ASSUME GInv, NEW v \in Grabs, GrabWorking(v), NEW why \in {"ok", "payload", "write"}
    PROVE  RowOf(v, why) \in GrabRow
BY GrabCurrentType DEF RowOf, GrabRow, GInv, GrabType

\* What an invocation is like after a turn.
AfterTurn(v, why) ==
    [grab[v] EXCEPT !.settled = Append(@, RowOf(v, why)),
                    !.step = "check", !.since = Absence, !.body = None]

\* Ending a turn keeps the types.
LEMMA TurnEndsType ==
    ASSUME GInv, NEW v \in Grabs, GrabWorking(v), NEW why \in {"ok", "payload", "write"},
           TurnEnds(v, why)
    PROVE  /\ GInv'
           /\ AfterTurn(v, why) \in GrabType /\ grab' = [grab EXCEPT ![v] = AfterTurn(v, why)]
<1>1. grab[v] \in GrabType /\ (grab[v].phase = "running" => grab[v].job.command # "verify")
      BY DEF GInv, GrabOK
<1>2. Append(grab[v].settled, RowOf(v, why)) \in Seq(GrabRow)
      BY <1>1, RowOfType DEF GrabType
<1>3. Absence \in Version
      BY GrabBoundAssumption DEF Absence, Version
<1>4. AfterTurn(v, why) \in GrabType
      BY <1>1, <1>2, <1>3 DEF AfterTurn, GrabType
<1>5. grab' = [grab EXCEPT ![v] = AfterTurn(v, why)]
      BY Zenon DEF TurnEnds, AfterTurn, RowOf
<1>6. /\ AfterTurn(v, why).phase = grab[v].phase /\ AfterTurn(v, why).step = "check"
      /\ AfterTurn(v, why).job = grab[v].job
      BY <1>1 DEF AfterTurn, GrabType
<1>7. GInv'
      BY <1>1, <1>4, <1>5, <1>6, GrabMoves
<1>. QED BY <1>4, <1>5, <1>7

\* The operations on an output file keep its type.
LEMMA GrabFileTypes ==
    ASSUME NEW f \in OutputFileType, NEW v \in Grabs
    PROVE  /\ \A b \in Body : Opened(f, v, b) \in OutputFileType
           /\ Abandoned(f, v) \in OutputFileType
           /\ Closed(f, v) \in OutputFileType
<1>1. \A b \in Body : Opened(f, v, b) \in OutputFileType
      BY DEF Opened, OutputFileType
<1>2. WrittenBy(f, v) \subseteq Body
      BY DEF WrittenBy, OutputFileType
<1>3. Abandoned(f, v) \in OutputFileType
      BY <1>2 DEF Abandoned, OutputFileType
<1>4. Closed(f, v) \in OutputFileType
      BY <1>3 DEF Closed, OutputFileType
<1>. QED BY <1>1, <1>3, <1>4

\* Changing one file, if there is one of that name.
LEMMA OneFile ==
    ASSUME NEW d \in [Path -> OutputFileType], NEW p, NEW f,
           p \in Path => f \in OutputFileType
    PROVE  [d EXCEPT ![p] = f] \in [Path -> OutputFileType]
OBVIOUS

\* What was found is a plan.
LEMMA FoundType ==
    ASSUME NEW found \in FoundByName
    PROVE  found \in Seq(Arch) /\ found \in BoundedSeq(Arch, Cardinality(Arch)) /\ IsInjective(found)
<1>1. found \in BoundedSeq(Arch, Cardinality(Arch)) /\ IsInjective(found)
      BY DEF FoundByName
<1>2. PICK m \in 0..Cardinality(Arch) : found \in [1..m -> Arch]
      BY <1>1, Zenon DEF BoundedSeq, SeqOf
<1>. QED BY <1>1, <1>2

\* One architecture is a plan, too.
LEMMA OneIsPlan ==
    ASSUME NEW a \in Arch
    PROVE  <<a>> \in BoundedSeq(Arch, Cardinality(Arch)) /\ IsInjective(<<a>>)
<1>1. IsFiniteSet(Arch)
  <2>1. DP!IsFiniteSet(DP!Arch)
        BY DP!ArchFinite, AssumptionsHold DEF DispatchAssumptions
  <2>. QED BY <2>1, SameSets, Zenon DEF IsFiniteSet, DP!IsFiniteSet
<1>2. Cardinality(Arch) \in Nat /\ 1 <= Cardinality(Arch)
      BY <1>1, FS_EmptySet, FS_CardinalityType
<1>3. <<a>> \in [1..1 -> Arch] /\ 1 \in 0..Cardinality(Arch)
      BY <1>2
<1>4. <<a>> \in BoundedSeq(Arch, Cardinality(Arch))
      BY <1>3, Zenon DEF BoundedSeq, SeqOf
<1>5. IsInjective(<<a>>)
      BY DEF IsInjective
<1>. QED BY <1>4, <1>5

\* What an invocation is like when its loop begins.
Begun(v, plan) == [grab[v] EXCEPT !.phase = "running", !.plan = plan]

\* Beginning keeps the types.
LEMMA BeginsType ==
    ASSUME GInv, NEW v \in Grabs, GrabJob(v).command # "verify", NEW plan \in Seq(Arch),
           grab' = [grab EXCEPT ![v].phase = "running", ![v].plan = plan]
    PROVE  /\ GInv'
           /\ Begun(v, plan) \in GrabType /\ grab' = [grab EXCEPT ![v] = Begun(v, plan)]
<1>1. grab[v] \in GrabType /\ (grab[v].step = "write" => grab[v].body \in Body)
      BY DEF GInv, GrabOK
<1>2. /\ Begun(v, plan) \in GrabType
      /\ Begun(v, plan).job = grab[v].job /\ Begun(v, plan).step = grab[v].step
      /\ Begun(v, plan).body = grab[v].body
      BY <1>1 DEF Begun, GrabType
<1>3. grab' = [grab EXCEPT ![v] = Begun(v, plan)]
      BY DEF Begun
<1>. QED BY <1>1, <1>2, <1>3, GrabMoves DEF GrabJob

\* The scan, in the ways it may turn out.
LEMMA ScanEffect ==
    ASSUME GInv, NEW v \in Grabs, Scan(v)
    PROVE  \/ /\ GrabJob(v).command = "verify"
              /\ \E code \in {0, 1} : GrabEnds(v, code)
           \/ \E code \in {1, 2} : GrabEnds(v, code)
           \/ /\ GrabJob(v).command # "verify"
              /\ \E plan \in BoundedSeq(Arch, Cardinality(Arch)) :
                    /\ plan \in Seq(Arch) /\ IsInjective(plan)
                    /\ grab' = [grab EXCEPT ![v].phase = "running", ![v].plan = plan]
<1>1. CASE GrabEnds(v, 1) \/ GrabEnds(v, 2)
      BY <1>1
<1>2. CASE Verify(v)
      BY <1>2 DEF Verify
<1>3. ASSUME PlanAll(v), NEW found \in FoundByName,
             grab' = [grab EXCEPT ![v].phase = "running", ![v].plan = found]
      PROVE  \E plan \in BoundedSeq(Arch, Cardinality(Arch)) :
                /\ plan \in Seq(Arch) /\ IsInjective(plan)
                /\ grab' = [grab EXCEPT ![v].phase = "running", ![v].plan = plan]
      BY <1>3, FoundType
<1>4. PlanAll(v) => \/ GrabEnds(v, 1) \/ GrabEnds(v, 2)
                    \/ \E found \in FoundByName :
                          grab' = [grab EXCEPT ![v].phase = "running", ![v].plan = found]
      BY DEF PlanAll
<1>5. CASE PlanAll(v)
  <2>1. GrabJob(v).command # "verify"
        BY <1>5 DEF PlanAll
  <2>. QED BY <1>1, <1>3, <1>4, <1>5, <2>1
<1>6. CASE /\ PlanOne(v)
           /\ grab' = [grab EXCEPT ![v].phase = "running", ![v].plan = <<GrabJob(v).arch>>]
  <2>1. GrabJob(v).command = "arch" /\ GrabJob(v).arch \in Arch
    <3>1. grab[v].job \in Job
          BY DEF GInv, GrabType
    <3>2. GrabJob(v).command = "arch"
          BY <1>6 DEF PlanOne
    <3>. QED BY <3>1, <3>2 DEF GrabJob, Job
  <2>2. /\ <<GrabJob(v).arch>> \in BoundedSeq(Arch, Cardinality(Arch))
        /\ IsInjective(<<GrabJob(v).arch>>)
        BY <2>1, OneIsPlan
  <2>3. <<GrabJob(v).arch>> \in Seq(Arch)
        BY <2>1
  <2>4. GrabJob(v).command # "verify"
        BY <2>1
  <2>. QED BY <1>6, <2>2, <2>3, <2>4, Zenon
<1>7. PlanOne(v) =>
         \/ GrabEnds(v, 2)
         \/ grab' = [grab EXCEPT ![v].phase = "running", ![v].plan = <<GrabJob(v).arch>>]
      BY DEF PlanOne
<1>. QED BY <1>1, <1>2, <1>5, <1>6, <1>7 DEF Scan

\* The file a process stops writing, whoever else writes it.
LEMMA LeaveFileType ==
    ASSUME Shared, NEW v \in Grabs, LeaveFile(v) PROVE disk' \in [Path -> OutputFileType]
<1>1. disk \in [Path -> OutputFileType]
      BY DEF Shared
<1>2. GrabFile(v) \in Path => Abandoned(disk[GrabFile(v)], v) \in OutputFileType
      BY <1>1, GrabFileTypes
<1>3. [disk EXCEPT ![GrabFile(v)] = Abandoned(disk[GrabFile(v)], v)] \in [Path -> OutputFileType]
      BY <1>1, <1>2, OneFile
<1>. QED BY <1>1, <1>3 DEF LeaveFile

\* The steps of grab and verify keep the types.
LEMMA GrabStepTypes ==
    ASSUME Shared, GInv, NEW v \in Grabs, GrabStep(v) PROVE Shared' /\ GInv'
<1>0. /\ grab[v] \in GrabType /\ disk \in [Path -> OutputFileType]
      /\ grab[v].step = "write" => grab[v].body \in Body
      /\ grab[v].phase = "running" => grab[v].job.command # "verify"
      BY DEF Shared, GInv, GrabOK
<1>. DEFINE a == GrabCurrent(v)
<1>1. CASE CheckRoot(v)
  <2>1. CASE GrabEnds(v, 2)
        BY <1>1, <2>1, GrabEndsType DEF CheckRoot, Shared
  <2>2. CASE grab' = [grab EXCEPT ![v].phase = "rooted"]
    <3>. DEFINE g == [grab[v] EXCEPT !.phase = "rooted"]
    <3>1. g \in GrabType /\ g.phase = "rooted" /\ g.step = grab[v].step /\ g.body = grab[v].body
          BY <1>0 DEF GrabType
    <3>2. grab' = [grab EXCEPT ![v] = g]
          BY <2>2
    <3>3. GInv'
          BY <1>0, <3>1, <3>2, GrabMoves
    <3>. QED BY <1>1, <3>3 DEF CheckRoot, Shared
  <2>. QED BY <1>1, <2>1, <2>2 DEF CheckRoot
<1>2. CASE Scan(v)
  <2>1. ASSUME NEW code \in {0, 1, 2}, GrabEnds(v, code) PROVE GInv'
        BY <2>1, GrabEndsType
  <2>2. ASSUME NEW plan \in Seq(Arch), GrabJob(v).command # "verify",
               grab' = [grab EXCEPT ![v].phase = "running", ![v].plan = plan]
        PROVE  GInv'
        BY <2>2, BeginsType
  <2>3. GInv'
        BY <1>2, <2>1, <2>2, ScanEffect, Zenon
  <2>. QED BY <1>2, <2>3 DEF Scan, Shared
<1>3. CASE CheckArch(v)
  <2>0. GrabWorking(v)
        BY <1>3 DEF CheckArch, AtStep
  <2>1. CASE TurnEnds(v, "payload")
        BY <1>3, <2>0, <2>1, TurnEndsType DEF CheckArch, Shared
  <2>2. CASE grab' = [grab EXCEPT ![v].step = "build", ![v].since = tree[a]]
    <3>. DEFINE g == [grab[v] EXCEPT !.step = "build", !.since = tree[a]]
    <3>1. tree[a] \in Version
          BY <2>0, GrabCurrentType DEF Shared
    <3>2. g \in GrabType /\ g.phase = grab[v].phase /\ g.step = "build" /\ g.job = grab[v].job
          BY <1>0, <3>1 DEF GrabType
    <3>3. grab' = [grab EXCEPT ![v] = g]
          BY <2>2
    <3>4. GInv'
          BY <1>0, <3>2, <3>3, GrabMoves
    <3>. QED BY <1>3, <3>4 DEF CheckArch, Shared
  <2>. QED BY <1>3, <2>1, <2>2 DEF CheckArch
<1>4. CASE Build(v)
  <2>0. GrabWorking(v)
        BY <1>4 DEF Build, AtStep
  <2>1. CASE TurnEnds(v, "payload")
        BY <1>4, <2>0, <2>1, TurnEndsType DEF Build, Shared
  <2>. DEFINE b == [kind |-> "grab", arch |-> a, ver |-> tree[a]]
  <2>2. CASE grab' = [grab EXCEPT ![v].step = "write", ![v].body = b]
    <3>. DEFINE g == [grab[v] EXCEPT !.step = "write", !.body = b]
    <3>1. b \in Body
          BY <2>0, GrabCurrentType DEF Shared, Body
    <3>2. /\ g \in GrabType
          /\ g.phase = grab[v].phase /\ g.body = b /\ g.job = grab[v].job
          BY <1>0, <3>1 DEF GrabType
    <3>3. grab' = [grab EXCEPT ![v] = g]
          BY <2>2
    <3>4. GInv'
          BY <1>0, <3>1, <3>2, <3>3, GrabMoves
    <3>. QED BY <1>4, <3>4 DEF Build, Shared
  <2>. QED BY <1>4, <2>1, <2>2 DEF Build
<1>5. CASE OpenGrab(v)
  <2>0. GrabWorking(v) /\ grab[v].step = "write"
        BY <1>5 DEF OpenGrab, AtStep
  <2>1. CASE TurnEnds(v, "write") /\ UNCHANGED disk
        BY <1>5, <2>0, <2>1, TurnEndsType DEF OpenGrab, Shared
  <2>2. CASE /\ disk' = [disk EXCEPT ![GrabFile(v)] = Opened(@, v, grab[v].body)]
             /\ grab' = [grab EXCEPT ![v].step = "writing"]
    <3>. DEFINE g == [grab[v] EXCEPT !.step = "writing"]
    <3>1. g \in GrabType /\ g.phase = grab[v].phase /\ g.step = "writing" /\ g.job = grab[v].job
          BY <1>0 DEF GrabType
    <3>2. grab' = [grab EXCEPT ![v] = g]
          BY <2>2
    <3>3. GInv'
          BY <1>0, <3>1, <3>2, GrabMoves
    <3>4. GrabFile(v) \in Path => Opened(disk[GrabFile(v)], v, grab[v].body) \in OutputFileType
          BY <1>0, <2>0, GrabFileTypes
    <3>5. [disk EXCEPT ![GrabFile(v)] = Opened(disk[GrabFile(v)], v, grab[v].body)]
             \in [Path -> OutputFileType]
          BY <1>0, <3>4, OneFile
    <3>6. disk' \in [Path -> OutputFileType]
          BY <2>2, <3>5
    <3>. QED BY <1>5, <3>3, <3>6 DEF OpenGrab, Shared
  <2>. QED BY <1>5, <2>1, <2>2 DEF OpenGrab
<1>6. CASE CloseGrab(v)
  <2>0. GrabWorking(v)
        BY <1>6 DEF CloseGrab, AtStep
  <2>1. GrabFile(v) \in Path => Closed(disk[GrabFile(v)], v) \in OutputFileType
        BY <1>0, GrabFileTypes
  <2>2. [disk EXCEPT ![GrabFile(v)] = Closed(disk[GrabFile(v)], v)] \in [Path -> OutputFileType]
        BY <1>0, <2>1, OneFile
  <2>3. disk' \in [Path -> OutputFileType]
        BY <1>6, <2>2 DEF CloseGrab
  <2>. QED BY <1>6, <2>0, <2>3, TurnEndsType DEF CloseGrab, Shared
<1>7. CASE Raises(v)
  <2>1. GrabWorking(v) /\ WhyRaised(v) \in {"ok", "payload", "write"} /\ TurnEnds(v, WhyRaised(v))
        BY <1>7 DEF Raises, WhyRaised
  <2>2. GInv'
        BY <2>1, TurnEndsType
  <2>3. disk' \in [Path -> OutputFileType]
        BY <1>7, LeaveFileType DEF Raises
  <2>4. faults' \in 0..MaxFaults
        BY <1>7, GrabBoundAssumption DEF Raises, Shared
  <2>. QED BY <1>7, <2>2, <2>3, <2>4 DEF Raises, Shared
<1>8. CASE ConcludeGrab(v)
  <2>1. GrabStatus(v) \in 0..255
        BY DEF GrabStatus
  <2>. QED BY <1>8, <2>1, GrabEndsType DEF ConcludeGrab, Shared
<1>. QED BY <1>1, <1>2, <1>3, <1>4, <1>5, <1>6, <1>7, <1>8 DEF GrabStep

\* So do the end of a process and the changes of the tree.
LEMMA EnvironmentTypes ==
    ASSUME Shared, GInv,
           Environment \/ \E v \in Grabs : KillGrab(v)
    PROVE  Shared' /\ GInv'
<1>1. ASSUME NEW v \in Grabs, KillGrab(v) PROVE Shared' /\ GInv'
  <2>1. GInv'
        BY <1>1, GrabEndsType DEF KillGrab
  <2>2. disk' \in [Path -> OutputFileType]
        BY <1>1, LeaveFileType DEF KillGrab
  <2>3. faults' \in 0..MaxFaults
        BY <1>1, GrabBoundAssumption DEF KillGrab, Shared
  <2>. QED BY <1>1, <2>1, <2>2, <2>3 DEF KillGrab, Shared
<1>2. CASE Environment
  <2>1. /\ latest < MaxVersion /\ latest' = latest + 1
        /\ UNCHANGED <<disk, grab, faults>> /\ root' \in BOOLEAN
        BY <1>2 DEF Environment, RemoveRoot, UpdateArch, Shared
  <2>2. latest' \in Version /\ Absence \in Version
        BY <2>1, GrabBoundAssumption DEF Shared, Version, Absence
  <2>3. tree' \in [Arch -> Version]
    <3>1. CASE RemoveRoot
          BY <2>2, <3>1 DEF RemoveRoot
    <3>2. ASSUME NEW a \in Arch, UpdateArch(a) PROVE tree' \in [Arch -> Version]
          BY <2>2, <3>2 DEF UpdateArch, Shared
    <3>. QED BY <1>2, <3>1, <3>2 DEF Environment
  <2>. QED BY <2>1, <2>2, <2>3 DEF Shared, GInv, GrabOK
<1>. QED BY <1>1, <1>2

-----------------------------------------------------------------------------
\* The initial states have their types.
LEMMA InitIInv == Init => IInv
<1>. SUFFICES ASSUME Init PROVE GInv
     BY DispatchInit DEF Init, IInv
<1>1. PICK mix \in GrabMix : grab = [v \in Grabs |-> IdleGrab(mix[v])]
      BY DEF Init, GrabInit
<1>2. ASSUME NEW v \in Grabs PROVE IdleGrab(mix[v]) \in GrabType
  <2>1. mix[v] \in Job
        BY GrabMixAssumption
  <2>2. Absence \in Version
        BY GrabBoundAssumption DEF Absence, Version
  <2>. QED BY <2>1, <2>2 DEF IdleGrab, GrabType
<1>. QED BY <1>1, <1>2 DEF GInv, GrabOK, IdleGrab

\* The steps of the td and cpp commands are steps of Dispatch.
LEMMA DispatchSteps ==
    ASSUME NEW v \in Inv, DispatchParent(v) \/ DispatchChild(v) \/ D!KillParent(v)
    PROVE  DP!Next
BY SameSteps DEF DispatchParent, DispatchChild, DP!Next

\* Every step keeps the invariant.
LEMMA NextIInv == IInv /\ [Next]_vars => IInv'
<1>. SUFFICES ASSUME IInv, [Next]_vars PROVE IInv'
     OBVIOUS
<1>0. Shared /\ GInv /\ DP!IInv
      BY SharedTypes DEF IInv
<1>1. ASSUME NEW v \in Grabs, GrabSteps(v) PROVE IInv'
  <2>1. Shared' /\ GInv'
        BY <1>0, <1>1, GrabStepTypes DEF GrabSteps
  <2>. QED BY <1>0, <1>1, <2>1, OnlyTypes DEF GrabSteps, IInv
<1>2. CASE (Environment \/ \E v \in Grabs : KillGrab(v)) /\ UNCHANGED dispatchVars
  <2>1. Shared' /\ GInv'
        BY <1>0, <1>2, EnvironmentTypes
  <2>. QED BY <1>0, <1>2, <2>1, OnlyTypes DEF IInv
<1>3. ASSUME NEW v \in Inv,
             DispatchParent(v) \/ DispatchChild(v) \/ (D!KillParent(v) /\ UNCHANGED grab)
      PROVE  IInv'
  <2>1. DP!IInv'
        BY <1>0, <1>3, DispatchSteps, DispatchNext
  <2>2. grab' = grab
        BY <1>3 DEF DispatchParent, DispatchChild
  <2>. QED BY <1>0, <2>1, <2>2 DEF IInv, GInv, GrabOK
<1>4. CASE UNCHANGED vars
  <2>1. UNCHANGED DP!vars
        BY <1>4 DEF vars, DP!vars
  <2>2. DP!IInv'
        BY <1>0, <2>1, DispatchNext
  <2>. QED BY <1>0, <1>4, <2>2 DEF vars, IInv, GInv, GrabOK
<1>. QED BY <1>1, <1>2, <1>3, <1>4 DEF Next

\* The types of Dispatch are the same.
LEMMA SameTypes == DP!TypeOK => D!TypeOK
BY Zenon DEF DP!TypeOK, D!TypeOK, DP!Kind, D!Kind, DP!Arch, D!Arch, DP!ToSet, D!ToSet,
             DP!Version, D!Version, DP!Absence, D!Absence, DP!Body, D!Body, DP!Path, D!Path,
             DP!OutputFileType, D!OutputFileType, DP!InvType, D!InvType, DP!ChildType,
             D!ChildType, DP!RowType, D!RowType, DP!Job, D!Job

(***************************************************************************)
(* While td, cpp, grab and verify commands write the same files and the    *)
(* tree vanishes under them, their state keeps its types; in particular    *)
(* nothing but a payload is ever written in place of one.                  *)
(***************************************************************************)
THEOREM TypesHold == Spec => []TypeOK
<1>1. Spec => []IInv
      BY InitIInv, NextIInv, PTL DEF Spec
<1>2. IInv => TypeOK
      BY SharedTypes, SameTypes
      DEF IInv, DP!IInv, DP!TInv, GInv, Shared, TypeOK, GrabTypeOK
<1>. QED BY <1>1, <1>2, PTL

-----------------------------------------------------------------------------
\* What ArchBatch sees of an invocation, and of all of them.
PhaseOf(g) == IF g.job.command # "verify" /\ g.phase # "rooted" THEN g.phase ELSE "idle"
CodeOf(g) == IF g.job.command # "verify" THEN g.code ELSE 0

Phases == [v \in Grabs |-> PhaseOf(grab[v])]
Plans == [v \in Grabs |-> grab[v].plan]
Settlements == [v \in Grabs |-> DP!Shown(grab[v].settled)]
Codes == [v \in Grabs |-> CodeOf(grab[v])]

\* A step of one invocation changes what is seen of that one.
LEMMA SeenOfStep ==
    ASSUME GInv, NEW v \in Grabs, NEW g, grab' = [grab EXCEPT ![v] = g]
    PROVE  /\ Phases' = [Phases EXCEPT ![v] = PhaseOf(g)]
           /\ Plans' = [Plans EXCEPT ![v] = g.plan]
           /\ Settlements' = [Settlements EXCEPT ![v] = DP!Shown(g.settled)]
           /\ Codes' = [Codes EXCEPT ![v] = CodeOf(g)]
<1>1. DOMAIN grab' = Grabs /\ grab'[v] = g /\ \A u \in Grabs \ {v} : grab'[u] = grab[u]
      BY DEF GInv
<1>2. Phases' = [Phases EXCEPT ![v] = PhaseOf(g)]
      BY <1>1 DEF Phases
<1>3. Plans' = [Plans EXCEPT ![v] = g.plan]
      BY <1>1 DEF Plans
<1>4. Settlements' = [Settlements EXCEPT ![v] = DP!Shown(g.settled)]
      BY <1>1 DEF Settlements
<1>5. Codes' = [Codes EXCEPT ![v] = CodeOf(g)]
      BY <1>1 DEF Codes
<1>. QED BY <1>2, <1>3, <1>4, <1>5

\* A step that changes nothing of what is seen is none.
LEMMA UnseenIsStutter ==
    ASSUME GInv, NEW v \in Grabs, NEW g, grab' = [grab EXCEPT ![v] = g],
           PhaseOf(g) = PhaseOf(grab[v]), g.plan = grab[v].plan, g.settled = grab[v].settled,
           CodeOf(g) = CodeOf(grab[v])
    PROVE  UNCHANGED GrabBatch!vars
<1>0. /\ Phases' = [Phases EXCEPT ![v] = PhaseOf(g)]
      /\ Plans' = [Plans EXCEPT ![v] = g.plan]
      /\ Settlements' = [Settlements EXCEPT ![v] = DP!Shown(g.settled)]
      /\ Codes' = [Codes EXCEPT ![v] = CodeOf(g)]
      BY SeenOfStep
<1>1. Phases' = Phases
      BY <1>0 DEF Phases
<1>2. Plans' = Plans
      BY <1>0 DEF Plans
<1>3. Settlements' = Settlements
      BY <1>0 DEF Settlements
<1>4. Codes' = Codes
      BY <1>0 DEF Codes
<1>. QED BY <1>1, <1>2, <1>3, <1>4
     DEF GrabBatch!vars, Phases, PhaseOf, Plans, Settlements, DP!Shown, Codes, CodeOf,
         IsGrab, GrabJob

\* To end is to end.
LEMMA GrabEndsIsEndsWith ==
    ASSUME GInv, NEW v \in Grabs, GrabJob(v).command # "verify",
           NEW codes \in SUBSET (0..255), NEW code \in codes, GrabEnds(v, code)
    PROVE  GrabBatch!EndsWith(v, codes)
<1>. DEFINE g == [grab[v] EXCEPT !.phase = "over", !.code = code]
<1>0. grab[v] \in GrabType
      BY DEF GInv
<1>1. /\ g \in GrabType /\ g.phase = "over" /\ g.code = code
      /\ g.plan = grab[v].plan /\ g.settled = grab[v].settled /\ g.job = grab[v].job
      BY <1>0 DEF GrabType
<1>2. grab' = [grab EXCEPT ![v] = g]
      BY DEF GrabEnds
<1>3. PhaseOf(g) = "over" /\ CodeOf(g) = code
      BY <1>1 DEF PhaseOf, CodeOf, GrabJob
<1>4. /\ Phases' = [Phases EXCEPT ![v] = "over"] /\ Codes' = [Codes EXCEPT ![v] = code]
      /\ Plans' = Plans /\ Settlements' = Settlements
  <2>. HIDE DEF g
  <2>1. /\ Phases' = [Phases EXCEPT ![v] = PhaseOf(g)]
        /\ Plans' = [Plans EXCEPT ![v] = g.plan]
        /\ Settlements' = [Settlements EXCEPT ![v] = DP!Shown(g.settled)]
        /\ Codes' = [Codes EXCEPT ![v] = CodeOf(g)]
        BY <1>1, <1>2, SeenOfStep
  <2>2. Plans' = Plans
        BY <1>1, <2>1 DEF Plans
  <2>3. Settlements' = Settlements
        BY <1>1, <2>1 DEF Settlements
  <2>. QED BY <1>3, <2>1, <2>2, <2>3
<1>. QED BY <1>4
     DEF GrabBatch!EndsWith, Phases, PhaseOf, Plans, Settlements, DP!Shown, Codes, CodeOf,
         IsGrab, GrabJob

\* The plans of ArchBatch, seen from here.
LEMMA SameGrabPlans ==
    GrabBatch!Plans = {p \in BoundedSeq(Arch, Cardinality(Arch)) : IsInjective(p)}
<1>1. GrabBatch!Cardinality(Arch) = Cardinality(Arch)
      BY Zenon DEF Cardinality, GrabBatch!Cardinality
<1>2. \A n : GrabBatch!BoundedSeq(Arch, n) = BoundedSeq(Arch, n)
      BY Zenon DEF BoundedSeq, SeqOf, GrabBatch!BoundedSeq, GrabBatch!SeqOf
<1>3. \A p : GrabBatch!IsInjective(p) = IsInjective(p)
      BY Zenon DEF IsInjective, GrabBatch!IsInjective
<1>. QED BY <1>1, <1>2, <1>3, Zenon DEF GrabBatch!Plans

\* Beginning picks a plan.
LEMMA BeginsIsBegin ==
    ASSUME GInv, NEW v \in Grabs, grab[v].phase = "rooted", GrabJob(v).command # "verify",
           NEW plan \in BoundedSeq(Arch, Cardinality(Arch)), plan \in Seq(Arch), IsInjective(plan),
           grab' = [grab EXCEPT ![v].phase = "running", ![v].plan = plan]
    PROVE  GrabBatch!Begin(v)
<1>. DEFINE g == Begun(v, plan)
<1>0. grab[v] \in GrabType
      BY DEF GInv
<1>1. g \in GrabType /\ grab' = [grab EXCEPT ![v] = g]
      BY BeginsType
<1>2. /\ g.phase = "running" /\ g.plan = plan
      /\ g.settled = grab[v].settled /\ g.job = grab[v].job /\ g.code = grab[v].code
      BY <1>0 DEF Begun, GrabType
<1>3. PhaseOf(g) = "running" /\ CodeOf(g) = CodeOf(grab[v])
      BY <1>2 DEF PhaseOf, CodeOf, GrabJob
<1>. HIDE DEF g
<1>4. /\ Phases' = [Phases EXCEPT ![v] = PhaseOf(g)]
      /\ Plans' = [Plans EXCEPT ![v] = g.plan]
      /\ Settlements' = [Settlements EXCEPT ![v] = DP!Shown(g.settled)]
      /\ Codes' = [Codes EXCEPT ![v] = CodeOf(g)]
      BY <1>1, SeenOfStep
<1>5. Settlements' = Settlements
      BY <1>2, <1>4 DEF Settlements
<1>6. Codes' = Codes
      BY <1>3, <1>4 DEF Codes
<1>7. Phases' = [Phases EXCEPT ![v] = "running"] /\ Plans' = [Plans EXCEPT ![v] = plan]
      BY <1>2, <1>3, <1>4
<1>8. plan \in GrabBatch!Plans
      BY SameGrabPlans
<1>. QED BY <1>5, <1>6, <1>7, <1>8
     DEF GrabBatch!Begin, Phases, PhaseOf, Plans, Settlements, DP!Shown, Codes, CodeOf,
         IsGrab, GrabJob

\* What the batch sees of one row more.
LEMMA ShownOfOneMore ==
    ASSUME NEW R, NEW rows \in Seq(R), NEW row \in R
    PROVE  DP!Shown(Append(rows, row))
             = Append(DP!Shown(rows), [arch |-> row.arch, ok |-> row.ok])
BY AssumptionsHold, DP!ShownAppend DEF DispatchAssumptions

\* The end of a turn is a settlement of the architecture whose turn it is.
LEMMA TurnEndsIsSettle ==
    ASSUME GInv, NEW v \in Grabs, GrabWorking(v), NEW why \in {"ok", "payload", "write"},
           TurnEnds(v, why)
    PROVE  GrabBatch!Settle(v)
<1>. DEFINE g == AfterTurn(v, why)
            row == RowOf(v, why)
            old == grab[v].settled
<1>0. grab[v] \in GrabType /\ grab[v].job.command # "verify" /\ grab[v].phase = "running"
      BY DEF GInv, GrabOK, GrabWorking
<1>1. g \in GrabType /\ grab' = [grab EXCEPT ![v] = g]
      BY TurnEndsType
<1>2. /\ g.phase = grab[v].phase /\ g.plan = grab[v].plan /\ g.settled = Append(old, row)
      /\ g.job = grab[v].job /\ g.code = grab[v].code
      BY <1>0 DEF AfterTurn, GrabType
<1>3. row \in GrabRow /\ old \in Seq(GrabRow)
      BY <1>0, RowOfType DEF GrabType
<1>4. row.ok \in BOOLEAN /\ row.arch = grab[v].plan[Len(old) + 1]
      BY DEF RowOf, GrabCurrent
<1>5. DP!Shown(Append(old, row)) = Append(DP!Shown(old), [arch |-> row.arch, ok |-> row.ok])
  <2>. HIDE DEF row, old
  <2>. QED BY ONLY <1>3, ShownOfOneMore
<1>6. Len(DP!Shown(old)) = Len(old)
      BY <1>3 DEF DP!Shown
<1>7. PhaseOf(g) = PhaseOf(grab[v]) /\ CodeOf(g) = CodeOf(grab[v])
      BY <1>2 DEF PhaseOf, CodeOf
<1>. HIDE DEF g, row, old
<1>8. /\ Phases' = [Phases EXCEPT ![v] = PhaseOf(g)]
      /\ Plans' = [Plans EXCEPT ![v] = g.plan]
      /\ Settlements' = [Settlements EXCEPT ![v] = DP!Shown(g.settled)]
      /\ Codes' = [Codes EXCEPT ![v] = CodeOf(g)]
      BY <1>1, SeenOfStep
<1>9. Phases' = Phases
      BY <1>7, <1>8 DEF Phases
<1>10. Plans' = Plans
      BY <1>2, <1>8 DEF Plans
<1>11. Codes' = Codes
      BY <1>7, <1>8 DEF Codes
<1>12. Settlements[v] = DP!Shown(old)
      BY DEF Settlements, old
<1>13. Settlements' = [Settlements EXCEPT ![v] = Append(@, [arch |-> row.arch, ok |-> row.ok])]
      BY <1>2, <1>5, <1>8, <1>12
<1>14. /\ Phases[v] = "running" /\ Len(Settlements[v]) = Len(old)
       /\ Plans[v] = grab[v].plan /\ Len(old) < Len(grab[v].plan)
      BY <1>0, <1>6, <1>12 DEF Phases, PhaseOf, Plans, GrabWorking, old
<1>15. /\ Phases[v] = "running" /\ Len(Settlements[v]) < Len(Plans[v])
       /\ Phases' = Phases /\ Plans' = Plans /\ Codes' = Codes
       /\ \E ok \in BOOLEAN :
             Settlements' = [Settlements EXCEPT ![v] =
                                Append(@, [arch |-> Plans[v][Len(Settlements[v]) + 1], ok |-> ok])]
      BY <1>4, <1>9, <1>10, <1>11, <1>13, <1>14
<1>. QED BY <1>15
     DEF GrabBatch!Settle, Phases, PhaseOf, Plans, Settlements, DP!Shown, Codes, CodeOf,
         IsGrab, GrabJob

\* Status 0 is for those that have settled everything well.
LEMMA ConcludeGrabIsConclude ==
    ASSUME GInv, NEW v \in Grabs, ConcludeGrab(v) PROVE GrabBatch!Conclude(v)
<1>0. /\ grab[v] \in GrabType /\ grab[v].phase = "running"
      /\ GrabJob(v).command # "verify" /\ GrabEnds(v, GrabStatus(v))
      /\ Len(grab[v].settled) = Len(grab[v].plan)
      BY DEF GInv, GrabOK, ConcludeGrab, GrabJob
<1>1. grab[v].settled \in Seq(GrabRow)
      BY <1>0 DEF GrabType
<1>2. Len(DP!Shown(grab[v].settled)) = Len(grab[v].settled)
      BY <1>1 DEF DP!Shown
<1>3. GrabBatch!AllOk(v) <=> \A i \in DOMAIN grab[v].settled : grab[v].settled[i].ok
      BY DEF GrabBatch!AllOk
<1>4. GrabBatch!AllOk(v) <=> GrabFailures(v) = {}
      BY <1>3 DEF GrabFailures
<1>5. IF GrabBatch!AllOk(v) THEN GrabStatus(v) = 0 ELSE GrabStatus(v) \in 1..255
      BY <1>4 DEF GrabStatus
<1>6. CASE GrabBatch!AllOk(v)
  <2>1. GrabBatch!EndsWith(v, {0})
        BY <1>0, <1>5, <1>6, GrabEndsIsEndsWith
  <2>. QED BY <1>0, <1>2, <1>6, <2>1 DEF GrabBatch!Conclude, GrabBatch!EndsWith, DP!Shown, IsGrab
<1>7. CASE ~GrabBatch!AllOk(v)
  <2>1. GrabBatch!EndsWith(v, GrabBatch!Failure)
    <3>1. 1..255 \in SUBSET (0..255) /\ GrabStatus(v) \in 1..255
          BY <1>5, <1>7
    <3>2. GrabBatch!EndsWith(v, 1..255)
          BY <1>0, <3>1, GrabEndsIsEndsWith
    <3>. QED BY <3>2 DEF GrabBatch!Failure
  <2>. QED BY <1>0, <1>2, <1>7, <2>1 DEF GrabBatch!Conclude, GrabBatch!EndsWith, DP!Shown, IsGrab
<1>. QED BY <1>6, <1>7

-----------------------------------------------------------------------------
\* The steps of grab and verify are steps of ArchBatch, or none.
LEMMA GrabStepIsBatchStep ==
    ASSUME GInv, NEW v \in Grabs, GrabStep(v) PROVE [GrabBatch!Next]_(GrabBatch!vars)
<1>0. /\ grab[v] \in GrabType
      /\ grab[v].phase = "running" => grab[v].job.command # "verify"
      BY DEF GInv, GrabOK
<1>1. ASSUME GrabJob(v).command = "verify", NEW code \in 0..255, GrabEnds(v, code)
      PROVE  UNCHANGED GrabBatch!vars
  <2>. DEFINE g == [grab[v] EXCEPT !.phase = "over", !.code = code]
  <2>1. /\ g \in GrabType /\ g.plan = grab[v].plan /\ g.settled = grab[v].settled
        /\ g.job = grab[v].job
        BY <1>0 DEF GrabType
  <2>2. grab' = [grab EXCEPT ![v] = g]
        BY <1>1 DEF GrabEnds
  <2>3. PhaseOf(g) = PhaseOf(grab[v]) /\ CodeOf(g) = CodeOf(grab[v])
        BY <1>1, <2>1 DEF PhaseOf, CodeOf, GrabJob
  <2>. QED BY <2>1, <2>2, <2>3, UnseenIsStutter
<1>2. ASSUME GrabJob(v).command # "verify", GrabEnds(v, 1) \/ GrabEnds(v, 2),
             grab[v].phase # "over"
      PROVE  GrabBatch!Abort(v)
  <2>1. 1..255 \in SUBSET (0..255)
        OBVIOUS
  <2>2. GrabBatch!EndsWith(v, 1..255)
        BY <1>2, <2>1, GrabEndsIsEndsWith
  <2>. QED BY <1>2, <2>2 DEF GrabBatch!Abort, GrabBatch!Failure, IsGrab
<1>3. ASSUME GrabWorking(v), NEW why \in {"ok", "payload", "write"}, TurnEnds(v, why)
      PROVE  GrabBatch!Next
      BY <1>3, TurnEndsIsSettle DEF GrabBatch!Next
<1>4. ASSUME NEW g, grab' = [grab EXCEPT ![v] = g], grab[v].phase = "running",
             g.phase = grab[v].phase, g.job = grab[v].job, g.code = grab[v].code,
             g.plan = grab[v].plan, g.settled = grab[v].settled
      PROVE  UNCHANGED GrabBatch!vars
  <2>1. PhaseOf(g) = PhaseOf(grab[v]) /\ CodeOf(g) = CodeOf(grab[v])
        BY <1>4 DEF PhaseOf, CodeOf
  <2>. QED BY <1>4, <2>1, UnseenIsStutter
<1>5. CASE CheckRoot(v)
  <2>1. CASE GrabEnds(v, 2)
        BY <1>1, <1>2, <1>5, <2>1 DEF CheckRoot, GrabBatch!Next
  <2>2. CASE grab' = [grab EXCEPT ![v].phase = "rooted"]
    <3>. DEFINE g == [grab[v] EXCEPT !.phase = "rooted"]
    <3>1. /\ g \in GrabType /\ g.phase = "rooted" /\ g.plan = grab[v].plan
          /\ g.settled = grab[v].settled /\ g.job = grab[v].job /\ g.code = grab[v].code
          BY <1>0 DEF GrabType
    <3>2. grab' = [grab EXCEPT ![v] = g]
          BY <2>2
    <3>3. PhaseOf(g) = PhaseOf(grab[v]) /\ CodeOf(g) = CodeOf(grab[v])
          BY <1>5, <3>1 DEF PhaseOf, CodeOf, CheckRoot
    <3>. QED BY <3>1, <3>2, <3>3, UnseenIsStutter
  <2>. QED BY <1>5, <2>1, <2>2 DEF CheckRoot
<1>6. CASE Scan(v)
  <2>1. grab[v].phase = "rooted"
        BY <1>6 DEF Scan
  <2>2. ASSUME NEW code \in {0, 1}, GrabJob(v).command = "verify", GrabEnds(v, code)
        PROVE  UNCHANGED GrabBatch!vars
        BY <1>1, <2>2
  <2>3. ASSUME NEW code \in {1, 2}, GrabEnds(v, code) PROVE [GrabBatch!Next]_(GrabBatch!vars)
        BY <1>1, <1>2, <2>1, <2>3 DEF GrabBatch!Next
  <2>4. ASSUME GrabJob(v).command # "verify",
               NEW plan \in BoundedSeq(Arch, Cardinality(Arch)), plan \in Seq(Arch),
               IsInjective(plan),
               grab' = [grab EXCEPT ![v].phase = "running", ![v].plan = plan]
        PROVE  GrabBatch!Next
        BY <2>1, <2>4, BeginsIsBegin DEF GrabBatch!Next
  <2>. QED BY <1>6, <2>2, <2>3, <2>4, ScanEffect, Zenon
<1>7. CASE CheckArch(v)
  <2>0. GrabWorking(v) /\ grab[v].phase = "running"
        BY <1>7 DEF CheckArch, AtStep, GrabWorking
  <2>1. CASE TurnEnds(v, "payload")
        BY <1>3, <2>0, <2>1
  <2>2. CASE grab' = [grab EXCEPT ![v].step = "build", ![v].since = tree[GrabCurrent(v)]]
    <3>. DEFINE g == [grab[v] EXCEPT !.step = "build", !.since = tree[GrabCurrent(v)]]
    <3>1. /\ g.phase = grab[v].phase /\ g.job = grab[v].job /\ g.code = grab[v].code
          /\ g.plan = grab[v].plan /\ g.settled = grab[v].settled
          BY <1>0 DEF GrabType
    <3>2. grab' = [grab EXCEPT ![v] = g]
          BY <2>2
    <3>. HIDE DEF g
    <3>. QED BY <1>4, <2>0, <3>1, <3>2
  <2>. QED BY <1>7, <2>1, <2>2 DEF CheckArch
<1>8. CASE Build(v)
  <2>. DEFINE b == [kind |-> "grab", arch |-> GrabCurrent(v), ver |-> tree[GrabCurrent(v)]]
  <2>0. GrabWorking(v) /\ grab[v].phase = "running"
        BY <1>8 DEF Build, AtStep, GrabWorking
  <2>1. CASE TurnEnds(v, "payload")
        BY <1>3, <2>0, <2>1
  <2>2. CASE grab' = [grab EXCEPT ![v].step = "write", ![v].body = b]
    <3>. DEFINE g == [grab[v] EXCEPT !.step = "write", !.body = b]
    <3>1. /\ g.phase = grab[v].phase /\ g.job = grab[v].job /\ g.code = grab[v].code
          /\ g.plan = grab[v].plan /\ g.settled = grab[v].settled
          BY <1>0 DEF GrabType
    <3>2. grab' = [grab EXCEPT ![v] = g]
          BY <2>2
    <3>. HIDE DEF g
    <3>. QED BY <1>4, <2>0, <3>1, <3>2
  <2>. QED BY <1>8, <2>1, <2>2 DEF Build
<1>9. CASE OpenGrab(v)
  <2>0. GrabWorking(v) /\ grab[v].phase = "running"
        BY <1>9 DEF OpenGrab, AtStep, GrabWorking
  <2>1. CASE TurnEnds(v, "write")
        BY <1>3, <2>0, <2>1
  <2>2. CASE grab' = [grab EXCEPT ![v].step = "writing"]
    <3>. DEFINE g == [grab[v] EXCEPT !.step = "writing"]
    <3>1. /\ g.phase = grab[v].phase /\ g.job = grab[v].job /\ g.code = grab[v].code
          /\ g.plan = grab[v].plan /\ g.settled = grab[v].settled
          BY <1>0 DEF GrabType
    <3>2. grab' = [grab EXCEPT ![v] = g]
          BY <2>2
    <3>. HIDE DEF g
    <3>. QED BY <1>4, <2>0, <3>1, <3>2
  <2>. QED BY <1>9, <2>1, <2>2 DEF OpenGrab
<1>10. CASE CloseGrab(v)
       BY <1>3, <1>10 DEF CloseGrab, AtStep
<1>11. CASE Raises(v)
       BY <1>3, <1>11 DEF Raises, WhyRaised
<1>12. CASE ConcludeGrab(v)
       BY <1>12, ConcludeGrabIsConclude DEF GrabBatch!Next
<1>. QED BY <1>5, <1>6, <1>7, <1>8, <1>9, <1>10, <1>11, <1>12 DEF GrabStep

\* A grab that is killed aborts; a verify does nothing that ArchBatch sees.
LEMMA KillGrabIsBatchStep ==
    ASSUME GInv, NEW v \in Grabs, KillGrab(v) PROVE [GrabBatch!Next]_(GrabBatch!vars)
<1>0. grab[v] \in GrabType /\ GrabEnds(v, 137) /\ grab[v].phase \in {"rooted", "running"}
      BY DEF GInv, KillGrab
<1>1. CASE GrabJob(v).command = "verify"
  <2>. DEFINE g == [grab[v] EXCEPT !.phase = "over", !.code = 137]
  <2>1. /\ g.plan = grab[v].plan /\ g.settled = grab[v].settled /\ g.job = grab[v].job
        BY <1>0 DEF GrabType
  <2>2. grab' = [grab EXCEPT ![v] = g]
        BY <1>0 DEF GrabEnds
  <2>3. PhaseOf(g) = PhaseOf(grab[v]) /\ CodeOf(g) = CodeOf(grab[v])
        BY <1>1, <2>1 DEF PhaseOf, CodeOf, GrabJob
  <2>. QED BY <2>1, <2>2, <2>3, UnseenIsStutter
<1>2. CASE GrabJob(v).command # "verify"
  <2>1. 1..255 \in SUBSET (0..255) /\ 137 \in 1..255
        OBVIOUS
  <2>2. GrabBatch!EndsWith(v, 1..255)
        BY <1>0, <1>2, <2>1, GrabEndsIsEndsWith
  <2>. QED BY <1>0, <1>2, <2>2
       DEF GrabBatch!Abort, GrabBatch!Failure, GrabBatch!Next, IsGrab
<1>. QED BY <1>1, <1>2

\* What does not change a grab is no step of ArchBatch.
LEMMA SameGrabIsStutter == ASSUME grab' = grab PROVE UNCHANGED GrabBatch!vars
BY DEF GrabBatch!vars, IsGrab, GrabJob

\* The promise of Dispatch is the same.
LEMMA SameBatch ==
    /\ DP!Batch!Init => D!Batch!Init
    /\ [DP!Batch!Next]_(DP!Batch!vars) => [D!Batch!Next]_(D!Batch!vars)
<1>1. DP!Batch!Init => D!Batch!Init
      BY Zenon DEF DP!Batch!Init, D!Batch!Init
<1>2. DP!Batch!Next => D!Batch!Next
      BY Zenon DEF DP!Batch!Next, D!Batch!Next, DP!Batch!Refuse, D!Batch!Refuse,
                   DP!Batch!Begin, D!Batch!Begin, DP!Batch!Settle, D!Batch!Settle,
                   DP!Batch!Conclude, D!Batch!Conclude, DP!Batch!Abort, D!Batch!Abort,
                   DP!Batch!EndsWith, D!Batch!EndsWith, DP!Batch!Failure, D!Batch!Failure,
                   DP!Batch!AllOk, D!Batch!AllOk, DP!Batch!Plans, D!Batch!Plans,
                   DP!Batch!BoundedSeq, D!Batch!BoundedSeq, DP!Batch!SeqOf, D!Batch!SeqOf,
                   DP!Batch!IsInjective, D!Batch!IsInjective, DP!Arch, D!Arch,
                   DP!ToSet, D!ToSet, DP!Batch!Cardinality, D!Batch!Cardinality
<1>3. UNCHANGED DP!Batch!vars => UNCHANGED D!Batch!vars
      BY Zenon DEF DP!Batch!vars, D!Batch!vars
<1>. QED BY <1>1, <1>2, <1>3

\* Each step is one of ArchBatch, or none, for both kinds of command.
LEMMA StepIsBatchStep ==
    ASSUME IInv, [Next]_vars
    PROVE  [GrabBatch!Next]_(GrabBatch!vars) /\ [D!Batch!Next]_(D!Batch!vars)
<1>0. GInv /\ DP!IInv
      BY DEF IInv
<1>1. ASSUME UNCHANGED inv PROVE [D!Batch!Next]_(D!Batch!vars)
      BY <1>1 DEF D!Batch!vars
<1>2. ASSUME NEW v \in Grabs, GrabSteps(v)
      PROVE  [GrabBatch!Next]_(GrabBatch!vars) /\ [D!Batch!Next]_(D!Batch!vars)
  <2>1. GrabStep(v) /\ UNCHANGED inv
        BY <1>2 DEF GrabSteps, dispatchVars
  <2>. QED BY <1>0, <1>1, <2>1, GrabStepIsBatchStep
<1>3. ASSUME NEW v \in Grabs, KillGrab(v), UNCHANGED dispatchVars
      PROVE  [GrabBatch!Next]_(GrabBatch!vars) /\ [D!Batch!Next]_(D!Batch!vars)
  <2>1. UNCHANGED inv
        BY <1>3 DEF dispatchVars
  <2>. QED BY <1>0, <1>1, <1>3, <2>1, KillGrabIsBatchStep
<1>4. ASSUME NEW v \in Inv,
             DispatchParent(v) \/ DispatchChild(v) \/ (D!KillParent(v) /\ UNCHANGED grab)
      PROVE  [GrabBatch!Next]_(GrabBatch!vars) /\ [D!Batch!Next]_(D!Batch!vars)
  <2>1. [DP!Batch!Next]_(DP!Batch!vars)
        BY <1>0, <1>4, DispatchSteps, DispatchNext
  <2>2. grab' = grab
        BY <1>4 DEF DispatchParent, DispatchChild
  <2>. QED BY <2>1, <2>2, SameBatch, SameGrabIsStutter
<1>5. CASE Environment /\ UNCHANGED dispatchVars
  <2>1. grab' = grab /\ UNCHANGED inv
        BY <1>5 DEF Environment, RemoveRoot, UpdateArch, dispatchVars
  <2>. QED BY <1>1, <2>1, SameGrabIsStutter
<1>6. CASE UNCHANGED vars
  <2>1. grab' = grab /\ UNCHANGED inv
        BY <1>6 DEF vars
  <2>. QED BY <1>1, <2>1, SameGrabIsStutter
<1>. QED BY <1>2, <1>3, <1>4, <1>5, <1>6 DEF Next

(***************************************************************************)
(* grab, td and cpp commands keep the promise of ArchBatch while they      *)
(* write the same files and the tree vanishes under them: an architecture  *)
(* that fails never stops the next, and status 0 means that each of the    *)
(* plan went well.                                                         *)
(***************************************************************************)
THEOREM AllKeepPromiseHolds == Spec => AllKeepPromise
<1>1. Spec => []IInv
      BY InitIInv, NextIInv, PTL DEF Spec
<1>2. Init => GrabBatch!Init /\ D!Batch!Init
  <2>. SUFFICES ASSUME Init PROVE GrabBatch!Init
       BY DispatchInit, SameBatch DEF Init
  <2>1. PICK mix \in GrabMix : grab = [v \in Grabs |-> IdleGrab(mix[v])]
        BY DEF Init, GrabInit
  <2>2. \A v \in Grabs : /\ grab[v].phase = "idle" /\ grab[v].plan = <<>>
                         /\ grab[v].settled = <<>> /\ grab[v].code = 0
        BY <2>1 DEF IdleGrab
  <2>3. \A v \in Grabs : DP!Shown(grab[v].settled) = <<>>
        BY <2>2 DEF DP!Shown
  <2>. QED BY <2>2, <2>3 DEF GrabBatch!Init, DP!Shown
<1>3. IInv /\ [Next]_vars => [GrabBatch!Next]_(GrabBatch!vars) /\ [D!Batch!Next]_(D!Batch!vars)
      BY StepIsBatchStep
<1>. QED
     BY <1>1, <1>2, <1>3, PTL
     DEF Spec, AllKeepPromise, GrabImplementsBatch, D!ImplementsBatch, GrabBatch!Spec, D!Batch!Spec

-----------------------------------------------------------------------------
(***************************************************************************)
(* The files they share: smoke tests are not deceived by what grab writes, *)
(* a payload that could not be built leaves the old file, what grab        *)
(* reports it has written is there, and verify says what grab will find.   *)
(***************************************************************************)
\* The architecture whose turn it is, and the file it goes to.
TurnArch(g) == g.plan[Len(g.settled) + 1]
TurnPath(g) == GrabPath(g.job, TurnArch(g))

-----------------------------------------------------------------------------
\* What ending an invocation, or a turn of it, makes of it.
LEMMA GrabEndsEffect ==
    ASSUME GInv, NEW v \in Grabs, NEW code, GrabEnds(v, code)
    PROVE  /\ \A u \in Grabs \ {v} : grab'[u] = grab[u]
           /\ grab'[v].phase = "over" /\ grab'[v].code = code
           /\ grab'[v].job = grab[v].job /\ grab'[v].plan = grab[v].plan
           /\ grab'[v].settled = grab[v].settled /\ grab'[v].step = grab[v].step
           /\ grab'[v].since = grab[v].since /\ grab'[v].body = grab[v].body
BY DEF GrabEnds, GInv, GrabType

Outcome == {"ok", "payload", "write"}

LEMMA TurnEndsEffect ==
    ASSUME GInv, NEW v \in Grabs, GrabWorking(v), NEW why \in Outcome, TurnEnds(v, why)
    PROVE  /\ \A u \in Grabs \ {v} : grab'[u] = grab[u]
           /\ grab'[v].phase = grab[v].phase /\ grab'[v].code = grab[v].code
           /\ grab'[v].job = grab[v].job /\ grab'[v].plan = grab[v].plan
           /\ grab'[v].step = "check" /\ grab'[v].since = Absence
           /\ grab'[v].settled \in Seq(GrabRow)
           /\ Len(grab'[v].settled) = Len(grab[v].settled) + 1
           /\ \A n \in DOMAIN grab[v].settled : grab'[v].settled[n] = grab[v].settled[n]
           /\ grab'[v].settled[Len(grab[v].settled) + 1] = RowOf(v, why)
<1>. DEFINE g == AfterTurn(v, why)
<1>0. grab[v] \in GrabType /\ grab[v].settled \in Seq(GrabRow) /\ RowOf(v, why) \in GrabRow
      BY RowOfType DEF GInv, GrabType, Outcome
<1>1. g \in GrabType /\ grab' = [grab EXCEPT ![v] = g]
      BY TurnEndsType DEF Outcome
<1>2. /\ g.phase = grab[v].phase /\ g.code = grab[v].code
      /\ g.job = grab[v].job /\ g.plan = grab[v].plan
      /\ g.step = "check" /\ g.since = Absence
      /\ g.settled = Append(grab[v].settled, RowOf(v, why))
      BY <1>0 DEF AfterTurn, GrabType
<1>. HIDE DEF g
<1>3. grab'[v] = g /\ \A u \in Grabs \ {v} : grab'[u] = grab[u]
      BY <1>1 DEF GInv
<1>4. /\ g.settled \in Seq(GrabRow) /\ Len(g.settled) = Len(grab[v].settled) + 1
      /\ \A n \in DOMAIN grab[v].settled : g.settled[n] = grab[v].settled[n]
      /\ g.settled[Len(grab[v].settled) + 1] = RowOf(v, why)
      BY <1>0, <1>2
<1>. QED BY <1>2, <1>3, <1>4

\* Beginning, and going on from one step of a turn to the next.
LEMMA GrabBeginEffect ==
    ASSUME GInv, NEW v \in Grabs, NEW plan,
           grab' = [grab EXCEPT ![v].phase = "running", ![v].plan = plan]
    PROVE  /\ \A u \in Grabs \ {v} : grab'[u] = grab[u]
           /\ grab'[v].phase = "running" /\ grab'[v].plan = plan
           /\ grab'[v].job = grab[v].job /\ grab'[v].settled = grab[v].settled
           /\ grab'[v].step = grab[v].step /\ grab'[v].since = grab[v].since
           /\ grab'[v].body = grab[v].body
BY DEF GInv, GrabType

LEMMA CheckArchEffect ==
    ASSUME GInv, NEW v \in Grabs, NEW ver,
           grab' = [grab EXCEPT ![v].step = "build", ![v].since = ver]
    PROVE  /\ \A u \in Grabs \ {v} : grab'[u] = grab[u]
           /\ grab'[v].step = "build" /\ grab'[v].since = ver
           /\ grab'[v].phase = grab[v].phase /\ grab'[v].job = grab[v].job
           /\ grab'[v].plan = grab[v].plan /\ grab'[v].settled = grab[v].settled
BY DEF GInv, GrabType

LEMMA BuildEffect ==
    ASSUME GInv, NEW v \in Grabs, NEW body,
           grab' = [grab EXCEPT ![v].step = "write", ![v].body = body]
    PROVE  /\ \A u \in Grabs \ {v} : grab'[u] = grab[u]
           /\ grab'[v].step = "write" /\ grab'[v].body = body
           /\ grab'[v].phase = grab[v].phase /\ grab'[v].job = grab[v].job
           /\ grab'[v].plan = grab[v].plan /\ grab'[v].settled = grab[v].settled
           /\ grab'[v].since = grab[v].since
BY DEF GInv, GrabType

LEMMA OpenGrabEffect ==
    ASSUME GInv, NEW v \in Grabs, grab' = [grab EXCEPT ![v].step = "writing"]
    PROVE  /\ \A u \in Grabs \ {v} : grab'[u] = grab[u]
           /\ grab'[v].step = "writing"
           /\ grab'[v].phase = grab[v].phase /\ grab'[v].job = grab[v].job
           /\ grab'[v].plan = grab[v].plan /\ grab'[v].settled = grab[v].settled
           /\ grab'[v].since = grab[v].since /\ grab'[v].body = grab[v].body
BY DEF GInv, GrabType

-----------------------------------------------------------------------------
(***************************************************************************)
(* The steps of a process, by what they do to it: it looks at the root,    *)
(* begins, goes on within a turn, ends the turn, or ends.                  *)
(***************************************************************************)
LooksAtRoot(v) ==
    /\ grab[v].phase = "idle" /\ root
    /\ grab' = [grab EXCEPT ![v].phase = "rooted"]
    /\ disk' = disk

Begins(v) ==
    /\ grab[v].phase = "rooted"
    /\ \E plan \in Seq(Arch) :
          /\ IsInjective(plan)
          /\ GrabJob(v).command \in {"all", "arch"}
          /\ GrabJob(v).command = "all" => ToSet(plan) = Present
          /\ GrabJob(v).command = "arch" => plan = <<GrabJob(v).arch>>
          /\ grab' = [grab EXCEPT ![v].phase = "running", ![v].plan = plan]
    /\ disk' = disk

Finds(v) ==
    /\ AtStep(v, "check") /\ tree[GrabCurrent(v)] # Absence
    /\ grab' = [grab EXCEPT ![v].step = "build", ![v].since = tree[GrabCurrent(v)]]
    /\ disk' = disk

BodyBuilt(v) == [kind |-> "grab", arch |-> GrabCurrent(v), ver |-> tree[GrabCurrent(v)]]

BuildsBody(v) ==
    /\ AtStep(v, "build")
    /\ grab' = [grab EXCEPT ![v].step = "write", ![v].body = BodyBuilt(v)]
    /\ disk' = disk

OpensFile(v) ==
    /\ AtStep(v, "write") /\ GrabFile(v) # WrongSuffix
    /\ disk' = [disk EXCEPT ![GrabFile(v)] = Opened(@, v, grab[v].body)]
    /\ grab' = [grab EXCEPT ![v].step = "writing"]

EndsTurn(v, why) ==
    /\ GrabWorking(v) /\ TurnEnds(v, why)
    /\ why = "ok" => /\ grab[v].step = "writing"
                     /\ disk' = [disk EXCEPT ![GrabFile(v)] = Closed(@, v)]
    /\ why # "ok" => LeaveFile(v)
    /\ why = "payload" => grab[v].step \in {"check", "build"}

EndsGrab(v) == LeaveFile(v) /\ \E code \in 0..255 : GrabEnds(v, code)

\* The plan that a scan makes.
LEMMA ScanMoves ==
    ASSUME GInv, NEW v \in Grabs, Scan(v) PROVE EndsGrab(v) \/ Begins(v)
<1>0. /\ grab[v].phase = "rooted" /\ disk' = disk /\ LeaveFile(v)
      BY DEF Scan, LeaveFile, AtStep, GrabWorking
<1>1. ASSUME NEW code \in {0, 1, 2}, GrabEnds(v, code) PROVE EndsGrab(v)
      BY <1>0, <1>1 DEF EndsGrab
<1>2. CASE Verify(v)
      BY <1>1, <1>2 DEF Verify
<1>3. CASE PlanAll(v)
  <2>1. ASSUME NEW found \in FoundByName,
               grab' = [grab EXCEPT ![v].phase = "running", ![v].plan = found]
        PROVE  Begins(v)
    <3>1. found \in Seq(Arch) /\ IsInjective(found)
          BY FoundType
    <3>2. ToSet(found) = Present
          BY DEF FoundByName
    <3>3. GrabJob(v).command = "all"
          BY <1>3 DEF PlanAll
    <3>. QED BY <1>0, <2>1, <3>1, <3>2, <3>3 DEF Begins
  <2>2. \/ GrabEnds(v, 1) \/ GrabEnds(v, 2)
        \/ \E found \in FoundByName :
              grab' = [grab EXCEPT ![v].phase = "running", ![v].plan = found]
        BY <1>3 DEF PlanAll
  <2>. QED BY <1>1, <2>1, <2>2
<1>4. CASE PlanOne(v)
  <2>0. GrabJob(v).command = "arch"
        BY <1>4 DEF PlanOne
  <2>1. CASE grab' = [grab EXCEPT ![v].phase = "running", ![v].plan = <<GrabJob(v).arch>>]
    <3>1. GrabJob(v).arch \in Arch
      <4>1. grab[v].job \in Job
            BY DEF GInv, GrabType
      <4>. QED BY <2>0, <4>1 DEF GrabJob, Job
    <3>2. <<GrabJob(v).arch>> \in Seq(Arch) /\ IsInjective(<<GrabJob(v).arch>>)
          BY <3>1, OneIsPlan
    <3>. QED BY <1>0, <2>0, <2>1, <3>2 DEF Begins
  <2>2. \/ GrabEnds(v, 2)
        \/ grab' = [grab EXCEPT ![v].phase = "running", ![v].plan = <<GrabJob(v).arch>>]
        BY <1>4 DEF PlanOne
  <2>. QED BY <1>1, <2>1, <2>2
<1>5. CASE GrabEnds(v, 1)
      BY <1>1, <1>5
<1>. QED BY <1>2, <1>3, <1>4, <1>5 DEF Scan

\* These are all of them.
LEMMA GrabStepMoves ==
    ASSUME GInv, NEW v \in Grabs, GrabStep(v) \/ KillGrab(v)
    PROVE  /\ UNCHANGED <<root, tree, latest>>
           /\ \/ LooksAtRoot(v) \/ Begins(v) \/ Finds(v) \/ BuildsBody(v) \/ OpensFile(v)
              \/ (\E why \in Outcome : EndsTurn(v, why)) \/ EndsGrab(v)
<1>1. UNCHANGED <<root, tree, latest>>
      BY DEF GrabStep, KillGrab, CheckRoot, Scan, CheckArch, Build, OpenGrab, CloseGrab, Raises,
             ConcludeGrab
<1>2. CASE CheckRoot(v)
  <2>1. CASE GrabEnds(v, 2)
        BY <1>2, <2>1 DEF CheckRoot, EndsGrab, LeaveFile, AtStep, GrabWorking
  <2>2. CASE root /\ grab' = [grab EXCEPT ![v].phase = "rooted"]
        BY <1>2, <2>2 DEF CheckRoot, LooksAtRoot
  <2>. QED BY <1>1, <1>2, <2>1, <2>2 DEF CheckRoot
<1>3. CASE Scan(v)
      BY <1>1, <1>3, ScanMoves
<1>4. CASE CheckArch(v)
  <2>1. CASE TurnEnds(v, "payload")
        BY <1>4, <2>1 DEF CheckArch, EndsTurn, LeaveFile, AtStep, Outcome
  <2>2. CASE /\ tree[GrabCurrent(v)] # Absence
             /\ grab' = [grab EXCEPT ![v].step = "build", ![v].since = tree[GrabCurrent(v)]]
        BY <1>4, <2>2 DEF CheckArch, Finds
  <2>. QED BY <1>1, <1>4, <2>1, <2>2 DEF CheckArch
<1>5. CASE Build(v)
  <2>1. CASE TurnEnds(v, "payload")
        BY <1>5, <2>1 DEF Build, EndsTurn, LeaveFile, AtStep, Outcome
  <2>2. CASE grab' = [grab EXCEPT ![v].step = "write", ![v].body = BodyBuilt(v)]
        BY <1>5, <2>2 DEF Build, BuildsBody
  <2>. QED BY <1>1, <1>5, <2>1, <2>2 DEF Build, BodyBuilt
<1>6. CASE OpenGrab(v)
  <2>1. CASE TurnEnds(v, "write") /\ disk' = disk
        BY <1>6, <2>1 DEF OpenGrab, EndsTurn, LeaveFile, AtStep, Outcome
  <2>2. CASE GrabFile(v) # WrongSuffix
        BY <1>6, <2>2 DEF OpenGrab, OpensFile
  <2>. QED BY <1>1, <1>6, <2>1, <2>2 DEF OpenGrab
<1>7. CASE CloseGrab(v)
      BY <1>1, <1>7 DEF CloseGrab, EndsTurn, AtStep, Outcome
<1>8. CASE Raises(v)
      BY <1>1, <1>8 DEF Raises, WhyRaised, EndsTurn, Outcome
<1>9. CASE ConcludeGrab(v)
  <2>1. GrabStatus(v) \in 0..255
        BY DEF GrabStatus
  <2>2. LeaveFile(v)
        BY <1>9 DEF ConcludeGrab, LeaveFile, AtStep, GrabWorking, GInv, GrabType
  <2>. QED BY <1>1, <1>9, <2>1, <2>2 DEF ConcludeGrab, EndsGrab
<1>10. CASE KillGrab(v)
       BY <1>1, <1>10 DEF KillGrab, EndsGrab
<1>. QED BY <1>2, <1>3, <1>4, <1>5, <1>6, <1>7, <1>8, <1>9, <1>10 DEF GrabStep

-----------------------------------------------------------------------------
\* A grab goes through its plan in order, each architecture once; one command
\* goes through one architecture, and verify through none.
GrabFits(g) ==
    /\ g.phase \in {"idle", "rooted"} => g.plan = <<>> /\ g.step = "check"
    /\ g.job.command = "verify" => g.plan = <<>>
    /\ g.job.command = "arch" /\ g.plan # <<>> => g.plan = <<g.job.arch>>
    /\ IsInjective(g.plan)
    /\ Len(g.settled) <= Len(g.plan)
    /\ \A n \in DOMAIN g.settled : g.settled[n].arch = g.plan[n]
    /\ g.step # "check" => Len(g.settled) < Len(g.plan)

GrabPlanOK == \A v \in Grabs : GrabFits(grab[v])

\* A step of one process is nothing to the others.
LEMMA OneGrabFits ==
    ASSUME GrabPlanOK, NEW v \in Grabs, \A u \in Grabs \ {v} : grab'[u] = grab[u],
           GrabFits(grab'[v])
    PROVE  GrabPlanOK'
BY DEF GrabPlanOK

LEMMA StepGrabFits ==
    ASSUME GInv, GrabPlanOK, NEW v \in Grabs, GrabStep(v) \/ KillGrab(v) PROVE GrabPlanOK'
<1>0. /\ GrabFits(grab[v]) /\ grab[v] \in GrabType
      /\ grab[v].plan \in Seq(Arch) /\ grab[v].settled \in Seq(GrabRow)
      BY DEF GrabPlanOK, GInv, GrabType
<1>1. CASE LooksAtRoot(v)
  <2>1. /\ \A u \in Grabs \ {v} : grab'[u] = grab[u]
        /\ grab'[v].phase = "rooted" /\ grab'[v].plan = grab[v].plan
        /\ grab'[v].job = grab[v].job /\ grab'[v].settled = grab[v].settled
        /\ grab'[v].step = grab[v].step
        BY <1>0, <1>1 DEF LooksAtRoot, GInv, GrabType
  <2>2. GrabFits(grab'[v])
        BY <1>0, <1>1, <2>1 DEF GrabFits, LooksAtRoot
  <2>. QED BY <2>1, <2>2, OneGrabFits
<1>2. CASE Begins(v)
  <2>1. PICK plan \in Seq(Arch) :
           /\ IsInjective(plan)
           /\ GrabJob(v).command \in {"all", "arch"}
           /\ GrabJob(v).command = "arch" => plan = <<GrabJob(v).arch>>
           /\ grab' = [grab EXCEPT ![v].phase = "running", ![v].plan = plan]
        BY <1>2 DEF Begins
  <2>2. /\ \A u \in Grabs \ {v} : grab'[u] = grab[u]
        /\ grab'[v].phase = "running" /\ grab'[v].plan = plan
        /\ grab'[v].job = grab[v].job /\ grab'[v].settled = grab[v].settled
        /\ grab'[v].step = grab[v].step
        BY <2>1, GrabBeginEffect
  <2>3. grab[v].plan = <<>> /\ grab[v].step = "check" /\ Len(grab[v].settled) = 0
        BY <1>0, <1>2 DEF Begins, GrabFits
  <2>4. DOMAIN grab'[v].settled = {}
        BY <1>0, <2>2, <2>3
  <2>5. grab'[v].job.command # "verify" /\ (grab'[v].job.command = "arch" => plan = <<grab'[v].job.arch>>)
        BY <2>1, <2>2 DEF GrabJob
  <2>6. Len(grab'[v].settled) <= Len(grab'[v].plan)
        BY <2>2, <2>3
  <2>7. grab'[v].phase = "running" /\ grab'[v].step = "check" /\ IsInjective(grab'[v].plan)
        BY <2>1, <2>2, <2>3
  <2>8. GrabFits(grab'[v])
        BY <2>2, <2>4, <2>5, <2>6, <2>7 DEF GrabFits
  <2>. QED BY <2>2, <2>8, OneGrabFits
<1>3. ASSUME \A u \in Grabs \ {v} : grab'[u] = grab[u],
             grab'[v].phase = grab[v].phase, grab'[v].plan = grab[v].plan,
             grab'[v].job = grab[v].job, grab'[v].settled = grab[v].settled, GrabWorking(v)
      PROVE  GrabPlanOK'
  <2>1. GrabFits(grab'[v])
        BY <1>0, <1>3 DEF GrabFits, GrabWorking
  <2>. QED BY <1>3, <2>1, OneGrabFits
<1>4. CASE Finds(v)
      BY <1>3, <1>4, CheckArchEffect DEF Finds, AtStep
<1>5. CASE BuildsBody(v)
      BY <1>3, <1>5, BuildEffect DEF BuildsBody, AtStep
<1>6. CASE OpensFile(v)
      BY <1>3, <1>6, OpenGrabEffect DEF OpensFile, AtStep
<1>7. ASSUME NEW why \in Outcome, EndsTurn(v, why) PROVE GrabPlanOK'
  <2>0. GrabWorking(v) /\ TurnEnds(v, why)
        BY <1>7 DEF EndsTurn
  <2>1. /\ \A u \in Grabs \ {v} : grab'[u] = grab[u]
        /\ grab'[v].phase = grab[v].phase
        /\ grab'[v].job = grab[v].job /\ grab'[v].plan = grab[v].plan
        /\ grab'[v].step = "check"
        /\ grab'[v].settled \in Seq(GrabRow)
        /\ Len(grab'[v].settled) = Len(grab[v].settled) + 1
        /\ \A n \in DOMAIN grab[v].settled : grab'[v].settled[n] = grab[v].settled[n]
        /\ grab'[v].settled[Len(grab[v].settled) + 1] = RowOf(v, why)
        BY <2>0, TurnEndsEffect
  <2>2. RowOf(v, why).arch = grab[v].plan[Len(grab[v].settled) + 1]
        BY DEF RowOf, GrabCurrent
  <2>3. ASSUME NEW n \in DOMAIN grab'[v].settled
        PROVE  grab'[v].settled[n].arch = grab'[v].plan[n]
    <3>1. CASE n \in DOMAIN grab[v].settled
          BY <1>0, <2>1, <3>1 DEF GrabFits
    <3>2. CASE n = Len(grab[v].settled) + 1
          BY <2>1, <2>2, <3>2
    <3>. QED BY <1>0, <2>1, <3>1, <3>2
  <2>4. Len(grab'[v].settled) <= Len(grab'[v].plan)
        BY <1>0, <2>0, <2>1 DEF GrabWorking
  <2>5. GrabFits(grab'[v])
        BY <1>0, <2>0, <2>1, <2>3, <2>4 DEF GrabFits, GrabWorking
  <2>. QED BY <2>1, <2>5, OneGrabFits
<1>8. CASE EndsGrab(v)
  <2>1. PICK code \in 0..255 : GrabEnds(v, code)
        BY <1>8 DEF EndsGrab
  <2>2. /\ \A u \in Grabs \ {v} : grab'[u] = grab[u]
        /\ grab'[v].phase = "over"
        /\ grab'[v].job = grab[v].job /\ grab'[v].plan = grab[v].plan
        /\ grab'[v].settled = grab[v].settled /\ grab'[v].step = grab[v].step
        BY <2>1, GrabEndsEffect
  <2>3. GrabFits(grab'[v])
        BY <1>0, <2>2 DEF GrabFits
  <2>. QED BY <2>2, <2>3, OneGrabFits
<1>. QED BY <1>1, <1>2, <1>4, <1>5, <1>6, <1>7, <1>8, GrabStepMoves

\* What has the turn is an architecture, of the plan.
LEMMA TurnIsPlanned ==
    ASSUME GInv, NEW v \in Grabs, GrabFits(grab[v]), Len(grab[v].settled) < Len(grab[v].plan)
    PROVE  /\ Len(grab[v].settled) + 1 \in DOMAIN grab[v].plan
           /\ TurnArch(grab[v]) \in Arch
           /\ grab[v].job.command # "verify"
           /\ grab[v].job.command = "arch" => TurnArch(grab[v]) = grab[v].job.arch
<1>1. grab[v].plan \in Seq(Arch) /\ grab[v].settled \in Seq(GrabRow)
      BY DEF GInv, GrabType
<1>2. Len(grab[v].settled) + 1 \in DOMAIN grab[v].plan /\ grab[v].plan # <<>>
      BY <1>1
<1>3. TurnArch(grab[v]) \in Arch
      BY <1>1, <1>2 DEF TurnArch
<1>4. grab[v].job.command # "verify"
      BY <1>2 DEF GrabFits
<1>5. ASSUME grab[v].job.command = "arch" PROVE TurnArch(grab[v]) = grab[v].job.arch
  <2>1. grab[v].plan = <<grab[v].job.arch>>
        BY <1>2, <1>5 DEF GrabFits
  <2>. QED BY <1>1, <2>1 DEF TurnArch
<1>. QED BY <1>2, <1>3, <1>4, <1>5

\* Every grab is one of three commands, with an output that fits it.
LEMMA GrabPaths ==
    ASSUME NEW job \in Job, NEW a \in Arch, job.command # "verify"
    PROVE  /\ GrabPath(job, a) \in Path \cup {WrongSuffix}
           /\ job.command = "all" => /\ GrabPath(job, a) \in Path
                                     /\ GrabPath(job, a)[2] = a
           /\ job.command \in {"all", "arch"}
<1>1. CASE job.command = "all"
  <2>1. job.output \in OutDir \cup {None}
        BY <1>1 DEF Job
  <2>2. (IF job.output = None THEN Here ELSE job.output) \in OutDir
        BY <2>1, GrabNamesAssumption
  <2>. QED BY <1>1, <2>2 DEF GrabPath, Path
<1>2. CASE job.command = "arch"
  <2>1. job.output \in Path \cup {WrongSuffix, None}
        BY <1>2 DEF Job
  <2>2. <<Here, a, "td">> \in Path
        BY GrabNamesAssumption DEF Path
  <2>. QED BY <1>2, <2>1, <2>2 DEF GrabPath
<1>. QED BY <1>1, <1>2 DEF Job

\* A grab writes to its targets.
LEMMA TurnIsTarget ==
    ASSUME GInv, NEW v \in Grabs, GrabFits(grab[v]), Len(grab[v].settled) < Len(grab[v].plan)
    PROVE  TurnPath(grab[v]) \in GrabTargets(v) /\ TurnPath(grab[v]) \in Path \cup {WrongSuffix}
<1>1. /\ TurnArch(grab[v]) \in Arch
      /\ grab[v].job.command # "verify"
      /\ grab[v].job.command = "arch" => TurnArch(grab[v]) = grab[v].job.arch
      BY TurnIsPlanned
<1>2. grab[v].job \in Job
      BY DEF GInv, GrabType
<1>3. grab[v].job.command \in {"all", "arch"} /\ TurnPath(grab[v]) \in Path \cup {WrongSuffix}
      BY <1>1, <1>2, GrabPaths DEF TurnPath
<1>. QED BY <1>1, <1>3 DEF GrabTargets, GrabJob, TurnPath

-----------------------------------------------------------------------------
\* The payload of an architecture, of a tree not older than its turn or of none.
Built(b, a, since) ==
    b \in Body /\ b.kind = "grab" /\ b.arch = a /\ (b.ver = Absence \/ b.ver >= since)

\* That is what grab has in hand when it opens a file, and what it reports.
Builds(g) ==
    /\ g.since <= latest
    /\ g.step # "check" => tree[TurnArch(g)] = Absence \/ tree[TurnArch(g)] >= g.since
    /\ g.step \in {"write", "writing"} => Built(g.body, TurnArch(g), g.since)
    /\ g.step = "writing" => TurnPath(g) \in Path
    /\ \A n \in DOMAIN g.settled :
          g.settled[n].ok => Built(g.settled[n].body, g.settled[n].arch, g.settled[n].since)

GrabBodyOK == \A v \in Grabs : Builds(grab[v])

\* How the tree may change: directories go away, or come in a later version.
TreeChanges ==
    /\ latest' \in Version /\ latest <= latest'
    /\ \A a \in Arch : tree'[a] \in {tree[a], Absence, latest'}

LEMMA EnvironmentChanges ==
    ASSUME Shared, Environment PROVE TreeChanges /\ latest < latest' /\ UNCHANGED <<disk, grab>>
<1>1. /\ latest \in Version /\ latest < MaxVersion /\ latest' = latest + 1
      /\ UNCHANGED <<disk, grab>>
      BY DEF Environment, RemoveRoot, UpdateArch, Shared
<1>2. latest' \in Version /\ latest < latest'
      BY <1>1, GrabBoundAssumption DEF Version, Absence
<1>3. \A a \in Arch : tree'[a] \in {tree[a], Absence, latest'}
  <2>1. CASE RemoveRoot
        BY <2>1 DEF RemoveRoot
  <2>2. ASSUME NEW b \in Arch, UpdateArch(b)
        PROVE  \A a \in Arch : tree'[a] \in {tree[a], Absence, latest'}
        BY <2>2, <1>1 DEF UpdateArch, Shared
  <2>. QED BY <2>1, <2>2 DEF Environment
<1>. QED BY <1>1, <1>2, <1>3, GrabBoundAssumption DEF TreeChanges, Version, Absence

\* What they read of the tree stays true of it.
LEMMA TreeKeepsGrabs ==
    ASSUME Shared, GInv, GrabPlanOK, GrabBodyOK, TreeChanges, grab' = grab PROVE GrabBodyOK'
<1>1. ASSUME NEW v \in Grabs PROVE Builds(grab[v])'
  <2>. DEFINE g == grab[v]
  <2>0. GrabFits(g) /\ Builds(g) /\ g.since \in Int /\ latest \in Int /\ latest' \in Int
        BY GrabBoundAssumption
        DEF GrabPlanOK, GrabBodyOK, GInv, GrabType, Shared, TreeChanges, Version, Absence
  <2>1. g.since <= latest'
        BY <2>0 DEF Builds, TreeChanges
  <2>2. g.step # "check" => tree'[TurnArch(g)] = Absence \/ tree'[TurnArch(g)] >= g.since
    <3>. SUFFICES ASSUME g.step # "check"
                  PROVE  tree'[TurnArch(g)] = Absence \/ tree'[TurnArch(g)] >= g.since
         OBVIOUS
    <3>1. TurnArch(g) \in Arch
          BY <2>0, TurnIsPlanned DEF GrabFits
    <3>2. tree'[TurnArch(g)] \in {tree[TurnArch(g)], Absence, latest'}
          BY <3>1 DEF TreeChanges
    <3>3. tree[TurnArch(g)] = Absence \/ tree[TurnArch(g)] >= g.since
          BY <2>0 DEF Builds
    <3>. QED BY <2>1, <2>0, <3>2, <3>3
  <2>3. /\ g.step \in {"write", "writing"} => Built(g.body, TurnArch(g), g.since)
        /\ g.step = "writing" => TurnPath(g) \in Path
        /\ \A n \in DOMAIN g.settled :
              g.settled[n].ok => Built(g.settled[n].body, g.settled[n].arch, g.settled[n].since)
        BY <2>0 DEF Builds
  <2>4. grab'[v] = g
        OBVIOUS
  <2>. HIDE DEF g
  <2>. QED BY <2>1, <2>2, <2>3, <2>4 DEF Builds
<1>. QED BY <1>1 DEF GrabBodyOK

\* Each step of grab keeps to what it has read.
LEMMA StepGrabBuilds ==
    ASSUME Shared, GInv, GrabPlanOK, GrabBodyOK, \A a \in Arch : tree[a] <= latest,
           NEW v \in Grabs, GrabStep(v) \/ KillGrab(v)
    PROVE  GrabBodyOK'
<1>0. /\ GrabFits(grab[v]) /\ Builds(grab[v]) /\ grab[v] \in GrabType
      /\ grab[v].plan \in Seq(Arch) /\ grab[v].settled \in Seq(GrabRow)
      /\ UNCHANGED <<tree, latest>>
      BY GrabStepMoves DEF GrabPlanOK, GrabBodyOK, GInv, GrabType
<1>1. ASSUME \A u \in Grabs \ {v} : grab'[u] = grab[u], Builds(grab'[v])
      PROVE  GrabBodyOK'
  <2>1. ASSUME NEW u \in Grabs PROVE Builds(grab[u])'
        BY <1>0, <1>1 DEF GrabBodyOK, Builds
  <2>. QED BY <2>1 DEF GrabBodyOK
<1>2. ASSUME \A u \in Grabs \ {v} : grab'[u] = grab[u],
             grab'[v].plan = grab[v].plan, grab'[v].settled = grab[v].settled,
             grab'[v].job = grab[v].job, grab'[v].step = grab[v].step,
             grab'[v].since = grab[v].since, grab'[v].body = grab[v].body
      PROVE  GrabBodyOK'
  <2>1. TurnArch(grab'[v]) = TurnArch(grab[v]) /\ TurnPath(grab'[v]) = TurnPath(grab[v])
        BY <1>2 DEF TurnArch, TurnPath
  <2>. QED BY <1>0, <1>1, <1>2, <2>1 DEF Builds
<1>3. CASE LooksAtRoot(v)
  <2>1. /\ \A u \in Grabs \ {v} : grab'[u] = grab[u]
        /\ grab'[v].plan = grab[v].plan
        /\ grab'[v].job = grab[v].job /\ grab'[v].settled = grab[v].settled
        /\ grab'[v].step = grab[v].step /\ grab'[v].since = grab[v].since
        /\ grab'[v].body = grab[v].body
        BY <1>0, <1>3 DEF LooksAtRoot, GInv, GrabType
  <2>. QED BY <1>2, <2>1
<1>4. CASE Begins(v)
  <2>1. PICK plan \in Seq(Arch) : grab' = [grab EXCEPT ![v].phase = "running", ![v].plan = plan]
        BY <1>4 DEF Begins
  <2>2. /\ \A u \in Grabs \ {v} : grab'[u] = grab[u]
        /\ grab'[v].job = grab[v].job /\ grab'[v].settled = grab[v].settled
        /\ grab'[v].step = grab[v].step /\ grab'[v].since = grab[v].since
        BY <2>1, GrabBeginEffect
  <2>3. grab[v].step = "check"
        BY <1>0, <1>4 DEF Begins, GrabFits
  <2>4. Builds(grab'[v])
        BY <1>0, <2>2, <2>3 DEF Builds
  <2>. QED BY <1>1, <2>2, <2>4
<1>5. ASSUME GrabWorking(v)
      PROVE  /\ TurnArch(grab[v]) \in Arch /\ GrabCurrent(v) = TurnArch(grab[v])
             /\ GrabFile(v) = TurnPath(grab[v])
             /\ tree[TurnArch(grab[v])] \in Version /\ tree[TurnArch(grab[v])] <= latest
  <2>1. TurnArch(grab[v]) \in Arch
        BY <1>0, <1>5, TurnIsPlanned DEF GrabWorking
  <2>. QED BY <2>1 DEF GrabCurrent, GrabFile, TurnArch, TurnPath, GrabJob, Shared
<1>6. ASSUME grab'[v].plan = grab[v].plan, grab'[v].settled = grab[v].settled
      PROVE  TurnArch(grab'[v]) = TurnArch(grab[v])
      BY <1>6 DEF TurnArch
<1>7. CASE Finds(v)
  <2>0. GrabWorking(v)
        BY <1>7 DEF Finds, AtStep
  <2>1. /\ \A u \in Grabs \ {v} : grab'[u] = grab[u]
        /\ grab'[v].step = "build" /\ grab'[v].since = tree[GrabCurrent(v)]
        /\ grab'[v].job = grab[v].job
        /\ grab'[v].plan = grab[v].plan /\ grab'[v].settled = grab[v].settled
        BY <1>7, CheckArchEffect DEF Finds
  <2>2. grab'[v].since \in Int /\ grab'[v].since = tree[TurnArch(grab'[v])] /\ grab'[v].since <= latest
        BY <1>5, <1>6, <2>0, <2>1, GrabBoundAssumption DEF Version, Absence
  <2>3. Builds(grab'[v])
        BY <1>0, <2>1, <2>2 DEF Builds
  <2>. QED BY <1>1, <2>1, <2>3
<1>8. CASE BuildsBody(v)
  <2>0. GrabWorking(v) /\ grab[v].step = "build"
        BY <1>8 DEF BuildsBody, AtStep
  <2>1. /\ \A u \in Grabs \ {v} : grab'[u] = grab[u]
        /\ grab'[v].step = "write" /\ grab'[v].body = BodyBuilt(v)
        /\ grab'[v].job = grab[v].job
        /\ grab'[v].plan = grab[v].plan /\ grab'[v].settled = grab[v].settled
        /\ grab'[v].since = grab[v].since
        BY <1>8, BuildEffect DEF BuildsBody
  <2>2. Built(BodyBuilt(v), TurnArch(grab[v]), grab[v].since)
    <3>1. BodyBuilt(v) \in Body /\ BodyBuilt(v).kind = "grab" /\ BodyBuilt(v).arch = TurnArch(grab[v])
          BY <1>5, <2>0 DEF BodyBuilt, Body
    <3>2. BodyBuilt(v).ver = tree[TurnArch(grab[v])]
          BY <1>5, <2>0 DEF BodyBuilt
    <3>3. tree[TurnArch(grab[v])] = Absence \/ tree[TurnArch(grab[v])] >= grab[v].since
          BY <1>0, <2>0 DEF Builds
    <3>. QED BY <3>1, <3>2, <3>3 DEF Built
  <2>3. Builds(grab'[v])
    <3>. DEFINE g == grab'[v]
    <3>1. TurnArch(g) = TurnArch(grab[v])
          BY <1>6, <2>1
    <3>2. Built(g.body, TurnArch(g), g.since)
          BY <2>1, <2>2, <3>1
    <3>3. tree[TurnArch(g)] = Absence \/ tree[TurnArch(g)] >= g.since
          BY <1>0, <2>0, <2>1, <3>1 DEF Builds
    <3>4. /\ g.since <= latest /\ g.step = "write"
          /\ \A n \in DOMAIN g.settled :
                g.settled[n].ok => Built(g.settled[n].body, g.settled[n].arch, g.settled[n].since)
          BY <1>0, <2>1 DEF Builds
    <3>. HIDE DEF g
    <3>5. Builds(g)
          BY <3>2, <3>3, <3>4 DEF Builds
    <3>. QED BY <3>5 DEF g
  <2>. QED BY <1>1, <2>1, <2>3
<1>9. CASE OpensFile(v)
  <2>0. GrabWorking(v) /\ grab[v].step = "write" /\ GrabFile(v) # WrongSuffix
        BY <1>9 DEF OpensFile, AtStep
  <2>1. /\ \A u \in Grabs \ {v} : grab'[u] = grab[u]
        /\ grab'[v].step = "writing" /\ grab'[v].job = grab[v].job
        /\ grab'[v].plan = grab[v].plan /\ grab'[v].settled = grab[v].settled
        /\ grab'[v].since = grab[v].since /\ grab'[v].body = grab[v].body
        BY <1>9, OpenGrabEffect DEF OpensFile
  <2>2. TurnPath(grab[v]) \in Path
    <3>1. TurnPath(grab[v]) \in Path \cup {WrongSuffix}
          BY <1>0, <2>0, TurnIsTarget DEF GrabWorking
    <3>. QED BY <1>5, <2>0, <3>1
  <2>3. TurnArch(grab'[v]) = TurnArch(grab[v]) /\ TurnPath(grab'[v]) = TurnPath(grab[v])
        BY <2>1 DEF TurnArch, TurnPath
  <2>4. Builds(grab'[v])
        BY <1>0, <2>0, <2>1, <2>2, <2>3 DEF Builds
  <2>. QED BY <1>1, <2>1, <2>4
<1>10. ASSUME NEW why \in Outcome, EndsTurn(v, why) PROVE GrabBodyOK'
  <2>0. GrabWorking(v) /\ TurnEnds(v, why) /\ (why = "ok" => grab[v].step = "writing")
        BY <1>10 DEF EndsTurn
  <2>. DEFINE row == RowOf(v, why)
              old == grab[v].settled
  <2>1. /\ \A u \in Grabs \ {v} : grab'[u] = grab[u]
        /\ grab'[v].step = "check" /\ grab'[v].since = Absence
        /\ grab'[v].settled \in Seq(GrabRow)
        /\ Len(grab'[v].settled) = Len(old) + 1
        /\ \A n \in DOMAIN old : grab'[v].settled[n] = old[n]
        /\ grab'[v].settled[Len(old) + 1] = row
        BY <2>0, TurnEndsEffect
  <2>2. row.ok => Built(row.body, row.arch, row.since)
    <3>1. /\ row.ok => why = "ok"
          /\ row.body = grab[v].body /\ row.arch = TurnArch(grab[v]) /\ row.since = grab[v].since
          BY DEF RowOf, GrabCurrent, TurnArch
    <3>2. why = "ok" => Built(grab[v].body, TurnArch(grab[v]), grab[v].since)
          BY <1>0, <2>0 DEF Builds
    <3>. HIDE DEF row
    <3>. QED BY <3>1, <3>2
  <2>. HIDE DEF row
  <2>3. ASSUME NEW n \in DOMAIN grab'[v].settled, grab'[v].settled[n].ok
        PROVE  Built(grab'[v].settled[n].body, grab'[v].settled[n].arch, grab'[v].settled[n].since)
    <3>1. CASE n \in DOMAIN old
          BY <1>0, <2>1, <2>3, <3>1 DEF Builds
    <3>2. CASE n = Len(old) + 1
          BY <2>1, <2>2, <2>3, <3>2
    <3>. QED BY <1>0, <2>1, <3>1, <3>2
  <2>4. Absence <= latest
        BY GrabBoundAssumption DEF Shared, Version, Absence
  <2>5. Builds(grab'[v])
        BY <1>0, <2>1, <2>3, <2>4 DEF Builds
  <2>. QED BY <1>1, <2>1, <2>5
<1>11. CASE EndsGrab(v)
  <2>1. PICK code \in 0..255 : GrabEnds(v, code)
        BY <1>11 DEF EndsGrab
  <2>. QED BY <1>2, <2>1, GrabEndsEffect
<1>. QED BY <1>3, <1>4, <1>7, <1>8, <1>9, <1>10, <1>11, GrabStepMoves

-----------------------------------------------------------------------------
\* The operations on files are those of Dispatch.
LEMMA SameFileOperations ==
    /\ \A f, w, b : DP!Opened(f, w, b) = Opened(f, w, b)
    /\ \A f, w : DP!Abandoned(f, w) = Abandoned(f, w) /\ DP!Closed(f, w) = Closed(f, w)
    /\ \A f : DP!Contents(f) = Contents(f)
<1>1. \A f, w : DP!Abandoned(f, w) = Abandoned(f, w)
      BY DEF Abandoned, DP!Abandoned, WrittenBy, DP!WrittenBy
<1>2. \A f, w : DP!Closed(f, w) = Closed(f, w)
      BY <1>1 DEF Closed, DP!Closed
<1>3. \A f : DP!Contents(f) = Contents(f)
      BY DEF Contents, DP!Contents
<1>4. \A f, w, b : DP!Opened(f, w, b) = Opened(f, w, b)
      BY DEF Opened, DP!Opened
<1>. QED BY <1>1, <1>2, <1>3, <1>4

\* When grab opens a file, it empties it, and what others hold open stays open.
LEMMA OpensEffect ==
    ASSUME Shared, GInv, GrabPlanOK, NEW v \in Grabs, OpensFile(v),
           NEW p, p = TurnPath(grab[v])
    PROVE  /\ p \in Path
           /\ \A q \in Path \ {p} : disk'[q] = disk[q]
           /\ disk'[p].open = disk[p].open \cup {<<v, grab[v].body>>}
           /\ Contents(disk'[p]) = {grab[v].body} \cup {o[2] : o \in disk[p].open}
           /\ disk'[p].exists /\ disk'[p].last = v /\ ~disk'[p].done
<1>0. GrabFile(v) = p /\ GrabWorking(v) /\ p # WrongSuffix
      BY DEF OpensFile, AtStep, GrabFile, GrabCurrent, GrabJob, TurnPath, TurnArch
<1>1. p \in Path
      BY <1>0, TurnIsTarget DEF GrabPlanOK, GrabWorking
<1>2. disk[p] \in OutputFileType
      BY <1>1 DEF Shared
<1>3. (\A q \in Path \ {p} : disk'[q] = disk[q]) /\ disk'[p] = Opened(disk[p], v, grab[v].body)
      BY <1>0, <1>1 DEF OpensFile, Shared
<1>4. disk[p] \in DP!OutputFileType
      BY <1>2, SameSets
<1>5. /\ DP!Opened(disk[p], v, grab[v].body).open = disk[p].open \cup {<<v, grab[v].body>>}
      /\ DP!Contents(DP!Opened(disk[p], v, grab[v].body)) =
            {grab[v].body} \cup {o[2] : o \in disk[p].open}
      /\ DP!Opened(disk[p], v, grab[v].body).exists
      /\ DP!Opened(disk[p], v, grab[v].body).last = v
      /\ ~DP!Opened(disk[p], v, grab[v].body).done
      BY <1>4, DP!OpenedEffect, AssumptionsHold DEF DispatchAssumptions
<1>6. DP!Opened(disk[p], v, grab[v].body) = disk'[p]
      BY <1>3, SameFileOperations
<1>7. Contents(disk'[p]) = DP!Contents(disk'[p])
      BY SameFileOperations
<1>. QED BY <1>1, <1>3, <1>5, <1>6, <1>7

\* When it stops writing, what it has written stays.
StopsFile(v) ==
    /\ AtStep(v, "writing")
    /\ \E f \in {Closed(disk[GrabFile(v)], v), Abandoned(disk[GrabFile(v)], v)} :
          disk' = [disk EXCEPT ![GrabFile(v)] = f]

LEMMA StopsEffect ==
    ASSUME Shared, GInv, GrabBodyOK, NEW v \in Grabs, StopsFile(v), NEW p, p = TurnPath(grab[v])
    PROVE  /\ p \in Path
           /\ \A q \in Path \ {p} : disk'[q] = disk[q]
           /\ disk'[p].open = {o \in disk[p].open : o[1] # v}
           /\ Contents(disk'[p]) = Contents(disk[p])
           /\ disk'[p].exists = disk[p].exists /\ disk'[p].last = disk[p].last
           /\ disk[p].done => disk'[p].done
           /\ disk'[p] = Closed(disk[p], v) /\ disk[p].last = v => disk'[p].done
<1>0. GrabFile(v) = p /\ GrabWorking(v) /\ grab[v].step = "writing"
      BY DEF StopsFile, AtStep, GrabFile, GrabCurrent, GrabJob, TurnPath, TurnArch
<1>1. p \in Path
      BY <1>0 DEF GrabBodyOK, Builds
<1>2. disk[p] \in DP!OutputFileType
      BY <1>1, SameSets DEF Shared
<1>3. /\ \A q \in Path \ {p} : disk'[q] = disk[q]
      /\ disk'[p] = Closed(disk[p], v) \/ disk'[p] = Abandoned(disk[p], v)
      BY <1>0, <1>1 DEF StopsFile, Shared
<1>4. /\ Closed(disk[p], v).open = {o \in disk[p].open : o[1] # v}
      /\ Contents(Closed(disk[p], v)) = Contents(disk[p])
      /\ Closed(disk[p], v).exists = disk[p].exists /\ Closed(disk[p], v).last = disk[p].last
      /\ disk[p].done \/ disk[p].last = v => Closed(disk[p], v).done
      BY <1>2, SameFileOperations, DP!ClosedEffect, AssumptionsHold DEF DispatchAssumptions
<1>5. /\ Abandoned(disk[p], v).open = {o \in disk[p].open : o[1] # v}
      /\ Contents(Abandoned(disk[p], v)) = Contents(disk[p])
      /\ Abandoned(disk[p], v).exists = disk[p].exists
      /\ Abandoned(disk[p], v).last = disk[p].last
      /\ Abandoned(disk[p], v).done = disk[p].done
      BY <1>2, SameFileOperations, DP!AbandonedEffect, AssumptionsHold DEF DispatchAssumptions
<1>6. CASE disk'[p] = Closed(disk[p], v)
      BY <1>1, <1>3, <1>4, <1>6
<1>7. CASE disk'[p] = Abandoned(disk[p], v) /\ disk'[p] # Closed(disk[p], v)
      BY <1>1, <1>3, <1>5, <1>7
<1>. QED BY <1>3, <1>6, <1>7

\* These are the only ways in which grab changes files.
LEMMA GrabFileMoves ==
    ASSUME GInv, NEW v \in Grabs, GrabStep(v) \/ KillGrab(v)
    PROVE  (disk' = disk /\ ~AtStep(v, "writing")) \/ OpensFile(v) \/ StopsFile(v)
<1>1. ASSUME LeaveFile(v) PROVE (disk' = disk /\ ~AtStep(v, "writing")) \/ StopsFile(v)
      BY <1>1 DEF LeaveFile, StopsFile
<1>2. ASSUME NEW why \in Outcome, EndsTurn(v, why)
      PROVE  (disk' = disk /\ ~AtStep(v, "writing")) \/ StopsFile(v)
      BY <1>1, <1>2 DEF EndsTurn, StopsFile, AtStep
<1>. QED BY <1>1, <1>2, GrabStepMoves
         DEF LooksAtRoot, Begins, Finds, BuildsBody, EndsGrab, AtStep, GrabWorking

-----------------------------------------------------------------------------
(***************************************************************************)
(* For Dispatch, what grab does is what others may do to the files at any  *)
(* time: it adds to them what is no inventory.                             *)
(***************************************************************************)
LEMMA GrabsAreForeign ==
    ASSUME Shared, GInv, GrabPlanOK, GrabBodyOK, NEW v \in Grabs, GrabStep(v) \/ KillGrab(v)
    PROVE  DP!DiskMoves /\ DP!TreeMoves
<1>1. DP!TreeMoves
  <2>1. UNCHANGED <<tree, latest>> /\ latest \in Version /\ latest <= latest
        BY GrabStepMoves, GrabBoundAssumption DEF Shared, Version, Absence
  <2>. QED BY <2>1, SameSets DEF DP!TreeMoves
<1>2. ASSUME \A p \in Path : /\ disk'[p].open \subseteq disk[p].open \cup DP!ForeignOpen
                             /\ Contents(disk'[p]) \subseteq Contents(disk[p]) \cup DP!ForeignBody
      PROVE  DP!DiskMoves
      BY <1>2, SameSets, SameFileOperations DEF DP!DiskMoves
<1>3. CASE disk' = disk
      BY <1>1, <1>2, <1>3
<1>. DEFINE p == TurnPath(grab[v])
<1>4. CASE OpensFile(v)
  <2>1. grab[v].body \in Body /\ grab[v].body.kind = "grab"
        BY <1>4 DEF OpensFile, AtStep, GrabBodyOK, Builds, Built
  <2>2. v \notin Inv
        BY WritersAssumption, TogetherAssumption
  <2>3. <<v, grab[v].body>> \in DP!ForeignOpen /\ grab[v].body \in DP!ForeignBody
        BY <2>1, <2>2, SameSets DEF DP!ForeignOpen, DP!ForeignBody
  <2>4. /\ p \in Path
        /\ \A q \in Path \ {p} : disk'[q] = disk[q]
        /\ disk'[p].open = disk[p].open \cup {<<v, grab[v].body>>}
        /\ Contents(disk'[p]) = {grab[v].body} \cup {o[2] : o \in disk[p].open}
        BY <1>4, OpensEffect
  <2>5. {o[2] : o \in disk[p].open} \subseteq Contents(disk[p])
        BY DEF Contents
  <2>. HIDE DEF p
  <2>. QED BY <1>1, <1>2, <2>3, <2>4, <2>5
<1>5. CASE StopsFile(v)
  <2>1. /\ \A q \in Path \ {p} : disk'[q] = disk[q]
        /\ disk'[p].open = {o \in disk[p].open : o[1] # v}
        /\ Contents(disk'[p]) = Contents(disk[p])
        BY <1>5, StopsEffect
  <2>. HIDE DEF p
  <2>. QED BY <1>1, <1>2, <2>1
<1>. QED BY <1>1, <1>3, <1>4, <1>5, GrabFileMoves

\* The invariant of both parts: Dispatch's own, and what grab reads and builds.
SInv == IInv /\ DP!FInv /\ GrabPlanOK /\ GrabBodyOK

LEMMA InitGrabOK == ASSUME Init PROVE GrabPlanOK /\ GrabBodyOK
<1>1. PICK mix \in GrabMix : grab = [v \in Grabs |-> IdleGrab(mix[v])]
      BY DEF Init, GrabInit
<1>2. \A v \in Grabs : /\ grab[v].phase = "idle" /\ grab[v].plan = <<>> /\ grab[v].settled = <<>>
                       /\ grab[v].step = "check" /\ grab[v].since = Absence
      BY <1>1 DEF IdleGrab
<1>3. latest = First /\ IsInjective(<<>>)
      BY DEF Init, D!Init, D!First, First, IsInjective
<1>4. \A v \in Grabs : GrabFits(grab[v])
      BY <1>2, <1>3 DEF GrabFits
<1>5. \A v \in Grabs : Builds(grab[v])
      BY <1>2, <1>3 DEF Builds, First, Absence
<1>. QED BY <1>4, <1>5 DEF GrabPlanOK, GrabBodyOK

LEMMA InitSInv == Init => SInv
BY InitIInv, InitGrabOK, SameInit, DP!InitFInv, AssumptionsHold
   DEF DispatchAssumptions, SInv, Init

\* A step of the td and cpp commands leaves grab and the tree alone.
DispatchMoves(v) == DispatchParent(v) \/ DispatchChild(v) \/ (D!KillParent(v) /\ UNCHANGED grab)

LEMMA DispatchLeaves ==
    ASSUME NEW v \in Inv, DispatchMoves(v) PROVE UNCHANGED <<root, tree, latest, grab>> /\ DP!Next
<1>1. UNCHANGED <<root, tree, latest>>
      BY SameSteps
      DEF DispatchMoves, DispatchParent, DispatchChild, DP!ParentStep, DP!ChildStep, DP!Refuse,
          DP!ScanRaises, DP!Begin, DP!Spawn, DP!Settle, DP!Conclude, DP!ChildCheck, DP!ChildList,
          DP!ChildOpen, DP!ChildClose, DP!ChildFails, DP!KillParent
<1>2. DP!Next
      BY DispatchSteps DEF DispatchMoves
<1>. QED BY <1>1, <1>2 DEF DispatchMoves, DispatchParent, DispatchChild

LEMMA NextSInv == SInv /\ [Next]_vars => SInv'
<1>. SUFFICES ASSUME SInv, [Next]_vars PROVE SInv'
     OBVIOUS
<1>0. /\ IInv /\ DP!FInv /\ GrabPlanOK /\ GrabBodyOK
      /\ Shared /\ GInv /\ DP!IInv
      BY SharedTypes DEF SInv, IInv
<1>1. IInv' /\ DP!TInv' /\ Shared'
  <2>1. IInv'
        BY <1>0, NextIInv
  <2>2. DP!IInv'
        BY <2>1 DEF IInv
  <2>3. DP!TInv'
        BY <2>2 DEF DP!IInv
  <2>4. Shared'
        BY <2>3, SameSets DEF Shared, DP!TInv, DP!TypeOK
  <2>. QED BY <2>1, <2>3, <2>4
<1>2. ASSUME UNCHANGED dispatchVars, DP!TreeMoves, DP!DiskMoves PROVE DP!FInv'
  <2>1. UNCHANGED <<inv, child>>
        BY <1>2 DEF dispatchVars
  <2>. QED BY <1>0, <1>1, <1>2, <2>1, DP!ForeignKeepsFInv, AssumptionsHold
           DEF DispatchAssumptions
<1>3. ASSUME NEW v \in Grabs, GrabStep(v) \/ KillGrab(v), UNCHANGED dispatchVars PROVE SInv'
  <2>1. DP!FInv'
        BY <1>0, <1>2, <1>3, GrabsAreForeign
  <2>2. GrabPlanOK'
        BY <1>0, <1>3, StepGrabFits
  <2>3. \A a \in Arch : tree[a] <= latest
        BY <1>0, SameSets DEF DP!FInv, DP!BodyOK
  <2>4. GrabBodyOK'
        BY <1>0, <1>3, <2>3, StepGrabBuilds
  <2>. QED BY <1>1, <2>1, <2>2, <2>4 DEF SInv
<1>4. CASE Environment /\ UNCHANGED dispatchVars
  <2>1. TreeChanges /\ UNCHANGED <<disk, grab>>
        BY <1>0, <1>4, EnvironmentChanges
  <2>2. DP!TreeMoves
        BY <2>1, SameSets DEF TreeChanges, DP!TreeMoves, Absence, DP!Absence
  <2>3. DP!DiskMoves
        BY <2>1 DEF DP!DiskMoves
  <2>4. DP!FInv'
        BY <1>2, <1>4, <2>2, <2>3
  <2>5. GrabPlanOK' /\ GrabBodyOK'
        BY <1>0, <2>1, TreeKeepsGrabs DEF GrabPlanOK
  <2>. QED BY <1>1, <2>4, <2>5 DEF SInv
<1>5. ASSUME UNCHANGED <<tree, latest, grab>> PROVE GrabPlanOK' /\ GrabBodyOK'
      BY <1>0, <1>5 DEF GrabPlanOK, GrabBodyOK, Builds
<1>6. ASSUME NEW v \in Inv, DispatchMoves(v) PROVE SInv'
  <2>1. UNCHANGED <<tree, latest, grab>> /\ DP!Next
        BY <1>6, DispatchLeaves
  <2>2. DP!FInv'
        BY <1>0, <2>1, DP!NextFInv, AssumptionsHold DEF DispatchAssumptions
  <2>. QED BY <1>1, <1>5, <2>1, <2>2 DEF SInv
<1>7. CASE UNCHANGED vars
  <2>1. UNCHANGED DP!vars /\ UNCHANGED <<tree, latest, grab>>
        BY <1>7 DEF vars, DP!vars
  <2>2. DP!FInv'
        BY <1>0, <2>1, DP!NextFInv, AssumptionsHold DEF DispatchAssumptions
  <2>. QED BY <1>1, <1>5, <2>1, <2>2 DEF SInv
<1>. QED BY <1>3, <1>4, <1>6, <1>7 DEF Next, GrabSteps, DispatchMoves

\* What Dispatch promises is the same.
LEMMA SameSmokePromise ==
    DP!OkRowFresh /\ DP!TracebackOnlyOnForeignFile => SmokeUndeceived
<1>1. DP!OkRowFresh => D!OkRowFresh
      BY Zenon DEF DP!OkRowFresh, D!OkRowFresh, DP!JobOf, D!JobOf, DP!Sharing, D!Sharing,
                   DP!Targets, D!Targets, DP!Scope, D!Scope, DP!PathOfRow, D!PathOfRow,
                   DP!OutPath, D!OutPath, DP!Arch, D!Arch, DP!ToSet, D!ToSet,
                   DP!Absence, D!Absence
<1>2. DP!TracebackOnlyOnForeignFile => D!TracebackOnlyOnForeignFile
      BY Zenon DEF DP!TracebackOnlyOnForeignFile, D!TracebackOnlyOnForeignFile, DP!JobOf, D!JobOf,
                   DP!Sharing, D!Sharing, DP!Targets, D!Targets, DP!Scope, D!Scope,
                   DP!OutPath, D!OutPath, DP!Arch, D!Arch, DP!ToSet, D!ToSet,
                   DP!Current, D!Current, DP!Settled, D!Settled
<1>. QED BY <1>1, <1>2 DEF SmokeUndeceived

(***************************************************************************)
(* However many grabs write into the files of a smoke test, and whenever,  *)
(* a row is OK only for an inventory that the row's own script made, and   *)
(* the loop is ended only by the other kind of inventory, never by a       *)
(* payload of grab.                                                        *)
(***************************************************************************)
THEOREM SmokeIsUndeceived == Spec => []SmokeUndeceived
<1>1. SInv => SmokeUndeceived
      BY SameSmokePromise DEF SInv, DP!FInv
<1>. QED BY InitSInv, NextSInv, <1>1, PTL DEF Spec

-----------------------------------------------------------------------------
\* How a file changes: it is opened by one process, or let go by one.
Opening(w, b, p) ==
    /\ \A q \in Path \ {p} : disk'[q] = disk[q]
    /\ disk'[p].open = disk[p].open \cup {<<w, b>>}
    /\ Contents(disk'[p]) = {b} \cup {o[2] : o \in disk[p].open}
    /\ disk'[p].exists /\ disk'[p].last = w

Leaving(w, p) ==
    /\ \A q \in Path \ {p} : disk'[q] = disk[q]
    /\ disk'[p].open = {o \in disk[p].open : o[1] # w}
    /\ Contents(disk'[p]) = Contents(disk[p])
    /\ disk'[p].exists = disk[p].exists /\ disk'[p].last = disk[p].last
    /\ disk[p].done => disk'[p].done

\* Whether an invocation is writing a file.
Writes(g, p) == g.phase = "running" /\ g.step = "writing" /\ TurnPath(g) = p

LEMMA WritesTarget ==
    ASSUME SInv, NEW v \in Grabs, NEW p, Writes(grab[v], p)
    PROVE  p \in GrabTargets(v) /\ p \in Path /\ Len(grab[v].settled) < Len(grab[v].plan)
<1>1. GInv /\ GrabFits(grab[v]) /\ Builds(grab[v])
      BY DEF SInv, IInv, GrabPlanOK, GrabBodyOK
<1>2. Len(grab[v].settled) < Len(grab[v].plan)
      BY <1>1 DEF Writes, GrabFits
<1>3. TurnPath(grab[v]) \in GrabTargets(v)
      BY <1>1, <1>2, TurnIsTarget
<1>. QED BY <1>1, <1>2, <1>3 DEF Writes, Builds

\* A step of grab leaves the files alone, or opens the one whose turn it is, or
\* lets go of it.
GrabQuiet(v) ==
    disk' = disk /\ \A p : ~Writes(grab[v], p) /\ ~Writes(grab'[v], p)

GrabOpens(v, p) ==
    /\ Opening(v, grab[v].body, p)
    /\ \A q : ~Writes(grab[v], q) /\ (Writes(grab'[v], q) => q = p)
    /\ Writes(grab'[v], p) /\ grab'[v].body = grab[v].body
    /\ p \in GrabTargets(v)

GrabLeaves(v, p) ==
    /\ Leaving(v, p) /\ Writes(grab[v], p)
    /\ \A q : ~Writes(grab'[v], q)

LEMMA GrabChanges ==
    ASSUME SInv, NEW v \in Grabs, GrabStep(v) \/ KillGrab(v)
    PROVE  /\ \A u \in Grabs \ {v} : grab'[u] = grab[u]
           /\ grab'[v].job = grab[v].job
           /\ GrabQuiet(v) \/ \E p \in Path : GrabOpens(v, p) \/ GrabLeaves(v, p)
<1>0. /\ Shared /\ GInv /\ GrabPlanOK /\ GrabBodyOK /\ GrabFits(grab[v])
      BY SharedTypes DEF SInv, IInv, GrabPlanOK
<1>. DEFINE p == TurnPath(grab[v])
<1>1. ASSUME NEW q, Writes(grab[v], q) PROVE AtStep(v, "writing")
      BY <1>1, WritesTarget DEF Writes, AtStep, GrabWorking
<1>2. AtStep(v, "writing") => Writes(grab[v], p)
      BY DEF Writes, AtStep, GrabWorking
<1>3. ASSUME \A q : ~Writes(grab'[v], q)
      PROVE  OpensFile(v) \/ GrabQuiet(v) \/ \E q \in Path : GrabLeaves(v, q)
  <2>1. CASE disk' = disk /\ ~AtStep(v, "writing")
        BY <1>1, <1>3, <2>1 DEF GrabQuiet
  <2>2. CASE StopsFile(v)
    <3>1. p \in Path /\ Leaving(v, p)
          BY <1>0, <2>2, StopsEffect DEF Leaving
    <3>2. Writes(grab[v], p)
          BY <1>2, <2>2 DEF StopsFile
    <3>. HIDE DEF p
    <3>. QED BY <1>3, <3>1, <3>2 DEF GrabLeaves
  <2>. QED BY <1>0, <2>1, <2>2, GrabFileMoves
<1>4. CASE LooksAtRoot(v)
  <2>1. /\ \A u \in Grabs \ {v} : grab'[u] = grab[u]
        /\ grab'[v].phase = "rooted" /\ grab'[v].job = grab[v].job
        BY <1>0, <1>4 DEF LooksAtRoot, GInv, GrabType
  <2>2. ~OpensFile(v)
        BY <1>4 DEF LooksAtRoot, OpensFile, AtStep, GrabWorking
  <2>. QED BY <1>3, <2>1, <2>2 DEF Writes
<1>5. CASE Begins(v)
  <2>1. PICK plan \in Seq(Arch) : grab' = [grab EXCEPT ![v].phase = "running", ![v].plan = plan]
        BY <1>5 DEF Begins
  <2>2. /\ \A u \in Grabs \ {v} : grab'[u] = grab[u]
        /\ grab'[v].job = grab[v].job /\ grab'[v].step = grab[v].step
        BY <1>0, <2>1, GrabBeginEffect
  <2>3. grab[v].step = "check"
        BY <1>0, <1>5 DEF Begins, GrabFits
  <2>4. ~OpensFile(v)
        BY <1>5 DEF Begins, OpensFile, AtStep, GrabWorking
  <2>. QED BY <1>3, <2>2, <2>3, <2>4 DEF Writes
<1>6. CASE Finds(v)
  <2>1. /\ \A u \in Grabs \ {v} : grab'[u] = grab[u]
        /\ grab'[v].job = grab[v].job /\ grab'[v].step = "build"
        BY <1>0, <1>6, CheckArchEffect DEF Finds
  <2>2. ~OpensFile(v)
        BY <1>6 DEF Finds, OpensFile, AtStep
  <2>. QED BY <1>3, <2>1, <2>2 DEF Writes
<1>7. CASE BuildsBody(v)
  <2>1. /\ \A u \in Grabs \ {v} : grab'[u] = grab[u]
        /\ grab'[v].job = grab[v].job /\ grab'[v].step = "write"
        BY <1>0, <1>7, BuildEffect DEF BuildsBody
  <2>2. ~OpensFile(v)
        BY <1>7 DEF BuildsBody, OpensFile, AtStep
  <2>. QED BY <1>3, <2>1, <2>2 DEF Writes
<1>8. CASE OpensFile(v)
  <2>1. /\ \A u \in Grabs \ {v} : grab'[u] = grab[u]
        /\ grab'[v].step = "writing"
        /\ grab'[v].phase = grab[v].phase /\ grab'[v].job = grab[v].job
        /\ grab'[v].plan = grab[v].plan /\ grab'[v].settled = grab[v].settled
        /\ grab'[v].body = grab[v].body
        BY <1>0, <1>8, OpenGrabEffect DEF OpensFile
  <2>2. p \in Path /\ Opening(v, grab[v].body, p)
        BY <1>0, <1>8, OpensEffect DEF Opening
  <2>3. /\ grab[v].step = "write" /\ grab[v].phase = "running"
        /\ Len(grab[v].settled) < Len(grab[v].plan)
        BY <1>8 DEF OpensFile, AtStep, GrabWorking
  <2>4. p \in GrabTargets(v)
        BY <1>0, <2>3, TurnIsTarget
  <2>5. TurnPath(grab'[v]) = p
        BY <2>1 DEF TurnPath, TurnArch
  <2>6. \A q : ~Writes(grab[v], q)
        BY <2>3 DEF Writes
  <2>7. Writes(grab'[v], p) /\ \A q : Writes(grab'[v], q) => q = p
        BY <2>1, <2>3, <2>5 DEF Writes
  <2>. HIDE DEF p
  <2>. QED BY <2>1, <2>2, <2>4, <2>6, <2>7 DEF GrabOpens
<1>9. ASSUME NEW why \in Outcome, EndsTurn(v, why)
      PROVE  /\ \A u \in Grabs \ {v} : grab'[u] = grab[u]
             /\ grab'[v].job = grab[v].job /\ grab'[v].step = "check"
  <2>1. GrabWorking(v) /\ TurnEnds(v, why)
        BY <1>9 DEF EndsTurn
  <2>. QED BY <1>0, <2>1, TurnEndsEffect
<1>10. ASSUME NEW why \in Outcome, EndsTurn(v, why), ~OpensFile(v)
       PROVE  GrabQuiet(v) \/ \E q \in Path : GrabLeaves(v, q)
       BY <1>3, <1>9, <1>10 DEF Writes
<1>11. CASE EndsGrab(v) /\ ~OpensFile(v)
  <2>1. PICK code \in 0..255 : GrabEnds(v, code)
        BY <1>11 DEF EndsGrab
  <2>2. /\ \A u \in Grabs \ {v} : grab'[u] = grab[u]
        /\ grab'[v].phase = "over" /\ grab'[v].job = grab[v].job
        BY <1>0, <2>1, GrabEndsEffect
  <2>. QED BY <1>3, <1>11, <2>2 DEF Writes
<1>. QED BY <1>0, <1>4, <1>5, <1>6, <1>7, <1>8, <1>9, <1>10, <1>11, GrabStepMoves

\* So does a step of the td and cpp commands, with a file they may write.
LEMMA SameTargets == \A u \in Inv : DP!Targets(u) = D!Targets(u)
BY Zenon DEF DP!Targets, D!Targets, DP!Scope, D!Scope, DP!OutPath, D!OutPath, DP!JobOf, D!JobOf,
             DP!Arch, D!Arch, DP!ToSet, D!ToSet

LEMMA DispatchChanges ==
    ASSUME SInv, NEW v \in Inv, DispatchMoves(v)
    PROVE  \/ disk' = disk
           \/ \E u \in Inv : \E p \in Path :
                 p \in D!Targets(u) /\ ((\E b : Opening(u, b, p)) \/ Leaving(u, p))
<1>0. /\ DP!TInv /\ DP!PlanOK /\ DispatchAssumptions /\ disk \in [Path -> OutputFileType]
      BY SharedTypes, AssumptionsHold DEF SInv, DP!FInv, IInv, Shared
<1>1. DP!Next
      BY DispatchLeaves
<1>2. DP!Quiet \/ \E u \in Inv : DP!ChildOpen(u) \/ DP!Stops(u)
      BY <1>0, <1>1, DP!FileMoves DEF DispatchAssumptions
<1>3. ASSUME NEW u \in Inv, child[u].phase # "none" PROVE child[u].path \in D!Targets(u)
      BY <1>0, <1>3, DP!ChildTarget, SameTargets DEF DispatchAssumptions
<1>4. ASSUME NEW u \in Inv, DP!ChildOpen(u)
      PROVE  \E p \in Path : p \in D!Targets(u) /\ \E b : Opening(u, b, p)
  <2>. DEFINE p == child[u].path
              b == child[u].body
  <2>1. /\ p \in DP!Path /\ child[u].phase = "write"
        /\ \A q \in DP!Path \ {p} : disk'[q] = disk[q]
        /\ disk'[p].open = disk[p].open \cup {<<u, b>>}
        /\ disk'[p].exists /\ disk'[p].last = u
        BY <1>0, <1>4, DP!ChildOpenEffect DEF DispatchAssumptions
  <2>5. DP!Contents(disk'[p]) = {b} \cup {o[2] : o \in disk[p].open}
    <3>1. disk[p] \in DP!OutputFileType /\ disk'[p] = DP!Opened(disk[p], u, b)
          BY <1>0, <1>4, <2>1, SameSets DEF DP!ChildOpen
    <3>. HIDE DEF p, b
    <3>2. DP!Contents(DP!Opened(disk[p], u, b)) = {b} \cup {o[2] : o \in disk[p].open}
          BY <1>0, <3>1, DP!OpenedEffect DEF DispatchAssumptions
    <3>. QED BY <3>1, <3>2
  <2>2. p \in D!Targets(u)
        BY <1>3, <2>1
  <2>3. DP!Contents(disk'[p]) = Contents(disk'[p])
        BY SameFileOperations
  <2>. HIDE DEF p, b
  <2>4. Opening(u, b, p)
        BY <2>1, <2>3, <2>5, SameSets DEF Opening
  <2>. QED BY <2>1, <2>2, <2>4, SameSets
<1>5. ASSUME NEW u \in Inv, DP!Stops(u)
      PROVE  \E p \in Path : p \in D!Targets(u) /\ Leaving(u, p)
  <2>. DEFINE p == child[u].path
  <2>1. /\ p \in DP!Path /\ child[u].phase = "writing"
        /\ \A q \in DP!Path \ {p} : disk'[q] = disk[q]
        /\ disk'[p].open = {o \in disk[p].open : o[1] # u}
        /\ DP!Contents(disk'[p]) = DP!Contents(disk[p])
        /\ disk'[p].exists = disk[p].exists /\ disk'[p].last = disk[p].last
        /\ disk[p].done => disk'[p].done
        BY <1>0, <1>5, DP!ChildStopsEffect DEF DispatchAssumptions, DP!Stops
  <2>2. p \in D!Targets(u)
        BY <1>3, <2>1
  <2>3. DP!Contents(disk'[p]) = Contents(disk'[p]) /\ DP!Contents(disk[p]) = Contents(disk[p])
        BY SameFileOperations
  <2>. HIDE DEF p
  <2>4. Leaving(u, p)
        BY <2>1, <2>3, SameSets DEF Leaving
  <2>. QED BY <2>1, <2>2, <2>4, SameSets
<1>. QED BY <1>2, <1>4, <1>5, Zenon DEF DP!Quiet

-----------------------------------------------------------------------------
\* What a step changes of the files, and who takes it.
DispatchTouches(u, p) == p \in D!Targets(u) /\ ((\E b : Opening(u, b, p)) \/ Leaving(u, p))

LEMMA StepChanges ==
    ASSUME SInv, [Next]_vars
    PROVE  \/ grab' = grab /\ disk' = disk
           \/ grab' = grab /\ \E u \in Inv : \E p \in Path : DispatchTouches(u, p)
           \/ \E v \in Grabs : GrabStep(v) \/ KillGrab(v)
<1>1. ASSUME NEW v \in Inv, DispatchMoves(v)
      PROVE  /\ grab' = grab
             /\ disk' = disk \/ \E u \in Inv : \E p \in Path : DispatchTouches(u, p)
      BY <1>1, DispatchLeaves, DispatchChanges DEF DispatchTouches
<1>2. CASE Environment
      BY <1>2, SharedTypes, EnvironmentChanges DEF SInv, IInv
<1>3. CASE UNCHANGED vars
      BY <1>3 DEF vars
<1>. QED BY <1>1, <1>2, <1>3 DEF Next, GrabSteps, DispatchMoves

\* The command lines stay, and with them who may write what.
LEMMA AllJobsStay ==
    ASSUME SInv, [Next]_vars
    PROVE  /\ \A v \in Grabs : grab'[v].job = grab[v].job
           /\ \A u \in Inv : inv'[u].job = inv[u].job
<1>1. ASSUME NEW v \in Inv, DispatchMoves(v)
      PROVE  grab' = grab /\ \A u \in Inv : inv'[u].job = inv[u].job
  <2>1. grab' = grab /\ DP!Next
        BY <1>1, DispatchLeaves
  <2>. QED BY <2>1, DP!JobsStay, AssumptionsHold DEF DispatchAssumptions, SInv, DP!FInv
<1>2. ASSUME NEW v \in Grabs, GrabStep(v) \/ KillGrab(v), UNCHANGED dispatchVars
      PROVE  /\ \A u \in Grabs : grab'[u].job = grab[u].job
             /\ inv' = inv
      BY <1>2, GrabChanges DEF dispatchVars
<1>3. CASE Environment /\ UNCHANGED dispatchVars
      BY <1>3, SharedTypes, EnvironmentChanges DEF SInv, IInv, dispatchVars
<1>4. CASE UNCHANGED vars
      BY <1>4 DEF vars
<1>. QED BY <1>1, <1>2, <1>3, <1>4 DEF Next, GrabSteps, DispatchMoves

LEMMA SharersStay ==
    ASSUME SInv, [Next]_vars, NEW v \in Grabs, NEW p PROVE Sharers(v, p)' = Sharers(v, p)
<1>1. \A u \in Grabs : GrabTargets(u)' = GrabTargets(u)
      BY AllJobsStay DEF GrabTargets, GrabJob
<1>2. \A u \in Inv : D!Targets(u)' = D!Targets(u)
      BY AllJobsStay DEF D!Targets, D!JobOf
<1>. QED BY <1>1, <1>2, Zenon DEF Sharers

-----------------------------------------------------------------------------
\* What a grab holds open is the payload it writes now.
GrabOpenOK ==
    \A p \in Path : \A o \in disk[p].open :
       o[1] \in Grabs => Writes(grab[o[1]], p) /\ grab[o[1]].body = o[2]

LEMMA NextGrabOpenOK == ASSUME SInv, GrabOpenOK, [Next]_vars PROVE GrabOpenOK'
<1>1. CASE grab' = grab /\ disk' = disk
      BY <1>1 DEF GrabOpenOK
<1>2. ASSUME grab' = grab, NEW u \in Inv, NEW p \in Path, DispatchTouches(u, p)
      PROVE  GrabOpenOK'
  <2>1. u \notin Grabs
        BY WritersAssumption, TogetherAssumption
  <2>2. ASSUME NEW q \in Path, NEW o \in disk'[q].open, o[1] \in Grabs PROVE o \in disk[q].open
    <3>1. CASE Leaving(u, p)
          BY <2>2, <3>1 DEF Leaving
    <3>2. ASSUME NEW b, Opening(u, b, p) PROVE o \in disk[q].open
          BY <2>1, <2>2, <3>2 DEF Opening
    <3>. QED BY <1>2, <3>1, <3>2 DEF DispatchTouches
  <2>. QED BY <1>2, <2>2 DEF GrabOpenOK
<1>3. ASSUME NEW v \in Grabs, GrabStep(v) \/ KillGrab(v) PROVE GrabOpenOK'
  <2>0. /\ \A u \in Grabs \ {v} : grab'[u] = grab[u]
        /\ GrabQuiet(v) \/ \E p \in Path : GrabOpens(v, p) \/ GrabLeaves(v, p)
        BY <1>3, GrabChanges
  <2>1. ASSUME NEW q \in Path, NEW o \in disk[q].open, o[1] \in Grabs, o[1] # v
        PROVE  Writes(grab'[o[1]], q) /\ grab'[o[1]].body = o[2]
        BY <2>0, <2>1 DEF GrabOpenOK
  <2>2. ASSUME NEW q \in Path, NEW o \in disk[q].open, o[1] = v PROVE Writes(grab[v], q)
        BY <2>2 DEF GrabOpenOK
  <2>3. CASE GrabQuiet(v)
        BY <2>1, <2>2, <2>3 DEF GrabQuiet, GrabOpenOK
  <2>4. ASSUME NEW p \in Path, GrabOpens(v, p) PROVE GrabOpenOK'
    <3>1. ASSUME NEW q \in Path, NEW o \in disk'[q].open
          PROVE  o \in disk[q].open \/ (q = p /\ o = <<v, grab[v].body>>)
          BY <2>4 DEF GrabOpens, Opening
    <3>2. ASSUME NEW q \in Path, NEW o \in disk'[q].open, o[1] \in Grabs
          PROVE  Writes(grab'[o[1]], q) /\ grab'[o[1]].body = o[2]
      <4>1. CASE o \in disk[q].open
            BY <2>1, <2>2, <2>4, <3>2, <4>1 DEF GrabOpens
      <4>2. CASE q = p /\ o = <<v, grab[v].body>>
            BY <2>4, <4>2 DEF GrabOpens
      <4>. QED BY <3>1, <3>2, <4>1, <4>2
    <3>. QED BY <3>2 DEF GrabOpenOK
  <2>5. ASSUME NEW p \in Path, GrabLeaves(v, p) PROVE GrabOpenOK'
    <3>1. ASSUME NEW q \in Path, NEW o \in disk'[q].open PROVE o \in disk[q].open /\ o[1] # v
      <4>1. CASE q = p
            BY <2>5, <3>1, <4>1 DEF GrabLeaves, Leaving
      <4>2. CASE q # p
        <5>1. o \in disk[q].open
              BY <2>5, <3>1, <4>2 DEF GrabLeaves, Leaving
        <5>. QED BY <2>2, <2>5, <4>2, <5>1 DEF GrabLeaves, Writes
      <4>. QED BY <4>1, <4>2
    <3>2. ASSUME NEW q \in Path, NEW o \in disk'[q].open, o[1] \in Grabs
          PROVE  Writes(grab'[o[1]], q) /\ grab'[o[1]].body = o[2]
          BY <2>1, <3>1, <3>2
    <3>. QED BY <3>2 DEF GrabOpenOK
  <2>. QED BY <2>0, <2>3, <2>4, <2>5
<1>. QED BY <1>1, <1>2, <1>3, StepChanges

-----------------------------------------------------------------------------
\* A file that a grab shares with nobody is changed by that grab alone.
LEMMA OnlyOneself ==
    ASSUME SInv, [Next]_vars, NEW v \in Grabs, NEW p \in Path, Sharers(v, p) = {}
    PROVE  \/ disk'[p] = disk[p]
           \/ /\ GrabStep(v) \/ KillGrab(v)
              /\ GrabOpens(v, p) \/ GrabLeaves(v, p)
<1>1. ASSUME NEW u \in Inv, NEW q \in Path, DispatchTouches(u, q) PROVE disk'[p] = disk[p]
  <2>1. u \notin Sharers(v, p)
        OBVIOUS
  <2>2. q # p
        BY <1>1, <2>1 DEF Sharers, DispatchTouches
  <2>. QED BY <1>1, <2>2 DEF DispatchTouches, Opening, Leaving
<1>2. ASSUME NEW w \in Grabs, GrabStep(w) \/ KillGrab(w), disk'[p] # disk[p]
      PROVE  w = v /\ (GrabOpens(v, p) \/ GrabLeaves(v, p))
  <2>1. PICK q \in Path : GrabOpens(w, q) \/ GrabLeaves(w, q)
        BY <1>2, GrabChanges DEF GrabQuiet
  <2>2. q = p
        BY <1>2, <2>1 DEF GrabOpens, GrabLeaves, Opening, Leaving
  <2>3. p \in GrabTargets(w)
        BY <2>1, <2>2, WritesTarget DEF GrabOpens, GrabLeaves
  <2>4. w = v
        BY <2>3 DEF Sharers
  <2>. QED BY <2>1, <2>2, <2>4
<1>. QED BY <1>1, <1>2, StepChanges

\* And nobody else holds it open.
LEMMA OnlyOneselfOpen ==
    ASSUME SInv, GrabOpenOK, NEW v \in Grabs, NEW p \in Path, Sharers(v, p) = {},
           NEW o \in disk[p].open
    PROVE  Writes(grab[v], p)
<1>0. /\ DP!TInv /\ DP!PlanOK /\ DP!OpenOK /\ DispatchAssumptions /\ Shared
      BY SharedTypes, AssumptionsHold DEF SInv, DP!FInv, IInv
<1>1. o[1] \in Grabs \cup Inv
  <2>1. disk[p].open \subseteq (Grabs \cup Others) \X Body
        BY <1>0 DEF Shared, OutputFileType
  <2>. QED BY <2>1, TogetherAssumption
<1>2. CASE o[1] \in Grabs
  <2>1. Writes(grab[o[1]], p)
        BY <1>2 DEF GrabOpenOK
  <2>2. o[1] = v
        BY <1>2, <2>1, WritesTarget DEF Sharers
  <2>. QED BY <2>1, <2>2
<1>3. CASE o[1] \in Inv
  <2>1. child[o[1]].phase = "writing" /\ child[o[1]].path = p
        BY <1>0, <1>3, SameSets DEF DP!OpenOK, DP!OpenedBy
  <2>2. child[o[1]].path \in DP!Targets(o[1])
        BY <1>0, <1>3, <2>1, DP!ChildTarget DEF DispatchAssumptions
  <2>3. p \in D!Targets(o[1])
        BY <1>3, <2>1, <2>2, SameTargets
  <2>. QED BY <1>3, <2>3 DEF Sharers
<1>. QED BY <1>1, <1>2, <1>3

\* So what is in it is what the grab is writing.
GrabOwnFile ==
    \A v \in Grabs : \A p \in Path :
       Writes(grab[v], p) /\ Sharers(v, p) = {} =>
          disk[p].exists /\ disk[p].last = v /\ Contents(disk[p]) = {grab[v].body}

LEMMA NextGrabOwnFile ==
    ASSUME SInv, GrabOpenOK, GrabOwnFile, [Next]_vars PROVE GrabOwnFile'
<1>1. ASSUME NEW v \in Grabs, NEW p \in Path, Writes(grab'[v], p), Sharers(v, p) = {}
      PROVE  disk'[p].exists /\ disk'[p].last = v /\ Contents(disk'[p]) = {grab'[v].body}
  <2>1. CASE GrabStep(v) \/ KillGrab(v)
    <3>1. PICK q \in Path : GrabOpens(v, q)
          BY <1>1, <2>1, GrabChanges DEF GrabQuiet, GrabLeaves
    <3>2. q = p
          BY <1>1, <3>1 DEF GrabOpens
    <3>3. disk[p].open = {}
          BY <1>1, <3>1, <3>2, OnlyOneselfOpen DEF GrabOpens
    <3>4. Contents(disk'[p]) = {grab[v].body} \cup {o[2] : o \in disk[p].open}
          BY <3>1, <3>2 DEF GrabOpens, Opening
    <3>5. Contents(disk'[p]) = {grab[v].body}
          BY <3>3, <3>4
    <3>. QED BY <3>1, <3>2, <3>5 DEF GrabOpens, Opening
  <2>2. CASE ~(GrabStep(v) \/ KillGrab(v))
    <3>1. disk'[p] = disk[p]
          BY <1>1, <2>2, OnlyOneself
    <3>2. grab'[v] = grab[v]
          BY <2>2, StepChanges, GrabChanges
    <3>. QED BY <1>1, <3>1, <3>2 DEF GrabOwnFile
  <2>. QED BY <2>1, <2>2
<1>. QED BY <1>1, SharersStay DEF GrabOwnFile

-----------------------------------------------------------------------------
\* A step adds at most one row, that of the turn it ends.
LEMMA RowsGrow ==
    ASSUME SInv, NEW v \in Grabs, GrabStep(v) \/ KillGrab(v)
    PROVE  /\ \A n \in DOMAIN grab[v].settled :
                 n \in DOMAIN grab'[v].settled /\ grab'[v].settled[n] = grab[v].settled[n]
           /\ \A n \in DOMAIN grab'[v].settled :
                 \/ n \in DOMAIN grab[v].settled
                 \/ \E why \in Outcome : /\ EndsTurn(v, why)
                                         /\ grab'[v].settled[n] = RowOf(v, why)
<1>0. GInv /\ grab[v].settled \in Seq(GrabRow)
      BY DEF SInv, IInv, GInv, GrabType
<1>1. CASE grab'[v].settled = grab[v].settled
      BY <1>1
<1>2. ASSUME NEW why \in Outcome, EndsTurn(v, why)
      PROVE  /\ \A n \in DOMAIN grab[v].settled :
                   n \in DOMAIN grab'[v].settled /\ grab'[v].settled[n] = grab[v].settled[n]
             /\ \A n \in DOMAIN grab'[v].settled :
                   n \in DOMAIN grab[v].settled \/ grab'[v].settled[n] = RowOf(v, why)
  <2>1. /\ grab'[v].settled \in Seq(GrabRow)
        /\ Len(grab'[v].settled) = Len(grab[v].settled) + 1
        /\ \A n \in DOMAIN grab[v].settled : grab'[v].settled[n] = grab[v].settled[n]
        /\ grab'[v].settled[Len(grab[v].settled) + 1] = RowOf(v, why)
        BY <1>0, <1>2, TurnEndsEffect DEF EndsTurn
  <2>. QED BY <1>0, <2>1
<1>3. ASSUME LooksAtRoot(v) PROVE grab'[v].settled = grab[v].settled
      BY <1>0, <1>3 DEF LooksAtRoot, GInv, GrabType
<1>4. ASSUME Begins(v) PROVE grab'[v].settled = grab[v].settled
  <2>1. PICK plan : grab' = [grab EXCEPT ![v].phase = "running", ![v].plan = plan]
        BY <1>4 DEF Begins
  <2>. QED BY <1>0, <2>1, GrabBeginEffect
<1>6. ASSUME Finds(v) PROVE grab'[v].settled = grab[v].settled
      BY <1>0, <1>6, CheckArchEffect DEF Finds
<1>7. ASSUME BuildsBody(v) PROVE grab'[v].settled = grab[v].settled
      BY <1>0, <1>7, BuildEffect DEF BuildsBody
<1>8. ASSUME OpensFile(v) PROVE grab'[v].settled = grab[v].settled
      BY <1>0, <1>8, OpenGrabEffect DEF OpensFile
<1>9. ASSUME EndsGrab(v) PROVE grab'[v].settled = grab[v].settled
  <2>1. PICK code : GrabEnds(v, code)
        BY <1>9 DEF EndsGrab
  <2>. QED BY <1>0, <2>1, GrabEndsEffect
<1>5. \/ grab'[v].settled = grab[v].settled
      \/ \E why \in Outcome : EndsTurn(v, why)
      BY <1>0, <1>3, <1>4, <1>6, <1>7, <1>8, <1>9, GrabStepMoves
<1>. QED BY <1>1, <1>2, <1>5

\* The files of two architectures of one plan are two files.
LEMMA TwoArchsTwoFiles ==
    ASSUME NEW g \in GrabType, GrabFits(g), NEW m \in DOMAIN g.plan, NEW n \in DOMAIN g.plan,
           GrabPath(g.job, g.plan[m]) = GrabPath(g.job, g.plan[n])
    PROVE  m = n
<1>0. g.job \in Job /\ g.plan \in Seq(Arch)
      BY DEF GrabType
<1>1. g.plan # <<>> /\ g.plan[m] \in Arch /\ g.plan[n] \in Arch
      BY <1>0
<1>2. g.job.command # "verify"
      BY <1>1 DEF GrabFits
<1>3. CASE g.job.command = "all"
  <2>1. g.plan[m] = g.plan[n]
        BY <1>0, <1>1, <1>2, <1>3, GrabPaths
  <2>. QED BY <2>1 DEF GrabFits, IsInjective
<1>4. CASE g.job.command = "arch"
  <2>1. g.plan = <<g.job.arch>>
        BY <1>1, <1>4 DEF GrabFits
  <2>. QED BY <2>1
<1>5. g.job.command \in {"all", "arch"}
      BY <1>0, <1>1, <1>2, GrabPaths
<1>. QED BY <1>3, <1>4, <1>5

\* In particular what a grab is writing is none of the files it has reported.
LEMMA ReportedElsewhere ==
    ASSUME NEW g \in GrabType, GrabFits(g), NEW p, Writes(g, p), NEW n \in DOMAIN g.settled
    PROVE  GrabPath(g.job, g.settled[n].arch) # p
<1>0. g.settled \in Seq(GrabRow) /\ g.plan \in Seq(Arch)
      BY DEF GrabType
<1>1. Len(g.settled) < Len(g.plan)
      BY DEF GrabFits, Writes
<1>2. /\ Len(g.settled) + 1 \in DOMAIN g.plan /\ n \in DOMAIN g.plan
      /\ n # Len(g.settled) + 1
      BY <1>0, <1>1
<1>3. g.settled[n].arch = g.plan[n]
      BY DEF GrabFits
<1>. QED BY <1>2, <1>3, TwoArchsTwoFiles DEF Writes, TurnPath, TurnArch

\* A file that has been reported written, and is not shared, holds the payload.
GrabHolds(v, row) ==
    LET p == GrabPath(GrabJob(v), row.arch)
    IN row.ok /\ Sharers(v, p) = {} =>
          p \in Path /\ disk[p].exists /\ disk[p].done /\ Contents(disk[p]) = {row.body}

GrabRowFile ==
    \A v \in Grabs : \A n \in DOMAIN grab[v].settled : GrabHolds(v, grab[v].settled[n])

LEMMA NextGrabRowFile ==
    ASSUME SInv, SInv', GrabOpenOK, GrabOwnFile, GrabRowFile, [Next]_vars PROVE GrabRowFile'
<1>0. /\ GInv /\ GInv' /\ GrabPlanOK /\ GrabPlanOK' /\ Shared /\ GrabBodyOK
      BY SharedTypes DEF SInv, IInv
<1>1. \A u \in Grabs : grab'[u].job = grab[u].job
      BY AllJobsStay
<1>2. ASSUME NEW v \in Grabs, NEW n \in DOMAIN grab[v].settled, n \in DOMAIN grab'[v].settled,
             grab'[v].settled[n] = grab[v].settled[n],
             NEW p, p = GrabPath(grab[v].job, grab[v].settled[n].arch),
             grab[v].settled[n].ok, Sharers(v, p) = {}
      PROVE  p \in Path /\ disk'[p] = disk[p]
  <2>1. p \in Path
        BY <1>2 DEF GrabRowFile, GrabHolds, GrabJob
  <2>2. ~Writes(grab[v], p)
        BY <1>0, <1>2, ReportedElsewhere DEF GrabPlanOK, GInv
  <2>3. ~Writes(grab'[v], p)
    <3>. SUFFICES ASSUME Writes(grab'[v], p) PROVE FALSE
         OBVIOUS
    <3>1. grab'[v] \in GrabType /\ GrabFits(grab'[v])
          BY <1>0 DEF GrabPlanOK, GInv
    <3>2. GrabPath(grab'[v].job, grab'[v].settled[n].arch) # p
          BY <1>2, <3>1, ReportedElsewhere
    <3>. QED BY <1>1, <1>2, <3>2
  <2>. QED BY <1>2, <2>1, <2>2, <2>3, OnlyOneself DEF GrabOpens, GrabLeaves
<1>3. ASSUME NEW v \in Grabs, NEW why \in Outcome, EndsTurn(v, why), NEW row, row = RowOf(v, why),
             row.ok, NEW p, p = GrabPath(grab[v].job, row.arch), Sharers(v, p) = {}
      PROVE  /\ p \in Path /\ disk'[p].exists /\ disk'[p].done
             /\ Contents(disk'[p]) = {row.body}
  <2>1. /\ why = "ok" /\ row.arch = GrabCurrent(v) /\ row.body = grab[v].body
        BY <1>3 DEF RowOf
  <2>2. /\ GrabWorking(v) /\ grab[v].step = "writing"
        /\ disk' = [disk EXCEPT ![GrabFile(v)] = Closed(@, v)]
        BY <1>3, <2>1 DEF EndsTurn
  <2>3. p = TurnPath(grab[v]) /\ p = GrabFile(v)
        BY <1>3, <2>1 DEF TurnPath, TurnArch, GrabCurrent, GrabFile, GrabJob
  <2>4. Writes(grab[v], p)
        BY <2>2, <2>3 DEF Writes, GrabWorking
  <2>5. p \in Path
        BY <2>4, WritesTarget
  <2>6. disk[p].exists /\ disk[p].last = v /\ Contents(disk[p]) = {grab[v].body}
        BY <1>3, <2>4, <2>5 DEF GrabOwnFile
  <2>7. StopsFile(v)
        BY <2>2 DEF StopsFile, AtStep
  <2>8. disk'[p] = Closed(disk[p], v)
        BY <1>0, <2>2, <2>3, <2>5 DEF Shared
  <2>9. /\ Contents(disk'[p]) = Contents(disk[p]) /\ disk'[p].exists = disk[p].exists
        /\ disk'[p].done
        BY <1>0, <2>3, <2>6, <2>7, <2>8, StopsEffect
  <2>. QED BY <2>1, <2>5, <2>6, <2>9
<1>4. ASSUME NEW v \in Grabs, NEW n \in DOMAIN grab'[v].settled,
             n \in DOMAIN grab[v].settled, grab'[v].settled[n] = grab[v].settled[n]
      PROVE  GrabHolds(v, grab[v].settled[n])'
  <2>1. ASSUME NEW p, p = GrabPath(grab[v].job, grab[v].settled[n].arch),
               grab[v].settled[n].ok, Sharers(v, p) = {}
        PROVE  /\ p \in Path /\ disk'[p].exists /\ disk'[p].done
               /\ Contents(disk'[p]) = {grab[v].settled[n].body}
    <3>1. p \in Path /\ disk'[p] = disk[p]
          BY <1>2, <1>4, <2>1
    <3>2. PICK row : row = grab[v].settled[n]
          OBVIOUS
    <3>3. GrabHolds(v, row)
          BY <1>4, <3>2, Zenon DEF GrabRowFile
    <3>4. disk[p].exists /\ disk[p].done /\ Contents(disk[p]) = {row.body}
          BY <2>1, <3>2, <3>3, Zenon DEF GrabHolds, GrabJob
    <3>. QED BY <3>1, <3>2, <3>4
  <2>2. PICK row : row = grab[v].settled[n]
        OBVIOUS
  <2>3. ASSUME NEW p, p = GrabPath(grab[v].job, row.arch), row.ok, Sharers(v, p) = {}
        PROVE  /\ p \in Path /\ disk'[p].exists /\ disk'[p].done
               /\ Contents(disk'[p]) = {row.body}
        BY <2>1, <2>2, <2>3
  <2>4. grab'[v].settled[n] = row
        BY <1>4, <2>2
  <2>. QED BY <1>1, <2>3, <2>4, SharersStay, Zenon DEF GrabHolds, GrabJob
<1>5. ASSUME NEW v \in Grabs, NEW n \in DOMAIN grab'[v].settled, NEW why \in Outcome,
             EndsTurn(v, why), grab'[v].settled[n] = RowOf(v, why)
      PROVE  GrabHolds(v, grab[v].settled[n])'
  <2>1. PICK row : row = RowOf(v, why)
        OBVIOUS
  <2>2. ASSUME NEW p, p = GrabPath(grab[v].job, row.arch), row.ok, Sharers(v, p) = {}
        PROVE  /\ p \in Path /\ disk'[p].exists /\ disk'[p].done
               /\ Contents(disk'[p]) = {row.body}
        BY <1>3, <1>5, <2>1, <2>2
  <2>. QED BY <1>1, <1>5, <2>1, <2>2, SharersStay, Zenon DEF GrabHolds, GrabJob
<1>6. ASSUME NEW v \in Grabs, NEW n \in DOMAIN grab'[v].settled
      PROVE  GrabHolds(v, grab[v].settled[n])'
  <2>1. CASE GrabStep(v) \/ KillGrab(v)
        BY <1>4, <1>5, <1>6, <2>1, RowsGrow
  <2>2. CASE ~(GrabStep(v) \/ KillGrab(v))
    <3>1. grab'[v] = grab[v]
          BY <2>2, StepChanges, GrabChanges
    <3>. QED BY <1>4, <1>6, <3>1
  <2>. QED BY <2>1, <2>2
<1>. QED BY <1>6 DEF GrabRowFile

\* In the beginning no file is open, and no grab has reported anything.
LEMMA InitFiles ==
    ASSUME Init
    PROVE  /\ \A p \in Path : disk[p].open = {} /\ disk[p].last = Nobody
           /\ \A v \in Grabs : /\ grab[v].phase = "idle" /\ grab[v].step = "check"
                               /\ grab[v].plan = <<>> /\ DOMAIN grab[v].settled = {}
           /\ latest = First
<1>1. PICK mix \in GrabMix : grab = [v \in Grabs |-> IdleGrab(mix[v])]
      BY DEF Init, GrabInit
<1>2. PICK old : disk = [p \in D!Path |-> IF p \in old
                            THEN D!Old([kind |-> p[3], arch |-> p[2], ver |-> D!Earlier])
                            ELSE D!Absent]
      BY DEF Init, D!Init
<1>3. D!Absent.open = {} /\ D!Absent.last = Nobody
      BY DEF D!Absent
<1>4. \A b : D!Old(b).open = {} /\ D!Old(b).last = Nobody
      BY DEF D!Old
<1>5. D!Path = Path
      BY DEF D!Path, Path, D!Arch, Arch, D!ToSet, ToSet, D!Kind
<1>6. ASSUME NEW p \in Path PROVE disk[p].open = {} /\ disk[p].last = Nobody
  <2>1. \/ disk[p] = D!Old([kind |-> p[3], arch |-> p[2], ver |-> D!Earlier])
        \/ disk[p] = D!Absent
        BY <1>2, <1>5
  <2>. QED BY <1>3, <1>4, <2>1
<1>7. \A v \in Grabs : /\ grab[v].phase = "idle" /\ grab[v].step = "check"
                       /\ grab[v].plan = <<>> /\ grab[v].settled = <<>>
      BY <1>1 DEF IdleGrab
<1>8. latest = First
      BY DEF Init, D!Init, D!First, First
<1>. QED BY <1>6, <1>7, <1>8

\* What grab has reported, and what it is writing, is in its files.
ReportedInv == SInv /\ GrabOpenOK /\ GrabOwnFile /\ GrabRowFile

LEMMA InitReported == Init => ReportedInv
<1>. SUFFICES ASSUME Init PROVE ReportedInv
     OBVIOUS
<1>1. SInv
      BY InitSInv
<1>2. GrabOpenOK
      BY InitFiles DEF GrabOpenOK
<1>3. GrabOwnFile
      BY InitFiles DEF GrabOwnFile, Writes
<1>4. GrabRowFile
      BY InitFiles DEF GrabRowFile
<1>. QED BY <1>1, <1>2, <1>3, <1>4 DEF ReportedInv

LEMMA NextReported == ReportedInv /\ [Next]_vars => ReportedInv'
<1>. SUFFICES ASSUME ReportedInv, [Next]_vars PROVE ReportedInv'
     OBVIOUS
<1>1. SInv' /\ SInv /\ GrabOpenOK /\ GrabOwnFile /\ GrabRowFile
      BY NextSInv DEF ReportedInv
<1>2. GrabOpenOK'
      BY <1>1, NextGrabOpenOK
<1>3. GrabOwnFile'
      BY <1>1, NextGrabOwnFile
<1>4. GrabRowFile'
      BY <1>1, NextGrabRowFile
<1>. QED BY <1>1, <1>2, <1>3, <1>4 DEF ReportedInv

\* A reader of a finished file with one body gets that body.
LEMMA ReadsOneBody ==
    ASSUME NEW f, NEW b, f.exists, f.done, Contents(f) = {b} PROVE Reads(f) = {b}
<1>1. \E c \in Contents(f) : Contents(f) = {c}
      OBVIOUS
<1>. QED BY <1>1 DEF Reads

LEMMA ReportedHold == ReportedInv => ReportedFilesHold
<1>. SUFFICES ASSUME ReportedInv, NEW v \in Grabs, NEW n \in DOMAIN grab[v].settled,
                     NEW row, row = grab[v].settled[n],
                     NEW p, p = GrabPath(GrabJob(v), row.arch),
                     row.ok, Sharers(v, p) = {}
              PROVE  /\ Reads(disk[p]) = {row.body}
                     /\ row.body.kind = "grab" /\ row.body.arch = row.arch
                     /\ row.body.ver = Absence \/ row.body.ver >= row.since
     BY Zenon DEF ReportedFilesHold
<1>1. GrabHolds(v, row)
      BY DEF ReportedInv, GrabRowFile
<1>2. disk[p].exists /\ disk[p].done /\ Contents(disk[p]) = {row.body}
      BY <1>1, Zenon DEF GrabHolds
<1>3. Builds(grab[v])
      BY DEF ReportedInv, SInv, GrabBodyOK
<1>4. Built(row.body, row.arch, row.since)
      BY <1>3 DEF Builds
<1>. QED BY <1>2, <1>4, ReadsOneBody DEF Built

(***************************************************************************)
(* What grab has reported written is there, whole, and of a tree not older *)
(* than its turn, as long as the file is that grab's alone: the other      *)
(* grabs, the td and cpp commands, the faults and the updates cannot       *)
(* change it, nor can the rest of the grab itself.                         *)
(***************************************************************************)
THEOREM ReportedFilesStay == Spec => []ReportedFilesHold
BY InitReported, NextReported, ReportedHold, PTL DEF Spec

-----------------------------------------------------------------------------
\* A grab opens a file only when its payload has been built; it then writes the
\* file, or has reported something else than a failure to build it.
Touched(g, p) ==
    \/ g.step = "writing" /\ TurnPath(g) = p
    \/ \E n \in DOMAIN g.settled :
          g.settled[n].why # "payload" /\ GrabPath(g.job, g.settled[n].arch) = p

LEMMA TouchedStays ==
    ASSUME SInv, NEW v \in Grabs, NEW p, Touched(grab[v], p), GrabStep(v) \/ KillGrab(v)
    PROVE  Touched(grab'[v], p)
<1>0. /\ GInv /\ GrabFits(grab[v]) /\ grab[v].settled \in Seq(GrabRow)
      /\ grab'[v].job = grab[v].job
      BY GrabChanges DEF SInv, IInv, GrabPlanOK, GInv, GrabType
<1>1. ASSUME NEW n \in DOMAIN grab[v].settled, grab[v].settled[n].why # "payload",
             GrabPath(grab[v].job, grab[v].settled[n].arch) = p
      PROVE  Touched(grab'[v], p)
  <2>1. n \in DOMAIN grab'[v].settled /\ grab'[v].settled[n] = grab[v].settled[n]
        BY RowsGrow
  <2>. QED BY <1>0, <1>1, <2>1 DEF Touched
<1>2. ASSUME grab[v].step = "writing", TurnPath(grab[v]) = p PROVE Touched(grab'[v], p)
  <2>1. ~LooksAtRoot(v) /\ ~Begins(v)
        BY <1>0, <1>2 DEF LooksAtRoot, Begins, GrabFits
  <2>2. ~Finds(v) /\ ~BuildsBody(v) /\ ~OpensFile(v)
        BY <1>2 DEF Finds, BuildsBody, OpensFile, AtStep
  <2>3. ASSUME NEW why \in Outcome, EndsTurn(v, why) PROVE Touched(grab'[v], p)
    <3>1. why # "payload" /\ GrabWorking(v) /\ TurnEnds(v, why)
          BY <1>2, <2>3 DEF EndsTurn
    <3>2. /\ grab'[v].settled \in Seq(GrabRow)
          /\ Len(grab'[v].settled) = Len(grab[v].settled) + 1
          /\ grab'[v].settled[Len(grab[v].settled) + 1] = RowOf(v, why)
          BY <1>0, <3>1, TurnEndsEffect
    <3>3. RowOf(v, why).why = why /\ RowOf(v, why).arch = TurnArch(grab[v])
          BY DEF RowOf, GrabCurrent, TurnArch
    <3>4. GrabPath(grab[v].job, TurnArch(grab[v])) = p
          BY <1>2 DEF TurnPath
    <3>5. Len(grab[v].settled) + 1 \in DOMAIN grab'[v].settled
          BY <1>0, <3>2
    <3>. QED BY <1>0, <3>1, <3>2, <3>3, <3>4, <3>5 DEF Touched
  <2>4. ASSUME EndsGrab(v) PROVE Touched(grab'[v], p)
    <3>1. PICK code : GrabEnds(v, code)
          BY <2>4 DEF EndsGrab
    <3>2. /\ grab'[v].plan = grab[v].plan /\ grab'[v].settled = grab[v].settled
          /\ grab'[v].step = grab[v].step
          BY <1>0, <3>1, GrabEndsEffect
    <3>3. TurnPath(grab'[v]) = p
          BY <1>0, <1>2, <3>2 DEF TurnPath, TurnArch
    <3>. QED BY <1>2, <3>2, <3>3 DEF Touched
  <2>. QED BY <1>0, <2>1, <2>2, <2>3, <2>4, GrabStepMoves
<1>. QED BY <1>1, <1>2 DEF Touched

\* So a file that a grab was the last to open is one it has had a payload for.
GrabLastOK == \A v \in Grabs : \A p \in Path : disk[p].last = v => Touched(grab[v], p)

LEMMA NextGrabLastOK == ASSUME SInv, GrabLastOK, [Next]_vars PROVE GrabLastOK'
<1>1. ASSUME NEW v \in Grabs, NEW p \in Path, disk[p].last = v PROVE Touched(grab'[v], p)
  <2>1. Touched(grab[v], p)
        BY <1>1 DEF GrabLastOK
  <2>2. CASE GrabStep(v) \/ KillGrab(v)
        BY <2>1, <2>2, TouchedStays
  <2>3. CASE ~(GrabStep(v) \/ KillGrab(v))
    <3>1. grab'[v] = grab[v]
          BY <2>3, StepChanges, GrabChanges
    <3>. QED BY <2>1, <3>1
  <2>. QED BY <2>2, <2>3
<1>2. ASSUME NEW v \in Grabs, NEW p \in Path, disk'[p].last = v, disk[p].last # v
      PROVE  Touched(grab'[v], p)
  <2>1. ASSUME NEW u \in Inv, NEW q \in Path, DispatchTouches(u, q) PROVE disk'[p].last # v
    <3>1. u # v
          BY WritersAssumption, TogetherAssumption
    <3>2. CASE q # p
          BY <1>2, <2>1, <3>2 DEF DispatchTouches, Opening, Leaving
    <3>3. CASE q = p /\ Leaving(u, q)
          BY <1>2, <3>3 DEF Leaving
    <3>4. ASSUME q = p, NEW b, Opening(u, b, q) PROVE disk'[p].last # v
          BY <3>1, <3>4 DEF Opening
    <3>. QED BY <2>1, <3>2, <3>3, <3>4 DEF DispatchTouches
  <2>2. ASSUME NEW w \in Grabs, GrabStep(w) \/ KillGrab(w) PROVE Touched(grab'[v], p)
    <3>1. PICK q \in Path : GrabOpens(w, q) \/ GrabLeaves(w, q)
          BY <1>2, <2>2, GrabChanges DEF GrabQuiet
    <3>2. GrabOpens(w, q) /\ q = p /\ w = v
          BY <1>2, <3>1 DEF GrabOpens, GrabLeaves, Opening, Leaving
    <3>. QED BY <3>2 DEF GrabOpens, Writes, Touched
  <2>. QED BY <1>2, <2>1, <2>2, StepChanges
<1>. QED BY <1>1, <1>2 DEF GrabLastOK

LEMMA UntouchedByFailure ==
    ASSUME NEW g \in GrabType, GrabFits(g), NEW n \in DOMAIN g.settled,
           g.settled[n].why = "payload", NEW p, p = GrabPath(g.job, g.settled[n].arch)
    PROVE  ~Touched(g, p)
<1>0. g.settled \in Seq(GrabRow) /\ g.plan \in Seq(Arch)
      BY DEF GrabType
<1>1. \A m \in DOMAIN g.settled : m \in DOMAIN g.plan /\ g.settled[m].arch = g.plan[m]
      BY <1>0 DEF GrabFits
<1>2. ASSUME NEW m \in DOMAIN g.settled, g.settled[m].why # "payload",
             GrabPath(g.job, g.settled[m].arch) = p
      PROVE  FALSE
  <2>1. m = n
        BY <1>1, <1>2, TwoArchsTwoFiles
  <2>. QED BY <1>2, <2>1
<1>3. ASSUME g.step = "writing", TurnPath(g) = p PROVE FALSE
  <2>1. Len(g.settled) + 1 \in DOMAIN g.plan /\ n # Len(g.settled) + 1
        BY <1>0, <1>3 DEF GrabFits
  <2>2. GrabPath(g.job, g.plan[Len(g.settled) + 1]) = p
        BY <1>3 DEF TurnPath, TurnArch
  <2>. QED BY <1>1, <2>1, <2>2, TwoArchsTwoFiles
<1>. QED BY <1>2, <1>3 DEF Touched

(***************************************************************************)
(* A payload that could not be built has cost nothing: whoever was the     *)
(* last to open the file of that architecture, it was not this grab, in    *)
(* this turn or any other, with whatever faults and updates.               *)
(***************************************************************************)
THEOREM FailuresKeepOldFiles == Spec => []FailureKeepsOldFile
<1>1. Init => SInv /\ GrabLastOK
  <2>. SUFFICES ASSUME Init PROVE SInv /\ GrabLastOK
       OBVIOUS
  <2>1. \A p \in Path : disk[p].last \notin Grabs
        BY InitFiles, WritersAssumption
  <2>. QED BY <2>1, InitSInv DEF GrabLastOK
<1>2. SInv /\ GrabLastOK /\ [Next]_vars => (SInv /\ GrabLastOK)'
      BY NextSInv, NextGrabLastOK
<1>3. SInv /\ GrabLastOK => FailureKeepsOldFile
  <2>. SUFFICES ASSUME SInv, GrabLastOK,
                       NEW v \in Grabs, NEW n \in DOMAIN grab[v].settled,
                       grab[v].settled[n].why = "payload",
                       NEW p \in Path, p = GrabPath(GrabJob(v), grab[v].settled[n].arch)
                PROVE  disk[p].last # v
       BY Zenon DEF FailureKeepsOldFile
  <2>1. ~Touched(grab[v], p)
        BY UntouchedByFailure DEF SInv, IInv, GInv, GrabPlanOK, GrabJob
  <2>. QED BY <2>1 DEF GrabLastOK
<1>. QED BY <1>1, <1>2, <1>3, PTL DEF Spec

-----------------------------------------------------------------------------
\* While the tree is the first one, what a grab has seen of it is what is there.
Seen(g) ==
    /\ g.phase = "rooted" => root
    /\ g.phase = "running" => g.job.command # "verify"
    /\ g.job.command = "verify" /\ g.phase = "over" /\ g.code \in {0, 1} =>
          (g.code = 0 <=> Arch \subseteq Present)
    /\ g.job.command = "all" /\ g.plan # <<>> => ToSet(g.plan) = Present

GrabSeenOK == First <= latest /\ (latest = First => \A v \in Grabs : Seen(grab[v]))

\* The statuses of verify are those of its scan, an argument error or a signal.
LEMMA VerifyEnds ==
    ASSUME GInv, NEW v \in Grabs, GrabStep(v) \/ KillGrab(v), Seen(grab[v]),
           grab[v].job.command = "verify", grab'[v].phase = "over", grab'[v].code \in {0, 1}
    PROVE  grab'[v].code = 0 <=> Arch \subseteq Present
<1>0. GrabJob(v).command = "verify" /\ ~GrabWorking(v) /\ grab[v].phase # "running"
      BY DEF GrabJob, Seen, GrabWorking
<1>1. ASSUME NEW code, GrabEnds(v, code) PROVE grab'[v].code = code
      BY <1>1, GrabEndsEffect
<1>2. CASE CheckRoot(v)
  <2>1. CASE GrabEnds(v, 2)
        BY <1>1, <2>1
  <2>2. CASE grab' = [grab EXCEPT ![v].phase = "rooted"]
        BY <2>2 DEF GInv, GrabType
  <2>. QED BY <1>2, <2>1, <2>2 DEF CheckRoot
<1>3. CASE Scan(v)
  <2>1. root /\ (Verify(v) \/ PlanAll(v) \/ PlanOne(v))
        BY <1>3 DEF Scan, Seen
  <2>2. GrabEnds(v, IF Missing(Present) = {} THEN 0 ELSE 1)
        BY <1>0, <2>1 DEF Verify, PlanAll, PlanOne
  <2>3. grab'[v].code = IF Missing(Present) = {} THEN 0 ELSE 1
        BY <1>1, <2>2
  <2>. QED BY <2>3 DEF Missing
<1>4. CASE KillGrab(v)
      BY <1>1, <1>4 DEF KillGrab
<1>. QED BY <1>0, <1>2, <1>3, <1>4
         DEF GrabStep, CheckArch, Build, OpenGrab, CloseGrab, Raises, ConcludeGrab, AtStep

LEMMA StepSeen ==
    ASSUME GInv, NEW v \in Grabs, GrabStep(v) \/ KillGrab(v), Seen(grab[v]) PROVE Seen(grab'[v])
<1>0. grab[v] \in GrabType
      BY DEF GInv
<1>1. ASSUME grab'[v].job = grab[v].job, grab'[v].plan = grab[v].plan,
             grab'[v].phase = grab[v].phase, grab[v].phase = "running"
      PROVE  Seen(grab'[v])
      BY <1>1 DEF Seen
<1>2. CASE LooksAtRoot(v)
  <2>1. /\ grab'[v].phase = "rooted" /\ root
        /\ grab'[v].job = grab[v].job /\ grab'[v].plan = grab[v].plan
        BY <1>0, <1>2 DEF LooksAtRoot, GInv, GrabType
  <2>. QED BY <2>1 DEF Seen
<1>3. CASE Begins(v)
  <2>1. PICK plan \in Seq(Arch) :
           /\ GrabJob(v).command \in {"all", "arch"}
           /\ GrabJob(v).command = "all" => ToSet(plan) = Present
           /\ grab' = [grab EXCEPT ![v].phase = "running", ![v].plan = plan]
        BY <1>3 DEF Begins
  <2>2. /\ grab'[v].phase = "running" /\ grab'[v].plan = plan
        /\ grab'[v].job = grab[v].job
        BY <2>1, GrabBeginEffect
  <2>. QED BY <2>1, <2>2 DEF Seen, GrabJob
<1>4. CASE Finds(v)
      BY <1>1, <1>4, CheckArchEffect DEF Finds, AtStep, GrabWorking
<1>5. CASE BuildsBody(v)
      BY <1>1, <1>5, BuildEffect DEF BuildsBody, AtStep, GrabWorking
<1>6. CASE OpensFile(v)
      BY <1>1, <1>6, OpenGrabEffect DEF OpensFile, AtStep, GrabWorking
<1>7. ASSUME NEW why \in Outcome, EndsTurn(v, why) PROVE Seen(grab'[v])
  <2>1. GrabWorking(v) /\ TurnEnds(v, why)
        BY <1>7 DEF EndsTurn
  <2>. QED BY <1>1, <2>1, TurnEndsEffect DEF GrabWorking
<1>8. CASE EndsGrab(v)
  <2>1. PICK code : GrabEnds(v, code)
        BY <1>8 DEF EndsGrab
  <2>2. /\ grab'[v].phase = "over" /\ grab'[v].job = grab[v].job
        /\ grab'[v].plan = grab[v].plan
        BY <2>1, GrabEndsEffect
  <2>. QED BY <2>2, VerifyEnds DEF Seen
<1>. QED BY <1>2, <1>3, <1>4, <1>5, <1>6, <1>7, <1>8, GrabStepMoves

LEMMA NextGrabSeenOK == ASSUME SInv, GrabSeenOK, [Next]_vars PROVE GrabSeenOK'
<1>0. Shared /\ GInv
      BY SharedTypes DEF SInv, IInv
<1>1. ASSUME NEW v \in Grabs, GrabStep(v) \/ KillGrab(v) PROVE GrabSeenOK'
  <2>1. UNCHANGED <<root, tree, latest>> /\ \A u \in Grabs \ {v} : grab'[u] = grab[u]
        BY <1>0, <1>1, GrabStepMoves, GrabChanges
  <2>2. ASSUME latest = First, NEW u \in Grabs PROVE Seen(grab'[u])
        BY <1>0, <1>1, <2>1, <2>2, StepSeen DEF GrabSeenOK
  <2>3. ASSUME latest = First, NEW u \in Grabs PROVE Seen(grab[u])'
        BY <2>1, <2>2, <2>3 DEF Seen, Present
  <2>. QED BY <2>1, <2>3 DEF GrabSeenOK
<1>2. CASE UNCHANGED <<root, tree, latest, grab>>
      BY <1>2 DEF GrabSeenOK, Seen, Present
<1>3. ASSUME NEW v \in Inv, DispatchMoves(v) PROVE GrabSeenOK'
      BY <1>2, <1>3, DispatchLeaves
<1>4. CASE Environment
  <2>1. latest < latest' /\ latest \in Int /\ latest' \in Int
        BY <1>0, <1>4, EnvironmentChanges, GrabBoundAssumption
           DEF TreeChanges, Shared, Version, Absence
  <2>. QED BY <2>1 DEF GrabSeenOK, First
<1>5. CASE UNCHANGED vars
      BY <1>2, <1>5 DEF vars
<1>. QED BY <1>1, <1>3, <1>4, <1>5 DEF Next, GrabSteps, DispatchMoves

(***************************************************************************)
(* On a tree that stays as it is, verify and grab --all are told the same: *)
(* grab goes over every architecture exactly if verify gives 0, whichever  *)
(* of them scans first and whatever else runs.                             *)
(***************************************************************************)
THEOREM VerifyPredicts == Spec => []VerifyPredictsPlan
<1>1. Init => SInv /\ GrabSeenOK
  <2>. SUFFICES ASSUME Init PROVE SInv /\ GrabSeenOK
       OBVIOUS
  <2>1. \A v \in Grabs : Seen(grab[v])
        BY InitFiles DEF Seen
  <2>. QED BY <2>1, InitFiles, InitSInv DEF GrabSeenOK, First
<1>2. SInv /\ GrabSeenOK /\ [Next]_vars => (SInv /\ GrabSeenOK)'
      BY NextSInv, NextGrabSeenOK
<1>3. SInv /\ GrabSeenOK => VerifyPredictsPlan
  <2>. SUFFICES ASSUME SInv, GrabSeenOK, NEW v \in Grabs, NEW u \in Grabs, latest = First,
                       grab[v].job.command = "verify", grab[v].phase = "over",
                       grab[v].code \in {0, 1},
                       grab[u].job.command = "all", grab[u].plan # <<>>
                PROVE  grab[v].code = 0 <=> ToSet(grab[u].plan) = ToSet(ByName)
       BY Zenon DEF VerifyPredictsPlan, GrabJob
  <2>1. Seen(grab[v]) /\ Seen(grab[u])
        BY DEF GrabSeenOK
  <2>2. ToSet(ByName) = Arch /\ Present \subseteq Arch
        BY GrabNamesAssumption DEF Present
  <2>. QED BY <2>1, <2>2 DEF Seen
<1>. QED BY <1>1, <1>2, <1>3, PTL DEF Spec
=============================================================================
