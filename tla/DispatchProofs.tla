--------------------------- MODULE DispatchProofs ---------------------------
(***************************************************************************)
(* The types of Dispatch, that it implements ArchBatch, and what it        *)
(* promises about the output files, for any number of invocations and      *)
(* architectures and any bound on faults and updates of the tree.  The     *)
(* lemmas about the files come first for the files of a command line that  *)
(* other commands write to as well, as SharedOutput has them, and then for *)
(* Dispatch by itself.                                                     *)
(***************************************************************************)
EXTENDS Dispatch, FiniteSetTheorems, TLAPS

\* A script has an architecture and a file; one that writes has a body.
ChildOK ==
    \A v \in Inv :
       /\ child[v].phase # "none" => child[v].arch \in Arch /\ child[v].path \in Path
       /\ child[v].phase \in {"write", "writing"} => child[v].body \in Body

TInv == TypeOK /\ ChildOK

-----------------------------------------------------------------------------
\* Absence, Earlier and First are versions.
LEMMA Versions == {Absence, Earlier, First} \subseteq Version
BY BoundAssumption DEF Absence, Earlier, First, Version

\* The file a command writes for an architecture is a path.
LEMMA OutPathType ==
    ASSUME NEW job \in Job, NEW a \in Arch PROVE OutPath(job, a) \in Path
<1>1. CASE job.command = "smoke"
  <2>1. job.output \in OutDir /\ job.kind \in Kind
        BY <1>1 DEF Job
  <2>. QED BY <1>1, <2>1 DEF OutPath, Path
<1>2. CASE job.command # "smoke"
  <2>1. job.output \in Path \cup {None} /\ job.kind \in Kind
        BY <1>2 DEF Job
  <2>. QED BY <1>2, <2>1 DEF OutPath, Path
<1>. QED BY <1>1, <1>2

\* A plan is a sequence of architectures.
LEMMA PlansType ==
    ASSUME NEW job \in Job, NEW p \in PlansOf(job) PROVE p \in Seq(Arch)
<1>1. CASE job.select = "ALL"
      BY <1>1, ArchitecturesAssumption DEF PlansOf
<1>2. CASE job.select = "found"
  <2>1. p \in BoundedSeq(Arch, Cardinality(Arch))
        BY <1>2 DEF PlansOf, Found
  <2>2. PICK m \in 0..Cardinality(Arch) : p \in [1..m -> Arch]
        BY <2>1, Zenon DEF BoundedSeq, SeqOf
  <2>. QED BY <2>2
<1>3. CASE job.select \notin {"ALL", "found"}
  <2>1. job.select \in Arch
        BY <1>3 DEF Job
  <2>2. p = <<job.select>>
        BY <1>3 DEF PlansOf
  <2>. QED BY <2>1, <2>2
<1>. QED BY <1>1, <1>2, <1>3

\* The operations on an output file keep its type.
LEMMA FileTypes ==
    ASSUME NEW f \in OutputFileType, NEW v \in Inv, NEW b \in Body
    PROVE  /\ Opened(f, v, b) \in OutputFileType
           /\ Abandoned(f, v) \in OutputFileType
           /\ Closed(f, v) \in OutputFileType
<1>1. Opened(f, v, b) \in OutputFileType
      BY DEF Opened, OutputFileType
<1>2. WrittenBy(f, v) \subseteq Body
      BY DEF WrittenBy, OutputFileType
<1>3. Abandoned(f, v) \in OutputFileType
      BY <1>2 DEF Abandoned, OutputFileType
<1>4. Closed(f, v) \in OutputFileType
      BY <1>3 DEF Closed, OutputFileType
<1>. QED BY <1>1, <1>3, <1>4

\* Reading a file gives an inventory, or something that is none.
LEMMA ReadsType ==
    ASSUME NEW f \in OutputFileType PROVE Reads(f) \subseteq Body \cup {Invalid}
<1>1. Contents(f) \subseteq Body
      BY DEF Contents, OutputFileType
<1>. QED BY <1>1 DEF Reads

\* An exit status is a byte.
LEMMA ExitStatusType == \A rc \in {0, 1, -9} : ExitStatus(rc) \in 0..255
BY DEF ExitStatus

\* The initial states have their types.
LEMMA InitTInv == Init => TInv
<1>. SUFFICES ASSUME Init PROVE TInv
     OBVIOUS
<1>1. PICK mix \in Mix :
        /\ inv = [v \in Inv |-> Idle(mix[v])]
        /\ \E old \in Leftover :
              disk = [p \in Path |-> IF p \in old
                                     THEN Old([kind |-> p[3], arch |-> p[2], ver |-> Earlier])
                                     ELSE Absent]
      BY DEF Init
<1>2. PICK old \in Leftover :
        disk = [p \in Path |-> IF p \in old
                               THEN Old([kind |-> p[3], arch |-> p[2], ver |-> Earlier])
                               ELSE Absent]
      BY <1>1
<1>3. ASSUME NEW v \in Inv PROVE Idle(mix[v]) \in InvType
  <2>1. mix[v] \in Job
        BY MixAssumption
  <2>. QED BY <2>1 DEF Idle, InvType
<1>4. inv \in [Inv -> InvType]
      BY <1>1, <1>3
<1>5. ASSUME NEW p \in Path
      PROVE Old([kind |-> p[3], arch |-> p[2], ver |-> Earlier]) \in OutputFileType
  <2>1. p[2] \in Arch /\ p[3] \in Kind
        BY DEF Path
  <2>2. [kind |-> p[3], arch |-> p[2], ver |-> Earlier] \in Body
        BY <2>1, Versions DEF Body
  <2>. QED BY <2>2 DEF Old, OutputFileType
<1>6. Absent \in OutputFileType
      BY DEF Absent, OutputFileType
<1>7. disk \in [Path -> OutputFileType]
      BY <1>2, <1>5, <1>6
<1>8. child \in [Inv -> ChildType] /\ ChildOK
  <2>1. NoChild \in ChildType
        BY Versions DEF NoChild, ChildType
  <2>2. child = [v \in Inv |-> NoChild]
        BY DEF Init
  <2>. QED BY <2>1, <2>2 DEF ChildOK, NoChild
<1>9. /\ root \in BOOLEAN /\ scripts \subseteq Kind
      /\ tree \in [Arch -> Version] /\ latest \in Version
      BY Versions DEF Init
<1>10. faults \in 0..MaxFaults
      BY BoundAssumption DEF Init
<1>. QED BY <1>4, <1>7, <1>8, <1>9, <1>10 DEF TInv, TypeOK

\* Ending an invocation keeps the types.
LEMMA EndsType ==
    ASSUME TInv, NEW v \in Inv, NEW code \in 0..255, Ends(v, code)
    PROVE inv' \in [Inv -> InvType]
<1>. DEFINE i == [inv[v] EXCEPT !.phase = "over", !.code = code]
<1>0. inv[v] \in InvType
      BY DEF TInv, TypeOK
<1>1. i \in InvType
      BY <1>0 DEF InvType
<1>2. inv' = [inv EXCEPT ![v] = i]
      BY DEF Ends
<1>. QED BY <1>1, <1>2 DEF TInv, TypeOK

\* Reporting a row keeps the types.
LEMMA ReportsType ==
    ASSUME TInv, NEW v \in Inv, NEW row \in RowType, Reports(v, row)
    PROVE inv' \in [Inv -> InvType]
<1>1. child[v].rc \in {0, 1, -9}
      BY DEF TInv, TypeOK, ChildType
<1>2. inv[v] \in InvType
      BY DEF TInv, TypeOK
<1>3. [inv[v] EXCEPT !.settled = Append(@, row), !.rc = child[v].rc] \in InvType
  <2>1. Append(inv[v].settled, row) \in Seq(RowType)
        BY <1>2 DEF InvType
  <2>. QED BY <1>1, <1>2, <2>1 DEF InvType
<1>4. inv' = [inv EXCEPT ![v] = [inv[v] EXCEPT !.settled = Append(@, row), !.rc = child[v].rc]]
      BY DEF Reports
<1>. QED BY <1>3, <1>4 DEF TInv, TypeOK

\* The architecture whose turn it is.
LEMMA CurrentType ==
    ASSUME TInv, NEW v \in Inv, Waiting(v) PROVE Current(v) \in Arch
<1>1. inv[v].plan \in Seq(Arch) /\ Len(inv[v].settled) \in Nat
      BY DEF TInv, TypeOK, InvType
<1>2. Len(inv[v].settled) + 1 \in 1..Len(inv[v].plan)
      BY <1>1 DEF Waiting, Settled
<1>. QED BY <1>1, <1>2 DEF Current, Settled

\* A row of the current architecture.
LEMMA RowHasType ==
    ASSUME TInv, NEW v \in Inv, Waiting(v), NEW ok \in BOOLEAN,
           NEW why \in {"ok", "child", "readback"}, NEW ver \in Version
    PROVE Row(v, ok, why, ver) \in RowType
<1>1. child[v].since \in Version
      BY DEF TInv, TypeOK, ChildType
<1>. QED BY <1>1, CurrentType DEF Row, RowType

\* Settling ends the invocation or reports a row of the current architecture;
\* that of a run is OK exactly if the script returned 0.
LEMMA SettleEffect ==
    ASSUME TInv, NEW v \in Inv, Settle(v)
    PROVE  \/ \E code \in 1..255 : Ends(v, code)
           \/ \E row \in RowType :
                 /\ Reports(v, row)
                 /\ row.arch = Current(v)
                 /\ JobOf(v).command = "run" => (row.ok <=> child[v].rc = 0)
<1>0. Waiting(v) /\ Absence \in Version
      BY Versions DEF Settle
<1>1. CASE ~Succeeded(child[v].rc)
  <2>. DEFINE row == Row(v, FALSE, "child", Absence)
  <2>1. Reports(v, row)
        BY <1>1 DEF Settle
  <2>2. row \in RowType
        BY <1>0, RowHasType
  <2>. QED BY <1>1, <2>1, <2>2 DEF Row, Succeeded
<1>2. CASE Succeeded(child[v].rc) /\ JobOf(v).command = "smoke"
  <2>1. PICK r \in Reads(disk[child[v].path]) : ReadBack(v, r)
        BY <1>2 DEF Settle
  <2>2. child[v].path \in Path
        BY DEF Settle, Finished, TInv, ChildOK
  <2>3. r \in Body \cup {Invalid}
        BY <2>2, ReadsType DEF TInv, TypeOK
  <2>4. CASE ~HasSummary(r)
    <3>. DEFINE row == Row(v, FALSE, "readback", Absence)
    <3>1. Reports(v, row)
          BY <2>1, <2>4 DEF ReadBack
    <3>2. row \in RowType
          BY <1>0, RowHasType
    <3>. QED BY <1>2, <3>1, <3>2 DEF Row
  <2>5. CASE HasSummary(r) /\ r.kind = JobOf(v).kind
    <3>. DEFINE row == Row(v, TRUE, "ok", r.ver)
    <3>1. Reports(v, row)
          BY <2>1, <2>5 DEF ReadBack
    <3>2. r.ver \in Version
          BY <2>3, <2>5 DEF Body, HasSummary
    <3>3. row \in RowType
          BY <1>0, <3>2, RowHasType
    <3>. QED BY <1>2, <3>1, <3>3 DEF Row
  <2>6. CASE HasSummary(r) /\ r.kind # JobOf(v).kind
        BY <2>1, <2>6 DEF ReadBack
  <2>. QED BY <2>4, <2>5, <2>6
<1>3. CASE Succeeded(child[v].rc) /\ JobOf(v).command # "smoke"
  <2>. DEFINE row == Row(v, TRUE, "ok", Absence)
  <2>1. Reports(v, row)
        BY <1>3 DEF Settle
  <2>2. row \in RowType
        BY <1>0, RowHasType
  <2>. QED BY <1>3, <2>1, <2>2 DEF Row, Succeeded
<1>. QED BY <1>1, <1>2, <1>3

\* What a step may change: the child of v goes on to a state of its type.
LEMMA ChildMoves ==
    ASSUME TInv, NEW v \in Inv, NEW c \in ChildType,
           child' = [child EXCEPT ![v] = c],
           c.phase # "none" => c.arch \in Arch /\ c.path \in Path,
           c.phase \in {"write", "writing"} => c.body \in Body
    PROVE child' \in [Inv -> ChildType] /\ ChildOK'
BY DEF TInv, TypeOK, ChildOK

\* The steps of a parent keep the types.
LEMMA ParentTypes ==
    ASSUME TInv, NEW v \in Inv, ParentStep(v) PROVE TInv'
<1>1. CASE Refuse(v) \/ ScanRaises(v)
  <2>1. PICK code \in 0..255 : Ends(v, code)
        BY <1>1 DEF Refuse, ScanRaises
  <2>2. UNCHANGED <<root, scripts, tree, latest, disk, child, faults>>
        BY <1>1 DEF Refuse, ScanRaises
  <2>. QED BY <2>1, <2>2, EndsType DEF TInv, TypeOK, ChildOK
<1>2. CASE Begin(v)
  <2>1. PICK p \in PlansOf(JobOf(v)) :
           inv' = [inv EXCEPT ![v].phase = "running", ![v].plan = p]
        BY <1>2 DEF Begin
  <2>2. JobOf(v) \in Job
        BY DEF JobOf, TInv, TypeOK, InvType
  <2>3. p \in Seq(Arch)
        BY <2>1, <2>2, PlansType
  <2>. DEFINE i == [inv[v] EXCEPT !.phase = "running", !.plan = p]
  <2>4. inv[v] \in InvType
        BY DEF TInv, TypeOK
  <2>5. i \in InvType
        BY <2>3, <2>4 DEF InvType
  <2>6. inv' = [inv EXCEPT ![v] = i]
        BY <2>1
  <2>7. inv' \in [Inv -> InvType]
        BY <2>5, <2>6 DEF TInv, TypeOK
  <2>. QED BY <1>2, <2>7 DEF Begin, TInv, TypeOK, ChildOK
<1>3. CASE Spawn(v)
  <2>. DEFINE c == [phase |-> "check", arch |-> Current(v), path |-> OutPath(JobOf(v), Current(v)),
                    since |-> tree[Current(v)], body |-> None, rc |-> 0]
  <2>1. Current(v) \in Arch
        BY <1>3, CurrentType DEF Spawn
  <2>2. JobOf(v) \in Job
        BY DEF JobOf, TInv, TypeOK, InvType
  <2>3. OutPath(JobOf(v), Current(v)) \in Path /\ tree[Current(v)] \in Version
        BY <2>1, <2>2, OutPathType DEF TInv, TypeOK
  <2>4. c \in ChildType
        BY <2>1, <2>3 DEF ChildType
  <2>5. child' = [child EXCEPT ![v] = c]
        BY <1>3 DEF Spawn
  <2>6. child' \in [Inv -> ChildType] /\ ChildOK'
        BY <2>1, <2>3, <2>4, <2>5, ChildMoves
  <2>. QED BY <1>3, <2>6 DEF Spawn, TInv, TypeOK
<1>4. CASE Settle(v)
  <2>1. inv' \in [Inv -> InvType]
    <3>1. ASSUME NEW code \in 1..255, Ends(v, code) PROVE inv' \in [Inv -> InvType]
          BY <3>1, EndsType
    <3>2. ASSUME NEW row \in RowType, Reports(v, row) PROVE inv' \in [Inv -> InvType]
          BY <3>2, ReportsType
    <3>. QED BY <1>4, <3>1, <3>2, SettleEffect
  <2>2. NoChild \in ChildType
        BY Versions DEF NoChild, ChildType
  <2>3. child' \in [Inv -> ChildType] /\ ChildOK'
        BY <1>4, <2>2 DEF Settle, NoChild, TInv, TypeOK, ChildOK
  <2>. QED BY <1>4, <2>1, <2>3 DEF Settle, TInv, TypeOK
<1>5. CASE Conclude(v)
  <2>1. ExitCode(v) \in 0..255
    <3>1. inv[v].rc \in {0, 1, -9}
          BY DEF TInv, TypeOK, InvType
    <3>. QED BY <3>1, ExitStatusType DEF ExitCode
  <2>2. inv' \in [Inv -> InvType]
        BY <1>5, <2>1, EndsType DEF Conclude
  <2>. QED BY <1>5, <2>2 DEF Conclude, TInv, TypeOK, ChildOK
<1>. QED BY <1>1, <1>2, <1>3, <1>4, <1>5 DEF ParentStep

\* Exiting keeps the types of the script.
LEMMA ExitsType ==
    ASSUME TInv, NEW v \in Inv, child[v].phase # "none", NEW rc \in {0, 1, -9}, Exits(v, rc)
    PROVE child' \in [Inv -> ChildType] /\ ChildOK'
<1>. DEFINE c == [child[v] EXCEPT !.phase = "exited", !.rc = rc]
<1>1. c \in ChildType /\ c.phase = "exited" /\ c.arch = child[v].arch /\ c.path = child[v].path
      BY DEF TInv, TypeOK, ChildType
<1>2. child[v].arch \in Arch /\ child[v].path \in Path
      BY DEF TInv, ChildOK
<1>3. child' = [child EXCEPT ![v] = c]
      BY DEF Exits
<1>. QED BY <1>1, <1>2, <1>3, ChildMoves

\* So does going on to the next phase.
LEMMA ToPhaseType ==
    ASSUME TInv, NEW v \in Inv, child[v].phase # "none", NEW phase \in {"list", "writing"},
           phase = "writing" => child[v].body \in Body, ToPhase(v, phase)
    PROVE child' \in [Inv -> ChildType] /\ ChildOK'
<1>. DEFINE c == [child[v] EXCEPT !.phase = phase]
<1>1. /\ c \in ChildType
      /\ c.phase = phase /\ c.arch = child[v].arch /\ c.path = child[v].path
      /\ c.body = child[v].body
      BY DEF TInv, TypeOK, ChildType
<1>2. child[v].arch \in Arch /\ child[v].path \in Path
      BY DEF TInv, ChildOK
<1>3. child' = [child EXCEPT ![v] = c]
      BY DEF ToPhase
<1>. QED BY <1>1, <1>2, <1>3, ChildMoves

\* The steps of a script keep the types.
LEMMA ChildTypes ==
    ASSUME TInv, NEW v \in Inv, ChildStep(v) PROVE TInv'
<1>0. child[v] \in ChildType
      BY DEF TInv, TypeOK
<1>1. CASE ChildCheck(v)
  <2>1. child' \in [Inv -> ChildType] /\ ChildOK'
        BY <1>1, ExitsType, ToPhaseType DEF ChildCheck
  <2>. QED BY <1>1, <2>1 DEF ChildCheck, TInv, TypeOK
<1>2. CASE ChildList(v)
  <2>. DEFINE b == [kind |-> JobOf(v).kind, arch |-> child[v].arch, ver |-> tree[child[v].arch]]
              c == [child[v] EXCEPT !.phase = "write", !.body = b]
  <2>1. CASE child' = [child EXCEPT ![v].phase = "write", ![v].body = b]
    <3>1. child[v].arch \in Arch /\ child[v].path \in Path
          BY <1>2 DEF ChildList, TInv, ChildOK
    <3>2. JobOf(v).kind \in Kind
          BY DEF JobOf, TInv, TypeOK, InvType, Job
    <3>3. b \in Body
          BY <3>1, <3>2 DEF TInv, TypeOK, Body
    <3>4. /\ c \in ChildType
          /\ c.phase = "write" /\ c.arch = child[v].arch /\ c.path = child[v].path /\ c.body = b
          BY <1>0, <3>3 DEF ChildType
    <3>5. child' = [child EXCEPT ![v] = c]
          BY <2>1
    <3>6. child' \in [Inv -> ChildType] /\ ChildOK'
          BY <3>1, <3>3, <3>4, <3>5, ChildMoves
    <3>. QED BY <1>2, <3>6 DEF ChildList, TInv, TypeOK
  <2>2. CASE Exits(v, 1)
    <3>1. child' \in [Inv -> ChildType] /\ ChildOK'
          BY <1>2, <2>2, ExitsType DEF ChildList
    <3>. QED BY <1>2, <3>1 DEF ChildList, TInv, TypeOK
  <2>. QED BY <1>2, <2>1, <2>2 DEF ChildList
<1>3. CASE ChildOpen(v)
  <2>1. child[v].path \in Path /\ child[v].body \in Body
        BY <1>3 DEF ChildOpen, TInv, ChildOK
  <2>2. Opened(disk[child[v].path], v, child[v].body) \in OutputFileType
        BY <2>1, FileTypes DEF TInv, TypeOK
  <2>3. disk' \in [Path -> OutputFileType]
        BY <1>3, <2>2 DEF ChildOpen, TInv, TypeOK
  <2>4. child' \in [Inv -> ChildType] /\ ChildOK'
        BY <1>3, <2>1, ToPhaseType DEF ChildOpen
  <2>. QED BY <1>3, <2>3, <2>4 DEF ChildOpen, TInv, TypeOK
<1>4. CASE ChildClose(v)
  <2>1. child[v].path \in Path /\ child[v].body \in Body
        BY <1>4 DEF ChildClose, TInv, ChildOK
  <2>2. Closed(disk[child[v].path], v) \in OutputFileType
        BY <2>1, FileTypes DEF TInv, TypeOK
  <2>3. disk' \in [Path -> OutputFileType]
        BY <1>4, <2>2 DEF ChildClose, TInv, TypeOK
  <2>4. child' \in [Inv -> ChildType] /\ ChildOK'
        BY <1>4, ExitsType DEF ChildClose
  <2>. QED BY <1>4, <2>3, <2>4 DEF ChildClose, TInv, TypeOK
<1>5. CASE ChildFails(v)
  <2>1. disk' \in [Path -> OutputFileType]
    <3>1. CASE child[v].phase = "writing"
      <4>1. child[v].path \in Path /\ child[v].body \in Body
            BY <3>1 DEF TInv, ChildOK
      <4>2. Abandoned(disk[child[v].path], v) \in OutputFileType
            BY <4>1, FileTypes DEF TInv, TypeOK
      <4>. QED BY <1>5, <3>1, <4>2 DEF ChildFails, TInv, TypeOK
    <3>2. CASE child[v].phase # "writing"
          BY <1>5, <3>2 DEF ChildFails, TInv, TypeOK
    <3>. QED BY <3>1, <3>2
  <2>2. child' \in [Inv -> ChildType] /\ ChildOK'
        BY <1>5, ExitsType DEF ChildFails, RcOfFault
  <2>3. faults' \in 0..MaxFaults
        BY <1>5, BoundAssumption DEF ChildFails, TInv, TypeOK
  <2>. QED BY <1>5, <2>1, <2>2, <2>3 DEF ChildFails, TInv, TypeOK
<1>. QED BY <1>1, <1>2, <1>3, <1>4, <1>5 DEF ChildStep

\* Every step keeps the types.
LEMMA NextTInv == TInv /\ [Next]_vars => TInv'
<1>. SUFFICES ASSUME TInv, [Next]_vars PROVE TInv'
     OBVIOUS
<1>1. ASSUME NEW v \in Inv, ParentStep(v) PROVE TInv'
      BY <1>1, ParentTypes
<1>2. ASSUME NEW v \in Inv, ChildStep(v) PROVE TInv'
      BY <1>2, ChildTypes
<1>3. ASSUME NEW v \in Inv, KillParent(v) PROVE TInv'
  <2>1. inv' \in [Inv -> InvType]
        BY <1>3, EndsType DEF KillParent
  <2>2. faults' \in 0..MaxFaults
        BY <1>3, BoundAssumption DEF KillParent, TInv, TypeOK
  <2>. QED BY <1>3, <2>1, <2>2 DEF KillParent, TInv, TypeOK, ChildOK
<1>4. ASSUME NEW a \in Arch, UpdateTree(a) PROVE TInv'
  <2>1. latest + 1 \in Version
        BY <1>4, BoundAssumption DEF UpdateTree, TInv, TypeOK, Version, Absence
  <2>2. tree' \in [Arch -> Version] /\ latest' \in Version
        BY <1>4, <2>1, Versions DEF UpdateTree, TInv, TypeOK
  <2>. QED BY <1>4, <2>2 DEF UpdateTree, TInv, TypeOK, ChildOK
<1>5. CASE UNCHANGED vars
      BY <1>5 DEF vars, TInv, TypeOK, ChildOK
<1>. QED BY <1>1, <1>2, <1>3, <1>4, <1>5 DEF Next

(***************************************************************************)
(* The state of Dispatch keeps its types; in particular, an exit status is *)
(* a byte whatever the scripts return.                                     *)
(***************************************************************************)
THEOREM TypesHold == Spec => []TypeOK
<1>1. Spec => []TInv
      BY InitTInv, NextTInv, PTL DEF Spec
<1>2. TInv => TypeOK
      BY DEF TInv
<1>. QED BY <1>1, <1>2, PTL

-----------------------------------------------------------------------------
\* The code a run has from its last script is 0 exactly if its last row is OK,
\* and a run of one architecture has one row.
RcFits ==
    \A v \in Inv : JobOf(v).command = "run" =>
       /\ \A i \in DOMAIN inv[v].settled :
             i = Settled(v) => (inv[v].settled[i].ok <=> inv[v].rc = 0)
       /\ inv[v].phase = "running" /\ JobOf(v).select # "ALL" => Len(inv[v].plan) = 1

IInv == TInv /\ RcFits

\* The settlements ArchBatch sees.
Shown(rows) == [i \in DOMAIN rows |-> [arch |-> rows[i].arch, ok |-> rows[i].ok]]

\* Appending a row shows one more settlement, whatever else there is in a row.
LEMMA ShownAppend ==
    ASSUME NEW R, NEW rows \in Seq(R), NEW row \in R
    PROVE  Shown(Append(rows, row)) = Append(Shown(rows), [arch |-> row.arch, ok |-> row.ok])
<1>. DEFINE S == {[arch |-> r.arch, ok |-> r.ok] : r \in R}
            s == Shown(rows)
            e == [arch |-> row.arch, ok |-> row.ok]
            n == Len(rows)
<1>1. e \in S /\ n \in Nat /\ DOMAIN rows = 1..n
      OBVIOUS
<1>2. \A i \in 1..n : rows[i] \in R
      BY <1>1
<1>3. s \in [1..n -> S]
      BY <1>1, <1>2 DEF Shown
<1>4. s \in Seq(S) /\ Len(s) = n
  <2>. HIDE DEF s, S, n
  <2>. QED BY <1>1, <1>3
<1>5. /\ Append(s, e) \in Seq(S) /\ Len(Append(s, e)) = n + 1
      /\ \A i \in 1..n : Append(s, e)[i] = s[i]
      /\ Append(s, e)[n + 1] = e
      BY <1>1, <1>4
<1>6. /\ DOMAIN Append(rows, row) = 1..(n + 1)
      /\ \A i \in 1..n : Append(rows, row)[i] = rows[i]
      /\ Append(rows, row)[n + 1] = row
      BY <1>1
<1>7. DOMAIN Shown(Append(rows, row)) = 1..(n + 1) /\ DOMAIN Append(s, e) = 1..(n + 1)
      BY <1>1, <1>5, <1>6 DEF Shown
<1>8. ASSUME NEW i \in 1..(n + 1) PROVE Shown(Append(rows, row))[i] = Append(s, e)[i]
  <2>1. CASE i = n + 1
        BY <1>5, <1>6, <2>1 DEF Shown
  <2>2. CASE i \in 1..n
        BY <1>1, <1>5, <1>6, <2>2 DEF Shown
  <2>3. i = n + 1 \/ i \in 1..n
    <3>. HIDE DEF n
    <3>. QED BY <1>1
  <2>. QED BY <2>1, <2>2, <2>3
<1>9. /\ Shown(Append(rows, row)) = [i \in 1..(n + 1) |-> Shown(Append(rows, row))[i]]
      /\ Append(s, e) = [i \in 1..(n + 1) |-> Append(s, e)[i]]
      BY <1>5, <1>6, <1>7 DEF Shown
<1>. QED BY <1>8, <1>9

\* There are as many architectures as the tuple is long.
LEMMA ArchFinite == IsFiniteSet(Arch) /\ Cardinality(Arch) = Len(Architectures)
<1>. DEFINE n == Len(Architectures)
<1>1. Architectures \in [1..n -> Arch] /\ n \in Nat /\ IsInjective(Architectures)
      BY ArchitecturesAssumption
<1>2. \A a \in Arch : \E i \in 1..n : Architectures[i] = a
      BY <1>1 DEF Arch, ToSet
<1>3. ExistsBijection(1..n, Arch)
      BY <1>1, <1>2 DEF ExistsBijection, Bijection, Injection, Surjection, IsInjective
<1>. QED BY <1>1, <1>3, FS_CountingElements, FS_NatBijection

\* The tuple is a plan.
LEMMA ArchCount == Architectures \in BoundedSeq(Arch, Cardinality(Arch))
<1>1. Len(Architectures) \in 0..Cardinality(Arch)
      BY ArchFinite, ArchitecturesAssumption
<1>2. Architectures \in [1..Len(Architectures) -> Arch]
      BY ArchitecturesAssumption
<1>. QED BY <1>1, <1>2, Zenon DEF BoundedSeq, SeqOf

\* The plans of ArchBatch are those of this module.
LEMMA SamePlans ==
    Batch!Plans = {p \in BoundedSeq(Arch, Cardinality(Arch)) : IsInjective(p)}
<1>1. Batch!Cardinality(Arch) = Cardinality(Arch)
      BY Zenon DEF Cardinality, Batch!Cardinality
<1>2. \A n : Batch!BoundedSeq(Arch, n) = BoundedSeq(Arch, n)
      BY Zenon DEF BoundedSeq, SeqOf, Batch!BoundedSeq, Batch!SeqOf
<1>3. \A p : Batch!IsInjective(p) = IsInjective(p)
      BY Zenon DEF IsInjective, Batch!IsInjective
<1>. QED BY <1>1, <1>2, <1>3, Zenon DEF Batch!Plans

\* What a command goes over is a plan.
LEMMA PlansArePlans ==
    ASSUME NEW job \in Job, NEW p \in PlansOf(job) PROVE p \in Batch!Plans
<1>1. CASE job.select = "ALL"
  <2>1. p = Architectures
        BY <1>1 DEF PlansOf
  <2>. QED BY <2>1, ArchCount, ArchitecturesAssumption, SamePlans
<1>2. CASE job.select = "found"
      BY <1>2, KeywordsAssumption, SamePlans DEF PlansOf, Found
<1>3. CASE job.select \notin {"ALL", "found"}
  <2>1. job.select \in Arch /\ p = <<job.select>>
        BY <1>3 DEF Job, PlansOf
  <2>2. Cardinality(Arch) \in Nat /\ 1 <= Cardinality(Arch)
        BY <2>1, ArchFinite, FS_EmptySet
  <2>3. p \in [1..1 -> Arch]
        BY <2>1
  <2>4. 1 \in 0..Cardinality(Arch)
        BY <2>2
  <2>5. p \in BoundedSeq(Arch, Cardinality(Arch))
        BY <2>4, <2>3, Zenon DEF BoundedSeq, SeqOf
  <2>6. IsInjective(p)
        BY <2>1 DEF IsInjective
  <2>. QED BY <2>5, <2>6, SamePlans
<1>. QED BY <1>1, <1>2, <1>3

-----------------------------------------------------------------------------
\* The exit status of an invocation is a byte.
LEMMA ExitCodeType == ASSUME TInv, NEW v \in Inv PROVE ExitCode(v) \in 0..255
<1>1. inv[v].rc \in {0, 1, -9}
      BY DEF TInv, TypeOK, InvType
<1>. QED BY <1>1, ExitStatusType DEF ExitCode

\* The return codes are known from the start.
LEMMA InitIInv == Init => IInv
<1>. SUFFICES ASSUME Init PROVE RcFits
     BY InitTInv DEF IInv
<1>1. PICK mix \in Mix : inv = [v \in Inv |-> Idle(mix[v])]
      BY DEF Init
<1>2. \A v \in Inv : inv[v].settled = <<>> /\ inv[v].phase = "idle"
      BY <1>1 DEF Idle
<1>. QED BY <1>2 DEF RcFits

\* Only two kinds of step say anything about a row or a plan.
LEMMA NextIInv == IInv /\ [Next]_vars => IInv'
<1>. SUFFICES ASSUME IInv, [Next]_vars PROVE RcFits'
     BY NextTInv DEF IInv
<1>. USE DEF IInv
<1>0. ASSUME NEW v \in Inv, NEW code \in 0..255, Ends(v, code) PROVE RcFits'
      BY <1>0 DEF Ends, RcFits, JobOf, Settled, TInv, TypeOK, InvType
<1>1. ASSUME NEW v \in Inv, ParentStep(v) PROVE RcFits'
  <2>1. CASE Refuse(v) \/ ScanRaises(v)
        BY <1>0, <2>1 DEF Refuse, ScanRaises
  <2>2. CASE Begin(v)
    <3>1. PICK p \in PlansOf(JobOf(v)) :
             inv' = [inv EXCEPT ![v].phase = "running", ![v].plan = p]
          BY <2>2 DEF Begin
    <3>2. /\ \A u \in Inv \ {v} : inv'[u] = inv[u]
          /\ inv'[v].job = inv[v].job /\ inv'[v].settled = inv[v].settled
          /\ inv'[v].rc = inv[v].rc /\ inv'[v].plan = p
          BY <3>1 DEF TInv, TypeOK, InvType
    <3>3. JobOf(v) \in Job
          BY DEF JobOf, TInv, TypeOK, InvType
    <3>4. JobOf(v).command = "run" /\ JobOf(v).select # "ALL" => Len(p) = 1
          BY <3>3, KeywordsAssumption DEF PlansOf, Job
    <3>. QED BY <3>2, <3>4 DEF RcFits, JobOf, Settled
  <2>3. CASE Spawn(v)
        BY <2>3 DEF Spawn, RcFits, JobOf, Settled
  <2>4. CASE Settle(v)
    <3>1. CASE \E code \in 0..255 : Ends(v, code)
          BY <1>0, <3>1
    <3>2. ASSUME NEW row \in RowType, Reports(v, row),
                 JobOf(v).command = "run" => (row.ok <=> child[v].rc = 0)
          PROVE  RcFits'
      <4>1. /\ \A u \in Inv \ {v} : inv'[u] = inv[u]
            /\ inv'[v].job = inv[v].job /\ inv'[v].settled = Append(inv[v].settled, row)
            /\ inv'[v].rc = child[v].rc /\ inv'[v].plan = inv[v].plan
            /\ inv'[v].phase = inv[v].phase
            BY <3>2 DEF Reports, TInv, TypeOK, InvType
      <4>2. /\ Len(inv'[v].settled) = Len(inv[v].settled) + 1
            /\ inv'[v].settled[Len(inv[v].settled) + 1] = row
            BY <4>1 DEF TInv, TypeOK, InvType
      <4>. QED BY <3>2, <4>1, <4>2 DEF RcFits, JobOf, Settled
    <3>. QED BY <2>4, <3>1, <3>2, SettleEffect
  <2>5. CASE Conclude(v)
        BY <1>0, <2>5, ExitCodeType DEF Conclude
  <2>. QED BY <1>1, <2>1, <2>2, <2>3, <2>4, <2>5 DEF ParentStep
<1>2. ASSUME NEW v \in Inv, ChildStep(v) PROVE RcFits'
  <2>1. inv' = inv
        BY <1>2 DEF ChildStep, ChildCheck, ChildList, ChildOpen, ChildClose, ChildFails
  <2>. QED BY <2>1 DEF RcFits, JobOf, Settled
<1>3. ASSUME NEW v \in Inv, KillParent(v) PROVE RcFits'
      BY <1>0, <1>3 DEF KillParent
<1>4. ASSUME NEW a \in Arch, UpdateTree(a) PROVE RcFits'
      BY <1>4 DEF UpdateTree, RcFits, JobOf, Settled
<1>5. CASE UNCHANGED vars
      BY <1>5 DEF vars, RcFits, JobOf, Settled
<1>. QED BY <1>1, <1>2, <1>3, <1>4, <1>5 DEF Next

-----------------------------------------------------------------------------
\* To end is to end.
LEMMA EndsIsEndsWith ==
    ASSUME TInv, NEW v \in Inv, NEW codes \in SUBSET (0..255), NEW code \in codes, Ends(v, code)
    PROVE  Batch!EndsWith(v, codes)
<1>1. /\ inv' \in [Inv -> InvType] /\ inv \in [Inv -> InvType]
      /\ \A u \in Inv \ {v} : inv'[u] = inv[u]
      /\ inv'[v].phase = "over" /\ inv'[v].code = code
      /\ inv'[v].plan = inv[v].plan /\ inv'[v].settled = inv[v].settled
  <2>1. inv' \in [Inv -> InvType]
        BY EndsType
  <2>. QED BY <2>1 DEF Ends, TInv, TypeOK, InvType
<1>2. [u \in Inv |-> inv[u].phase]' = [[u \in Inv |-> inv[u].phase] EXCEPT ![v] = "over"]
      BY <1>1
<1>3. [u \in Inv |-> inv[u].code]' = [[u \in Inv |-> inv[u].code] EXCEPT ![v] = code]
      BY <1>1
<1>4. [u \in Inv |-> inv[u].plan]' = [u \in Inv |-> inv[u].plan]
      BY <1>1
<1>5. \A u \in Inv : inv'[u].settled = inv[u].settled
      BY <1>1
<1>. QED BY <1>2, <1>3, <1>4, <1>5 DEF Batch!EndsWith

\* A row is a settlement of the architecture whose turn it is.
LEMMA ReportsIsSettle ==
    ASSUME TInv, NEW v \in Inv, Waiting(v), NEW row \in RowType, row.arch = Current(v),
           Reports(v, row)
    PROVE  Batch!Settle(v)
<1>1. /\ inv \in [Inv -> InvType]
      /\ inv[v].plan \in Seq(Arch) /\ inv[v].settled \in Seq(RowType)
      BY DEF TInv, TypeOK, InvType
<1>2. /\ \A u \in Inv \ {v} : inv'[u] = inv[u]
      /\ inv'[v].phase = inv[v].phase /\ inv'[v].code = inv[v].code
      /\ inv'[v].plan = inv[v].plan
      /\ inv'[v].settled = Append(inv[v].settled, row)
      BY <1>1 DEF Reports, InvType
<1>3. /\ [u \in Inv |-> inv[u].phase]' = [u \in Inv |-> inv[u].phase]
      /\ [u \in Inv |-> inv[u].plan]' = [u \in Inv |-> inv[u].plan]
      /\ [u \in Inv |-> inv[u].code]' = [u \in Inv |-> inv[u].code]
      BY <1>2
<1>. DEFINE shown == [u \in Inv |-> Shown(inv[u].settled)]
<1>4. Shown(inv'[v].settled)
         = Append(Shown(inv[v].settled), [arch |-> row.arch, ok |-> row.ok])
      BY <1>1, <1>2, ShownAppend
<1>5. shown' = [shown EXCEPT ![v] = Append(@, [arch |-> row.arch, ok |-> row.ok])]
      BY <1>2, <1>4
<1>6. Len(shown[v]) = Len(inv[v].settled)
      BY <1>1 DEF Shown
<1>7. row.ok \in BOOLEAN
      BY DEF RowType
<1>8. row.arch = inv[v].plan[Len(inv[v].settled) + 1]
      BY DEF Current, Settled
<1>. QED BY <1>3, <1>5, <1>6, <1>7, <1>8 DEF Batch!Settle, Shown, Waiting, Settled

\* Nothing changes for ArchBatch when no invocation changes.
LEMMA SameInvIsStutter == ASSUME inv' = inv PROVE UNCHANGED Batch!vars
BY DEF Batch!vars

\* Beginning picks a plan.
LEMMA BeginIsBegin == ASSUME TInv, NEW v \in Inv, Begin(v) PROVE Batch!Begin(v)
<1>1. PICK p \in PlansOf(JobOf(v)) : inv' = [inv EXCEPT ![v].phase = "running", ![v].plan = p]
      BY DEF Begin
<1>2. inv \in [Inv -> InvType] /\ JobOf(v) \in Job
      BY DEF JobOf, TInv, TypeOK, InvType
<1>3. p \in Batch!Plans
      BY <1>2, PlansArePlans
<1>4. /\ \A u \in Inv \ {v} : inv'[u] = inv[u]
      /\ inv'[v].phase = "running" /\ inv'[v].plan = p
      /\ inv'[v].settled = inv[v].settled /\ inv'[v].code = inv[v].code
      BY <1>1, <1>2 DEF InvType
<1>5. /\ [u \in Inv |-> inv[u].phase]' = [[u \in Inv |-> inv[u].phase] EXCEPT ![v] = "running"]
      /\ [u \in Inv |-> inv[u].plan]' = [[u \in Inv |-> inv[u].plan] EXCEPT ![v] = p]
      /\ [u \in Inv |-> inv[u].code]' = [u \in Inv |-> inv[u].code]
      /\ \A u \in Inv : inv'[u].settled = inv[u].settled
      BY <1>2, <1>4
<1>. QED BY <1>3, <1>5 DEF Batch!Begin, Begin

\* Exit status 0 is for those that have settled everything well.
LEMMA ExitCodeIsHonest ==
    ASSUME IInv, NEW v \in Inv, Conclude(v)
    PROVE  IF \A i \in DOMAIN inv[v].settled : inv[v].settled[i].ok
           THEN ExitCode(v) = 0
           ELSE ExitCode(v) \in 1..255
<1>1. inv[v].settled \in Seq(RowType) /\ inv[v].rc \in {0, 1, -9} /\ inv[v].plan \in Seq(Arch)
      BY DEF IInv, TInv, TypeOK, InvType
<1>2. CASE JobOf(v).command = "run" /\ JobOf(v).select # "ALL"
  <2>1. Len(inv[v].settled) = 1 /\ DOMAIN inv[v].settled = {1}
        BY <1>1, <1>2 DEF Conclude, IInv, RcFits, Settled
  <2>2. inv[v].settled[1].ok <=> inv[v].rc = 0
        BY <1>2, <2>1 DEF IInv, RcFits, Settled
  <2>3. ExitCode(v) = inv[v].rc % 256
        BY <1>2 DEF ExitCode, ExitStatus
  <2>4. \A rc \in {0, 1, -9} : IF rc = 0 THEN rc % 256 = 0 ELSE rc % 256 \in 1..255
        OBVIOUS
  <2>5. (\A i \in DOMAIN inv[v].settled : inv[v].settled[i].ok) <=> inv[v].rc = 0
        BY <2>1, <2>2
  <2>. QED BY <1>1, <2>3, <2>4, <2>5
<1>3. CASE ~(JobOf(v).command = "run" /\ JobOf(v).select # "ALL")
      BY <1>1, <1>3 DEF ExitCode, Failures, RowType
<1>. QED BY <1>2, <1>3

LEMMA ConcludeIsConclude ==
    ASSUME IInv, NEW v \in Inv, Conclude(v) PROVE Batch!Conclude(v)
<1>1. inv[v].settled \in Seq(RowType) /\ inv[v].rc \in {0, 1, -9} /\ inv[v].plan \in Seq(Arch)
      BY DEF IInv, TInv, TypeOK, InvType
<1>2. Batch!AllOk(v) <=> \A i \in DOMAIN inv[v].settled : inv[v].settled[i].ok
      BY <1>1 DEF Batch!AllOk
<1>3. IF Batch!AllOk(v) THEN ExitCode(v) = 0 ELSE ExitCode(v) \in 1..255
      BY <1>2, ExitCodeIsHonest
<1>4. Ends(v, ExitCode(v))
      BY DEF Conclude
<1>5. Len([i \in DOMAIN inv[v].settled |->
              [arch |-> inv[v].settled[i].arch, ok |-> inv[v].settled[i].ok]])
         = Len(inv[v].settled)
      BY <1>1
<1>6. CASE Batch!AllOk(v)
  <2>1. Batch!EndsWith(v, {0})
        BY <1>3, <1>4, <1>6, EndsIsEndsWith DEF IInv
  <2>. QED BY <1>5, <1>6, <2>1 DEF Batch!Conclude, Batch!EndsWith, Conclude, Settled
<1>7. CASE ~Batch!AllOk(v)
  <2>1. Batch!EndsWith(v, Batch!Failure)
        BY <1>3, <1>4, <1>7, EndsIsEndsWith DEF IInv, Batch!Failure
  <2>. QED BY <1>5, <1>7, <2>1 DEF Batch!Conclude, Batch!EndsWith, Conclude, Settled
<1>. QED BY <1>6, <1>7

\* Each step of Dispatch is a step of ArchBatch, or none.
LEMMA StepIsBatchStep ==
    ASSUME IInv, [Next]_vars PROVE [Batch!Next]_(Batch!vars)
<1>. USE DEF IInv
<1>1. ASSUME NEW v \in Inv, ParentStep(v) PROVE [Batch!Next]_(Batch!vars)
  <2>1. CASE Refuse(v)
    <3>1. Batch!EndsWith(v, {2})
          BY <2>1, EndsIsEndsWith DEF Refuse
    <3>. QED BY <2>1, <3>1 DEF Refuse, Batch!Refuse, Batch!Next
  <2>2. CASE ScanRaises(v)
    <3>1. Batch!EndsWith(v, Batch!Failure)
          BY <2>2, EndsIsEndsWith DEF ScanRaises, Batch!Failure
    <3>. QED BY <2>2, <3>1 DEF ScanRaises, Batch!Abort, Batch!Next
  <2>3. CASE Begin(v)
        BY <2>3, BeginIsBegin DEF Batch!Next
  <2>4. CASE Spawn(v)
        BY <2>4, SameInvIsStutter DEF Spawn
  <2>5. CASE Settle(v)
    <3>1. Waiting(v) /\ inv[v].phase # "over"
          BY <2>5 DEF Settle, Waiting
    <3>2. ASSUME NEW code \in 1..255, Ends(v, code) PROVE Batch!Next
      <4>1. Batch!EndsWith(v, Batch!Failure)
            BY <3>2, EndsIsEndsWith DEF Batch!Failure
      <4>. QED BY <3>1, <4>1 DEF Batch!Abort, Batch!Next
    <3>3. ASSUME NEW row \in RowType, Reports(v, row), row.arch = Current(v) PROVE Batch!Next
      <4>1. Batch!Settle(v)
            BY <3>1, <3>3, ReportsIsSettle
      <4>. QED BY <4>1 DEF Batch!Next
    <3>. QED BY <2>5, <3>2, <3>3, SettleEffect
  <2>6. CASE Conclude(v)
        BY <2>6, ConcludeIsConclude DEF Batch!Next
  <2>. QED BY <1>1, <2>1, <2>2, <2>3, <2>4, <2>5, <2>6 DEF ParentStep
<1>2. ASSUME NEW v \in Inv, ChildStep(v) PROVE [Batch!Next]_(Batch!vars)
  <2>1. inv' = inv
        BY <1>2 DEF ChildStep, ChildCheck, ChildList, ChildOpen, ChildClose, ChildFails
  <2>. QED BY <2>1, SameInvIsStutter
<1>3. ASSUME NEW v \in Inv, KillParent(v) PROVE [Batch!Next]_(Batch!vars)
  <2>1. Batch!EndsWith(v, Batch!Failure)
        BY <1>3, EndsIsEndsWith DEF KillParent, Batch!Failure
  <2>. QED BY <1>3, <2>1 DEF KillParent, Batch!Abort, Batch!Next
<1>4. ASSUME NEW a \in Arch, UpdateTree(a) PROVE [Batch!Next]_(Batch!vars)
      BY <1>4, SameInvIsStutter DEF UpdateTree
<1>5. CASE UNCHANGED vars
      BY <1>5, SameInvIsStutter DEF vars
<1>. QED BY <1>1, <1>2, <1>3, <1>4, <1>5 DEF Next

\* The initial states are those of ArchBatch.
LEMMA InitIsBatchInit == ASSUME Init PROVE Batch!Init
<1>1. PICK mix \in Mix : inv = [v \in Inv |-> Idle(mix[v])]
      BY DEF Init
<1>2. \A v \in Inv : /\ inv[v].phase = "idle" /\ inv[v].plan = <<>>
                     /\ inv[v].settled = <<>> /\ inv[v].code = 0
      BY <1>1 DEF Idle
<1>3. \A v \in Inv : Shown(inv[v].settled) = <<>>
      BY <1>2 DEF Shown
<1>. QED BY <1>2, <1>3 DEF Batch!Init, Shown

(***************************************************************************)
(* td run, td smoke, cpp run and cpp smoke keep the promise of ArchBatch:  *)
(* whatever scripts fail, whoever is killed and whatever happens to the    *)
(* tree, architectures are settled in the order of the plan, and an        *)
(* invocation has status 0 exactly if it went through its plan well.       *)
(***************************************************************************)
THEOREM DispatchKeepsPromise == Spec => ImplementsBatch
<1>1. Spec => []IInv
      BY InitIInv, NextIInv, PTL DEF Spec
<1>2. Init => Batch!Init
      BY InitIsBatchInit
<1>3. IInv /\ [Next]_vars => [Batch!Next]_(Batch!vars)
      BY StepIsBatchStep
<1>. QED BY <1>1, <1>2, <1>3, PTL DEF Spec, ImplementsBatch, Batch!Spec

-----------------------------------------------------------------------------

\* A script that has opened its file, and is not known to have failed since.
HasWritten(c) == c.phase = "writing" \/ (c.phase = "exited" /\ c.rc = 0)

\* One that knows what it writes.
HasBody(c) == c.phase = "write" \/ HasWritten(c)

\* An invocation goes through architectures of its scope, each once, and its
\* script is that of the first one without a row.
PlanFits(i, c) ==
    /\ i.phase = "idle" => i.plan = <<>>
    /\ i.plan # <<>> => ~AllWithOutput(i.job)
    /\ IsInjective(i.plan)
    /\ \A n \in DOMAIN i.plan : i.plan[n] \in Scope(i.job)
    /\ Len(i.settled) <= Len(i.plan)
    /\ \A n \in DOMAIN i.settled : i.settled[n].arch = i.plan[n]
    /\ c.phase # "none" =>
          /\ Len(i.settled) < Len(i.plan)
          /\ c.arch = i.plan[Len(i.settled) + 1]
          /\ c.path = OutPath(i.job, c.arch)

PlanOK == \A v \in Inv : PlanFits(inv[v], child[v])

-----------------------------------------------------------------------------
\* What ending, beginning and reporting make of an invocation.
LEMMA EndsEffect ==
    ASSUME TInv, NEW v \in Inv, NEW code, Ends(v, code)
    PROVE  /\ \A u \in Inv \ {v} : inv'[u] = inv[u]
           /\ inv'[v].phase = "over" /\ inv'[v].code = code
           /\ inv'[v].job = inv[v].job /\ inv'[v].plan = inv[v].plan
           /\ inv'[v].settled = inv[v].settled
BY DEF Ends, TInv, TypeOK, InvType

LEMMA BeginEffect ==
    ASSUME TInv, NEW v \in Inv, Begin(v)
    PROVE  /\ \A u \in Inv \ {v} : inv'[u] = inv[u]
           /\ inv'[v].phase = "running" /\ inv'[v].plan \in PlansOf(inv[v].job)
           /\ inv'[v].job = inv[v].job /\ inv'[v].settled = inv[v].settled
BY DEF Begin, JobOf, TInv, TypeOK, InvType

LEMMA ReportsEffect ==
    ASSUME TInv, NEW v \in Inv, NEW row \in RowType, Reports(v, row)
    PROVE  /\ \A u \in Inv \ {v} : inv'[u] = inv[u]
           /\ inv'[v].phase = inv[v].phase /\ inv'[v].code = inv[v].code
           /\ inv'[v].job = inv[v].job /\ inv'[v].plan = inv[v].plan
           /\ inv'[v].settled = Append(inv[v].settled, row)
           /\ inv'[v].settled \in Seq(RowType)
           /\ Len(inv'[v].settled) = Len(inv[v].settled) + 1
           /\ \A n \in DOMAIN inv[v].settled : inv'[v].settled[n] = inv[v].settled[n]
           /\ inv'[v].settled[Len(inv[v].settled) + 1] = row
<1>1. /\ \A u \in Inv \ {v} : inv'[u] = inv[u]
      /\ inv'[v].phase = inv[v].phase /\ inv'[v].code = inv[v].code
      /\ inv'[v].job = inv[v].job /\ inv'[v].plan = inv[v].plan
      /\ inv'[v].settled = Append(inv[v].settled, row)
      BY DEF Reports, TInv, TypeOK, InvType
<1>2. inv[v].settled \in Seq(RowType)
      BY DEF TInv, TypeOK, InvType
<1>3. inv'[v].settled \in Seq(RowType)
      BY <1>1, <1>2
<1>. QED BY <1>1, <1>2, <1>3

\* What the steps of a script make of it.
LEMMA ExitsEffect ==
    ASSUME TInv, NEW v \in Inv, NEW rc, Exits(v, rc)
    PROVE  /\ \A u \in Inv \ {v} : child'[u] = child[u]
           /\ child'[v].phase = "exited" /\ child'[v].rc = rc
           /\ child'[v].arch = child[v].arch /\ child'[v].path = child[v].path
           /\ child'[v].since = child[v].since /\ child'[v].body = child[v].body
BY DEF Exits, TInv, TypeOK, ChildType

LEMMA ToPhaseEffect ==
    ASSUME TInv, NEW v \in Inv, NEW phase, ToPhase(v, phase)
    PROVE  /\ \A u \in Inv \ {v} : child'[u] = child[u]
           /\ child'[v].phase = phase /\ child'[v].rc = child[v].rc
           /\ child'[v].arch = child[v].arch /\ child'[v].path = child[v].path
           /\ child'[v].since = child[v].since /\ child'[v].body = child[v].body
BY DEF ToPhase, TInv, TypeOK, ChildType

\* A step of a script leaves it with its architecture and its file, and the
\* version of the tree it was spawned on.
LEMMA ChildStays ==
    ASSUME TInv, NEW v \in Inv, ChildStep(v)
    PROVE  /\ inv' = inv /\ tree' = tree /\ latest' = latest
           /\ \A u \in Inv \ {v} : child'[u] = child[u]
           /\ child[v].phase # "none" /\ child'[v].phase # "none"
           /\ child'[v].arch = child[v].arch /\ child'[v].path = child[v].path
           /\ child'[v].since = child[v].since
<1>1. CASE ChildCheck(v)
      BY <1>1, ExitsEffect, ToPhaseEffect DEF ChildCheck
<1>2. CASE ChildList(v)
  <2>1. CASE Exits(v, 1)
        BY <1>2, <2>1, ExitsEffect DEF ChildList
  <2>2. CASE ~Exits(v, 1)
        BY <1>2, <2>2 DEF ChildList, TInv, TypeOK, ChildType
  <2>. QED BY <2>1, <2>2
<1>3. CASE ChildOpen(v)
      BY <1>3, ToPhaseEffect DEF ChildOpen
<1>4. CASE ChildClose(v)
      BY <1>4, ExitsEffect DEF ChildClose
<1>5. CASE ChildFails(v)
      BY <1>5, ExitsEffect DEF ChildFails
<1>. QED BY <1>1, <1>2, <1>3, <1>4, <1>5 DEF ChildStep

\* What a command goes over is in its scope, each architecture once.
LEMMA PlansFit ==
    ASSUME NEW job \in Job, NEW p \in PlansOf(job)
    PROVE  p \in Seq(Arch) /\ IsInjective(p) /\ \A n \in DOMAIN p : p[n] \in Scope(job)
<1>1. p \in Seq(Arch)
      BY PlansType
<1>2. IsInjective(p)
      BY PlansArePlans, SamePlans
<1>3. CASE job.select \in Arch
  <2>1. p = <<job.select>>
        BY <1>3, KeywordsAssumption DEF PlansOf
  <2>. QED BY <1>1, <1>2, <1>3, <2>1 DEF Scope
<1>4. CASE job.select \notin Arch
      BY <1>1, <1>2, <1>4 DEF Scope
<1>. QED BY <1>3, <1>4

\* The initial states have no plan.
LEMMA InitPlanOK == ASSUME Init PROVE PlanOK
<1>1. PICK mix \in Mix : inv = [v \in Inv |-> Idle(mix[v])]
      BY DEF Init
<1>2. \A v \in Inv : inv[v].plan = <<>> /\ inv[v].settled = <<>> /\ child[v].phase = "none"
      BY <1>1 DEF Idle, Init, NoChild
<1>. QED BY <1>2 DEF PlanOK, PlanFits, IsInjective

\* The steps of a parent, or its end, keep to the plan.
LEMMA ParentPlanOK ==
    ASSUME TInv, PlanOK, NEW v \in Inv, ParentStep(v) \/ KillParent(v)
    PROVE  PlanOK'
<1>0. /\ PlanFits(inv[v], child[v]) /\ inv[v].settled \in Seq(RowType)
      /\ inv[v].plan \in Seq(Arch) /\ inv[v].job \in Job
      BY DEF PlanOK, TInv, TypeOK, InvType
<1>1. ASSUME PlanFits(inv'[v], child'[v]),
             \A u \in Inv \ {v} : inv'[u] = inv[u] /\ child'[u] = child[u]
      PROVE  PlanOK'
      BY <1>1 DEF PlanOK
<1>2. ASSUME NEW code, Ends(v, code), child' = child \/ child' = [child EXCEPT ![v] = NoChild]
      PROVE  PlanOK'
  <2>1. /\ child'[v].phase # "none" => child'[v] = child[v]
        /\ \A u \in Inv \ {v} : child'[u] = child[u]
        BY <1>2 DEF NoChild, TInv, TypeOK
  <2>2. PlanFits(inv'[v], child'[v])
        BY <1>0, <1>2, <2>1, EndsEffect DEF PlanFits
  <2>. QED BY <1>1, <1>2, <2>1, <2>2, EndsEffect
<1>3. CASE Refuse(v) \/ ScanRaises(v) \/ Conclude(v) \/ KillParent(v)
      BY <1>2, <1>3 DEF Refuse, ScanRaises, Conclude, KillParent
<1>4. CASE Begin(v)
  <2>1. /\ inv[v].plan = <<>> /\ Len(inv[v].settled) = 0 /\ child[v].phase = "none"
        /\ DOMAIN inv[v].settled = {}
        BY <1>0, <1>4 DEF Begin, PlanFits
  <2>2. ~AllWithOutput(inv[v].job)
        BY <1>4 DEF Begin, Refuses, JobOf
  <2>3. /\ inv'[v].plan \in PlansOf(inv[v].job) /\ inv'[v].phase = "running"
        /\ inv'[v].job = inv[v].job /\ inv'[v].settled = inv[v].settled /\ child' = child
        BY <1>4, BeginEffect DEF Begin
  <2>4. PlanFits(inv'[v], child'[v])
        BY <1>0, <2>1, <2>2, <2>3, PlansFit DEF PlanFits
  <2>. QED BY <1>1, <1>4, <2>3, <2>4, BeginEffect
<1>5. CASE Spawn(v)
  <2>1. /\ inv' = inv /\ \A u \in Inv \ {v} : child'[u] = child[u]
        /\ child'[v].arch = Current(v) /\ child'[v].path = OutPath(JobOf(v), Current(v))
        BY <1>5 DEF Spawn, TInv, TypeOK
  <2>2. PlanFits(inv'[v], child'[v])
        BY <1>0, <1>5, <2>1 DEF Spawn, Waiting, PlanFits, Current, Settled, JobOf
  <2>. QED BY <1>1, <2>1, <2>2
<1>6. CASE Settle(v)
  <2>0. /\ child' = [child EXCEPT ![v] = NoChild] /\ Waiting(v)
        /\ child'[v].phase = "none" /\ \A u \in Inv \ {v} : child'[u] = child[u]
        BY <1>6 DEF Settle, NoChild, TInv, TypeOK
  <2>1. ASSUME NEW code \in 1..255, Ends(v, code) PROVE PlanOK'
        BY <1>2, <2>0, <2>1
  <2>2. ASSUME NEW row \in RowType, Reports(v, row), row.arch = Current(v) PROVE PlanOK'
    <3>1. /\ \A u \in Inv \ {v} : inv'[u] = inv[u]
          /\ inv'[v].phase = inv[v].phase
          /\ inv'[v].job = inv[v].job /\ inv'[v].plan = inv[v].plan
          /\ inv'[v].settled \in Seq(RowType)
          /\ Len(inv'[v].settled) = Len(inv[v].settled) + 1
          /\ \A n \in DOMAIN inv[v].settled : inv'[v].settled[n] = inv[v].settled[n]
          /\ inv'[v].settled[Len(inv[v].settled) + 1] = row
          BY <2>2, ReportsEffect
    <3>2. Len(inv[v].settled) < Len(inv[v].plan)
          BY <2>0 DEF Waiting, Settled
    <3>3. ASSUME NEW n \in DOMAIN inv'[v].settled
          PROVE  inv'[v].settled[n].arch = inv'[v].plan[n]
      <4>1. n \in DOMAIN inv[v].settled \/ n = Len(inv[v].settled) + 1
            BY <1>0, <3>1
      <4>2. row.arch = inv[v].plan[Len(inv[v].settled) + 1]
            BY <2>2 DEF Current, Settled
      <4>. QED BY <1>0, <3>1, <4>1, <4>2 DEF PlanFits
    <3>4. PlanFits(inv'[v], child'[v])
          BY <1>0, <2>0, <3>1, <3>2, <3>3 DEF PlanFits
    <3>. QED BY <1>1, <2>0, <3>1, <3>4
  <2>. QED BY <1>6, <2>1, <2>2, SettleEffect
<1>. QED BY <1>3, <1>4, <1>5, <1>6 DEF ParentStep

\* So do all the other steps.
LEMMA NextPlanOK == ASSUME TInv, PlanOK, [Next]_vars PROVE PlanOK'
<1>1. ASSUME NEW v \in Inv, ParentStep(v) \/ KillParent(v) PROVE PlanOK'
      BY <1>1, ParentPlanOK
<1>2. ASSUME NEW v \in Inv, ChildStep(v) PROVE PlanOK'
      BY <1>2, ChildStays DEF PlanOK, PlanFits
<1>3. ASSUME NEW a \in Arch, UpdateTree(a) PROVE PlanOK'
      BY <1>3 DEF UpdateTree, PlanOK
<1>4. CASE UNCHANGED vars
      BY <1>4 DEF vars, PlanOK
<1>. QED BY <1>1, <1>2, <1>3, <1>4 DEF Next

-----------------------------------------------------------------------------
\* No step changes a command line.
LEMMA JobsStay == ASSUME TInv, [Next]_vars PROVE \A v \in Inv : inv'[v].job = inv[v].job
<1>1. ASSUME NEW v \in Inv, NEW code, Ends(v, code)
      PROVE  \A u \in Inv : inv'[u].job = inv[u].job
      BY <1>1, EndsEffect
<1>2. ASSUME NEW v \in Inv, ParentStep(v) \/ KillParent(v)
      PROVE  \A u \in Inv : inv'[u].job = inv[u].job
  <2>1. CASE Refuse(v) \/ ScanRaises(v) \/ Conclude(v) \/ KillParent(v)
        BY <1>1, <2>1 DEF Refuse, ScanRaises, Conclude, KillParent
  <2>2. CASE Begin(v)
        BY <2>2, BeginEffect
  <2>3. CASE Spawn(v)
        BY <2>3 DEF Spawn
  <2>4. CASE Settle(v)
    <3>1. ASSUME NEW row \in RowType, Reports(v, row)
          PROVE  \A u \in Inv : inv'[u].job = inv[u].job
          BY <3>1, ReportsEffect
    <3>. QED BY <1>1, <2>4, <3>1, SettleEffect
  <2>. QED BY <1>2, <2>1, <2>2, <2>3, <2>4 DEF ParentStep
<1>3. ASSUME NEW v \in Inv, ChildStep(v) PROVE inv' = inv
      BY <1>3, ChildStays
<1>4. ASSUME NEW a \in Arch, UpdateTree(a) PROVE inv' = inv
      BY <1>4 DEF UpdateTree
<1>5. CASE UNCHANGED vars
      BY <1>5 DEF vars
<1>. QED BY <1>2, <1>3, <1>4, <1>5 DEF Next

\* As long as the command lines are the same, so is who writes what.
SameJobs == \A v \in Inv : inv'[v].job = inv[v].job

LEMMA SharingStays ==
    ASSUME SameJobs, NEW v \in Inv, NEW p
    PROVE  /\ JobOf(v)' = JobOf(v) /\ Targets(v)' = Targets(v)
           /\ Sharing(v, p)' = Sharing(v, p) /\ Sharing(v, p) \subseteq Inv
           /\ ArchsAt(v, p)' = ArchsAt(v, p)
<1>1. \A u \in Inv : Targets(u)' = Targets(u)
      BY DEF SameJobs, Targets, JobOf
<1>2. Sharing(v, p)' = Sharing(v, p) /\ Sharing(v, p) \subseteq Inv
      BY <1>1 DEF Sharing
<1>. QED BY <1>1, <1>2 DEF SameJobs, ArchsAt, JobOf

-----------------------------------------------------------------------------
\* What a script writes is an inventory of its architecture, of a tree not
\* older than it was when the script was spawned.
BodyFits(i, c) ==
    HasBody(c) =>
       /\ c.body \in Body
       /\ c.body.kind = i.job.kind /\ c.body.arch = c.arch
       /\ c.body.ver = Absence \/ c.body.ver >= c.since

\* The directory of an architecture is gone, or not older than that.
TreeFits(c) ==
    /\ c.since <= latest
    /\ c.phase # "none" => tree[c.arch] = Absence \/ tree[c.arch] >= c.since

BodyOK ==
    /\ \A a \in Arch : tree[a] <= latest
    /\ \A v \in Inv : TreeFits(child[v]) /\ BodyFits(inv[v], child[v])

\* What may happen to the tree at any time.
TreeMoves ==
    /\ latest' \in Version /\ latest <= latest'
    /\ \A a \in Arch : tree'[a] \in {tree[a], Absence, latest'}

LEMMA TreeMovesKeep ==
    ASSUME TInv, BodyOK, UNCHANGED <<inv, child>>, TreeMoves
    PROVE  BodyOK'
<1>1. /\ latest \in Int /\ latest' \in Int /\ 0 <= latest'
      /\ \A a \in Arch : tree[a] \in Int
      /\ \A v \in Inv : child[v].since \in Int
      BY BoundAssumption DEF TInv, TypeOK, ChildType, TreeMoves, Version, Absence
<1>2. \A a \in Arch : tree'[a] <= latest'
      BY <1>1 DEF TreeMoves, BodyOK, Absence
<1>3. ASSUME NEW v \in Inv PROVE TreeFits(child[v])'
  <2>1. child[v].phase # "none" => child[v].arch \in Arch
        BY DEF TInv, ChildOK
  <2>2. child[v].since <= latest'
        BY <1>1 DEF TreeMoves, BodyOK, TreeFits
  <2>3. child[v].phase # "none" =>
           tree'[child[v].arch] = Absence \/ tree'[child[v].arch] >= child[v].since
        BY <1>1, <2>1, <2>2 DEF TreeMoves, BodyOK, TreeFits
  <2>. QED BY <2>2, <2>3 DEF TreeFits
<1>. QED BY <1>2, <1>3 DEF BodyOK

\* The versions are known from the start.
LEMMA InitBodyOK == ASSUME Init PROVE BodyOK
<1>1. \A a \in Arch : tree[a] <= latest
      BY DEF Init, Absence, First
<1>2. \A v \in Inv : child[v] = NoChild
      BY DEF Init
<1>3. \A v \in Inv : TreeFits(child[v])
      BY <1>2 DEF Init, NoChild, TreeFits, First, Absence
<1>4. \A v \in Inv : ~HasBody(child[v])
      BY <1>2 DEF NoChild, HasBody, HasWritten
<1>. QED BY <1>1, <1>3, <1>4 DEF BodyOK, BodyFits

\* Every step of Dispatch keeps to them.
LEMMA NextBodyOK == ASSUME TInv, BodyOK, [Next]_vars PROVE BodyOK'
<1>0. SameJobs
      BY JobsStay DEF SameJobs
<1>1. ASSUME NEW v \in Inv, tree' = tree, latest' = latest,
             \A u \in Inv \ {v} : child'[u] = child[u],
             TreeFits(child'[v]), BodyFits(inv[v], child'[v])
      PROVE  BodyOK'
  <2>1. ASSUME NEW u \in Inv PROVE TreeFits(child[u])' /\ BodyFits(inv[u], child[u])'
        BY <1>0, <1>1 DEF BodyOK, TreeFits, BodyFits, SameJobs
  <2>. QED BY <1>1, <2>1 DEF BodyOK
<1>2. ASSUME NEW v \in Inv, ParentStep(v) \/ KillParent(v) PROVE BodyOK'
  <2>0. UNCHANGED <<tree, latest>>
        BY <1>2 DEF ParentStep, Refuse, ScanRaises, Begin, Spawn, Settle, Conclude, KillParent
  <2>1. CASE Spawn(v)
    <3>1. /\ child'[v].phase = "check" /\ child'[v].arch = Current(v)
          /\ child'[v].since = tree[Current(v)]
          /\ \A u \in Inv \ {v} : child'[u] = child[u]
          BY <2>1 DEF Spawn, TInv, TypeOK
    <3>2. Current(v) \in Arch /\ tree[Current(v)] \in Version
          BY <2>1, CurrentType DEF Spawn, TInv, TypeOK
    <3>3. TreeFits(child'[v])
          BY <3>1, <3>2 DEF TreeFits, BodyOK, Version, Absence
    <3>4. ~HasBody(child'[v])
          BY <3>1 DEF HasBody, HasWritten
    <3>. QED BY <1>1, <2>0, <3>1, <3>3, <3>4 DEF BodyFits
  <2>2. CASE child' = [child EXCEPT ![v] = NoChild]
    <3>1. child'[v] = NoChild /\ \A u \in Inv \ {v} : child'[u] = child[u]
          BY <2>2 DEF TInv, TypeOK
    <3>2. TreeFits(child'[v])
      <4>1. latest \in Version
            BY DEF TInv, TypeOK
      <4>. QED BY <3>1, <4>1 DEF NoChild, TreeFits, Version, Absence
    <3>3. ~HasBody(child'[v])
          BY <3>1 DEF HasBody, HasWritten, NoChild
    <3>. QED BY <1>1, <2>0, <3>1, <3>2, <3>3 DEF BodyFits
  <2>3. CASE child' = child
        BY <1>1, <2>0, <2>3 DEF BodyOK
  <2>. QED
       BY <1>2, <2>1, <2>2, <2>3 DEF ParentStep, Refuse, ScanRaises, Begin, Settle, Conclude, KillParent
<1>3. ASSUME NEW v \in Inv, ChildStep(v) PROVE BodyOK'
  <2>0. /\ inv' = inv /\ tree' = tree /\ latest' = latest
        /\ \A u \in Inv \ {v} : child'[u] = child[u]
        /\ child[v].phase # "none"
        /\ child'[v].arch = child[v].arch /\ child'[v].since = child[v].since
        BY <1>3, ChildStays
  <2>1. TreeFits(child'[v])
        BY <2>0 DEF TreeFits, BodyOK
  <2>2. BodyFits(inv[v], child[v])
        BY DEF BodyOK
  <2>3. BodyFits(inv[v], child'[v])
    <3>1. ASSUME HasBody(child'[v]) => HasBody(child[v]), child'[v].body = child[v].body
          PROVE  BodyFits(inv[v], child'[v])
          BY <2>0, <2>2, <3>1 DEF BodyFits
    <3>2. ASSUME ~HasBody(child'[v]) PROVE BodyFits(inv[v], child'[v])
          BY <3>2 DEF BodyFits
    <3>3. CASE ChildCheck(v)
          BY <3>2, <3>3, ExitsEffect, ToPhaseEffect DEF ChildCheck, HasBody, HasWritten
    <3>4. CASE ChildList(v)
      <4>. DEFINE b == [kind |-> JobOf(v).kind, arch |-> child[v].arch, ver |-> tree[child[v].arch]]
      <4>1. CASE Exits(v, 1)
            BY <3>2, <4>1, ExitsEffect DEF HasBody, HasWritten
      <4>2. CASE child' = [child EXCEPT ![v].phase = "write", ![v].body = b]
        <5>1. child'[v].body = b
              BY <4>2 DEF TInv, TypeOK, ChildType
        <5>2. b \in Body
          <6>1. JobOf(v).kind \in Kind
                BY DEF JobOf, TInv, TypeOK, InvType, Job
          <6>2. child[v].arch \in Arch
                BY <2>0 DEF TInv, ChildOK
          <6>. QED BY <6>1, <6>2 DEF Body, TInv, TypeOK
        <5>3. b.ver = Absence \/ b.ver >= child[v].since
              BY <2>0 DEF BodyOK, TreeFits
        <5>. QED BY <2>0, <5>1, <5>2, <5>3 DEF BodyFits, JobOf
      <4>. QED BY <3>4, <4>1, <4>2 DEF ChildList
    <3>5. CASE ChildOpen(v)
          BY <3>1, <3>5, ToPhaseEffect DEF ChildOpen, HasBody
    <3>6. CASE ChildClose(v)
          BY <3>1, <3>6, ExitsEffect DEF ChildClose, HasBody, HasWritten
    <3>7. CASE ChildFails(v)
          BY <3>2, <3>7, ExitsEffect DEF ChildFails, RcOfFault, HasBody, HasWritten
    <3>. QED BY <1>3, <3>3, <3>4, <3>5, <3>6, <3>7 DEF ChildStep
  <2>. QED BY <1>1, <2>0, <2>1, <2>3
<1>4. ASSUME NEW a \in Arch, UpdateTree(a) PROVE BodyOK'
  <2>1. TreeMoves
    <3>1. latest' \in Version
          BY <1>4, NextTInv DEF Next, TInv, TypeOK
    <3>. QED BY <1>4, <3>1 DEF UpdateTree, TreeMoves, TInv, TypeOK, Version, Absence
  <2>. QED BY <1>4, <2>1, TreeMovesKeep DEF UpdateTree
<1>5. CASE UNCHANGED vars
      BY <1>5 DEF vars, BodyOK, TreeFits
<1>. QED BY <1>2, <1>3, <1>4, <1>5 DEF Next

-----------------------------------------------------------------------------
\* Who holds a file open, and what may be in it, when it has been opened.
LEMMA OpenedEffect ==
    ASSUME NEW f \in OutputFileType, NEW w, NEW b
    PROVE  /\ Opened(f, w, b).open = f.open \cup {<<w, b>>}
           /\ Contents(Opened(f, w, b)) = {b} \cup {o[2] : o \in f.open}
           /\ Opened(f, w, b).exists /\ Opened(f, w, b).last = w /\ ~Opened(f, w, b).done
<1>1. Opened(f, w, b).open = f.open \cup {<<w, b>>} /\ Opened(f, w, b).bodies = {}
      BY DEF Opened
<1>2. {o[2] : o \in f.open \cup {<<w, b>>}} = {b} \cup {o[2] : o \in f.open}
  <2>1. <<w, b>>[2] = b
        OBVIOUS
  <2>. QED BY <2>1, Zenon
<1>3. Contents(Opened(f, w, b)) = {b} \cup {o[2] : o \in f.open}
      BY <1>1, <1>2 DEF Contents
<1>. QED BY <1>1, <1>3 DEF Opened

\* And when a writer has stopped, at the end of what it writes or before.
LEMMA AbandonedEffect ==
    ASSUME NEW f \in OutputFileType, NEW w
    PROVE  /\ Abandoned(f, w).open = {o \in f.open : o[1] # w}
           /\ Contents(Abandoned(f, w)) = Contents(f)
           /\ Abandoned(f, w).exists = f.exists /\ Abandoned(f, w).last = f.last
           /\ Abandoned(f, w).done = f.done
<1>1. /\ Abandoned(f, w).open = {o \in f.open : o[1] # w}
      /\ Abandoned(f, w).bodies = f.bodies \cup WrittenBy(f, w)
      /\ Abandoned(f, w).exists = f.exists /\ Abandoned(f, w).last = f.last
      /\ Abandoned(f, w).done = f.done
      BY DEF Abandoned, OutputFileType
<1>2. Contents(Abandoned(f, w)) = Contents(f)
      BY <1>1 DEF Contents, WrittenBy
<1>. QED BY <1>1, <1>2

LEMMA ClosedEffect ==
    ASSUME NEW f \in OutputFileType, NEW w
    PROVE  /\ Closed(f, w).open = {o \in f.open : o[1] # w}
           /\ Contents(Closed(f, w)) = Contents(f)
           /\ Closed(f, w).exists = f.exists /\ Closed(f, w).last = f.last
           /\ f.done \/ f.last = w => Closed(f, w).done
<1>1. /\ Closed(f, w).open = Abandoned(f, w).open
      /\ Closed(f, w).bodies = Abandoned(f, w).bodies
      /\ Closed(f, w).exists = f.exists /\ Closed(f, w).last = f.last
      BY DEF Closed, Abandoned, OutputFileType
<1>2. f.done \/ f.last = w => Closed(f, w).done
      BY DEF Closed, Abandoned, OutputFileType
<1>3. Contents(Closed(f, w)) = Contents(f)
      BY <1>1, AbandonedEffect DEF Contents
<1>. QED BY <1>1, <1>2, <1>3, AbandonedEffect

\* The same of the steps of a script.
LEMMA ChildOpenEffect ==
    ASSUME TInv, NEW v \in Inv, ChildOpen(v), NEW p, p = child[v].path
    PROVE  /\ p \in Path /\ child[v].phase = "write"
           /\ child'[v].phase = "writing" /\ child'[v].body = child[v].body
           /\ \A q \in Path \ {p} : disk'[q] = disk[q]
           /\ disk'[p].open = disk[p].open \cup {<<v, child[v].body>>}
           /\ Contents(disk'[p]) = {child[v].body} \cup {o[2] : o \in disk[p].open}
           /\ disk'[p].exists /\ disk'[p].last = v /\ ~disk'[p].done
<1>1. p \in Path /\ child[v].phase = "write" /\ disk \in [Path -> OutputFileType]
      BY DEF ChildOpen, TInv, ChildOK, TypeOK
<1>2. /\ \A q \in Path \ {p} : disk'[q] = disk[q]
      /\ disk'[p] = Opened(disk[p], v, child[v].body) /\ disk[p] \in OutputFileType
      BY <1>1 DEF ChildOpen
<1>3. child'[v].phase = "writing" /\ child'[v].body = child[v].body
      BY ToPhaseEffect DEF ChildOpen
<1>. QED BY <1>1, <1>2, <1>3, OpenedEffect

LEMMA ChildStopsEffect ==
    ASSUME TInv, NEW v \in Inv, ChildClose(v) \/ (ChildFails(v) /\ child[v].phase = "writing"),
           NEW p, p = child[v].path
    PROVE  /\ p \in Path /\ child[v].phase = "writing"
           /\ child'[v].phase = "exited" /\ child'[v].body = child[v].body
           /\ child'[v].rc = 0 <=> ChildClose(v)
           /\ \A q \in Path \ {p} : disk'[q] = disk[q]
           /\ disk'[p].open = {o \in disk[p].open : o[1] # v}
           /\ Contents(disk'[p]) = Contents(disk[p])
           /\ disk'[p].exists = disk[p].exists /\ disk'[p].last = disk[p].last
           /\ disk[p].done => disk'[p].done
           /\ ChildClose(v) /\ disk[p].last = v => disk'[p].done
<1>1. child[v].phase = "writing" /\ p \in Path /\ disk \in [Path -> OutputFileType]
      BY DEF ChildClose, TInv, ChildOK, TypeOK
<1>2. disk[p] \in OutputFileType
      BY <1>1
<1>3. CASE ChildClose(v)
  <2>1. /\ child'[v].phase = "exited" /\ child'[v].body = child[v].body /\ child'[v].rc = 0
        BY <1>3, ExitsEffect DEF ChildClose
  <2>2. (\A q \in Path \ {p} : disk'[q] = disk[q]) /\ disk'[p] = Closed(disk[p], v)
        BY <1>1, <1>3 DEF ChildClose
  <2>. QED BY <1>1, <1>2, <1>3, <2>1, <2>2, ClosedEffect
<1>4. CASE ChildFails(v) /\ ~ChildClose(v)
  <2>1. /\ child'[v].phase = "exited" /\ child'[v].body = child[v].body /\ child'[v].rc # 0
        BY <1>4, ExitsEffect DEF ChildFails, RcOfFault
  <2>2. (\A q \in Path \ {p} : disk'[q] = disk[q]) /\ disk'[p] = Abandoned(disk[p], v)
        BY <1>1, <1>4 DEF ChildFails
  <2>. QED BY <1>1, <1>2, <1>4, <2>1, <2>2, AbandonedEffect
<1>. QED BY <1>3, <1>4

\* The other steps of a script leave the files alone, and it has not written.
LEMMA ChildReadsEffect ==
    ASSUME TInv, NEW v \in Inv,
           ChildCheck(v) \/ ChildList(v) \/ (ChildFails(v) /\ child[v].phase # "writing")
    PROVE  UNCHANGED disk /\ child[v].phase # "writing" /\ ~HasWritten(child'[v])
<1>1. CASE ChildCheck(v)
      BY <1>1, ExitsEffect, ToPhaseEffect DEF ChildCheck, HasWritten
<1>2. CASE ChildList(v)
  <2>1. CASE Exits(v, 1)
        BY <1>2, <2>1, ExitsEffect DEF ChildList, HasWritten
  <2>2. CASE ~Exits(v, 1)
        BY <1>2, <2>2 DEF ChildList, HasWritten, TInv, TypeOK, ChildType
  <2>. QED BY <2>1, <2>2
<1>3. CASE ChildFails(v) /\ child[v].phase # "writing"
      BY <1>3, ExitsEffect DEF ChildFails, RcOfFault, HasWritten
<1>. QED BY <1>1, <1>2, <1>3

\* A file is held open by the scripts that are writing it; what other commands
\* write is no inventory.
OpenedBy(p, o) ==
    IF o[1] \in Inv
    THEN child[o[1]].phase = "writing" /\ child[o[1]].path = p /\ child[o[1]].body = o[2]
    ELSE o[2].kind \notin Kind

OpenOK == \A p \in Path : \A o \in disk[p].open : OpenedBy(p, o)

\* What a successful script has written is in its file, with nothing in it that
\* was there before: at most what others that write it have added.
Written(v, c) ==
    HasWritten(c) =>
       \A b \in Contents(disk[c.path]) : b.kind \in Kind =>
          \/ b = c.body
          \/ \E u \in Sharing(v, c.path) : b.kind = JobOf(u).kind

ContentOK == \A v \in Inv : Written(v, child[v])

\* Nothing is open to begin with, and nothing has been written.
LEMMA InitOpenOK == ASSUME Init PROVE OpenOK /\ ContentOK
<1>1. PICK old \in Leftover :
        disk = [p \in Path |-> IF p \in old
                               THEN Old([kind |-> p[3], arch |-> p[2], ver |-> Earlier])
                               ELSE Absent]
      BY DEF Init
<1>2. \A p \in Path : disk[p].open = {}
      BY <1>1 DEF Old, Absent
<1>3. \A v \in Inv : child[v].phase = "none"
      BY DEF Init, NoChild
<1>. QED BY <1>2, <1>3 DEF OpenOK, ContentOK, Written, HasWritten

\* What a script that is not writing holds open: nothing.
LEMMA OnlyWritersOpen ==
    ASSUME OpenOK, NEW v \in Inv, NEW p \in Path, NEW o \in disk[p].open, o[1] = v
    PROVE  child[v].phase = "writing" /\ child[v].path = p
BY DEF OpenOK, OpenedBy

\* Every step keeps track of who holds what open.
LEMMA NextOpenOK == ASSUME TInv, OpenOK, [Next]_vars PROVE OpenOK'
<1>0. disk \in [Path -> OutputFileType]
      BY DEF TInv, TypeOK
<1>1. ASSUME NEW v \in Inv, child[v].phase # "writing",
             \A u \in Inv \ {v} : child'[u] = child[u], UNCHANGED disk
      PROVE  OpenOK'
      BY <1>1 DEF OpenOK, OpenedBy
<1>2. ASSUME NEW v \in Inv, ParentStep(v) \/ KillParent(v) PROVE OpenOK'
  <2>1. UNCHANGED disk
        BY <1>2 DEF ParentStep, Refuse, ScanRaises, Begin, Spawn, Settle, Conclude, KillParent
  <2>2. CASE Spawn(v)
        BY <1>1, <2>1, <2>2 DEF Spawn, TInv, TypeOK
  <2>3. CASE Settle(v)
        BY <1>1, <2>1, <2>3 DEF Settle, Finished, TInv, TypeOK
  <2>4. CASE child' = child
        BY <2>1, <2>4 DEF OpenOK, OpenedBy
  <2>. QED BY <1>2, <2>2, <2>3, <2>4 DEF ParentStep, Refuse, ScanRaises, Begin, Conclude, KillParent
<1>3. ASSUME NEW v \in Inv, ChildStep(v) PROVE OpenOK'
  <2>. DEFINE p == child[v].path
  <2>0. \A u \in Inv \ {v} : child'[u] = child[u]
        BY <1>3, ChildStays
  <2>1. CASE ChildCheck(v) \/ ChildList(v) \/ (ChildFails(v) /\ child[v].phase # "writing")
        BY <1>1, <2>0, <2>1, ChildReadsEffect
  <2>2. CASE ChildOpen(v)
    <3>1. /\ p \in Path /\ child[v].phase = "write"
          /\ child'[v].phase = "writing" /\ child'[v].body = child[v].body
          /\ \A q \in Path \ {p} : disk'[q] = disk[q]
          /\ disk'[p].open = disk[p].open \cup {<<v, child[v].body>>}
          BY <2>2, ChildOpenEffect
    <3>2. child'[v].path = p
          BY <1>3, ChildStays
    <3>3. ASSUME NEW q \in Path, NEW o \in disk[q].open PROVE OpenedBy(q, o)'
          BY <2>0, <3>1, OnlyWritersOpen DEF OpenOK, OpenedBy
    <3>4. ASSUME NEW q \in Path, NEW o \in disk'[q].open
          PROVE  o \in disk[q].open \/ (q = p /\ o = <<v, child[v].body>>)
          BY <3>1
    <3>5. ASSUME NEW q \in Path, NEW o \in disk'[q].open PROVE OpenedBy(q, o)'
      <4>1. CASE o \in disk[q].open
            BY <3>3, <4>1
      <4>2. CASE q = p /\ o = <<v, child[v].body>>
            BY <3>1, <3>2, <4>2 DEF OpenedBy
      <4>. QED BY <3>4, <4>1, <4>2
    <3>. QED BY <3>5 DEF OpenOK
  <2>3. CASE ChildClose(v) \/ (ChildFails(v) /\ child[v].phase = "writing")
    <3>1. /\ \A q \in Path \ {p} : disk'[q] = disk[q]
          /\ disk'[p].open = {o \in disk[p].open : o[1] # v}
          BY <2>3, ChildStopsEffect
    <3>2. ASSUME NEW q \in Path, NEW o \in disk[q].open, o[1] # v PROVE OpenedBy(q, o)'
          BY <2>0, <3>2 DEF OpenOK, OpenedBy
    <3>3. ASSUME NEW q \in Path \ {p}, NEW o \in disk[q].open PROVE o[1] # v
          BY <3>3, OnlyWritersOpen
    <3>4. ASSUME NEW q \in Path, NEW o \in disk'[q].open PROVE o \in disk[q].open /\ o[1] # v
          BY <3>1, <3>3
    <3>. QED BY <3>2, <3>4, Zenon DEF OpenOK
  <2>. QED BY <1>3, <2>1, <2>2, <2>3 DEF ChildStep
<1>4. ASSUME NEW a \in Arch, UpdateTree(a) PROVE OpenOK'
      BY <1>4 DEF UpdateTree, OpenOK, OpenedBy
<1>5. CASE UNCHANGED vars
      BY <1>5 DEF vars, OpenOK, OpenedBy
<1>. QED BY <1>2, <1>3, <1>4, <1>5 DEF Next

-----------------------------------------------------------------------------
\* A script has a file its invocation may write, for its architecture.
LEMMA ChildTarget ==
    ASSUME TInv, PlanOK, NEW v \in Inv, child[v].phase # "none"
    PROVE  child[v].arch \in ArchsAt(v, child[v].path) /\ child[v].path \in Targets(v)
<1>1. PlanFits(inv[v], child[v]) /\ inv[v].plan \in Seq(Arch) /\ inv[v].settled \in Seq(RowType)
      BY DEF PlanOK, TInv, TypeOK, InvType
<1>2. Len(inv[v].settled) + 1 \in DOMAIN inv[v].plan
      BY <1>1 DEF PlanFits
<1>. QED BY <1>1, <1>2 DEF PlanFits, ArchsAt, Targets, JobOf

\* What somebody else's script holds open is a file it shares.
LEMMA WriterShares ==
    ASSUME TInv, PlanOK, BodyOK, OpenOK, NEW v \in Inv, NEW p \in Path,
           NEW o \in disk[p].open, o[1] # v, o[2].kind \in Kind
    PROVE  \E u \in Sharing(v, p) : o[2].kind = JobOf(u).kind
<1>1. /\ o[1] \in Inv /\ child[o[1]].phase = "writing"
      /\ child[o[1]].path = p /\ child[o[1]].body = o[2]
      BY DEF OpenOK, OpenedBy
<1>2. o[2].kind = JobOf(o[1]).kind
      BY <1>1 DEF BodyOK, BodyFits, HasBody, HasWritten, JobOf
<1>3. o[1] \in Sharing(v, p)
      BY <1>1, ChildTarget DEF Sharing
<1>. QED BY <1>2, <1>3

\* A script that opens its file empties it; the others only add to it.
LEMMA NextContentOK ==
    ASSUME TInv, PlanOK, BodyOK, OpenOK, ContentOK, [Next]_vars PROVE ContentOK'
<1>0. SameJobs
      BY JobsStay DEF SameJobs
<1>1. ASSUME NEW w \in Inv, child'[w] = child[w],
             HasWritten(child[w]) => Contents(disk'[child[w].path]) \subseteq Contents(disk[child[w].path])
      PROVE  Written(w, child[w])'
      BY <1>0, <1>1, SharingStays DEF ContentOK, Written
<1>2. ASSUME NEW w \in Inv, ~HasWritten(child'[w]) PROVE Written(w, child[w])'
      BY <1>2 DEF Written
<1>3. ASSUME NEW v \in Inv, ParentStep(v) \/ KillParent(v) PROVE ContentOK'
  <2>1. UNCHANGED disk
        BY <1>3 DEF ParentStep, Refuse, ScanRaises, Begin, Spawn, Settle, Conclude, KillParent
  <2>2. \A w \in Inv : child'[w] = child[w] \/ child'[w].phase \in {"none", "check"}
    <3>1. CASE Spawn(v)
          BY <3>1 DEF Spawn, TInv, TypeOK
    <3>2. CASE Settle(v)
          BY <3>2 DEF Settle, NoChild, TInv, TypeOK
    <3>. QED BY <1>3, <3>1, <3>2 DEF ParentStep, Refuse, ScanRaises, Begin, Conclude, KillParent
  <2>3. \A w \in Inv : child'[w] = child[w] \/ ~HasWritten(child'[w])
        BY <2>2 DEF HasWritten
  <2>. QED BY <1>1, <1>2, <2>1, <2>3 DEF ContentOK
<1>4. ASSUME NEW v \in Inv, ChildStep(v) PROVE ContentOK'
  <2>. DEFINE p == child[v].path
  <2>0. \A w \in Inv \ {v} : child'[w] = child[w]
        BY <1>4, ChildStays
  <2>1. CASE ChildCheck(v) \/ ChildList(v) \/ (ChildFails(v) /\ child[v].phase # "writing")
        BY <1>1, <1>2, <2>0, <2>1, ChildReadsEffect DEF ContentOK
  <2>2. CASE ChildOpen(v)
    <3>1. /\ p \in Path /\ child[v].phase = "write"
          /\ child'[v].phase = "writing" /\ child'[v].body = child[v].body
          /\ \A q \in Path \ {p} : disk'[q] = disk[q]
          /\ Contents(disk'[p]) = {child[v].body} \cup {o[2] : o \in disk[p].open}
          BY <2>2, ChildOpenEffect
    <3>2. child'[v].path = p
          BY <1>4, ChildStays
    <3>3. Written(v, child[v])'
      <4>1. ASSUME NEW b \in Contents(disk'[p]), b.kind \in Kind, b # child[v].body
            PROVE  \E u \in Sharing(v, p) : b.kind = JobOf(u).kind
        <5>1. PICK o \in disk[p].open : b = o[2]
              BY <3>1, <4>1
        <5>2. o[1] # v
              BY <3>1, OnlyWritersOpen
        <5>. QED BY <3>1, <4>1, <5>1, <5>2, WriterShares
      <4>. QED BY <1>0, <3>1, <3>2, <4>1, SharingStays DEF Written
    <3>4. ASSUME NEW w \in Inv \ {v} PROVE Written(w, child[w])'
      <4>1. CASE child[w].path # p
        <5>1. HasWritten(child[w]) => child[w].path \in Path
              BY DEF HasWritten, TInv, ChildOK
        <5>. QED BY <1>1, <2>0, <3>1, <4>1, <5>1
      <4>2. CASE child[w].path = p
        <5>1. ASSUME HasWritten(child[w]), NEW b \in Contents(disk'[p]), b.kind \in Kind,
                     b # child[w].body
              PROVE  \E u \in Sharing(w, p) : b.kind = JobOf(u).kind
          <6>1. CASE b = child[v].body
            <7>1. v \in Sharing(w, p)
                  BY <3>1, ChildTarget DEF Sharing
            <7>2. b.kind = JobOf(v).kind
                  BY <3>1, <6>1 DEF BodyOK, BodyFits, HasBody, JobOf
            <7>. QED BY <7>1, <7>2
          <6>2. CASE b # child[v].body
            <7>1. b \in Contents(disk[p])
                  BY <3>1, <5>1, <6>2 DEF Contents
            <7>. QED BY <4>2, <5>1, <7>1 DEF ContentOK, Written
          <6>. QED BY <6>1, <6>2
        <5>. QED BY <1>0, <2>0, <4>2, <5>1, SharingStays DEF Written
      <4>. QED BY <4>1, <4>2
    <3>. QED BY <3>3, <3>4 DEF ContentOK
  <2>3. CASE ChildClose(v) \/ (ChildFails(v) /\ child[v].phase = "writing")
    <3>1. /\ p \in Path /\ child[v].phase = "writing"
          /\ child'[v].body = child[v].body
          /\ \A q \in Path \ {p} : disk'[q] = disk[q]
          /\ Contents(disk'[p]) = Contents(disk[p])
          BY <2>3, ChildStopsEffect
    <3>2. child'[v].path = p
          BY <1>4, ChildStays
    <3>3. Written(v, child[v])'
          BY <1>0, <3>1, <3>2, SharingStays DEF ContentOK, Written, HasWritten
    <3>4. ASSUME NEW w \in Inv \ {v} PROVE Written(w, child[w])'
      <4>1. HasWritten(child[w]) => child[w].path \in Path
            BY DEF HasWritten, TInv, ChildOK
      <4>2. HasWritten(child[w]) => Contents(disk'[child[w].path]) = Contents(disk[child[w].path])
            BY <3>1, <4>1
      <4>. QED BY <1>1, <2>0, <4>2
    <3>. QED BY <3>3, <3>4 DEF ContentOK
  <2>. QED BY <1>4, <2>1, <2>2, <2>3 DEF ChildStep
<1>5. ASSUME NEW a \in Arch, UpdateTree(a) PROVE ContentOK'
      BY <1>1, <1>5 DEF UpdateTree, ContentOK
<1>6. CASE UNCHANGED vars
      BY <1>1, <1>6 DEF vars, ContentOK
<1>. QED BY <1>3, <1>4, <1>5, <1>6 DEF Next

-----------------------------------------------------------------------------
\* The ways in which a script's turn may end.
FailsTurn(v) ==
    child[v].rc # 0 /\ Reports(v, Row(v, FALSE, "child", Absence))

RunsTurn(v) ==
    /\ child[v].rc = 0 /\ JobOf(v).command = "run"
    /\ Reports(v, Row(v, TRUE, "ok", Absence))

ReadsTurn(v, r) ==
    /\ child[v].rc = 0 /\ JobOf(v).command = "smoke" /\ r \in Reads(disk[child[v].path])
    /\ \/ ~HasSummary(r) /\ Reports(v, Row(v, FALSE, "readback", Absence))
       \/ r \in Body /\ r.kind = JobOf(v).kind /\ Reports(v, Row(v, TRUE, "ok", r.ver))
       \/ r \in Body /\ r.kind \in Kind /\ r.kind # JobOf(v).kind /\ Ends(v, 1)

LEMMA SettleTurns ==
    ASSUME TInv, NEW v \in Inv, Settle(v)
    PROVE  /\ Waiting(v) /\ child[v].phase = "exited" /\ child[v].path \in Path
           /\ UNCHANGED <<disk, tree, latest>> /\ child' = [child EXCEPT ![v] = NoChild]
           /\ FailsTurn(v) \/ RunsTurn(v) \/ \E r : ReadsTurn(v, r)
<1>0. Waiting(v) /\ child[v].phase = "exited" /\ child[v].path \in Path
      BY DEF Settle, Finished, TInv, ChildOK
<1>1. UNCHANGED <<disk, tree, latest>> /\ child' = [child EXCEPT ![v] = NoChild]
      BY DEF Settle
<1>2. JobOf(v) \in Job
      BY DEF JobOf, TInv, TypeOK, InvType
<1>3. CASE child[v].rc # 0
      BY <1>0, <1>1, <1>3 DEF Settle, Succeeded, FailsTurn
<1>4. CASE child[v].rc = 0 /\ JobOf(v).command # "smoke"
  <2>1. JobOf(v).command = "run"
        BY <1>2, <1>4 DEF Job
  <2>. QED BY <1>0, <1>1, <1>4, <2>1 DEF Settle, Succeeded, RunsTurn
<1>5. CASE child[v].rc = 0 /\ JobOf(v).command = "smoke"
  <2>1. PICK r \in Reads(disk[child[v].path]) : ReadBack(v, r)
        BY <1>5 DEF Settle, Succeeded
  <2>2. r \in Body \cup {Invalid}
        BY <1>0, ReadsType DEF TInv, TypeOK
  <2>3. CASE ~HasSummary(r)
        BY <1>0, <1>1, <1>5, <2>1, <2>3 DEF ReadBack, ReadsTurn
  <2>4. CASE HasSummary(r) /\ r.kind = JobOf(v).kind
        BY <1>0, <1>1, <1>5, <2>1, <2>2, <2>4 DEF ReadBack, ReadsTurn, HasSummary
  <2>5. CASE HasSummary(r) /\ r.kind # JobOf(v).kind
        BY <1>0, <1>1, <1>5, <2>1, <2>2, <2>5 DEF ReadBack, ReadsTurn, HasSummary
  <2>. QED BY <2>3, <2>4, <2>5
<1>. QED BY <1>0, <1>1, <1>3, <1>4, <1>5

\* An inventory that is read is in the file.
LEMMA ReadIsThere ==
    ASSUME NEW f \in OutputFileType, NEW r \in Reads(f), r \in Body PROVE r \in Contents(f)
BY InvalidAssumption DEF Reads

\* A row that is OK, of a smoke test.
RowFresh(v, row) ==
    JobOf(v).command = "smoke" /\ row.ok /\ Sharing(v, OutPath(JobOf(v), row.arch)) = {} =>
       row.ver = Absence \/ row.ver >= row.since

\* What a smoke test reads, of a file that nobody else writes.
LEMMA ReadIsOwn ==
    ASSUME TInv, BodyOK, ContentOK, NEW v \in Inv, HasWritten(child[v]),
           child[v].path \in Path, NEW r \in Reads(disk[child[v].path]), r \in Body,
           r.kind \in Kind
    PROVE  \/ r = child[v].body
           \/ \E u \in Sharing(v, child[v].path) : r.kind = JobOf(u).kind
<1>1. r \in Contents(disk[child[v].path])
      BY ReadIsThere DEF TInv, TypeOK
<1>. QED BY <1>1 DEF ContentOK, Written

\* A row is there before a step, or is reported in it.
LEMMA RowBefore ==
    ASSUME TInv, [Next]_vars, NEW v \in Inv, NEW n \in DOMAIN inv'[v].settled
    PROVE  \/ n \in DOMAIN inv[v].settled /\ inv'[v].settled[n] = inv[v].settled[n]
           \/ Settle(v) /\ \E row \in RowType : Reports(v, row) /\ row = inv'[v].settled[n]
<1>0. inv[v].settled \in Seq(RowType)
      BY DEF TInv, TypeOK, InvType
<1>1. ASSUME inv'[v].settled = inv[v].settled
      PROVE  n \in DOMAIN inv[v].settled /\ inv'[v].settled[n] = inv[v].settled[n]
      BY <1>1
<1>2. ASSUME NEW u \in Inv, u # v, ParentStep(u) \/ KillParent(u)
      PROVE  inv'[v].settled = inv[v].settled
  <2>1. inv'[v] = inv[v]
        BY <1>2 DEF ParentStep, Refuse, ScanRaises, Begin, Spawn, Settle, Conclude, KillParent,
                    ReadBack, Reports, Ends, TInv, TypeOK
  <2>. QED BY <2>1
<1>3. ASSUME Refuse(v) \/ ScanRaises(v) \/ Conclude(v) \/ KillParent(v) \/ Begin(v) \/ Spawn(v)
      PROVE  inv'[v].settled = inv[v].settled
      BY <1>3, EndsEffect, BeginEffect DEF Refuse, ScanRaises, Conclude, KillParent, Spawn
<1>4. CASE Settle(v)
  <2>1. ASSUME NEW code \in 1..255, Ends(v, code) PROVE inv'[v].settled = inv[v].settled
        BY <2>1, EndsEffect
  <2>2. ASSUME NEW row \in RowType, Reports(v, row)
        PROVE  \/ n \in DOMAIN inv[v].settled /\ inv'[v].settled[n] = inv[v].settled[n]
               \/ row = inv'[v].settled[n]
        BY <1>0, <2>2, ReportsEffect
  <2>. QED BY <1>1, <1>4, <2>1, <2>2, SettleEffect
<1>5. ASSUME NEW u \in Inv, ChildStep(u) PROVE inv'[v].settled = inv[v].settled
      BY <1>5, ChildStays
<1>6. ASSUME NEW a \in Arch, UpdateTree(a) PROVE inv'[v].settled = inv[v].settled
      BY <1>6 DEF UpdateTree
<1>7. CASE UNCHANGED vars
      BY <1>1, <1>7 DEF vars
<1>8. ASSUME NEW u \in Inv, ParentStep(u) \/ KillParent(u)
      PROVE  inv'[v].settled = inv[v].settled \/ Settle(v)
      BY <1>2, <1>3, <1>8 DEF ParentStep
<1>. QED BY <1>1, <1>4, <1>5, <1>6, <1>7, <1>8 DEF Next

\* One row is reported at a time.
LEMMA OneRow ==
    ASSUME TInv, NEW v \in Inv, NEW row \in RowType, NEW other \in RowType,
           Reports(v, row), Reports(v, other)
    PROVE  row = other
<1>1. inv'[v].settled[Len(inv[v].settled) + 1] = row
      BY ReportsEffect
<1>2. inv'[v].settled[Len(inv[v].settled) + 1] = other
      BY ReportsEffect
<1>. QED BY <1>1, <1>2

\* What the row that a script's turn leaves says of it.
TurnOf(v, row) ==
    \/ child[v].rc # 0 /\ row = Row(v, FALSE, "child", Absence)
    \/ child[v].rc = 0 /\ JobOf(v).command = "run" /\ row = Row(v, TRUE, "ok", Absence)
    \/ /\ child[v].rc = 0 /\ row = Row(v, FALSE, "readback", Absence)
       /\ \E r \in Reads(disk[child[v].path]) : ~HasSummary(r)
    \/ /\ child[v].rc = 0
       /\ \E r \in Reads(disk[child[v].path]) :
             r \in Body /\ r.kind = JobOf(v).kind /\ row = Row(v, TRUE, "ok", r.ver)

LEMMA RowOfTurn ==
    ASSUME TInv, NEW v \in Inv, Settle(v), NEW row \in RowType, Reports(v, row)
    PROVE  TurnOf(v, row)
<1>0. Waiting(v) /\ Absence \in Version
      BY SettleTurns, Versions
<1>1. CASE FailsTurn(v)
  <2>1. Row(v, FALSE, "child", Absence) \in RowType
        BY <1>0, RowHasType
  <2>. QED BY <1>1, <2>1, OneRow DEF FailsTurn, TurnOf
<1>2. CASE RunsTurn(v)
  <2>1. Row(v, TRUE, "ok", Absence) \in RowType
        BY <1>0, RowHasType
  <2>. QED BY <1>2, <2>1, OneRow DEF RunsTurn, TurnOf
<1>3. ASSUME NEW r, ReadsTurn(v, r) PROVE TurnOf(v, row)
  <2>1. CASE ~HasSummary(r) /\ Reports(v, Row(v, FALSE, "readback", Absence))
    <3>1. Row(v, FALSE, "readback", Absence) \in RowType
          BY <1>0, RowHasType
    <3>. QED BY <1>3, <2>1, <3>1, OneRow DEF ReadsTurn, TurnOf
  <2>2. CASE r \in Body /\ r.kind = JobOf(v).kind /\ Reports(v, Row(v, TRUE, "ok", r.ver))
    <3>1. r.ver \in Version
          BY <2>2 DEF Body
    <3>2. Row(v, TRUE, "ok", r.ver) \in RowType
          BY <1>0, <3>1, RowHasType
    <3>. QED BY <1>3, <2>2, <3>2, OneRow DEF ReadsTurn, TurnOf
  <2>3. CASE Ends(v, 1)
        BY <1>0, <2>3, EndsEffect, ReportsEffect DEF Waiting
  <2>. QED BY <1>3, <2>1, <2>2, <2>3 DEF ReadsTurn
<1>. QED BY <1>1, <1>2, <1>3, SettleTurns

\* An OK row is fresh when it is reported.
LEMMA NewRowFresh ==
    ASSUME TInv, PlanOK, BodyOK, ContentOK, NEW v \in Inv, Settle(v), NEW r,
           child[v].rc = 0, r \in Reads(disk[child[v].path]), r \in Body, r.kind = JobOf(v).kind
    PROVE  RowFresh(v, Row(v, TRUE, "ok", r.ver))
<1>1. SUFFICES ASSUME Sharing(v, OutPath(JobOf(v), Current(v))) = {}
               PROVE  r.ver = Absence \/ r.ver >= child[v].since
      BY DEF RowFresh, Row
<1>2. child[v].phase = "exited" /\ child[v].path \in Path
      BY SettleTurns
<1>3. HasWritten(child[v])
      BY <1>2 DEF HasWritten
<1>4. child[v].path = OutPath(JobOf(v), Current(v))
      BY <1>2 DEF PlanOK, PlanFits, Current, Settled, JobOf
<1>5. r.kind \in Kind
      BY DEF JobOf, TInv, TypeOK, InvType, Job
<1>6. r = child[v].body
      BY <1>1, <1>2, <1>3, <1>4, <1>5, ReadIsOwn
<1>. QED BY <1>3, <1>6 DEF BodyOK, BodyFits, HasBody

\* An OK row stays fresh.
LEMMA NextOkRowFresh ==
    ASSUME TInv, PlanOK, BodyOK, ContentOK, OkRowFresh, [Next]_vars PROVE OkRowFresh'
<1>0. SameJobs
      BY JobsStay DEF SameJobs
<1>1. OkRowFresh <=> \A v \in Inv : \A n \in DOMAIN inv[v].settled : RowFresh(v, inv[v].settled[n])
      BY DEF OkRowFresh, RowFresh, PathOfRow
<1>2. OkRowFresh' <=>
         \A v \in Inv : \A n \in DOMAIN inv'[v].settled : RowFresh(v, inv[v].settled[n])'
      BY DEF OkRowFresh, RowFresh, PathOfRow
<1>3. ASSUME NEW v \in Inv, NEW row PROVE RowFresh(v, row) => RowFresh(v, row)'
      BY <1>0, SharingStays DEF RowFresh
<1>4. ASSUME NEW v \in Inv, NEW row \in RowType, Settle(v), Reports(v, row)
      PROVE  RowFresh(v, row)
  <2>1. CASE row = Row(v, FALSE, "child", Absence) \/ row = Row(v, FALSE, "readback", Absence)
        BY <2>1 DEF Row, RowFresh
  <2>2. CASE JobOf(v).command = "run"
        BY <2>2 DEF RowFresh
  <2>. QED BY <1>4, <2>1, <2>2, RowOfTurn, NewRowFresh DEF TurnOf
<1>5. ASSUME NEW v \in Inv, NEW n \in DOMAIN inv'[v].settled PROVE RowFresh(v, inv'[v].settled[n])
      BY <1>1, <1>4, <1>5, RowBefore
<1>. QED BY <1>2, <1>3, <1>5

-----------------------------------------------------------------------------
\* What an invocation that is over has come to its end by.
LEMMA EndOf ==
    ASSUME TInv, PlanOK, [Next]_vars, NEW v \in Inv, inv'[v].phase = "over"
    PROVE  \/ inv'[v] = inv[v]
           \/ inv'[v].plan = <<>> /\ inv'[v].settled = <<>> /\ inv'[v].code \in {1, 2}
           \/ inv'[v].code = 137
           \/ Conclude(v)
           \/ /\ Settle(v) /\ Ends(v, 1)
              /\ \E r \in Reads(disk[child[v].path]) :
                    child[v].rc = 0 /\ r \in Body /\ r.kind \in Kind /\ r.kind # JobOf(v).kind
<1>0. /\ inv[v].phase = "idle" => inv[v].plan = <<>> /\ inv[v].settled = <<>>
      /\ inv[v] \in InvType
  <2>1. /\ inv[v].phase = "idle" => inv[v].plan = <<>>
        /\ Len(inv[v].settled) <= Len(inv[v].plan) /\ inv[v].settled \in Seq(RowType)
        /\ inv[v] \in InvType
        BY DEF PlanOK, PlanFits, TInv, TypeOK, InvType
  <2>. QED BY <2>1
<1>1. ASSUME NEW u \in Inv, u # v, ParentStep(u) \/ KillParent(u) PROVE inv'[v] = inv[v]
      BY <1>1 DEF ParentStep, Refuse, ScanRaises, Begin, Spawn, Settle, Conclude, KillParent,
                  ReadBack, Reports, Ends, TInv, TypeOK
<1>2. CASE Refuse(v) \/ ScanRaises(v)
      BY <1>0, <1>2, EndsEffect DEF Refuse, ScanRaises
<1>3. CASE Begin(v)
      BY <1>3, BeginEffect
<1>4. CASE Spawn(v)
      BY <1>4 DEF Spawn
<1>5. CASE Settle(v)
  <2>1. Waiting(v)
        BY <1>5, SettleTurns
  <2>2. ASSUME NEW row \in RowType, Reports(v, row) PROVE FALSE
        BY <2>1, <2>2, ReportsEffect DEF Waiting
  <2>3. Absence \in Version
        BY Versions
  <2>4. ~FailsTurn(v) /\ ~RunsTurn(v)
        BY <2>1, <2>2, <2>3, RowHasType DEF FailsTurn, RunsTurn
  <2>5. PICK r : ReadsTurn(v, r)
        BY <1>5, <2>4, SettleTurns
  <2>6. ~Reports(v, Row(v, FALSE, "readback", Absence))
        BY <2>1, <2>2, <2>3, RowHasType
  <2>7. ASSUME r \in Body PROVE ~Reports(v, Row(v, TRUE, "ok", r.ver))
    <3>1. r.ver \in Version
          BY <2>7 DEF Body
    <3>. QED BY <2>1, <2>2, <3>1, RowHasType
  <2>. QED BY <1>5, <2>5, <2>6, <2>7 DEF ReadsTurn
<1>6. CASE KillParent(v)
      BY <1>6, EndsEffect DEF KillParent
<1>7. ASSUME NEW u \in Inv, ChildStep(u) PROVE inv'[v] = inv[v]
      BY <1>7, ChildStays
<1>8. ASSUME NEW a \in Arch, UpdateTree(a) PROVE inv'[v] = inv[v]
      BY <1>8 DEF UpdateTree
<1>9. CASE UNCHANGED vars
      BY <1>9 DEF vars
<1>10. ASSUME ParentStep(v) \/ KillParent(v), inv'[v] # inv[v]
       PROVE  \/ inv'[v].plan = <<>> /\ inv'[v].settled = <<>> /\ inv'[v].code \in {1, 2}
              \/ inv'[v].code = 137
              \/ Conclude(v)
              \/ Settle(v)
      BY <1>2, <1>3, <1>4, <1>6, <1>10 DEF ParentStep
<1>. QED BY <1>1, <1>5, <1>7, <1>8, <1>9, <1>10 DEF Next

\* A traceback in the loop is due to an inventory of the other kind.
ForeignAt(v, p) == \E u \in Sharing(v, p) : JobOf(u).kind # JobOf(v).kind

Died(i) == i.phase = "over" /\ i.code = 1 /\ Len(i.settled) < Len(i.plan)

LEMMA ForeignStays ==
    ASSUME SameJobs
    PROVE  /\ \A v \in Inv : \A p : ForeignAt(v, p) => ForeignAt(v, p)'
           /\ TracebackOnlyOnForeignFile <=>
                 \A v \in Inv : Died(inv[v]) => ForeignAt(v, OutPath(JobOf(v), Current(v)))
           /\ TracebackOnlyOnForeignFile' <=>
                 \A v \in Inv : Died(inv'[v]) => ForeignAt(v, OutPath(JobOf(v), Current(v)))'
<1>1. TracebackOnlyOnForeignFile <=>
         \A v \in Inv : Died(inv[v]) => ForeignAt(v, OutPath(JobOf(v), Current(v)))
      BY DEF TracebackOnlyOnForeignFile, Died, ForeignAt, Settled
<1>2. TracebackOnlyOnForeignFile' <=>
         \A v \in Inv : Died(inv'[v]) => ForeignAt(v, OutPath(JobOf(v), Current(v)))'
      BY DEF TracebackOnlyOnForeignFile, Died, ForeignAt, Settled
<1>3. ASSUME NEW v \in Inv, NEW p PROVE ForeignAt(v, p) => ForeignAt(v, p)'
  <2>1. \A u \in Inv : JobOf(u)' = JobOf(u)
        BY DEF SameJobs, JobOf
  <2>2. Sharing(v, p)' = Sharing(v, p) /\ Sharing(v, p) \subseteq Inv
        BY SharingStays
  <2>. QED BY <2>1, <2>2 DEF ForeignAt
<1>. QED BY <1>1, <1>2, <1>3

LEMMA NextTraceback ==
    ASSUME TInv, PlanOK, BodyOK, ContentOK, TracebackOnlyOnForeignFile, [Next]_vars
    PROVE  TracebackOnlyOnForeignFile'
<1>0. SameJobs
      BY JobsStay DEF SameJobs
<1>1. \A v \in Inv : Died(inv[v]) => ForeignAt(v, OutPath(JobOf(v), Current(v)))
      BY <1>0, ForeignStays
<1>2. TracebackOnlyOnForeignFile' <=>
         \A v \in Inv : Died(inv'[v]) => ForeignAt(v, OutPath(JobOf(v), Current(v)))'
      BY <1>0, ForeignStays
<1>3. ASSUME NEW v \in Inv, NEW p PROVE ForeignAt(v, p) => ForeignAt(v, p)'
      BY <1>0, ForeignStays
<1>4. ASSUME NEW v \in Inv, Died(inv'[v])
      PROVE  ForeignAt(v, OutPath(JobOf(v), Current(v))')
  <2>1. CASE inv'[v] = inv[v]
        BY <1>1, <1>4, <2>1 DEF JobOf, Current, Settled
  <2>2. ~Conclude(v)
    <3>1. ASSUME Conclude(v) PROVE FALSE
          BY <1>4, <3>1, EndsEffect DEF Conclude, Died, Settled, TInv, TypeOK, InvType
    <3>. QED BY <3>1
  <2>3. ASSUME Settle(v), Ends(v, 1), child[v].rc = 0, NEW r \in Reads(disk[child[v].path]),
               r \in Body, r.kind \in Kind, r.kind # JobOf(v).kind
        PROVE  ForeignAt(v, OutPath(JobOf(v), Current(v))')
    <3>1. child[v].phase = "exited" /\ child[v].path \in Path
          BY <2>3, SettleTurns
    <3>2. child[v].path = OutPath(JobOf(v), Current(v))
          BY <3>1 DEF PlanOK, PlanFits, Current, Settled, JobOf
    <3>3. HasWritten(child[v])
          BY <2>3, <3>1 DEF HasWritten
    <3>4. r # child[v].body
          BY <2>3, <3>3 DEF BodyOK, BodyFits, HasBody, JobOf
    <3>5. ForeignAt(v, child[v].path)
          BY <2>3, <3>1, <3>3, <3>4, ReadIsOwn DEF ForeignAt
    <3>6. inv'[v].job = inv[v].job /\ inv'[v].plan = inv[v].plan /\ inv'[v].settled = inv[v].settled
          BY <2>3, EndsEffect
    <3>7. OutPath(JobOf(v), Current(v))' = OutPath(JobOf(v), Current(v))
          BY <3>6 DEF JobOf, Current, Settled
    <3>. QED BY <3>2, <3>5, <3>7
  <2>4. ~(inv'[v].plan = <<>> /\ inv'[v].settled = <<>>) /\ inv'[v].code = 1 /\ inv'[v].phase = "over"
        BY <1>4 DEF Died
  <2>. QED BY <2>1, <2>2, <2>3, <2>4, EndOf
<1>. QED BY <1>2, <1>3, <1>4

-----------------------------------------------------------------------------
\* The invariant that both promises about rows and tracebacks rest on.
FInv ==
    /\ TInv /\ PlanOK /\ BodyOK /\ OpenOK /\ ContentOK
    /\ OkRowFresh /\ TracebackOnlyOnForeignFile

LEMMA InitFInv == Init => FInv
<1>. SUFFICES ASSUME Init PROVE FInv
     OBVIOUS
<1>1. PICK mix \in Mix : inv = [v \in Inv |-> Idle(mix[v])]
      BY DEF Init
<1>2. \A v \in Inv : inv[v].settled = <<>> /\ inv[v].phase = "idle"
      BY <1>1 DEF Idle
<1>3. OkRowFresh /\ TracebackOnlyOnForeignFile
      BY <1>2 DEF OkRowFresh, TracebackOnlyOnForeignFile
<1>. QED BY <1>3, InitTInv, InitPlanOK, InitBodyOK, InitOpenOK DEF FInv

LEMMA NextFInv == FInv /\ [Next]_vars => FInv'
<1>. SUFFICES ASSUME FInv, [Next]_vars PROVE FInv'
     OBVIOUS
<1>1. TInv'
      BY NextTInv DEF FInv
<1>. QED BY <1>1, NextPlanOK, NextBodyOK, NextOpenOK, NextContentOK, NextOkRowFresh, NextTraceback
         DEF FInv

(***************************************************************************)
(* What other commands may do to the files: add to them what is no         *)
(* inventory, or leave them as they are.  It keeps the invariant, since    *)
(* nothing in it depends on what else a file holds.                        *)
(***************************************************************************)
ForeignOpen == {o \in (Others \cup {Nobody}) \X Body : o[1] \notin Inv /\ o[2].kind \notin Kind}
ForeignBody == {b \in Body : b.kind \notin Kind}

DiskMoves ==
    \A p \in Path :
       /\ disk'[p].open \subseteq disk[p].open \cup ForeignOpen
       /\ Contents(disk'[p]) \subseteq Contents(disk[p]) \cup ForeignBody

LEMMA ForeignKeepsFInv ==
    ASSUME FInv, UNCHANGED <<inv, child>>, TInv', TreeMoves, DiskMoves PROVE FInv'
<1>0. SameJobs
      BY DEF SameJobs
<1>1. PlanOK'
      BY DEF FInv, PlanOK
<1>2. BodyOK'
      BY TreeMovesKeep DEF FInv
<1>3. OpenOK'
  <2>1. ASSUME NEW p \in Path, NEW o \in disk'[p].open PROVE OpenedBy(p, o)'
    <3>1. CASE o \in disk[p].open
          BY <3>1 DEF FInv, OpenOK, OpenedBy
    <3>2. CASE o \in ForeignOpen
          BY <3>2 DEF ForeignOpen, OpenedBy
    <3>. QED BY <2>1, <3>1, <3>2 DEF DiskMoves
  <2>. QED BY <2>1 DEF OpenOK
<1>4. ContentOK'
  <2>1. ASSUME NEW v \in Inv, HasWritten(child[v]), NEW b \in Contents(disk'[child[v].path]),
               b.kind \in Kind
        PROVE  b = child[v].body \/ \E u \in Sharing(v, child[v].path) : b.kind = JobOf(u).kind
    <3>1. child[v].path \in Path
          BY <2>1 DEF HasWritten, FInv, TInv, ChildOK
    <3>2. b \in Contents(disk[child[v].path])
          BY <2>1, <3>1 DEF DiskMoves, ForeignBody
    <3>. QED BY <2>1, <3>2 DEF FInv, ContentOK, Written
  <2>2. ASSUME NEW v \in Inv PROVE Written(v, child[v])'
    <3>1. \A u \in Inv : JobOf(u)' = JobOf(u)
          BY DEF JobOf
    <3>2. Sharing(v, child[v].path)' = Sharing(v, child[v].path)
          BY <1>0, SharingStays
    <3>. QED BY <2>1, <3>1, <3>2, SharingStays DEF Written, Sharing
  <2>. QED BY <2>2 DEF ContentOK
<1>5. inv' = inv
      OBVIOUS
<1>6. OkRowFresh'
      BY <1>5 DEF FInv, OkRowFresh, PathOfRow, Sharing, Targets, JobOf
<1>7. TracebackOnlyOnForeignFile'
  <2>1. \A v \in Inv : Died(inv'[v]) => ForeignAt(v, OutPath(JobOf(v), Current(v)))
        BY <1>0, <1>5, ForeignStays DEF FInv
  <2>2. \A v \in Inv : OutPath(JobOf(v), Current(v))' = OutPath(JobOf(v), Current(v))
        BY <1>5 DEF JobOf, Current, Settled
  <2>3. \A v \in Inv : Died(inv'[v]) => ForeignAt(v, OutPath(JobOf(v), Current(v)))'
    <3>1. ASSUME NEW v \in Inv, Died(inv'[v])
          PROVE  ForeignAt(v, OutPath(JobOf(v), Current(v))')
          BY <2>1, <2>2, <3>1
    <3>. QED BY <1>0, <3>1, ForeignStays
  <2>. QED BY <1>0, <2>3, ForeignStays
<1>. QED BY <1>1, <1>2, <1>3, <1>4, <1>6, <1>7 DEF FInv

(***************************************************************************)
(* The row that a smoke test prints as OK is about an inventory its own    *)
(* script made, whatever is left over from before and however the tree     *)
(* changes meanwhile, as long as no other invocation writes that file.     *)
(***************************************************************************)
THEOREM OkRowsAreFresh == Spec => []OkRowFresh
<1>1. FInv => OkRowFresh
      BY DEF FInv
<1>. QED BY InitFInv, NextFInv, <1>1, PTL DEF Spec

(***************************************************************************)
(* The loop over the architectures dies of an uncaught exception only on   *)
(* an inventory that an invocation of the other kind left in the file.     *)
(***************************************************************************)
THEOREM TracebacksAreForeign == Spec => []TracebackOnlyOnForeignFile
<1>1. FInv => TracebackOnlyOnForeignFile
      BY DEF FInv
<1>. QED BY InitFInv, NextFInv, <1>1, PTL DEF Spec

-----------------------------------------------------------------------------
(***************************************************************************)
(* From here on, nobody but the invocations of Dispatch writes the files.  *)
(* An invocation that is over with status 0 has all of its rows, all OK.   *)
(***************************************************************************)
EndFits(i) ==
    i.phase = "over" /\ i.code = 0 =>
       /\ Len(i.settled) = Len(i.plan)
       /\ \A n \in DOMAIN i.settled : i.settled[n].ok

OverOK == \A v \in Inv : EndFits(inv[v])

LEMMA NextOverOK == ASSUME IInv, PlanOK, OverOK, [Next]_vars PROVE OverOK'
<1>1. ASSUME NEW v \in Inv, inv'[v].phase = "over", inv'[v].code = 0, inv'[v] # inv[v]
      PROVE  EndFits(inv'[v])
  <2>1. CASE inv'[v].plan = <<>> /\ inv'[v].settled = <<>>
        BY <2>1 DEF EndFits
  <2>2. CASE Conclude(v)
    <3>1. /\ Ends(v, ExitCode(v)) /\ Settled(v) = Len(inv[v].plan)
          /\ inv'[v].code = ExitCode(v)
          /\ inv'[v].plan = inv[v].plan /\ inv'[v].settled = inv[v].settled
          BY <2>2, EndsEffect DEF Conclude, IInv
    <3>2. \A i \in DOMAIN inv[v].settled : inv[v].settled[i].ok
      <4>1. ExitCode(v) = 0
            BY <1>1, <3>1, Zenon
      <4>2. 0 \notin 1..255
            OBVIOUS
      <4>. QED BY <2>2, <4>1, <4>2, ExitCodeIsHonest
    <3>. QED BY <3>1, <3>2 DEF EndFits, Settled
  <2>3. ~Ends(v, 1)
        BY <1>1, EndsEffect DEF IInv
  <2>. QED BY <1>1, <2>1, <2>2, <2>3, EndOf DEF IInv
<1>2. ASSUME NEW v \in Inv PROVE EndFits(inv'[v])
  <2>1. CASE inv'[v] = inv[v]
        BY <2>1 DEF OverOK
  <2>2. CASE inv'[v] # inv[v]
        BY <1>1, <2>2 DEF EndFits
  <2>. QED BY <2>1, <2>2
<1>. QED BY <1>2 DEF OverOK

\* A path in the plan belongs to one architecture of its invocation.
LEMMA OneArchAt ==
    ASSUME TInv, PlanOK, NEW v \in Inv, NEW n \in DOMAIN inv[v].plan
    PROVE  ArchsAt(v, OutPath(JobOf(v), inv[v].plan[n])) = {inv[v].plan[n]}
<1>. DEFINE job == JobOf(v)
            a == inv[v].plan[n]
<1>1. /\ a \in Scope(job) /\ inv[v].plan # <<>> /\ ~AllWithOutput(job)
      /\ job \in Job
      BY DEF PlanOK, PlanFits, JobOf, TInv, TypeOK, InvType
<1>2. a \in ArchsAt(v, OutPath(job, a))
      BY <1>1 DEF ArchsAt
<1>3. ASSUME NEW b \in Scope(job), OutPath(job, b) = OutPath(job, a) PROVE b = a
  <2>1. CASE job.select \in Arch
        BY <1>1, <1>3, <2>1 DEF Scope
  <2>2. CASE job.select \notin Arch /\ job.command = "smoke"
        BY <1>3, <2>2 DEF OutPath
  <2>3. CASE job.select \notin Arch /\ job.command # "smoke"
    <3>1. job.command = "run" /\ job.select = "ALL"
          BY <1>1, <2>3 DEF Job
    <3>2. job.output = None
          BY <1>1, <3>1 DEF AllWithOutput
    <3>. QED BY <1>3, <2>3, <3>2 DEF OutPath
  <2>. QED BY <2>1, <2>2, <2>3
<1>. QED BY <1>2, <1>3 DEF ArchsAt

\* So an invocation that is at one architecture lets alone what it has made of
\* those before.
LEMMA RowsAreElsewhere ==
    ASSUME TInv, PlanOK, NEW v \in Inv, child[v].phase # "none",
           NEW n \in DOMAIN inv[v].settled
    PROVE  PathOfRow(v, n) # child[v].path
<1>1. /\ PlanFits(inv[v], child[v]) /\ inv[v].plan \in Seq(Arch) /\ inv[v].settled \in Seq(RowType)
      BY DEF PlanOK, TInv, TypeOK, InvType
<1>. DEFINE m == Len(inv[v].settled) + 1
<1>2. n \in DOMAIN inv[v].plan /\ m \in DOMAIN inv[v].plan /\ n # m
      BY <1>1 DEF PlanFits
<1>3. /\ PathOfRow(v, n) = OutPath(JobOf(v), inv[v].plan[n])
      /\ child[v].path = OutPath(JobOf(v), inv[v].plan[m])
      BY <1>1 DEF PlanFits, PathOfRow, JobOf
<1>4. inv[v].plan[n] # inv[v].plan[m]
      BY <1>1, <1>2 DEF PlanFits, IsInjective
<1>. QED BY <1>2, <1>3, <1>4, OneArchAt

-----------------------------------------------------------------------------
(***************************************************************************)
(* A step opens a file, or lets go of one, or leaves all files as they     *)
(* are, and with them the scripts that are writing or have written.        *)
(***************************************************************************)
Stops(v) == ChildClose(v) \/ (ChildFails(v) /\ child[v].phase = "writing")

Quiet ==
    /\ disk' = disk
    /\ \A v \in Inv : \/ child'[v] = child[v]
                      \/ child[v].phase # "writing" /\ ~HasWritten(child'[v])

LEMMA FileMoves ==
    ASSUME TInv, [Next]_vars PROVE Quiet \/ \E v \in Inv : ChildOpen(v) \/ Stops(v)
<1>1. ASSUME NEW v \in Inv, ParentStep(v) \/ KillParent(v) PROVE Quiet
  <2>1. disk' = disk
        BY <1>1 DEF ParentStep, Refuse, ScanRaises, Begin, Spawn, Settle, Conclude, KillParent
  <2>2. CASE Spawn(v)
        BY <2>1, <2>2 DEF Spawn, Quiet, HasWritten, TInv, TypeOK
  <2>3. CASE Settle(v)
        BY <2>1, <2>3 DEF Settle, Finished, NoChild, Quiet, HasWritten, TInv, TypeOK
  <2>4. CASE child' = child
        BY <2>1, <2>4 DEF Quiet
  <2>. QED BY <1>1, <2>2, <2>3, <2>4 DEF ParentStep, Refuse, ScanRaises, Begin, Conclude, KillParent
<1>2. ASSUME NEW v \in Inv, ChildStep(v) PROVE Quiet \/ ChildOpen(v) \/ Stops(v)
  <2>1. CASE ChildCheck(v) \/ ChildList(v) \/ (ChildFails(v) /\ child[v].phase # "writing")
        BY <1>2, <2>1, ChildReadsEffect, ChildStays DEF Quiet
  <2>. QED BY <1>2, <2>1 DEF ChildStep, Stops
<1>3. ASSUME NEW a \in Arch, UpdateTree(a) PROVE Quiet
      BY <1>3 DEF UpdateTree, Quiet
<1>4. CASE UNCHANGED vars
      BY <1>4 DEF vars, Quiet
<1>. QED BY <1>1, <1>2, <1>3, <1>4 DEF Next

\* Only invocations hold files open.
OnlyInv == \A p \in Path : \A o \in disk[p].open : o[1] \in Inv

LEMMA NextOnlyInv == ASSUME TInv, OnlyInv, [Next]_vars PROVE OnlyInv'
<1>1. CASE Quiet
      BY <1>1 DEF Quiet, OnlyInv
<1>2. ASSUME NEW v \in Inv, ChildOpen(v) PROVE OnlyInv'
  <2>1. \A q \in Path : disk'[q].open \subseteq disk[q].open \cup {<<v, child[v].body>>}
        BY <1>2, ChildOpenEffect
  <2>. QED BY <2>1 DEF OnlyInv
<1>3. ASSUME NEW v \in Inv, Stops(v) PROVE OnlyInv'
  <2>1. \A q \in Path : disk'[q].open \subseteq disk[q].open
        BY <1>3, ChildStopsEffect DEF Stops
  <2>. QED BY <2>1 DEF OnlyInv
<1>. QED BY <1>1, <1>2, <1>3, FileMoves

\* A file that is not shared is that of one script.
LEMMA NotShared ==
    ASSUME TInv, PlanOK, NEW v \in Inv, NEW p, Sharing(v, p) = {},
           NEW u \in Inv, child[u].phase # "none", child[u].path = p
    PROVE  u = v
BY ChildTarget DEF Sharing

\* A script that shares its file with nobody has it for itself, and leaves it whole.
Owns(v, c) ==
    HasWritten(c) /\ Sharing(v, c.path) = {} =>
       /\ disk[c.path].exists /\ disk[c.path].last = v
       /\ Contents(disk[c.path]) = {c.body}
       /\ c.phase = "exited" => disk[c.path].done

OwnFile == \A v \in Inv : Owns(v, child[v])

LEMMA NextOwnFile ==
    ASSUME TInv, PlanOK, OpenOK, OnlyInv, OwnFile, [Next]_vars PROVE OwnFile'
<1>0. SameJobs
      BY JobsStay DEF SameJobs
<1>1. ASSUME NEW w \in Inv, child'[w] = child[w],
             HasWritten(child[w]) /\ Sharing(w, child[w].path) = {} =>
                disk'[child[w].path] = disk[child[w].path]
      PROVE  Owns(w, child[w])'
      BY <1>0, <1>1, SharingStays DEF OwnFile, Owns
<1>2. CASE Quiet
      BY <1>1, <1>2 DEF Quiet, OwnFile, Owns
<1>3. ASSUME NEW v \in Inv, ChildStep(v), child[v].phase # "none", NEW p, p = child[v].path,
             \A q \in Path \ {p} : disk'[q] = disk[q], NEW w \in Inv \ {v}
      PROVE  Owns(w, child[w])'
  <2>1. child'[w] = child[w]
        BY <1>3, ChildStays
  <2>2. ASSUME HasWritten(child[w]), Sharing(w, child[w].path) = {}
        PROVE  disk'[child[w].path] = disk[child[w].path]
    <3>1. child[w].path \in Path
          BY <2>2 DEF HasWritten, TInv, ChildOK
    <3>2. child[w].path # p
          BY <1>3, <2>2, NotShared
    <3>. QED BY <1>3, <3>1, <3>2
  <2>. QED BY <1>1, <2>1, <2>2
<1>4. ASSUME NEW v \in Inv, ChildOpen(v) PROVE OwnFile'
  <2>. DEFINE p == child[v].path
  <2>0. ChildStep(v)
        BY <1>4 DEF ChildStep
  <2>1. /\ p \in Path /\ child[v].phase = "write"
        /\ child'[v].phase = "writing" /\ child'[v].body = child[v].body /\ child'[v].path = p
        /\ \A q \in Path \ {p} : disk'[q] = disk[q]
        /\ Contents(disk'[p]) = {child[v].body} \cup {o[2] : o \in disk[p].open}
        /\ disk'[p].exists /\ disk'[p].last = v
        BY <1>4, <2>0, ChildOpenEffect, ChildStays
  <2>2. ASSUME Sharing(v, p) = {} PROVE disk[p].open = {}
    <3>1. SUFFICES ASSUME NEW o \in disk[p].open PROVE FALSE
          OBVIOUS
    <3>2. o[1] \in Inv /\ child[o[1]].phase = "writing" /\ child[o[1]].path = p
          BY <2>1 DEF OnlyInv, OpenOK, OpenedBy
    <3>. QED BY <2>1, <2>2, <3>2, NotShared
  <2>3. Owns(v, child[v])'
    <3>1. ASSUME Sharing(v, p) = {} PROVE Contents(disk'[p]) = {child[v].body}
          BY <2>1, <2>2, <3>1
    <3>. QED BY <1>0, <2>1, <3>1, SharingStays DEF Owns
  <2>. QED BY <1>3, <2>0, <2>1, <2>3 DEF OwnFile
<1>5. ASSUME NEW v \in Inv, Stops(v) PROVE OwnFile'
  <2>. DEFINE p == child[v].path
  <2>0. ChildStep(v)
        BY <1>5 DEF Stops, ChildStep
  <2>1. /\ p \in Path /\ child[v].phase = "writing"
        /\ child'[v].phase = "exited" /\ child'[v].body = child[v].body /\ child'[v].path = p
        /\ child'[v].rc = 0 <=> ChildClose(v)
        /\ \A q \in Path \ {p} : disk'[q] = disk[q]
        /\ Contents(disk'[p]) = Contents(disk[p])
        /\ disk'[p].exists = disk[p].exists /\ disk'[p].last = disk[p].last
        /\ ChildClose(v) /\ disk[p].last = v => disk'[p].done
        BY <1>5, <2>0, ChildStopsEffect, ChildStays DEF Stops
  <2>2. Owns(v, child[v])
        BY DEF OwnFile
  <2>3. Owns(v, child[v])'
    <3>1. CASE child'[v].rc # 0
          BY <2>1, <3>1 DEF Owns, HasWritten
    <3>2. CASE ChildClose(v)
          BY <1>0, <2>1, <2>2, <3>2, SharingStays DEF Owns, HasWritten
    <3>. QED BY <2>1, <3>1, <3>2
  <2>. QED BY <1>3, <2>0, <2>1, <2>3 DEF OwnFile
<1>. QED BY <1>2, <1>4, <1>5, FileMoves

\* The file of a row that is OK, if it is shared with nobody.
Holds(v, row) ==
    LET p == OutPath(JobOf(v), row.arch)
    IN row.ok /\ Sharing(v, p) = {} =>
          /\ disk[p].exists /\ disk[p].last = v /\ disk[p].done
          /\ \E b \in Body : /\ Contents(disk[p]) = {b}
                             /\ b.kind = JobOf(v).kind /\ b.arch = row.arch

RowFile == \A v \in Inv : \A n \in DOMAIN inv[v].settled : Holds(v, inv[v].settled[n])

\* What the script whose turn ends well has left.
LEMMA TurnFile ==
    ASSUME TInv, PlanOK, BodyOK, OwnFile, NEW v \in Inv, Settle(v), child[v].rc = 0,
           NEW p, p = OutPath(JobOf(v), Current(v)), Sharing(v, p) = {}
    PROVE  /\ disk[p].exists /\ disk[p].last = v /\ disk[p].done
           /\ Contents(disk[p]) = {child[v].body} /\ child[v].body \in Body
           /\ child[v].body.kind = JobOf(v).kind /\ child[v].body.arch = Current(v)
<1>1. child[v].phase = "exited" /\ child[v].path \in Path
      BY SettleTurns
<1>2. HasWritten(child[v]) /\ HasBody(child[v])
      BY <1>1 DEF HasWritten, HasBody
<1>3. child[v].path = p /\ child[v].arch = Current(v)
      BY <1>1 DEF PlanOK, PlanFits, Current, Settled, JobOf
<1>4. /\ disk[p].exists /\ disk[p].last = v /\ disk[p].done
      /\ Contents(disk[p]) = {child[v].body}
      BY <1>1, <1>2, <1>3 DEF OwnFile, Owns
<1>. QED BY <1>2, <1>3, <1>4 DEF BodyOK, BodyFits, JobOf

LEMMA NextRowFile ==
    ASSUME TInv, PlanOK, BodyOK, OwnFile, RowFile, [Next]_vars PROVE RowFile'
<1>0. SameJobs
      BY JobsStay DEF SameJobs
<1>1. ASSUME NEW v \in Inv, NEW row, Holds(v, row),
             row.ok /\ Sharing(v, OutPath(JobOf(v), row.arch)) = {} =>
                disk'[OutPath(JobOf(v), row.arch)] = disk[OutPath(JobOf(v), row.arch)]
      PROVE  Holds(v, row)'
      BY <1>0, <1>1, SharingStays DEF Holds
<1>2. ASSUME NEW v \in Inv, NEW n \in DOMAIN inv[v].settled
      PROVE  Holds(v, inv[v].settled[n])
      BY DEF RowFile
<1>3. ASSUME NEW v \in Inv, NEW n \in DOMAIN inv[v].settled, NEW row, row = inv[v].settled[n]
      PROVE  Holds(v, row)'
  <2>. DEFINE p == OutPath(JobOf(v), row.arch)
  <2>1. p \in Path
    <3>1. row \in RowType /\ JobOf(v) \in Job
          BY <1>3 DEF JobOf, TInv, TypeOK, InvType
    <3>. QED BY <3>1, OutPathType DEF RowType
  <2>2. ASSUME Sharing(v, p) = {}, NEW u \in Inv, child[u].phase # "none"
        PROVE  child[u].path # p
    <3>1. child[u].path = p => u = v
          BY <2>2, NotShared
    <3>2. child[v].phase # "none" => child[v].path # p
          BY <1>3, RowsAreElsewhere DEF PathOfRow
    <3>. QED BY <2>2, <3>1, <3>2
  <2>3. ASSUME Sharing(v, p) = {} PROVE disk'[p] = disk[p]
    <3>1. CASE Quiet
          BY <3>1 DEF Quiet
    <3>2. ASSUME NEW u \in Inv, ChildOpen(u) \/ Stops(u) PROVE disk'[p] = disk[p]
      <4>1. child[u].phase # "none" /\ \A q \in Path \ {child[u].path} : disk'[q] = disk[q]
            BY <3>2, ChildOpenEffect, ChildStopsEffect DEF Stops
      <4>. QED BY <2>1, <2>2, <2>3, <4>1
    <3>. QED BY <3>1, <3>2, FileMoves
  <2>. QED BY <1>1, <1>2, <1>3, <2>3
<1>4. ASSUME NEW v \in Inv, NEW row \in RowType, Settle(v), Reports(v, row)
      PROVE  Holds(v, row)'
  <2>1. disk' = disk
        BY <1>4, SettleTurns
  <2>2. row.ok => child[v].rc = 0 /\ row.arch = Current(v)
        BY <1>4, RowOfTurn DEF TurnOf, Row
  <2>3. Holds(v, row)
    <3>. DEFINE p == OutPath(JobOf(v), Current(v))
    <3>1. SUFFICES ASSUME row.ok, Sharing(v, p) = {}
                   PROVE  /\ disk[p].exists /\ disk[p].last = v /\ disk[p].done
                          /\ \E b \in Body : /\ Contents(disk[p]) = {b}
                                             /\ b.kind = JobOf(v).kind /\ b.arch = Current(v)
          BY <2>2 DEF Holds
    <3>. QED BY <1>4, <2>2, <3>1, TurnFile
  <2>. QED BY <1>1, <2>1, <2>3
<1>5. ASSUME NEW v \in Inv, NEW n \in DOMAIN inv'[v].settled
      PROVE  Holds(v, inv[v].settled[n])'
  <2>1. CASE n \in DOMAIN inv[v].settled /\ inv'[v].settled[n] = inv[v].settled[n]
        BY <1>3, <2>1
  <2>2. ASSUME Settle(v), NEW row \in RowType, Reports(v, row), row = inv'[v].settled[n]
        PROVE  Holds(v, inv[v].settled[n])'
        BY <1>4, <2>2
  <2>. QED BY <1>5, <2>1, <2>2, RowBefore
<1>. QED BY <1>5 DEF RowFile

\* The only readback that can fail is that of a file that is shared.
LEMMA NextReadback ==
    ASSUME TInv, PlanOK, BodyOK, OwnFile, ReadbackFailsOnlyIfShared, [Next]_vars
    PROVE  ReadbackFailsOnlyIfShared'
<1>0. SameJobs
      BY JobsStay DEF SameJobs
<1>. DEFINE Excused(v, row) ==
                row.why = "readback" => Sharing(v, OutPath(JobOf(v), row.arch)) # {}
<1>1. ReadbackFailsOnlyIfShared <=>
         \A v \in Inv : \A n \in DOMAIN inv[v].settled : Excused(v, inv[v].settled[n])
      BY DEF ReadbackFailsOnlyIfShared, PathOfRow
<1>2. ReadbackFailsOnlyIfShared' <=>
         \A v \in Inv : \A n \in DOMAIN inv'[v].settled : Excused(v, inv[v].settled[n])'
      BY DEF ReadbackFailsOnlyIfShared, PathOfRow
<1>3. ASSUME NEW v \in Inv, NEW row PROVE Excused(v, row) => Excused(v, row)'
      BY <1>0, SharingStays
<1>4. ASSUME NEW v \in Inv, NEW row \in RowType, Settle(v), Reports(v, row)
      PROVE  Excused(v, row)
  <2>. DEFINE p == OutPath(JobOf(v), Current(v))
  <2>1. SUFFICES ASSUME row.why = "readback", Sharing(v, OutPath(JobOf(v), row.arch)) = {}
                 PROVE  FALSE
        OBVIOUS
  <2>2. /\ child[v].rc = 0 /\ row.arch = Current(v)
        /\ \E r \in Reads(disk[child[v].path]) : ~HasSummary(r)
        BY <1>4, <2>1, RowOfTurn DEF TurnOf, Row
  <2>3. child[v].path = p
        BY <1>4, SettleTurns DEF PlanOK, PlanFits, Current, Settled, JobOf
  <2>4. /\ disk[p].exists /\ disk[p].done
        /\ Contents(disk[p]) = {child[v].body} /\ child[v].body \in Body
        /\ child[v].body.kind = JobOf(v).kind
        BY <1>4, <2>1, <2>2, TurnFile
  <2>5. Reads(disk[p]) = {child[v].body}
        BY <2>4 DEF Reads
  <2>6. JobOf(v).kind \in Kind
        BY DEF JobOf, TInv, TypeOK, InvType, Job
  <2>. QED BY <2>2, <2>3, <2>4, <2>5, <2>6, InvalidAssumption DEF HasSummary
<1>5. ASSUME NEW v \in Inv, NEW n \in DOMAIN inv'[v].settled PROVE Excused(v, inv'[v].settled[n])
      BY <1>1, <1>4, <1>5, RowBefore
<1>. QED BY <1>2, <1>3, <1>5

-----------------------------------------------------------------------------
\* What is over stays so, rows stay, and a script that has exited waits for its
\* turn to be settled.
LEMMA InvMoves ==
    ASSUME TInv, [Next]_vars, NEW w \in Inv
    PROVE  /\ inv[w].phase = "over" => inv'[w] = inv[w]
           /\ \A n \in DOMAIN inv[w].settled :
                 n \in DOMAIN inv'[w].settled /\ inv'[w].settled[n] = inv[w].settled[n]
           /\ child[w].phase = "exited" => child'[w] = child[w] \/ Settle(w)
<1>0. inv[w].settled \in Seq(RowType)
      BY DEF TInv, TypeOK, InvType
<1>1. ASSUME NEW u \in Inv, u # w, ParentStep(u) \/ KillParent(u)
      PROVE  inv'[w] = inv[w] /\ child'[w] = child[w]
  <2>1. inv'[w] = inv[w]
        BY <1>1 DEF ParentStep, Refuse, ScanRaises, Begin, Spawn, Settle, Conclude, KillParent,
                    ReadBack, Reports, Ends, TInv, TypeOK
  <2>2. child'[w] = child[w]
        BY <1>1 DEF ParentStep, Refuse, ScanRaises, Begin, Spawn, Settle, Conclude, KillParent,
                    TInv, TypeOK
  <2>. QED BY <2>1, <2>2
<1>2. ASSUME Refuse(w) \/ ScanRaises(w) \/ Conclude(w) \/ KillParent(w) \/ Begin(w) \/ Spawn(w)
      PROVE  /\ inv[w].phase # "over" \/ inv'[w] = inv[w]
             /\ inv'[w].settled = inv[w].settled
             /\ child[w].phase = "exited" => child'[w] = child[w]
  <2>1. inv'[w].settled = inv[w].settled
        BY <1>2, EndsEffect, BeginEffect DEF Refuse, ScanRaises, Conclude, KillParent, Spawn
  <2>2. /\ inv[w].phase # "over" \/ inv'[w] = inv[w]
        /\ child[w].phase = "exited" => child'[w] = child[w]
        BY <1>2 DEF Refuse, ScanRaises, Conclude, KillParent, Begin, Spawn
  <2>. QED BY <2>1, <2>2
<1>3. ASSUME Settle(w)
      PROVE  /\ inv[w].phase # "over"
             /\ \A n \in DOMAIN inv[w].settled :
                   n \in DOMAIN inv'[w].settled /\ inv'[w].settled[n] = inv[w].settled[n]
  <2>1. inv[w].phase # "over"
        BY <1>3 DEF Settle, Waiting
  <2>2. ASSUME NEW row \in RowType, Reports(w, row)
        PROVE  \A n \in DOMAIN inv[w].settled :
                  n \in DOMAIN inv'[w].settled /\ inv'[w].settled[n] = inv[w].settled[n]
        BY <1>0, <2>2, ReportsEffect
  <2>3. ASSUME NEW code \in 1..255, Ends(w, code) PROVE inv'[w].settled = inv[w].settled
        BY <2>3, EndsEffect
  <2>. QED BY <1>3, <2>1, <2>2, <2>3, SettleEffect
<1>4. ASSUME NEW u \in Inv, ChildStep(u)
      PROVE  inv' = inv /\ (child[w].phase = "exited" => child'[w] = child[w])
  <2>1. ASSUME u = w PROVE child[w].phase # "exited"
        BY <1>4, <2>1 DEF ChildStep, ChildCheck, ChildList, ChildOpen, ChildClose, ChildFails
  <2>. QED BY <1>4, <2>1, ChildStays
<1>5. ASSUME NEW a \in Arch, UpdateTree(a) PROVE inv' = inv /\ child' = child
      BY <1>5 DEF UpdateTree
<1>6. CASE UNCHANGED vars
      BY <1>6 DEF vars
<1>7. ASSUME NEW u \in Inv, ParentStep(u) \/ KillParent(u)
      PROVE  /\ inv[w].phase = "over" => inv'[w] = inv[w]
             /\ \A n \in DOMAIN inv[w].settled :
                   n \in DOMAIN inv'[w].settled /\ inv'[w].settled[n] = inv[w].settled[n]
             /\ child[w].phase = "exited" => child'[w] = child[w] \/ Settle(w)
  <2>1. CASE u # w
        BY <1>1, <1>7, <2>1
  <2>2. CASE u = w
        BY <1>2, <1>3, <1>7, <2>2 DEF ParentStep
  <2>. QED BY <2>1, <2>2
<1>. QED BY <1>4, <1>5, <1>6, <1>7 DEF Next

\* An invocation that will not end with status 0.
Spoilt(w) ==
    \/ child[w].phase = "exited" /\ child[w].rc # 0
    \/ \E n \in DOMAIN inv[w].settled : ~inv[w].settled[n].ok
    \/ inv[w].phase = "over" /\ inv[w].code # 0

LEMMA SpoiltStays == ASSUME TInv, [Next]_vars, NEW w \in Inv, Spoilt(w) PROVE Spoilt(w)'
<1>1. CASE inv[w].phase = "over" /\ inv[w].code # 0
      BY <1>1, InvMoves DEF Spoilt
<1>2. CASE \E n \in DOMAIN inv[w].settled : ~inv[w].settled[n].ok
      BY <1>2, InvMoves DEF Spoilt
<1>3. CASE child[w].phase = "exited" /\ child[w].rc # 0
  <2>1. CASE child'[w] = child[w]
        BY <1>3, <2>1 DEF Spoilt
  <2>2. CASE Settle(w)
    <3>1. FailsTurn(w) /\ Waiting(w) /\ Absence \in Version
          BY <1>3, <2>2, SettleTurns, Versions DEF RunsTurn, ReadsTurn
    <3>. DEFINE row == Row(w, FALSE, "child", Absence)
    <3>2. row \in RowType /\ Reports(w, row)
          BY <3>1, RowHasType DEF FailsTurn
    <3>3. inv'[w].settled[Len(inv[w].settled) + 1] = row /\ Len(inv'[w].settled) = Len(inv[w].settled) + 1
          BY <3>2, ReportsEffect
    <3>4. inv'[w].settled \in Seq(RowType) /\ inv[w].settled \in Seq(RowType)
          BY <3>2, ReportsEffect DEF TInv, TypeOK, InvType
    <3>5. Len(inv[w].settled) + 1 \in DOMAIN inv'[w].settled
          BY <3>3, <3>4
    <3>6. ~row.ok
          BY DEF Row
    <3>. QED BY <3>3, <3>5, <3>6 DEF Spoilt
  <2>. QED BY <1>3, <2>1, <2>2, InvMoves
<1>. QED BY <1>1, <1>2, <1>3 DEF Spoilt

\* Who has opened a file last has written it to the end, or is about to, or will
\* not succeed.
LastIs(p, w) ==
    /\ w \in Inv /\ p \in Targets(w)
    /\ disk[p].last = w /\ disk[p].exists /\ Contents(disk[p]) # {}
    /\ \/ disk[p].done
       \/ child[w].phase = "writing" /\ child[w].path = p
       \/ Spoilt(w)

LastOK == \A p \in Path : disk[p].last = Nobody \/ \E w \in Inv : LastIs(p, w)

LEMMA NextLastOK == ASSUME TInv, PlanOK, LastOK, [Next]_vars PROVE LastOK'
<1>0. SameJobs
      BY JobsStay DEF SameJobs
<1>1. ASSUME NEW p \in Path, NEW w \in Inv, LastIs(p, w),
             disk'[p].last = disk[p].last, disk'[p].exists = disk[p].exists,
             Contents(disk'[p]) = Contents(disk[p]), disk[p].done => disk'[p].done,
             \/ disk'[p].done \/ Spoilt(w)'
             \/ child[w].phase = "writing" => child'[w] = child[w]
      PROVE  LastIs(p, w)'
  <2>1. p \in Targets(w)'
        BY <1>0, <1>1, SharingStays DEF LastIs
  <2>2. Spoilt(w) => Spoilt(w)'
        BY SpoiltStays
  <2>. QED BY <1>1, <2>1, <2>2 DEF LastIs
<1>2. ASSUME NEW p \in Path, disk'[p] = disk[p],
             \A w \in Inv : child[w].phase = "writing" /\ child[w].path = p => child'[w] = child[w]
      PROVE  disk'[p].last = Nobody \/ \E w \in Inv : LastIs(p, w)'
  <2>1. ASSUME NEW w \in Inv, LastIs(p, w) PROVE LastIs(p, w)'
    <3>1. CASE child[w].path = p \/ child[w].phase # "writing"
          BY <1>1, <1>2, <2>1, <3>1
    <3>2. CASE child[w].path # p
      <4>1. p \in Targets(w)' /\ (Spoilt(w) => Spoilt(w)')
            BY <1>0, <2>1, SharingStays, SpoiltStays DEF LastIs
      <4>. QED BY <1>2, <2>1, <3>2, <4>1 DEF LastIs
    <3>. QED BY <3>1, <3>2
  <2>. QED BY <1>2, <2>1 DEF LastOK
<1>3. CASE Quiet
  <2>1. ASSUME NEW p \in Path PROVE disk'[p].last = Nobody \/ \E w \in Inv : LastIs(p, w)'
        BY <1>2, <1>3 DEF Quiet
  <2>. QED BY <2>1 DEF LastOK
<1>4. ASSUME NEW v \in Inv, ChildOpen(v), NEW q, q = child[v].path PROVE LastOK'
  <2>0. ChildStep(v)
        BY <1>4 DEF ChildStep
  <2>1. /\ q \in Path /\ child[v].phase = "write" /\ child'[v].phase = "writing"
        /\ child'[v].path = q
        /\ \A p \in Path \ {q} : disk'[p] = disk[p]
        /\ child[v].body \in Contents(disk'[q])
        /\ disk'[q].exists /\ disk'[q].last = v
        BY <1>4, <2>0, ChildOpenEffect, ChildStays
  <2>2. LastIs(q, v)'
    <3>1. q \in Targets(v)'
          BY <1>0, <1>4, <2>1, ChildTarget, SharingStays
    <3>. QED BY <2>1, <3>1 DEF LastIs
  <2>3. \A w \in Inv : child[w].phase = "writing" => child'[w] = child[w]
        BY <2>0, <2>1, ChildStays
  <2>4. ASSUME NEW p \in Path PROVE disk'[p].last = Nobody \/ \E w \in Inv : LastIs(p, w)'
        BY <1>2, <2>1, <2>2, <2>3
  <2>. QED BY <2>4 DEF LastOK
<1>5. ASSUME NEW v \in Inv, Stops(v), NEW q, q = child[v].path PROVE LastOK'
  <2>0. ChildStep(v)
        BY <1>5 DEF Stops, ChildStep
  <2>1. /\ q \in Path /\ child[v].phase = "writing" /\ child'[v].phase = "exited"
        /\ child'[v].rc = 0 <=> ChildClose(v)
        /\ \A p \in Path \ {q} : disk'[p] = disk[p]
        /\ Contents(disk'[q]) = Contents(disk[q])
        /\ disk'[q].exists = disk[q].exists /\ disk'[q].last = disk[q].last
        /\ disk[q].done => disk'[q].done
        /\ ChildClose(v) /\ disk[q].last = v => disk'[q].done
        BY <1>5, ChildStopsEffect DEF Stops
  <2>2. \A w \in Inv \ {v} : child'[w] = child[w]
        BY <2>0, ChildStays
  <2>3. disk[q].last = v => disk'[q].done \/ Spoilt(v)'
        BY <2>1 DEF Spoilt
  <2>4. ASSUME NEW w \in Inv, LastIs(q, w) PROVE LastIs(q, w)'
    <3>1. CASE w = v
      <4>1. disk'[q].done \/ Spoilt(w)'
            BY <2>3, <2>4, <3>1 DEF LastIs
      <4>. QED BY <1>1, <2>1, <2>4, <4>1
    <3>2. CASE w # v
          BY <1>1, <2>1, <2>2, <2>4, <3>2
    <3>. QED BY <3>1, <3>2
  <2>5. ASSUME NEW p \in Path PROVE disk'[p].last = Nobody \/ \E w \in Inv : LastIs(p, w)'
    <3>1. CASE p = q
          BY <2>1, <2>4, <3>1 DEF LastOK
    <3>2. CASE p # q
          BY <1>2, <1>5, <2>1, <2>2, <3>2
    <3>. QED BY <3>1, <3>2
  <2>. QED BY <2>5 DEF LastOK
<1>. QED BY <1>3, <1>4, <1>5, FileMoves

-----------------------------------------------------------------------------
\* A file that an invocation has opened stays one.
LEMMA LastStays ==
    ASSUME TInv, [Next]_vars, NEW p \in Path, disk[p].last # Nobody
    PROVE  disk'[p].last # Nobody
<1>1. CASE Quiet
      BY <1>1 DEF Quiet
<1>2. ASSUME NEW v \in Inv, ChildOpen(v) PROVE disk'[p].last # Nobody
      BY <1>2, ChildOpenEffect, NobodyAssumption
<1>3. ASSUME NEW v \in Inv, Stops(v) PROVE disk'[p].last # Nobody
      BY <1>3, ChildStopsEffect DEF Stops
<1>. QED BY <1>1, <1>2, <1>3, FileMoves

\* What is reported to be written has been opened.
TouchOK ==
    \A v \in Inv :
       /\ HasWritten(child[v]) => disk[child[v].path].last # Nobody
       /\ \A n \in DOMAIN inv[v].settled :
             inv[v].settled[n].ok => disk[PathOfRow(v, n)].last # Nobody

LEMMA NextTouchOK == ASSUME TInv, PlanOK, TouchOK, [Next]_vars PROVE TouchOK'
<1>1. ASSUME NEW v \in Inv, HasWritten(child'[v]) PROVE disk'[child'[v].path].last # Nobody
  <2>1. ASSUME child'[v] = child[v] PROVE disk'[child'[v].path].last # Nobody
    <3>1. child[v].path \in Path
          BY <1>1, <2>1 DEF HasWritten, TInv, ChildOK
    <3>. QED BY <1>1, <2>1, <3>1, LastStays DEF TouchOK
  <2>2. CASE Quiet
        BY <1>1, <2>1, <2>2 DEF Quiet
  <2>3. ASSUME NEW u \in Inv, ChildOpen(u) PROVE disk'[child'[v].path].last # Nobody
    <3>0. ChildStep(u)
          BY <2>3 DEF ChildStep
    <3>1. CASE u = v
          BY <2>3, <3>0, <3>1, ChildOpenEffect, ChildStays, NobodyAssumption
    <3>2. CASE u # v
          BY <2>1, <3>0, <3>2, ChildStays
    <3>. QED BY <3>1, <3>2
  <2>4. ASSUME NEW u \in Inv, Stops(u) PROVE disk'[child'[v].path].last # Nobody
    <3>0. ChildStep(u)
          BY <2>4 DEF Stops, ChildStep
    <3>1. CASE u = v
      <4>1. /\ child[v].phase = "writing" /\ child[v].path \in Path
            /\ child'[v].path = child[v].path
            BY <2>4, <3>0, <3>1, ChildStopsEffect, ChildStays DEF Stops
      <4>2. disk[child[v].path].last # Nobody
            BY <4>1 DEF TouchOK, HasWritten
      <4>. QED BY <4>1, <4>2, LastStays
    <3>2. CASE u # v
          BY <2>1, <3>0, <3>2, ChildStays
    <3>. QED BY <3>1, <3>2
  <2>. QED BY <2>2, <2>3, <2>4, FileMoves
<1>2. ASSUME NEW v \in Inv, NEW n \in DOMAIN inv'[v].settled, inv'[v].settled[n].ok
      PROVE  disk'[PathOfRow(v, n)'].last # Nobody
  <2>0. inv'[v].job = inv[v].job /\ JobOf(v) \in Job /\ inv[v].settled \in Seq(RowType)
        BY JobsStay DEF JobOf, TInv, TypeOK, InvType
  <2>1. CASE n \in DOMAIN inv[v].settled /\ inv'[v].settled[n] = inv[v].settled[n]
    <3>1. PathOfRow(v, n)' = PathOfRow(v, n)
          BY <2>0, <2>1 DEF PathOfRow, JobOf
    <3>2. inv[v].settled[n] \in RowType
          BY <2>0, <2>1
    <3>3. PathOfRow(v, n) \in Path
          BY <2>0, <3>2, OutPathType DEF PathOfRow, RowType
    <3>4. disk[PathOfRow(v, n)].last # Nobody
          BY <1>2, <2>1 DEF TouchOK
    <3>. QED BY <3>1, <3>3, <3>4, LastStays
  <2>2. ASSUME Settle(v), NEW row \in RowType, Reports(v, row), row = inv'[v].settled[n]
        PROVE  disk'[PathOfRow(v, n)'].last # Nobody
    <3>1. child[v].rc = 0 /\ row.arch = Current(v)
          BY <1>2, <2>2, RowOfTurn DEF TurnOf, Row
    <3>2. /\ child[v].phase = "exited" /\ disk' = disk /\ HasWritten(child[v])
          BY <2>2, <3>1, SettleTurns DEF HasWritten
    <3>3. child[v].path = OutPath(JobOf(v), Current(v))
          BY <3>2 DEF PlanOK, PlanFits, Current, Settled, JobOf
    <3>4. PathOfRow(v, n)' = child[v].path
          BY <2>0, <2>2, <3>1, <3>3 DEF PathOfRow, JobOf
    <3>. QED BY <3>2, <3>4 DEF TouchOK
  <2>. QED BY <1>2, <2>1, <2>2, RowBefore
<1>. QED BY <1>1, <1>2 DEF TouchOK

-----------------------------------------------------------------------------
\* Where a script has what it writes from.
LEMMA BodyFrom ==
    ASSUME TInv, [Next]_vars, NEW v \in Inv, HasBody(child'[v])
    PROVE  /\ child'[v].arch = child[v].arch
           /\ \/ HasBody(child[v]) /\ child'[v].body = child[v].body
              \/ child'[v].body.ver = tree[child[v].arch] /\ tree' = tree
<1>0. CASE child'[v] = child[v]
      BY <1>0
<1>1. ASSUME child'[v].phase \in {"none", "check"} PROVE FALSE
      BY <1>1 DEF HasBody, HasWritten
<1>2. ASSUME NEW u \in Inv, ParentStep(u) \/ KillParent(u)
      PROVE  child'[v] = child[v] \/ child'[v].phase \in {"none", "check"}
  <2>1. CASE Spawn(u)
        BY <2>1 DEF Spawn, TInv, TypeOK
  <2>2. CASE Settle(u)
        BY <2>2 DEF Settle, NoChild, TInv, TypeOK
  <2>. QED BY <1>2, <2>1, <2>2 DEF ParentStep, Refuse, ScanRaises, Begin, Conclude, KillParent
<1>3. ASSUME ChildStep(v)
      PROVE  /\ child'[v].arch = child[v].arch
             /\ \/ HasBody(child[v]) /\ child'[v].body = child[v].body
                \/ child'[v].body.ver = tree[child[v].arch] /\ tree' = tree
  <2>0. child'[v].arch = child[v].arch /\ tree' = tree
        BY <1>3, ChildStays
  <2>1. ~ChildCheck(v) /\ ~ChildFails(v)
    <3>1. ~ChildCheck(v)
          BY ExitsEffect, ToPhaseEffect DEF ChildCheck, HasBody, HasWritten
    <3>2. ~ChildFails(v)
          BY ExitsEffect DEF ChildFails, RcOfFault, HasBody, HasWritten
    <3>. QED BY <3>1, <3>2
  <2>2. CASE ChildList(v)
    <3>. DEFINE b == [kind |-> JobOf(v).kind, arch |-> child[v].arch, ver |-> tree[child[v].arch]]
    <3>1. ~Exits(v, 1)
          BY ExitsEffect DEF HasBody, HasWritten
    <3>2. child' = [child EXCEPT ![v].phase = "write", ![v].body = b]
          BY <2>2, <3>1 DEF ChildList
    <3>3. child'[v].body = b
          BY <3>2 DEF TInv, TypeOK, ChildType
    <3>. QED BY <2>0, <3>3
  <2>3. CASE ChildOpen(v)
        BY <2>0, <2>3, ChildOpenEffect DEF HasBody
  <2>4. CASE ChildClose(v)
        BY <2>0, <2>4, ChildStopsEffect DEF HasBody, HasWritten
  <2>. QED BY <1>3, <2>1, <2>2, <2>3, <2>4 DEF ChildStep
<1>4. ASSUME NEW u \in Inv \ {v}, ChildStep(u) PROVE child'[v] = child[v]
      BY <1>4, ChildStays
<1>5. ASSUME NEW a \in Arch, UpdateTree(a) PROVE child' = child
      BY <1>5 DEF UpdateTree
<1>6. CASE UNCHANGED vars
      BY <1>0, <1>6 DEF vars
<1>. QED BY <1>0, <1>1, <1>2, <1>3, <1>4, <1>5, <1>6 DEF Next

\* The tree stands still until its version goes up.
LEMMA TreeStands ==
    ASSUME TInv, [Next]_vars PROVE (tree' = tree /\ latest' = latest) \/ latest' = latest + 1
<1>1. ASSUME NEW v \in Inv, ParentStep(v) \/ KillParent(v) PROVE tree' = tree /\ latest' = latest
      BY <1>1 DEF ParentStep, Refuse, ScanRaises, Begin, Spawn, Settle, Conclude, KillParent
<1>2. ASSUME NEW v \in Inv, ChildStep(v) PROVE tree' = tree /\ latest' = latest
      BY <1>2, ChildStays
<1>3. ASSUME NEW a \in Arch, UpdateTree(a) PROVE latest' = latest + 1
      BY <1>3 DEF UpdateTree
<1>4. CASE UNCHANGED vars
      BY <1>4 DEF vars
<1>. QED BY <1>1, <1>2, <1>3, <1>4 DEF Next

\* Everything in a file that an invocation has opened was made by an invocation
\* that writes that file, and from the tree as it is if that has not changed.
Authored(p, b) ==
    /\ \E u \in Inv : b.arch \in ArchsAt(u, p) /\ b.kind = JobOf(u).kind
    /\ latest = First => b.ver = tree[b.arch]

AuthorOK ==
    /\ First <= latest
    /\ latest = First =>
          \A v \in Inv : HasBody(child[v]) => child[v].body.ver = tree[child[v].arch]
    /\ \A p \in Path : disk[p].last # Nobody => \A b \in Contents(disk[p]) : Authored(p, b)

LEMMA AuthoredStays ==
    ASSUME TInv, First <= latest, [Next]_vars, NEW p, NEW b, Authored(p, b)
    PROVE  Authored(p, b)'
<1>1. SameJobs
      BY JobsStay DEF SameJobs
<1>2. latest' = First => tree' = tree /\ latest = First
  <2>1. latest \in Int
        BY DEF TInv, TypeOK, Version
  <2>. QED BY <2>1, TreeStands DEF First
<1>3. PICK u \in Inv : b.arch \in ArchsAt(u, p) /\ b.kind = JobOf(u).kind
      BY DEF Authored
<1>4. b.arch \in ArchsAt(u, p)' /\ b.kind = JobOf(u)'.kind
      BY <1>1, <1>3, SharingStays
<1>5. latest' = First => b.ver = tree'[b.arch]
      BY <1>2 DEF Authored
<1>. QED BY <1>4, <1>5 DEF Authored

LEMMA ScriptAuthors ==
    ASSUME TInv, PlanOK, BodyOK, AuthorOK, NEW v \in Inv, HasBody(child[v]),
           NEW p, p = child[v].path, NEW b, b = child[v].body
    PROVE  Authored(p, b)
<1>1. child[v].phase # "none"
      BY DEF HasBody, HasWritten
<1>2. b.kind = JobOf(v).kind /\ b.arch = child[v].arch
      BY DEF BodyOK, BodyFits, JobOf
<1>. QED BY <1>1, <1>2, ChildTarget DEF AuthorOK, Authored

LEMMA NextAuthorOK ==
    ASSUME TInv, PlanOK, BodyOK, OpenOK, OnlyInv, AuthorOK, [Next]_vars PROVE AuthorOK'
<1>1. /\ First <= latest'
      /\ latest' = First => latest = First /\ tree' = tree
  <2>1. latest \in Int /\ First <= latest
        BY DEF TInv, TypeOK, Version, AuthorOK
  <2>. QED BY <2>1, TreeStands DEF First
<1>2. ASSUME latest' = First, NEW v \in Inv, HasBody(child'[v])
      PROVE  child'[v].body.ver = tree'[child'[v].arch]
      BY <1>1, <1>2, BodyFrom DEF AuthorOK
<1>3. ASSUME NEW p \in Path, disk[p].last # Nobody, Contents(disk'[p]) = Contents(disk[p])
      PROVE  \A b \in Contents(disk'[p]) : Authored(p, b)'
      BY <1>3, AuthoredStays DEF AuthorOK
<1>4. ASSUME NEW p \in Path, disk'[p].last # Nobody
      PROVE  \A b \in Contents(disk'[p]) : Authored(p, b)'
  <2>1. CASE Quiet
        BY <1>3, <1>4, <2>1 DEF Quiet
  <2>2. ASSUME NEW v \in Inv, Stops(v) PROVE \A b \in Contents(disk'[p]) : Authored(p, b)'
        BY <1>3, <1>4, <2>2, ChildStopsEffect DEF Stops
  <2>3. ASSUME NEW v \in Inv, ChildOpen(v) PROVE \A b \in Contents(disk'[p]) : Authored(p, b)'
    <3>1. CASE child[v].path # p
          BY <1>3, <1>4, <2>3, <3>1, ChildOpenEffect
    <3>2. CASE child[v].path = p
      <4>1. /\ child[v].phase = "write"
            /\ Contents(disk'[p]) = {child[v].body} \cup {o[2] : o \in disk[p].open}
            BY <2>3, <3>2, ChildOpenEffect
      <4>2. ASSUME NEW b, b = child[v].body PROVE Authored(p, b)
            BY <3>2, <4>1, <4>2, ScriptAuthors DEF HasBody
      <4>3. ASSUME NEW o \in disk[p].open, NEW b, b = o[2] PROVE Authored(p, b)
        <5>1. o[1] \in Inv /\ child[o[1]].phase = "writing" /\ child[o[1]].path = p
              /\ child[o[1]].body = b
              BY <4>3 DEF OnlyInv, OpenOK, OpenedBy
        <5>. QED BY <5>1, ScriptAuthors DEF HasBody, HasWritten
      <4>4. ASSUME NEW b \in Contents(disk'[p]) PROVE Authored(p, b)
            BY <4>1, <4>2, <4>3
      <4>. QED BY <4>4, AuthoredStays DEF AuthorOK
    <3>. QED BY <3>1, <3>2
  <2>. QED BY <2>1, <2>2, <2>3, FileMoves
<1>. QED BY <1>1, <1>2, <1>4 DEF AuthorOK

-----------------------------------------------------------------------------
\* The invariant that the promises about whole files rest on.
WInv ==
    /\ FInv /\ RcFits /\ OverOK
    /\ OnlyInv /\ OwnFile /\ RowFile /\ ReadbackFailsOnlyIfShared
    /\ LastOK /\ TouchOK /\ AuthorOK

LEMMA InitWInv == Init => WInv
<1>. SUFFICES ASSUME Init PROVE WInv
     OBVIOUS
<1>1. PICK mix \in Mix : inv = [v \in Inv |-> Idle(mix[v])]
      BY DEF Init
<1>2. PICK old \in Leftover :
        disk = [p \in Path |-> IF p \in old
                               THEN Old([kind |-> p[3], arch |-> p[2], ver |-> Earlier])
                               ELSE Absent]
      BY DEF Init
<1>3. \A v \in Inv : /\ inv[v].settled = <<>> /\ inv[v].phase = "idle"
                     /\ child[v].phase = "none"
      BY <1>1 DEF Idle, Init, NoChild
<1>4. \A v \in Inv : ~HasWritten(child[v]) /\ ~HasBody(child[v])
      BY <1>3 DEF HasWritten, HasBody
<1>5. \A p \in Path : disk[p].open = {} /\ disk[p].last = Nobody
      BY <1>2 DEF Old, Absent
<1>6. OverOK /\ ReadbackFailsOnlyIfShared /\ RowFile
      BY <1>3 DEF OverOK, EndFits, ReadbackFailsOnlyIfShared, RowFile
<1>7. OnlyInv /\ OwnFile /\ LastOK
      BY <1>4, <1>5 DEF OnlyInv, OwnFile, Owns, LastOK
<1>8. TouchOK
      BY <1>3, <1>4 DEF TouchOK
<1>9. AuthorOK
      BY <1>4, <1>5 DEF AuthorOK, Init, First
<1>. QED BY <1>6, <1>7, <1>8, <1>9, InitFInv, InitIInv DEF WInv, IInv

LEMMA NextWInv == WInv /\ [Next]_vars => WInv'
<1>. SUFFICES ASSUME WInv, [Next]_vars PROVE WInv'
     OBVIOUS
<1>1. FInv'
      BY NextFInv DEF WInv
<1>2. RcFits'
      BY NextIInv DEF WInv, FInv, IInv
<1>3. OverOK'
      BY NextOverOK DEF WInv, FInv, IInv
<1>4. OnlyInv' /\ OwnFile' /\ RowFile' /\ ReadbackFailsOnlyIfShared'
      BY NextOnlyInv, NextOwnFile, NextRowFile, NextReadback DEF WInv, FInv
<1>5. LastOK' /\ TouchOK' /\ AuthorOK'
      BY NextLastOK, NextTouchOK, NextAuthorOK DEF WInv, FInv
<1>. QED BY <1>1, <1>2, <1>3, <1>4, <1>5 DEF WInv

(***************************************************************************)
(* The row "readback failed" of a smoke test is never about what its own   *)
(* script did: a script that returned 0 leaves a whole inventory, and only *)
(* another invocation that writes the same file can have spoilt it.        *)
(***************************************************************************)
THEOREM ReadbacksAreOwn == Spec => []ReadbackFailsOnlyIfShared
<1>1. WInv => ReadbackFailsOnlyIfShared
      BY DEF WInv
<1>. QED BY InitWInv, NextWInv, <1>1, PTL DEF Spec

\* What an invocation that is over with status 0 has left, of one architecture.
LEMMA SuccessLeaves ==
    ASSUME WInv, NEW v \in Inv, inv[v].phase = "over", inv[v].code = 0,
           NEW n \in DOMAIN inv[v].plan, NEW a, a = inv[v].plan[n],
           NEW p, p = OutPath(JobOf(v), a), Undisturbed(v, p)
    PROVE  \E b \in Body : Reads(disk[p]) = {b} /\ b.kind = JobOf(v).kind /\ b.arch = a
<1>1. /\ Len(inv[v].settled) = Len(inv[v].plan) /\ n \in DOMAIN inv[v].settled
      /\ inv[v].settled[n].ok /\ inv[v].settled[n].arch = a
      /\ p \in Path /\ PathOfRow(v, n) = p /\ disk[p] \in OutputFileType
      /\ inv[v].plan \in Seq(Arch) /\ inv[v].settled \in Seq(RowType)
  <2>1. /\ inv[v].plan \in Seq(Arch) /\ inv[v].settled \in Seq(RowType) /\ JobOf(v) \in Job
        BY DEF WInv, FInv, TInv, TypeOK, InvType, JobOf
  <2>2. /\ Len(inv[v].settled) = Len(inv[v].plan)
        /\ \A i \in DOMAIN inv[v].settled : inv[v].settled[i].ok
        BY DEF WInv, OverOK, EndFits
  <2>3. n \in DOMAIN inv[v].settled /\ a \in Arch
        BY <2>1, <2>2
  <2>4. inv[v].settled[n].arch = a
        BY <2>3 DEF WInv, FInv, PlanOK, PlanFits
  <2>5. p \in Path /\ PathOfRow(v, n) = p
        BY <2>1, <2>3, <2>4, OutPathType DEF PathOfRow
  <2>. QED BY <2>1, <2>2, <2>3, <2>4, <2>5 DEF WInv, FInv, TInv, TypeOK
<1>2. CASE Sharing(v, p) = {}
  <2>1. Holds(v, inv[v].settled[n])
        BY <1>1 DEF WInv, RowFile
  <2>2. /\ disk[p].exists /\ disk[p].done
        /\ \E b \in Body : Contents(disk[p]) = {b} /\ b.kind = JobOf(v).kind /\ b.arch = a
        BY <1>1, <1>2, <2>1 DEF Holds
  <2>. QED BY <2>2 DEF Reads
<1>3. CASE Sharing(v, p) # {}
  <2>1. /\ latest = First
        /\ \A u \in Sharing(v, p) :
              /\ AtRest(u) /\ inv[u].code = 0
              /\ JobOf(u).kind = JobOf(v).kind /\ ArchsAt(u, p) = ArchsAt(v, p)
        BY <1>3 DEF Undisturbed
  <2>2. ArchsAt(v, p) = {a}
        BY OneArchAt DEF WInv, FInv
  <2>3. disk[p].last # Nobody
        BY <1>1 DEF WInv, TouchOK
  <2>4. PICK w \in Inv : LastIs(p, w)
        BY <1>1, <2>3 DEF WInv, LastOK
  <2>5. w = v \/ w \in Sharing(v, p)
        BY <2>4 DEF LastIs, Sharing
  <2>6. inv[w].phase = "over" /\ inv[w].code = 0 /\ child[w].phase = "none"
    <3>1. CASE w = v
          BY <1>1, <3>1 DEF WInv, FInv, PlanOK, PlanFits
    <3>2. CASE w \in Sharing(v, p)
          BY <2>1, <3>2 DEF AtRest
    <3>. QED BY <2>5, <3>1, <3>2
  <2>7. ~Spoilt(w)
        BY <2>6 DEF Spoilt, WInv, OverOK, EndFits
  <2>8. disk[p].exists /\ disk[p].done /\ Contents(disk[p]) # {}
        BY <2>4, <2>6, <2>7 DEF LastIs
  <2>9. ASSUME NEW b \in Contents(disk[p])
        PROVE  b \in Body /\ b.kind = JobOf(v).kind /\ b.arch = a /\ b.ver = tree[a]
    <3>1. Authored(p, b)
          BY <1>1, <2>3 DEF WInv, AuthorOK
    <3>2. PICK u \in Inv : b.arch \in ArchsAt(u, p) /\ b.kind = JobOf(u).kind
          BY <3>1 DEF Authored
    <3>3. u = v \/ u \in Sharing(v, p)
          BY <3>2 DEF ArchsAt, Targets, Sharing
    <3>4. b.kind = JobOf(v).kind /\ b.arch = a
          BY <2>1, <2>2, <3>2, <3>3
    <3>5. b \in Body
          BY <1>1 DEF Contents, OutputFileType
    <3>. QED BY <2>1, <3>1, <3>4, <3>5 DEF Authored
  <2>10. \A b, c \in Contents(disk[p]) : b = c
         BY <2>9 DEF Body
  <2>11. PICK b \in Contents(disk[p]) : TRUE
         BY <2>8
  <2>12. Contents(disk[p]) = {b}
         BY <2>10
  <2>. QED BY <2>8, <2>9, <2>12 DEF Reads
<1>. QED BY <1>2, <1>3

(***************************************************************************)
(* An invocation that ends with status 0 has left, for each architecture   *)
(* it went over, a whole inventory of that architecture and of its kind;   *)
(* and it is still there, unless another invocation that writes the file   *)
(* failed, is not done, or works for another architecture or with the      *)
(* other script, or the tree was updated between the two.                  *)
(***************************************************************************)
THEOREM SuccessMeansInventory == Spec => []SuccessLeavesInventory
<1>1. WInv => SuccessLeavesInventory
      BY SuccessLeaves DEF SuccessLeavesInventory
<1>. QED BY InitWInv, NextWInv, <1>1, PTL DEF Spec
=============================================================================
