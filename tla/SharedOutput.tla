---------------------------- MODULE SharedOutput ----------------------------
(***************************************************************************)
(* grab and the td and cpp commands at the same time, on one LLVM tree and *)
(* one set of output files.  grab --all --output d and td smoke            *)
(* --output-dir d both write d/<arch>.json, in different shapes, and       *)
(* neither knows of the other.  GrabCmd and Dispatch are composed by what  *)
(* they share; the rest of their state is their own.                       *)
(***************************************************************************)
EXTENDS GrabCmd

CONSTANTS
    Inv,       \* invocations of the td and cpp commands
    Together,  \* the command lines that are started together
    Leftover   \* as in Dispatch

VARIABLES scripts, inv, child

D == INSTANCE Dispatch WITH Others <- Grabs, Mix <- {t.dispatch : t \in Together}

ASSUME TogetherAssumption ==
    Others = Inv /\ Together \subseteq [dispatch : [Inv -> D!Job], grab : GrabMix]

\* What Dispatch assumes, of the constants that it shares with GrabCmd.
ASSUME DispatchAssumption ==
    /\ Architectures \in Seq(Arch) /\ IsInjective(Architectures)
    /\ "output" \notin OutDir
    /\ {"ALL", "found"} \cap Arch = {}
    /\ Invalid \notin Body
    /\ Leftover \subseteq SUBSET Path

dispatchVars == <<scripts, inv, child>>
vars == <<root, tree, latest, disk, grab, faults, scripts, inv, child>>

\* With the scraper scripts installed; Dispatch has the other case.
Init ==
    /\ D!Init /\ GrabInit
    /\ scripts = D!Kind
    /\ \E t \in Together :
          /\ \A v \in Inv : inv[v].job = t.dispatch[v]
          /\ \A v \in Grabs : grab[v].job = t.grab[v]

GrabSteps(v) == GrabStep(v) /\ UNCHANGED dispatchVars
DispatchParent(v) == D!ParentStep(v) /\ UNCHANGED grab
DispatchChild(v) == D!ChildStep(v) /\ UNCHANGED grab

Next ==
    \/ \E v \in Grabs : GrabSteps(v)
    \/ \E v \in Grabs : KillGrab(v) /\ UNCHANGED dispatchVars
    \/ \E v \in Inv : DispatchParent(v) \/ DispatchChild(v)
    \/ \E v \in Inv : D!KillParent(v) /\ UNCHANGED grab
    \/ Environment /\ UNCHANGED dispatchVars

\* Each process is run until it ends; no fault and no update is fair.
Fairness ==
    /\ \A v \in Grabs : WF_vars(GrabSteps(v))
    /\ \A v \in Inv : WF_vars(DispatchParent(v)) /\ WF_vars(DispatchChild(v))

Spec == Init /\ [][Next]_vars /\ Fairness

-----------------------------------------------------------------------------
\* Types of the state of both components, over the files they share.
TypeOK == GrabTypeOK /\ D!TypeOK

\* Who else may write a file of a grab.
Sharers(v, p) ==
    {u \in Grabs \ {v} : p \in GrabTargets(u)} \cup {u \in Inv : p \in D!Targets(u)}

(***************************************************************************)
(* A grab that ends reports files that hold what it built: the payload of  *)
(* the architecture, and not of a tree older than the architecture's turn  *)
(* (or, if the directory went away, an empty one).  Only another command   *)
(* on the same file can change that.                                       *)
(***************************************************************************)
ReportedFilesHold ==
    \A v \in Grabs : \A i \in DOMAIN grab[v].settled :
       LET row == grab[v].settled[i]
           p == GrabPath(GrabJob(v), row.arch)
       IN row.ok /\ Sharers(v, p) = {} =>
             /\ Reads(disk[p]) = {row.body}
             /\ row.body.kind = "grab" /\ row.body.arch = row.arch
             /\ row.body.ver = Absence \/ row.body.ver >= row.since

(***************************************************************************)
(* What grab writes into the files of a smoke test is a failure of that    *)
(* architecture, and nothing worse: it never passes for an inventory, does *)
(* not make an old one pass for a new one, and does not end the loop.      *)
(***************************************************************************)
SmokeUndeceived == D!OkRowFresh /\ D!TracebackOnlyOnForeignFile

\* All of them keep the promise about exit statuses while they interfere.
AllKeepPromise == GrabImplementsBatch /\ D!ImplementsBatch

\* Nobody waits for anybody: all come to an end, and leave no script behind.
AllEnd == D!AllEnd /\ \A v \in Grabs : <>(grab[v].phase = "over")
=============================================================================
