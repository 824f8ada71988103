------------------------------ MODULE ArchBatch ------------------------------
(***************************************************************************)
(* What every command that goes over architectures promises to whoever     *)
(* reads its exit status (GUIDE.md, "Exit Codes and Failure Semantics"):   *)
(* the command either refuses its arguments, or decides on a plan of       *)
(* architectures and settles them one after the other, a failure of one    *)
(* never stopping the next; it ends with status 0 exactly when all of them *)
(* succeeded.  A command that dies on the way has a status other than 0.   *)
(***************************************************************************)
EXTENDS Naturals, Sequences, SequencesExt, FiniteSets

CONSTANTS
    Inv,     \* the invocations of the command line
    Arch     \* the canonical architectures

VARIABLES
    phase,     \* "idle", "running" or "over"
    plan,      \* the architectures the invocation goes over
    settled,   \* those it is done with, and whether they succeeded
    verdict    \* the exit status

vars == <<phase, plan, settled, verdict>>

Plans == {p \in BoundedSeq(Arch, Cardinality(Arch)) : IsInjective(p)}
Failure == 1..255

Init ==
    /\ phase = [v \in Inv |-> "idle"]
    /\ plan = [v \in Inv |-> <<>>]
    /\ settled = [v \in Inv |-> <<>>]
    /\ verdict = [v \in Inv |-> 0]

EndsWith(v, codes) ==
    /\ phase' = [phase EXCEPT ![v] = "over"]
    /\ UNCHANGED <<plan, settled>>
    /\ \E code \in codes : verdict' = [verdict EXCEPT ![v] = code]

\* Arguments, root or script not usable: nothing is attempted.
Refuse(v) ==
    /\ phase[v] = "idle"
    /\ EndsWith(v, {2})

Begin(v) ==
    /\ phase[v] = "idle"
    /\ phase' = [phase EXCEPT ![v] = "running"]
    /\ \E p \in Plans : plan' = [plan EXCEPT ![v] = p]
    /\ UNCHANGED <<settled, verdict>>

Settle(v) ==
    LET done == Len(settled[v])
    IN /\ phase[v] = "running"
       /\ done < Len(plan[v])
       /\ UNCHANGED <<phase, plan, verdict>>
       /\ \E ok \in BOOLEAN :
             settled' = [settled EXCEPT ![v] =
                            Append(@, [arch |-> plan[v][done + 1], ok |-> ok])]

AllOk(v) == \A i \in DOMAIN settled[v] : settled[v][i].ok

Conclude(v) ==
    /\ phase[v] = "running"
    /\ Len(settled[v]) = Len(plan[v])
    /\ EndsWith(v, IF AllOk(v) THEN {0} ELSE Failure)

\* A traceback, or the process is killed.
Abort(v) ==
    /\ phase[v] # "over"
    /\ EndsWith(v, Failure)

Next == \E v \in Inv : Refuse(v) \/ Begin(v) \/ Settle(v) \/ Conclude(v) \/ Abort(v)

Spec == Init /\ [][Next]_vars

-----------------------------------------------------------------------------
\* The architectures settled so far are the first ones of the plan, in order.
InOrder ==
    \A v \in Inv :
       /\ Len(settled[v]) <= Len(plan[v])
       /\ \A i \in DOMAIN settled[v] : settled[v][i].arch = plan[v][i]

(***************************************************************************)
(* What a caller may conclude from status 0: every planned architecture    *)
(* was attempted and succeeded.                                            *)
(***************************************************************************)
ZeroMeansAll ==
    \A v \in Inv :
       phase[v] = "over" /\ verdict[v] = 0 =>
          /\ Len(settled[v]) = Len(plan[v])
          /\ AllOk(v)
=============================================================================
