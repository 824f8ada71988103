--------------------------- MODULE ArchBatchProofs ---------------------------
(***************************************************************************)
(* What the exit status of a batch command means, for any number of        *)
(* invocations and architectures.                                          *)
(***************************************************************************)
EXTENDS ArchBatch, TLAPS

Settlement == [arch : Arch, ok : BOOLEAN]

BatchTypeOK ==
    /\ phase \in [Inv -> {"idle", "running", "over"}]
    /\ plan \in [Inv -> Seq(Arch)]
    /\ settled \in [Inv -> Seq(Settlement)]
    /\ verdict \in [Inv -> {0} \cup Failure]

\* An invocation that has not begun has settled nothing, and its status is 0
\* only once it has gone through its plan and everything went well.
ZeroIsEarned ==
    \A v \in Inv :
       phase[v] = "over" /\ verdict[v] = 0 =>
          Len(settled[v]) = Len(plan[v]) /\ AllOk(v)

IdleIsEmpty == \A v \in Inv : phase[v] = "idle" => settled[v] = <<>>

IInv == BatchTypeOK /\ IdleIsEmpty /\ InOrder /\ ZeroIsEarned

-----------------------------------------------------------------------------
\* A plan is a sequence of architectures.
LEMMA PlanIsSeq == \A p \in Plans : p \in Seq(Arch)
<1>1. SUFFICES ASSUME NEW p \in BoundedSeq(Arch, Cardinality(Arch)) PROVE p \in Seq(Arch)
      BY DEF Plans
<1>2. PICK m \in 0..Cardinality(Arch) : p \in [1..m -> Arch]
      BY Zenon DEF BoundedSeq, SeqOf
<1>3. m \in Nat
      BY <1>2
<1>. QED BY <1>2, <1>3

\* A batch starts with nothing settled.
LEMMA InitIInv == Init => IInv
BY DEF Init, IInv, BatchTypeOK, IdleIsEmpty, InOrder, ZeroIsEarned, Settlement, Failure

\* Ending with a status that fits what was settled.
LEMMA EndKeepsIInv ==
    ASSUME IInv, NEW v \in Inv, NEW codes \in SUBSET ({0} \cup Failure), EndsWith(v, codes),
           0 \in codes => Len(settled[v]) = Len(plan[v]) /\ AllOk(v)
    PROVE IInv'
<1>1. PICK code \in codes : verdict' = [verdict EXCEPT ![v] = code]
      BY DEF EndsWith
<1>2. BatchTypeOK'
      BY <1>1 DEF IInv, BatchTypeOK, EndsWith
<1>3. IdleIsEmpty' /\ InOrder'
      BY DEF IInv, BatchTypeOK, IdleIsEmpty, InOrder, EndsWith
<1>4. ZeroIsEarned'
      BY <1>1 DEF IInv, BatchTypeOK, ZeroIsEarned, EndsWith, AllOk
<1>. QED BY <1>2, <1>3, <1>4 DEF IInv

\* Every step of the batch keeps the invariant.
LEMMA NextIInv == IInv /\ [Next]_vars => IInv'
<1>. SUFFICES ASSUME IInv, [Next]_vars PROVE IInv'
     OBVIOUS
<1>0. 0 \notin Failure /\ 2 \in Failure
      BY DEF Failure
<1>1. ASSUME NEW v \in Inv, Refuse(v) PROVE IInv'
      BY <1>0, <1>1, EndKeepsIInv DEF Refuse
<1>2. ASSUME NEW v \in Inv, Begin(v) PROVE IInv'
  <2>1. PICK p \in Plans : plan' = [plan EXCEPT ![v] = p]
        BY <1>2 DEF Begin
  <2>2. p \in Seq(Arch)
        BY <2>1, PlanIsSeq
  <2>3. settled[v] = <<>>
        BY <1>2 DEF Begin, IInv, IdleIsEmpty
  <2>4. BatchTypeOK'
        BY <1>2, <2>1, <2>2 DEF Begin, IInv, BatchTypeOK
  <2>5. IdleIsEmpty' /\ ZeroIsEarned'
        BY <1>2, <2>1 DEF Begin, IInv, BatchTypeOK, IdleIsEmpty, ZeroIsEarned, AllOk
  <2>6. InOrder'
        BY <1>2, <2>1, <2>2, <2>3 DEF Begin, IInv, BatchTypeOK, InOrder
  <2>. QED BY <2>4, <2>5, <2>6 DEF IInv
<1>3. ASSUME NEW v \in Inv, Settle(v) PROVE IInv'
  <2>. DEFINE row(ok) == [arch |-> plan[v][Len(settled[v]) + 1], ok |-> ok]
  <2>1. PICK ok \in BOOLEAN : settled' = [settled EXCEPT ![v] = Append(@, row(ok))]
        BY <1>3 DEF Settle
  <2>2. /\ phase[v] = "running" /\ Len(settled[v]) < Len(plan[v])
        /\ UNCHANGED <<phase, plan, verdict>>
        BY <1>3 DEF Settle
  <2>3. row(ok) \in Settlement
        BY <2>2 DEF IInv, BatchTypeOK, Settlement
  <2>4. BatchTypeOK'
        BY <2>1, <2>2, <2>3 DEF IInv, BatchTypeOK
  <2>5. IdleIsEmpty' /\ ZeroIsEarned'
        BY <2>1, <2>2 DEF IInv, BatchTypeOK, IdleIsEmpty, ZeroIsEarned, AllOk
  <2>6. InOrder'
    <3>1. ASSUME NEW u \in Inv, u # v
          PROVE  /\ Len(settled'[u]) <= Len(plan'[u])
                 /\ \A i \in DOMAIN settled'[u] : settled'[u][i].arch = plan'[u][i]
          BY <3>1, <2>1, <2>2 DEF IInv, BatchTypeOK, InOrder
    <3>2. settled'[v] = Append(settled[v], row(ok))
          BY <2>1 DEF IInv, BatchTypeOK
    <3>3. Len(settled'[v]) <= Len(plan'[v])
          BY <3>2, <2>2, <2>3 DEF IInv, BatchTypeOK
    <3>4. ASSUME NEW i \in DOMAIN settled'[v] PROVE settled'[v][i].arch = plan'[v][i]
          BY <3>2, <3>4, <2>2, <2>3 DEF IInv, BatchTypeOK, InOrder
    <3>. QED BY <3>1, <3>3, <3>4 DEF InOrder
  <2>. QED BY <2>4, <2>5, <2>6 DEF IInv
<1>4. ASSUME NEW v \in Inv, Conclude(v) PROVE IInv'
  <2>1. CASE AllOk(v)
        BY <1>4, <2>1, EndKeepsIInv DEF Conclude
  <2>2. CASE ~AllOk(v)
        BY <1>0, <1>4, <2>2, EndKeepsIInv DEF Conclude
  <2>. QED BY <2>1, <2>2
<1>5. ASSUME NEW v \in Inv, Abort(v) PROVE IInv'
      BY <1>0, <1>5, EndKeepsIInv DEF Abort
<1>6. CASE UNCHANGED vars
      BY <1>6 DEF vars, IInv, BatchTypeOK, IdleIsEmpty, InOrder, ZeroIsEarned, AllOk
<1>. QED BY <1>1, <1>2, <1>3, <1>4, <1>5, <1>6 DEF Next

\* The invariant holds throughout every batch.
LEMMA IInvHolds == Spec => []IInv
BY InitIInv, NextIInv, PTL DEF Spec

(***************************************************************************)
(* Architectures are settled in the order of the plan, none skipped.       *)
(***************************************************************************)
THEOREM SettledInOrder == Spec => []InOrder
<1>1. IInv => InOrder
      BY DEF IInv
<1>. QED BY <1>1, IInvHolds, PTL

(***************************************************************************)
(* Status 0 of a batch command means that each architecture of its plan    *)
(* was attempted and succeeded.                                            *)
(***************************************************************************)
THEOREM ZeroStatusMeansAll == Spec => []ZeroMeansAll
<1>1. IInv => ZeroMeansAll
      BY DEF IInv, ZeroIsEarned, ZeroMeansAll
<1>. QED BY <1>1, IInvHolds, PTL
=============================================================================
