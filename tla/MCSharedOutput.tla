--------------------------- MODULE MCSharedOutput ---------------------------
(***************************************************************************)
(* SharedOutput with one td or cpp command and two of grab and verify, on  *)
(* two architectures.                                                      *)
(***************************************************************************)
EXTENDS SharedOutput

CONSTANTS A, B, d1, g1, g2

MCInv == {d1}
MCGrabs == {g1, g2}
MCArchitectures == <<A, B>>
MCByName == <<B, A>>
MCOutDir == {"here", "out", "out.d", "mirror"}

Smoke(kind, select, dir) ==
    [command |-> "smoke", kind |-> kind, select |-> select, output |-> dir]
Run(kind, select, output) ==
    [command |-> "run", kind |-> kind, select |-> select, output |-> output]

All(output) == [command |-> "all", arch |-> None, output |-> output]
One(a, output) == [command |-> "arch", arch |-> a, output |-> output]
VerifyJob == [command |-> "verify", arch |-> None, output |-> None]

Start(job, job1, job2) ==
    [dispatch |-> [v \in MCInv |-> job], grab |-> [v \in MCGrabs |-> IF v = g1 THEN job1 ELSE job2]]

\* A command that is refused, to leave the stage to the others.
Refused == Smoke("cpp", A, "mirror")

\* grab into the directory of a smoke test, or onto the file of a run.
Mixed ==
    {Start(Smoke("td", A, "out"), All("out"), All("mirror")),
     Start(Run("cpp", A, <<"out", A, "td">>), One(A, <<"out", A, "td">>), All("mirror"))}

\* Two of grab on one file, grab and verify, and refused or default outputs.
Alone ==
    {Start(Refused, All("out"), One(A, <<"out", A, "td">>)),
     Start(Refused, All(None), VerifyJob),
     Start(Refused, All("out.d"), One(B, <<"mirror", B, "td">>)),
     Start(Refused, One(A, WrongSuffix), One(B, None))}

MCTogether == Mixed \cup Alone
MCGrabMix == {t.grab : t \in MCTogether}

MCLeftover == {{p \in Path : p[2] = A}}
=============================================================================
