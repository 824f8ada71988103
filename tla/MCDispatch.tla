----------------------------- MODULE MCDispatch -----------------------------
(***************************************************************************)
(* Dispatch with two invocations at a time and two architectures.          *)
(***************************************************************************)
EXTENDS Dispatch

CONSTANTS A, B, v1, v2

MCInv == {v1, v2}
MCArchitectures == <<A, B>>
MCByName == <<B, A>>
MCOutDir == {"out", "mirror"}

Run(kind, select, output) ==
    [command |-> "run", kind |-> kind, select |-> select, output |-> output]
Smoke(kind, select, dir) ==
    [command |-> "smoke", kind |-> kind, select |-> select, output |-> dir]

Pairs(S, T) == {[v \in MCInv |-> IF v = v1 THEN s ELSE t] : s \in S, t \in T}

TdFile == <<"out", A, "td">>

\* Two smoke tests of one directory, of the same kind or not.
SmokePairs == Pairs({Smoke("td", "found", "out")}, {Smoke(k, A, "out") : k \in Kind})

\* A smoke test, and runs that write one of its files: with the same script,
\* with the other one, and in another place; and runs of two architectures to
\* one file.
RunPairs ==
    Pairs({Smoke("td", A, "out")},
          {Run("td", A, TdFile), Run("cpp", A, TdFile), Run("td", "ALL", None)})
    \cup Pairs({Run("td", B, TdFile)}, {Run("td", A, TdFile)})

\* Command lines that are refused, or write where nobody else does.
RefusedPairs ==
    Pairs({Run("td", "ALL", TdFile), Run("td", B, <<"mirror", B, "td">>)},
          {Smoke("cpp", "ALL", "mirror"), Run("cpp", B, None)})

MCMix == SmokePairs \cup RunPairs \cup RefusedPairs
\* The inventories of A were made before.
MCLeftover == {{p \in Path : p[2] = A}}

RootMix == Pairs({Smoke("td", "found", "out")}, {Run("td", A, None)})
=============================================================================
