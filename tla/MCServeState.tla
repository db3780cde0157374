----------------------------- MODULE MCServeState -----------------------------
(***************************************************************************)
(* Two configurations that build and two that do not, of several lengths.  *)
(* The two pages are interchangeable.                                      *)
(***************************************************************************)
EXTENDS ServeState, TLC

CONSTANTS short, long, broken, wrong

MCGood == {short, long}
MCBad == {broken, wrong}
MCWidth == (short :> 1) @@ (long :> 3) @@ (broken :> 2) @@ (wrong :> 1)
MCInitial == {short, broken}
Pages == Permutations(Page)
=============================================================================
