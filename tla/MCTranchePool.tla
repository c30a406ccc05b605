----------------------------- MODULE MCTranchePool -----------------------------
(* Values for the constants of TranchePool: a pool of eight or fewer tokens,*)
(* and collections that pay no interest, part of it, or all with a rest.   *)
EXTENDS TranchePool, TLC

CONSTANTS i1, i2, x1

MCInvestors == {i1, i2}
MCAssets == {x1}
MCFace == (x1 :> 8000)
MCCurrent == (x1 :> 8000)
MCMarks == {3000}
MCTargetRate == [t \in Tranche |-> IF t = "DROP" THEN 10 ELSE 20]
MCOneLot == {2}
MCInflows == {0, 25, 4000}
MCSymm == Permutations(MCInvestors)
===============================================================================
