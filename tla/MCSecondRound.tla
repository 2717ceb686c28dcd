--------------------------- MODULE MCSecondRound ---------------------------
(* SecondRound on small instances: reporters are interchangeable.          *)
EXTENDS SecondRound, TLC

ReporterSymmetry == Permutations(Reporters)
=============================================================================
