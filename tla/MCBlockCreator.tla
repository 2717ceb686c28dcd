--------------------------- MODULE MCBlockCreator ---------------------------
(***************************************************************************)
(* BlockCreator on small instances.  The code treats all feeds alike, so   *)
(* permuting them is a symmetry of the safety runs.                        *)
(***************************************************************************)
EXTENDS BlockCreator, TLC

FeedSymmetry == Permutations(Feeds)
=============================================================================
