---------------------------- MODULE MCFeedSlots ----------------------------
(* FeedSlots on small instances: reporters of a kind are interchangeable.  *)
EXTENDS FeedSlots, TLC

ReporterSymmetry == Permutations(Faulty) \union Permutations(Reporters \ Faulty)
=============================================================================
