-------------------------- MODULE MCFeedsRegistry --------------------------
(***************************************************************************)
(* FeedsRegistry on small instances: two sequencers that share a topic.    *)
(***************************************************************************)
EXTENDS FeedsRegistry

CONSTANTS s1, s2, f1, f2
=============================================================================
