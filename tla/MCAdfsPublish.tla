--------------------------- MODULE MCAdfsPublish ---------------------------
(***************************************************************************)
(* AdfsPublish on small instances: all feeds are neighbours in one row.    *)
(***************************************************************************)
EXTENDS AdfsPublish

CONSTANTS f1, f2

OneRow == [f \in Feeds |-> 0]
=============================================================================
