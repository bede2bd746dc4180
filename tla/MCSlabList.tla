------------------------------ MODULE MCSlabList ----------------------------
(* The page lists with a few pages, for TLC.                               *)
EXTENDS SlabList
=============================================================================
