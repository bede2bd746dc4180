---------------------------- MODULE MCSlabLayout ----------------------------
(* Instances of the slab layout for TLC.                                   *)
EXTENDS SlabLayout

\* Every size a page of 1 KiB can hold, one it just cannot, some negative ones,
\* and those around the limit of int.
AllSizes == (-20 .. PageSize - FooterSize + 1) \cup {IntMax - k : k \in 0 .. 40}
=============================================================================
