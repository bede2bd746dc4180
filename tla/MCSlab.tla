------------------------------- MODULE MCSlab -------------------------------
(* Small instances of the slab allocator for TLC.                          *)
EXTENDS Slab
=============================================================================
