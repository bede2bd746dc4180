---------------------------- MODULE MCPlyScalar ----------------------------
(* Instances of module PlyScalar for TLC.                                  *)
EXTENDS PlyScalar

\* Every byte of two bits.
AllBytes == SUBSET (0 .. 1)

\* Around the ranges of types of 2, 4 and 8 bits, and past 2 ^ 8.
MCNumbers == -600 .. 600
=============================================================================
