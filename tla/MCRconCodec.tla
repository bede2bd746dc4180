---------------------------- MODULE MCRconCodec ----------------------------
(* Instances of module RconCodec for TLC.                                  *)
EXTENDS RconCodec

\* Past both ends of the port numbers.
BelowPorts == -70000

\* The characters whose masks depend on one bit only: the lowest, the highest,
\* the sign; and one that shares bits with the others.
MCChars == {{0}, {6}, {7}, {0, 7}}

\* All short strings, and long ones, in which the index takes all its values up
\* to 16, at the powers of 2 and next to them.
Repeated(c, k) == [i \in 1 .. k |-> c]
LongStrings == {Repeated(c, k) : c \in MCChars, k \in {4, 5, 8, 9, 16, 17}}
MCStrings == SeqOf(MCChars, 3) \cup LongStrings
                \cup {Append(s, {1}) : s \in LongStrings}
=============================================================================
