------------------------------- MODULE MCRcon -------------------------------
(* Instances of module Rcon for TLC.                                       *)
EXTENDS Rcon

Packet(k, s, n, m) == [kind |-> k, secret |-> s, units |-> n, misread |-> m]

CONSTANT p1

\* For a buffer of 3 units: a packet of each kind, a command arrives in two
\* pieces or with another packet, and one has a length that is misread.
Mixed == {Packet("auth", p1, 1, FALSE), Packet("exec", None, 2, FALSE),
          Packet("other", None, 1, FALSE), Packet("other", None, 1, TRUE)}

\* What a client has to send to be served, and a packet that does not fit.
Proper == {Packet("auth", p1, 1, FALSE), Packet("exec", None, 2, FALSE),
           Packet("other", None, 3, FALSE)}

Symmetry == Permutations(Conns)
=============================================================================
