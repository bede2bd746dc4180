----------------------------- MODULE RconCodec -----------------------------
(***************************************************************************)
(* The pure functions of tom_rcon.h: the little-endian integers of a       *)
(* packet, the splitting of a response into packets, the text of a port    *)
(* number, and the comparison of a password with the secret one in a time  *)
(* that does not tell how much of it is right.  A char is a set of bits    *)
(* out of 0..7 and an int32_t, or unsigned, one out of 0..31.  The         *)
(* variables sweep over the arguments.                                     *)
(***************************************************************************)
EXTENDS Integers, Sequences, FiniteSetsExt, SequencesExt

CONSTANTS
  SignedChar,   \* is char a signed type in this build?
  From, To,     \* bounds of the numbers
  Strings       \* bound: the strings that are compared

NUL == {}

ASSUME CodecAssumption ==
  /\ SignedChar \in BOOLEAN /\ From \in Int /\ To \in Int /\ From <= To
  /\ \A s \in Strings : s \in Seq(SUBSET (0 .. 7) \ {NUL})

VARIABLES n, given, secret
vars == <<n, given, secret>>

-----------------------------------------------------------------------------
(* Integers.                                                               *)

FragMax == 4096 - 10
Overhead == 10                  \* two integers and two NULs

BitsOf(k) == {i \in 0 .. 30 : (k \div 2 ^ i) % 2 = 1}
Weight(w) == SumSet({2 ^ i : i \in w})
Value(w)  == IF 31 \in w THEN -1 - Weight(0 .. 30 \ w) ELSE Weight(w)

\* A char as an operand of | or =, converted to 32 bits.
Extend(b) == IF SignedChar /\ 7 \in b THEN b \cup 8 .. 31 ELSE b
Shl(w, k) == {b + k : b \in {c \in w : c + k < 32}}
Shr(w, k) == {b - k : b \in {c \in w : c >= k}}

ByteOf(v, k) == {i \in 0 .. 7 : i + k \in v}
WriteI32(v) == <<ByteOf(v, 0), ByteOf(v, 8), ByteOf(v, 16), ByteOf(v, 24)>>

ReadByteTwice(b) ==                                                  \* mutant
  UNION {Extend(b[1]), Shl(b[1], 8), Shl(Extend(b[3]), 16), Shl(Extend(b[4]), 24)}
ReadI32(b) ==
  UNION {Extend(b[1]), Shl(Extend(b[2]), 8), Shl(Extend(b[3]), 16), Shl(Extend(b[4]), 24)}

\* client->packetLength for a packet with a payload of k bytes.
PacketLength(k) == 4 + Value(ReadI32(WriteI32(BitsOf(k + Overhead))))

\* The payload lengths of the packets rcon_send makes of k bytes, k >= 0.
Split[k \in Nat] ==
  LET frag == Min({FragMax, k})
  IN  IF k = frag THEN <<frag>> ELSE <<frag>> \o Split[k - frag]
Fragments(k) == Split[k]

\* The digits of a port, most significant first.
Digits[k \in Nat] ==
  IF k < 10 THEN <<k>> ELSE Append(Digits[k \div 10], k % 10)
PortDigits(port) == Digits[port % 65536]
PortBuf == 6

-----------------------------------------------------------------------------
(* rcon_streq_consttime: the index into the secret wraps to 0 at its NUL   *)
(* without a branch.  It is masked with a word in which all bits that an   *)
(* index can have are set, unless the character at it is NUL.              *)

CharAt(s, k) == IF k < Len(s) THEN s[k + 1] ELSE NUL

SpreadUp(w, k)   == w \cup Shl(w, k)
SpreadDown(w, k) == w \cup Shr(w, k)

Up(c) == SpreadUp(SpreadUp(SpreadUp(SpreadUp(Extend(c), 8), 4), 2), 1)
Mask(c) == SpreadDown(SpreadDown(SpreadDown(Up(c), 4), 2), 1)

NextIndexPlain(s, k) == k + 1                                        \* mutant
NextIndex(s, k) == Weight(BitsOf(k + 1) \cap Mask(CharAt(s, k)))

\* The index into s in each round of the loop.
Indices(s) ==
  LET index[k \in Nat] == IF k = 0 THEN 0 ELSE NextIndex(s, index[k - 1]) IN index

Differences(a, b) == (a \ b) \cup (b \ a)

StreqConsttime(g, s) ==
  UNION {Differences(CharAt(g, k), CharAt(s, Indices(s)[k])) : k \in 0 .. Len(g)} = {}

-----------------------------------------------------------------------------
Init == n = From /\ given = <<>> /\ secret = <<>>

NextNumber == n < To /\ n' = n + 1 /\ UNCHANGED <<given, secret>>

SomeStrings ==
  /\ n = To /\ given = <<>> /\ secret = <<>>
  /\ given' \in Strings /\ secret' \in Strings
  /\ UNCHANGED n

Next == NextNumber \/ SomeStrings
Spec == Init /\ [][Next]_vars

-----------------------------------------------------------------------------
\* What the server sends for n bytes is read back as n bytes by a client whose
\* chars are unsigned: even an empty response is sent, in packets that fit a
\* buffer, nothing is lost or sent twice.  Where char is signed the lengths
\* whose lowest byte has its sign bit set are misread, but for errors, never for
\* a packet of another length (what module Rcon calls misread); so not every
\* password rcon_set_password accepts can be sent.  Any int is cut to a port
\* number, and its text without leading zeros fits portBuf with its NUL.
NumbersSurvive ==
  LET f == Fragments(n)
      d == PortDigits(n)
  IN  /\ n >= 0 =>
           /\ f # <<>>
           /\ FoldLeft(LAMBDA a, b : a + b, 0, f) = n
           /\ \A i \in 1 .. Len(f) : f[i] <= FragMax
           /\ \A i \in 1 .. Len(f) - 1 : f[i] = FragMax
      /\ n \in 0 .. FragMax =>
           IF SignedChar /\ (n + Overhead) % 256 >= 128
           THEN PacketLength(n) < 10
           ELSE PacketLength(n) = 4 + Overhead + n
      /\ Len(d) + 1 <= PortBuf
      /\ FoldLeft(LAMBDA a, b : 10 * a + b, 0, d) = n % 65536
      /\ Len(d) > 1 => d[1] # 0

\* "If both strings are the same, 1 is returned, otherwise 0" holds although the
\* index into the secret is not compared with its length: it wraps at the NUL
\* and never gets past it, however long the given string is.
ComparesWholeSecret ==
  /\ \A k \in 0 .. Len(given) : Indices(secret)[k] \in 0 .. Len(secret)
  /\ StreqConsttime(given, secret) <=> given = secret
=============================================================================
