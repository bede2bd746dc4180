----------------------------- MODULE PlyScalar -----------------------------
(***************************************************************************)
(* ply_read_scalar of tom_ply.h: one value of a PLY file, from its raw     *)
(* bytes or its decimal text.  A byte is a set of bits out of              *)
(* 0 .. ByteBits - 1; of the union ply_scalar the model has the bits of    *)
(* its four bytes, as they are read from a binary file, or a number.  Then *)
(* ply_cast and ply_cast_normalized of an integer: a float is a fraction.  *)
(* The rounding of floats is left out.                                     *)
(***************************************************************************)
EXTENDS PlyTypes, FiniteSetsExt, SequencesExt

CONSTANTS
  ByteBits,   \* 8; smaller values let whole ranges be checked
  Formats,    \* the formats of the files in this instance
  RawBytes,   \* bound: the bytes binary files are made of
  Numbers     \* bound: the numbers written in ASCII files

ASSUME ScalarAssumption ==
  /\ ByteBits \in Nat \ {0}
  /\ Formats \subseteq {"ascii", "le", "be"}
  /\ RawBytes \subseteq SUBSET (0 .. ByteBits - 1)
  /\ Numbers \subseteq Int

VARIABLES
  format, type,
  raw, number,   \* the value in the file: its bytes, or the number that is written
  result,        \* what ply_read_scalar returns and assigns
  cast           \* [to, normalized, num, den]: the result of a cast
vars == <<format, type, raw, number, result, cast>>

Pending == [status |-> "pending"]
NoCast == [to |-> "none", normalized |-> FALSE, num |-> 0, den |-> 1]
SyntaxError == [status |-> "PLY_ERR_SYNTAX"]

\* By how many bytes raw[0], raw[1], ... are shifted to the left.
ShiftsLEInt16(t) ==                                       \* mutant
  CASE Width(t) = 1 -> <<0>> [] Width(t) = 2 -> <<1, 0>> [] Width(t) = 4 -> <<0, 1, 2, 3>>
    [] Width(t) = 8 -> <<0, 1, 2, 3, 4, 5, 6, 7>>
ShiftsLE(t) ==
  CASE Width(t) = 1 -> <<0>> [] Width(t) = 2 -> <<0, 1>> [] Width(t) = 4 -> <<0, 1, 2, 3>>
    [] Width(t) = 8 -> <<0, 1, 2, 3, 4, 5, 6, 7>>
ShiftsBE(t) ==
  CASE Width(t) = 1 -> <<0>> [] Width(t) = 2 -> <<1, 0>> [] Width(t) = 4 -> <<3, 2, 1, 0>>
    [] Width(t) = 8 -> <<7, 6, 5, 4, 3, 2, 1, 0>>

Combine(bs, shifts) ==
  UNION {{i + shifts[k] * ByteBits : i \in bs[k]} : k \in 1 .. Len(shifts)}

Weight(bits) == SumSet({2 ^ i : i \in bits})

\* value.u, or value.i without extending the sign; value.f is stored as value.u.
\* value.d is the number of the 64-bit integer q converted to a double, not the
\* double which has the bits of q.
Scalar(bits, t) ==
  IF t = "float64" THEN [status |-> "read", number |-> Weight(bits)]
  ELSE [status |-> "read", bits |-> bits]
ReadLE(bs, t) == Scalar(Combine(bs, ShiftsLE(t)), t)
ReadBE(bs, t) == Scalar(Combine(bs, ShiftsBE(t)), t)

\* The text is read as a long and cut to 32 bits, or its share of them, before
\* its range is checked.
Power(k) == 2 ^ (ByteBits * k)
Half(k)  == Power(k) \div 2
AsSigned(k, bytes)   == ((k + Half(bytes)) % Power(bytes)) - Half(bytes)
AsUnsigned(k, bytes) == k % Power(bytes)

Checked(t, k) ==
  IF t \in Signed THEN -Half(Width(t)) <= k /\ k < Half(Width(t)) ELSE k < Power(Width(t))

ReadAscii(k, t) ==
  LET v == IF t \in Signed THEN AsSigned(k, 4) ELSE AsUnsigned(k, 4)
  IN  IF Checked(t, v) THEN [status |-> "read", number |-> v]
      ELSE SyntaxError

Init ==
  /\ format \in Formats /\ result = Pending /\ cast = NoCast
  /\ \/ format # "ascii" /\ type \in Types /\ number = 0
        /\ raw \in TupleOf(RawBytes, Width(type))
     \/ format = "ascii" /\ type \in Signed \cup Unsigned
        /\ number \in Numbers /\ raw = <<>>

ReadScalar ==
  /\ result = Pending
  /\ result' = CASE format = "ascii" -> ReadAscii(number, type)
                 [] format = "le" -> ReadLE(raw, type)
                 [] format = "be" -> ReadBE(raw, type)
  /\ UNCHANGED <<format, type, raw, number, cast>>

-----------------------------------------------------------------------------
(* Casts.                                                                  *)

Word32 == IF format = "ascii" THEN AsUnsigned(result.number, 4) ELSE Weight(result.bits)
Value == IF type \in Signed THEN AsSigned(Word32, 4) ELSE Word32   \* value.i, value.u

PlyCast(to) ==
  IF to \in Signed THEN AsSigned(Value, 4)
  ELSE IF to \in Unsigned THEN AsUnsigned(Value, 4) ELSE Value

\* The denominator to which ply_cast_normalized takes v.
ScaleByMax(t, v) ==                                       \* mutant
  IF t \in Signed THEN Half(Width(t)) - 1 ELSE Power(Width(t)) - 1
Scale(t, v) ==
  IF t \in Unsigned THEN Power(Width(t)) - 1
  ELSE IF v < 0 THEN Half(Width(t)) ELSE Half(Width(t)) - 1

CastTo(to, normalized) ==
  /\ result.status = "read" /\ type \notin Floats /\ cast = NoCast
  /\ cast' = [to |-> to, normalized |-> normalized, num |-> PlyCast(to),
              den |-> IF normalized /\ to \in Floats THEN Scale(type, Value) ELSE 1]
  /\ UNCHANGED <<format, type, raw, number, result>>

Next == ReadScalar \/ \E to \in Types, normalized \in BOOLEAN : CastTo(to, normalized)
Spec == Init /\ [][Next]_vars

-----------------------------------------------------------------------------
Top(t) == Width(t) * ByteBits - 1

\* The bits of a value of the file: its bytes, the least significant first.
FileBits ==
  LET bytes == SubSeq(raw, 1, Width(type))
      order == IF format = "le" THEN bytes ELSE Reverse(bytes)
  IN  {i \in 0 .. Top(type) : i % ByteBits \in order[i \div ByteBits + 1]}

\* The integer in the file.
FileNumber ==
  IF format = "ascii" THEN number
  ELSE IF type \in Signed THEN AsSigned(Weight(FileBits), Width(type)) ELSE Weight(FileBits)

\* Where the code does not give the value of the file: int8 and int16 are joined
\* without their sign, whose consequence NormalizedInRange meets, and the bits of
\* a double are converted as if they were an integer.
Misread == format # "ascii" /\ type \in {"int8", "int16"} /\ FileNumber < 0
Converted == format # "ascii" /\ type = "float64"

\* From a binary file value.i or value.u is the number that the file has, in both
\* byte orders and with its sign, and value.f has the bits of the float.  Negative
\* values of int8 and int16, and doubles, are excepted: these are not what the file
\* has.  A number that is accepted from an ASCII file lies in the range of its type,
\* and it is the one in the file whenever that fits 32 bits; a larger one may be
\* taken for another.
ReadsFileValue ==
  result.status = "read" /\ ~Misread /\ ~Converted =>
    IF format # "ascii"
    THEN IF type = "float32" THEN result.bits = FileBits ELSE Value = FileNumber
    ELSE /\ IF type \in Signed
            THEN Value \in -Half(Width(type)) .. Half(Width(type)) - 1
            ELSE Value \in 0 .. Power(Width(type)) - 1
         /\ number \in -Half(4) .. Half(4) - 1 =>
              Value = IF type \in Signed THEN number ELSE number % Power(4)

\* A value can be cast to any type and keeps its number if value.i, or value.u, has
\* room for it; normalized it keeps its sign and lies between -1 and 1, which
\* the ends of its type are mapped to.  Misread ones do neither.
CastsKeepNumber ==
  cast # NoCast /\ ~Misread /\ FileNumber \in -Half(4) .. Power(4) - 1 =>
    IF cast.normalized /\ cast.to \in Floats
    THEN /\ -cast.den <= cast.num /\ cast.num <= cast.den
         /\ cast.num = Value /\ (type \in Unsigned => 0 <= cast.num)
         /\ type \in Signed /\ Value = -Half(Width(type)) => cast.num = -cast.den
         /\ Value = (IF type \in Signed THEN Half(Width(type)) ELSE Power(Width(type))) - 1
              => cast.num = cast.den
    ELSE FileNumber \in (CASE cast.to \in Signed -> -Half(4) .. Half(4) - 1
                          [] cast.to \in Unsigned -> 0 .. Power(4) - 1
                          [] OTHER -> IF type \in Signed THEN -Half(4) .. Half(4) - 1
                                      ELSE 0 .. Power(4) - 1)
           => cast.num = FileNumber

\* "signed integer types are normalized to a range between -1.0 and 1.0, and
\* unsigned integer types are normalized to a range between 0.0 and 1.0"
NormalizedInRange ==
  cast.normalized /\ cast.to \in Floats =>
    /\ cast.num <= cast.den
    /\ (IF type \in Signed THEN -cast.den ELSE 0) <= cast.num
=============================================================================
