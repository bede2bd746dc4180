------------------------------ MODULE PlyTypes ------------------------------
(***************************************************************************)
(* The scalar types of tom_ply.h.  The descriptions of the elements and    *)
(* properties of a file, and its values, are made of them.                 *)
(***************************************************************************)
EXTENDS Integers, Sequences

\* ply_type_names, two names a type in the order of enum ply_type.
TypeNames ==
  <<"int8", "char", "uint8", "uchar", "int16", "short", "uint16", "ushort",
    "int32", "int", "uint32", "uint", "float32", "float", "float64", "double">>

Types    == {"int8", "uint8", "int16", "uint16", "int32", "uint32", "float32", "float64"}
Signed   == {"int8", "int16", "int32"}
Unsigned == {"uint8", "uint16", "uint32"}
Floats   == {"float32", "float64"}

Width(t) == CASE t \in {"int8", "uint8"} -> 1
              [] t \in {"int16", "uint16"} -> 2
              [] t \in {"int32", "uint32", "float32"} -> 4
              [] t = "float64" -> 8

\* ply_parse_type, for a word that is a type name.
TypeOf(word) ==
  LET i == CHOOSE k \in 1 .. Len(TypeNames) : TypeNames[k] = word
  IN  TypeNames[IF i % 2 = 1 THEN i ELSE i - 1]
IsType(word) == \E k \in 1 .. Len(TypeNames) : TypeNames[k] = word
=============================================================================
