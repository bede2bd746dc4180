------------------------------- MODULE MCPly -------------------------------
(* Instances of module PlyStream for TLC, in cells of 4 bytes or so.       *)
EXTENDS PlyStream

\* A header as a program would write it.
Word10(n) == CASE n = 0 -> "0" [] n = 1 -> "1" [] n = 2 -> "2"
L(words, size) == [words |-> words, size |-> size]
PropertyWords(p) ==
  IF p.list THEN <<"property", "list", p.lengthType, p.type, p.name>>
  ELSE <<"property", p.type, p.name>>
FileOf(fmt, es) ==
  [format |-> fmt, elements |-> es,
   lines |-> (IF fmt = "unknown" THEN <<>> ELSE <<L(<<"format", fmt, "1.0">>, 3)>>)
             \o <<L(<<"comment", "by", "hand">>, 8)>>
             \o FlattenSeq([e \in 1 .. Len(es) |->
                  <<L(<<"element", es[e].name, Word10(es[e].tuples)>>, 4)>>
                  \o [p \in 1 .. Len(es[e].props) |-> L(PropertyWords(es[e].props[p]), 3)]])
             \o <<L(<<"end_header">>, 2)>>]

Scalar(name, type) == [name |-> name, list |-> FALSE, lengthType |-> "int8", type |-> type]
List(name, len, type) == [name |-> name, list |-> TRUE, lengthType |-> len, type |-> type]
El(name, tuples, props) == [name |-> name, tuples |-> tuples, props |-> props]

\* Two elements, one of the same name again, and a list between scalars: at most
\* 7 cells and a newline in a tuple.
Mesh == <<El("v", 2, <<Scalar("x", "short"), Scalar("a_long_name", "uchar")>>),
          El("f", 2, <<List("i", "uint8", "int16"), Scalar("i", "ushort")>>)>>
Dots == <<El("v", 1, <<Scalar("x", "int8")>>)>>
\* A tuple that does not fit below memoryBreak.
Wide == <<El("v", 1, [p \in 1 .. 3 |-> Scalar("xyz", "double")])>>
\* Elements without tuples or without properties, before and after another.
Holes == {<<El("v", 0, <<Scalar("x", "int8")>>), Dots[1]>>,
          <<Dots[1], El("v", 1, <<>>), Dots[1]>>,
          <<El("v", 1, <<>>), Dots[1]>>,
          <<Dots[1], El("w", 0, <<Scalar("x", "int16")>>), El("u", 1, <<>>)>>}

Normal(es) == [e \in 1 .. Len(es) |-> [es[e] EXCEPT
  !.props = [p \in 1 .. Len(@) |-> [@[p] EXCEPT !.type = TypeOf(@), !.lengthType = TypeOf(@)]]]]
Good == {[FileOf(fmt, es) EXCEPT !.elements = Normal(es)] :
           fmt \in {"ascii", "binary_big_endian"}, es \in {Mesh, Dots, Wide} \cup Holes}
        \cup {FileOf("unknown", Dots)}

F == L(<<"format", "ascii", "1.0">>, 3)
E == L(<<"element", "v", "1">>, 3)
P == L(<<"property", "int8", "x">>, 3)
End == L(<<"end_header">>, 2)

\* What the parser must reject.
Malformed == {<<>>, <<F, P, End>>, <<F, E, P>>,
  <<F, E, L(<<"property", "int7", "x">>, 3), End>>,
  <<F, E, L(<<"property", "list", "float", "int8", "x">>, 5), End>>,
  <<F, E, L(<<"property", "int8", "x", "y">>, 5), End>>,
  <<L(<<"format", "ascii">>, 3), End>>,
  <<E, L(<<"element", "v">>, 2), End>>,
  <<F, L(<<"obj_info">>, 2), End>>,
  \* where the memory is used up: three elements leave room for a property
  <<F, E, E, E, L(<<"element">>, 2), End>>,
  <<F, E, E, E, P, L(<<"property">>, 2), End>>,
  <<F, E, E, E, P, L(<<"property", "list">>, 2), End>>,
  <<F, E, E, E, P, L(<<"property", "int7", "x">>, 3), End>>}

MCFiles == Good \cup {[format |-> "malformed", elements |-> <<>>, lines |-> ls] : ls \in Malformed}
MCLaterFiles == {f \in MCFiles : f.format = "ascii" /\ f.elements \in {Normal(Dots), Normal(Mesh)}}
  \cup {[format |-> "malformed", elements |-> <<>>, lines |-> <<F, E, P>>]}
MCLongNames == "a_long_name" :> "a_long"
=============================================================================
