------------------------------ MODULE PlyFile -------------------------------
(***************************************************************************)
(* The PLY files that module PlyHeader and module PlyStream read.  A line  *)
(* of a header is its words and its length with the newline, in cells.     *)
(* The body is a sequence of cells, the units of the text or of the raw    *)
(* bytes; a cell says of which value it is a part.                         *)
(***************************************************************************)
EXTENDS PlyTypes, SequencesExt, FiniteSets

CONSTANTS
  Files,        \* what may be read; see FileType
  LaterFiles,   \* bound: those that a used parser is given
  ListLengths   \* bound: how long the lists in the files may be

\* `lines` is the header after "ply\n", empty if the file does not begin with
\* that.  What it says of the body is `format` and `elements`, an element being
\* [name, tuples, props] and a property [name, list, lengthType, type]; the
\* format of a file with a malformed header is "malformed", and that of one
\* without a format line is "unknown".
Readable(f) == f.format # "malformed"

FormatWords == {"ascii", "binary_little_endian", "binary_big_endian"}
\* The numbers in a header, which strtoul reads.
Numerals ==
  [w \in {"0", "1", "2"} |-> CASE w = "0" -> 0 [] w = "1" -> 1 [] w = "2" -> 2]

Words == STRING \ {""}
HeaderLines == [words : Seq(Words), size : Nat]
PropertiesNamed(names) ==
  [name : names, list : BOOLEAN, type : Types, lengthType : Signed \cup Unsigned]
Properties == PropertiesNamed(Words)
Elements == [name : Words, tuples : Nat, props : Seq(Properties)]

SaysProperty(w, p) ==
  IF p.list
  THEN /\ Len(w) = 5 /\ w[1] = "property" /\ w[2] = "list" /\ w[5] = p.name
       /\ IsType(w[3]) /\ p.lengthType = TypeOf(w[3]) /\ IsType(w[4]) /\ p.type = TypeOf(w[4])
  ELSE /\ Len(w) = 3 /\ w[1] = "property" /\ w[3] = p.name
       /\ IsType(w[2]) /\ p.type = TypeOf(w[2]) /\ p.lengthType = "int8"
SaysElement(w, e) ==
  Len(w) = 3 /\ w[1] = "element" /\ w[2] = e.name /\ w[3] \in DOMAIN Numerals /\ e.tuples = Numerals[w[3]]
SaysFormat(w, format) ==
  format \in FormatWords /\ w = <<"format", format, "1.0">>

\* How many element lines there are up to the i-th line, and the property lines
\* up to there that follow the e-th of them.
Keyword(l) == IF l.words = <<>> THEN "" ELSE l.words[1]
ElementOf(ls, i) == Cardinality({j \in 1 .. i : Keyword(ls[j]) = "element"})
PropertyLines(ls, i, e) ==
  {j \in 1 .. i : Keyword(ls[j]) = "property" /\ ElementOf(ls, j) = e}

\* The e-th element line tells of the e-th element, and the p-th property line
\* after it of its p-th property.
Describes(ls, format, elements) ==
  /\ ls # <<>> /\ Keyword(ls[Len(ls)]) = "end_header"
  /\ \A i \in 1 .. Len(ls) - 1 :
       LET e == ElementOf(ls, i)
           p == Cardinality(PropertyLines(ls, i, e))
       IN  \/ Keyword(ls[i]) = "comment"
           \/ SaysFormat(ls[i].words, format)
           \/ SaysElement(ls[i].words, elements[e])
           \/ e > 0 /\ SaysProperty(ls[i].words, elements[e].props[p])
  /\ format = "unknown" \/ \E i \in 1 .. Len(ls) : Keyword(ls[i]) = "format"
  /\ Len(elements) = ElementOf(ls, Len(ls))
  /\ \A e \in 1 .. Len(elements) :
       Len(elements[e].props) = Cardinality(PropertyLines(ls, Len(ls), e))

\* Lines that no header has, whatever it is to describe; a property needs an
\* element before it.
Wrong(ls, i) ==
  LET w == ls[i].words
  IN  /\ Keyword(ls[i]) # "comment"
      /\ \A format \in FormatWords : ~SaysFormat(w, format)
      /\ ~(Len(w) = 3 /\ w[1] = "element" /\ w[3] \in DOMAIN Numerals)
      /\ ElementOf(ls, i) > 0 => \A p \in PropertiesNamed(Range(w)) : ~SaysProperty(w, p)

ASSUME FileAssumption ==
  /\ ListLengths \subseteq Nat /\ LaterFiles \subseteq Files
  /\ \A f \in Files :
       /\ f.lines \in Seq(HeaderLines)
       /\ IF Readable(f)
          THEN f.elements \in Seq(Elements) /\ Describes(f.lines, f.format, f.elements)
          ELSE \A n \in 1 .. Len(f.lines) : Keyword(f.lines[n]) = "end_header" =>
                 \E i \in 1 .. n - 1 : Wrong(f.lines, i)

Newline == [from |-> <<0, 0, 0>>, part |-> 0, length |-> 0]
Junk == <<[Newline EXCEPT !.part = 1]>>            \* after a malformed header

CellsOf(from, type, length) ==
  [k \in 1 .. Width(type) |-> [from |-> from, part |-> k, length |-> length]]

\* A list is its length and its items.
ValueCells(from, prop, length) ==
  IF ~prop.list THEN CellsOf(from, prop.type, 0)
  ELSE CellsOf(from, prop.lengthType, length)
         \o FlattenSeq([k \in 1 .. length |-> CellsOf(from, prop.type, k)])

TupleCells(f, e, t, lengths) ==
  FlattenSeq([p \in 1 .. Len(f.elements[e].props) |->
                ValueCells(<<e, t, p>>, f.elements[e].props[p], lengths[<<e, t, p>>])])
    \o (IF f.format = "ascii" THEN <<Newline>> ELSE <<>>)

Positions(f) ==
  UNION {{<<e, t, p>> : t \in 0 .. f.elements[e].tuples - 1,
                        p \in 1 .. Len(f.elements[e].props)} : e \in 1 .. Len(f.elements)}

BodyOf(f, lengths) ==
  FlattenSeq([e \in 1 .. Len(f.elements) |->
    FlattenSeq([t \in 1 .. f.elements[e].tuples |-> TupleCells(f, e, t - 1, lengths)])])

\* The bodies a file may have.
Bodies(f) ==
  IF ~Readable(f) THEN {Junk}
  ELSE LET lists == {q \in Positions(f) : f.elements[q[1]].props[q[3]].list}
       IN  {BodyOf(f, [q \in Positions(f) |-> IF q \in lists THEN l[q] ELSE 0]) :
              l \in [lists -> ListLengths]}
=============================================================================
