----------------------------- MODULE PlyHeader -----------------------------
(***************************************************************************)
(* ply_process_header of tom_ply.h: it reads the header of a file line by  *)
(* line through a buffer of PLY_MIN_BUFFER_CAPACITY bytes at the bottom of *)
(* the memory the program supplies, and stores what it learns in blocks    *)
(* that ply_reserve takes from the top of it.  The accessors look those    *)
(* descriptions up.  Module PlyStream goes on with the body.               *)
(***************************************************************************)
EXTENDS PlyFile, FiniteSetsExt

CONSTANTS
  LongNames,     \* names of PLY_MAX_NAME chars and more, to what is kept of them
  MinBuffer,     \* PLY_MIN_BUFFER_CAPACITY, in cells
  Alignment,     \* 16, a power of 2
  ElementSize,   \* sizeof (struct ply_element)
  PropertySize,  \* sizeof (struct ply_property)
  MemorySizes    \* what ply_parser_set_memory may be told

Magic == 4       \* the length of "ply\n"

ASSUME HeaderAssumption ==
  /\ {MinBuffer, Alignment, ElementSize, PropertySize} \subseteq Nat \ {0}
  /\ MinBuffer % Alignment = 0 /\ Magic <= MinBuffer
  /\ \A name \in DOMAIN LongNames : LongNames[name] \in Words \ DOMAIN LongNames
  /\ \A m \in MemorySizes : m \in Nat /\ MinBuffer <= m   \* else Start reads too far

VARIABLES
  file, body,   \* the input
  fullReads,    \* does its callback return all it is asked for, if there is?
  memorySize,
  next,         \* how many lines of the header were parsed
  fill,         \* ply->bufferFill
  format,       \* ply->format
  elements,     \* the list at ply->elements, with the properties of each
  memoryBreak,
  blocks,       \* what is reserved: [base, size]
  pc
setup == <<file, body, fullReads, memorySize>>
learnt == <<format, elements, memoryBreak, blocks>>
headerVars == <<setup, next, fill, learnt, pc>>

AlignDown(n) == n - (n % Alignment)
SizeOf(ls) == FoldLeft(LAMBDA n, l : n + l.size, 0, ls)
Lines == file.lines
\* Cells of the file that the callback has not returned while the header is read.
Unread == SizeOf(SubSeq(Lines, next + 1, Len(Lines))) + Len(body) - fill

NewInput ==
  /\ file' \in LaterFiles /\ body' \in Bodies(file') /\ fullReads' \in BOOLEAN
  /\ next' = 0 /\ fill' = 0 /\ pc' = "start"

HeaderInit ==
  /\ file \in Files /\ body \in Bodies(file) /\ fullReads \in BOOLEAN
  /\ memorySize \in MemorySizes
  /\ next = 0 /\ fill = 0
  /\ format = "unknown" /\ elements = <<>>
  /\ memoryBreak = AlignDown(memorySize) /\ blocks = {}
  /\ pc = "start"

\* What the callback may return if it is asked for `space` cells of `left`.
Reads(space, left) ==
  LET most == Min({space, left}) IN IF fullReads THEN {most} ELSE 0 .. most

-----------------------------------------------------------------------------
ForgetKeepElements ==                                     \* mutant
  /\ format' = "unknown" /\ UNCHANGED elements
  /\ memoryBreak' = AlignDown(memorySize) /\ blocks' = {}
Forget ==
  /\ format' = "unknown" /\ elements' = <<>>
  /\ memoryBreak' = AlignDown(memorySize) /\ blocks' = {}

\* The parser is reset, and the first read must return "ply\n".
Start ==
  /\ pc = "start"
  /\ Forget
  /\ \E r \in Reads(MinBuffer, Magic + Unread) :
       IF r < Magic \/ Lines = <<>> THEN fill' = r /\ pc' = "error"
       ELSE fill' = r - Magic /\ pc' = "lines"
  /\ UNCHANGED <<setup, next>>

StartFails ==
  /\ pc = "start"
  /\ Forget
  /\ fill' = 0 /\ pc' = "failed"
  /\ UNCHANGED <<setup, next>>

ReserveBelow(size) ==                                     \* mutant
  /\ memoryBreak' = memoryBreak - AlignDown(size)
  /\ blocks' = blocks \cup {[base |-> memoryBreak', size |-> size]}
Reserve(size) ==
  /\ memoryBreak' = AlignDown(memoryBreak - size)
  /\ blocks' = blocks \cup {[base |-> memoryBreak', size |-> size]}
MayReserveLess(size) == memoryBreak >= MinBuffer + Alignment + size   \* mutant
MayReserve(size) == memoryBreak >= MinBuffer + size

\* The rest of the buffer is filled, and the line is there to its newline.
Line == Lines[next + 1]
HeaderSpace == MinBuffer - fill
GetLine ==
  \E r \in Reads(HeaderSpace, Unread) :
    /\ fill + r >= Line.size
    /\ next' = next + 1 /\ fill' = fill + r - Line.size

\* ply_next_token: the k-th word of the line, or NULL.
NULL == ""
Word(k) == IF k <= Len(Line.words) THEN Line.words[k] ELSE NULL
AtLine(keyword) == pc = "lines" /\ next < Len(Lines) /\ Word(1) = keyword
GoOn(good, words) == pc' = IF good /\ Word(words + 1) = NULL THEN "lines" ELSE "error"

FormatLine ==
  /\ AtLine("format") /\ GetLine
  /\ format' = IF Word(2) \in FormatWords THEN Word(2) ELSE format
  /\ GoOn(Word(2) \in FormatWords /\ Word(3) = "1.0", 3)
  /\ UNCHANGED <<setup, elements, memoryBreak, blocks>>

\* strncpy into a name of PLY_MAX_NAME chars.
Kept(name) == IF name \in DOMAIN LongNames THEN LongNames[name] ELSE name

\* The block is reserved before the line is examined, and linked before the
\* line is known to have no further words.
ElementLine ==
  LET good == Word(2) # NULL /\ Word(3) \in DOMAIN Numerals
  IN  /\ AtLine("element") /\ GetLine
      /\ MayReserve(ElementSize) /\ Reserve(ElementSize)
      /\ elements' = IF ~good THEN elements
           ELSE Append(elements, [name |-> Kept(Word(2)), tuples |-> Numerals[Word(3)],
                                  props |-> <<>>])
      /\ GoOn(good, 3)
      /\ UNCHANGED <<setup, format>>

AddProperty(e, p) == [e EXCEPT !.props = Append(@, p)]

PropertyLine ==
  LET list == Word(2) = "list"
      k    == IF list THEN 4 ELSE 2     \* where the type of the items is
      good == /\ list => IsType(Word(3)) /\ TypeOf(Word(3)) \notin Floats
              /\ IsType(Word(k)) /\ Word(k + 1) # NULL
  IN  /\ AtLine("property") /\ GetLine
      /\ elements # <<>>
      /\ MayReserve(PropertySize) /\ Reserve(PropertySize)
      /\ elements' = IF ~good THEN elements
           ELSE [elements EXCEPT ![Len(elements)] = AddProperty(@,
                  [name |-> Kept(Word(k + 1)), list |-> list, type |-> TypeOf(Word(k)),
                   lengthType |-> IF list THEN TypeOf(Word(3)) ELSE "int8"])]
      /\ GoOn(good, k + 1)
      /\ UNCHANGED <<setup, format>>

PropertyOfNothing ==
  /\ AtLine("property") /\ GetLine
  /\ elements = <<>>
  /\ pc' = "error"
  /\ UNCHANGED <<setup, learnt>>

\* ply_reserve returns NULL, and the block is written to all the same: its name, or
\* its isList or type, unless the line ends before, or names no type.
WritesBlock ==
  /\ Word(2) # NULL
  /\ Word(1) = "property" => Word(2) = "list" \/ IsType(Word(2))
NoMemory ==
  /\ \/ AtLine("element") /\ ~MayReserve(ElementSize)
     \/ AtLine("property") /\ elements # <<>> /\ ~MayReserve(PropertySize)
  /\ GetLine
  /\ pc' = IF WritesBlock THEN "crashed" ELSE "error"
  /\ UNCHANGED <<setup, learnt>>

OtherLine ==
  /\ pc = "lines" /\ next < Len(Lines)
  /\ Word(1) \notin {"format", "element", "property"}
  /\ GetLine
  /\ pc' = CASE Word(1) = "comment" -> "lines" [] Word(1) = "end_header" -> "accepted"
             [] OTHER -> "error"
  /\ UNCHANGED <<setup, learnt>>

NoNewlineYet ==                                           \* mutant
  /\ pc = "lines"
  /\ \E r \in Reads(HeaderSpace, Unread) :
       /\ next < Len(Lines) => fill + r < Line.size
       /\ fill' = fill + r
  /\ UNCHANGED <<setup, next, learnt, pc>>

\* No newline in the buffer after one read.  (The body has none before its first
\* value.)  strchr goes on to a NUL in what is behind the buffer; if there is
\* a newline before that, a line of left over bytes is parsed.
NoNewline ==
  /\ pc = "lines"
  /\ \E r \in Reads(HeaderSpace, Unread) :
       /\ next < Len(Lines) => fill + r < Line.size
       /\ fill' = fill + r
  /\ pc' \in {"error", "stale line"}
  /\ UNCHANGED <<setup, next, learnt>>

LineFails ==
  /\ pc = "lines"
  /\ pc' = "failed"
  /\ UNCHANGED <<setup, next, fill, learnt>>

ProcessHeader ==
  \/ Start \/ FormatLine \/ ElementLine \/ PropertyLine \/ PropertyOfNothing
  \/ NoMemory \/ OtherLine \/ NoNewline
HeaderNext == ProcessHeader \/ StartFails \/ LineFails

-----------------------------------------------------------------------------
(* The accessors.  Indices count from 0, and None is NULL.                 *)

None == <<>>
GetElement(i) == IF i < Len(elements) THEN elements[i + 1] ELSE None
GetProperty(e, i) == IF i < Len(e.props) THEN e.props[i + 1] ELSE None

FirstNamed(ds, name) ==
  LET found == {i \in 1 .. Len(ds) : ds[i].name = name}
  IN  IF found = {} THEN None ELSE ds[Min(found)]
GetElementByName(name) == FirstNamed(elements, name)
GetPropertyByName(e, name) == FirstNamed(e.props, name)

-----------------------------------------------------------------------------
CellsIn(b) == b.base .. b.base + b.size - 1

\* The descriptions are aligned, keep apart from each other, and lie above
\* memoryBreak, which stays above the buffer the header is read through; there
\* is one for each element and property.
BlocksApart ==
  /\ MinBuffer <= memoryBreak
  /\ \A b \in blocks :
       /\ b.base % Alignment = 0
       /\ memoryBreak <= b.base /\ b.base + b.size <= memorySize
       /\ \A d \in blocks \ {b} : CellsIn(b) \cap CellsIn(d) = {}
  /\ pc = "lines" =>
       Cardinality(blocks) =
         Cardinality(UNION {{e} \X (0 .. Len(elements[e].props)) : e \in 1 .. Len(elements)})

\* Once a header is accepted, the accessors tell what the file says, in its
\* order and every property under its element.  A name leads to the first that
\* has it, but one of PLY_MAX_NAME chars or more was cut and leads nowhere.
Told(ds) == [i \in 1 .. Len(ds) |-> [ds[i] EXCEPT !.name = Kept(@)]]
FindsByName(ds, Get(_)) ==
  \A i \in 1 .. Len(ds) :
    LET name == ds[i].name
        first == Min({k \in 1 .. Len(ds) : ds[k].name = name})
    IN  IF name \in DOMAIN LongNames THEN Get(name) = None
        ELSE name \in Range(LongNames) \/ Get(name) = Told(ds)[first]
HeaderDescribed ==
  pc \in {"accepted", "advance", "done"} =>
    /\ format = file.format
    /\ LET es == [e \in 1 .. Len(file.elements) |->
                    [file.elements[e] EXCEPT !.props = Told(@)]]
       IN  /\ \A i \in 0 .. Len(es) - 1 :
                /\ GetElement(i) = Told(es)[i + 1]
                /\ GetProperty(GetElement(i), Len(es[i + 1].props)) = None
                /\ FindsByName(file.elements[i + 1].props,
                               LAMBDA n : GetPropertyByName(GetElement(i), n))
           /\ GetElement(Len(es)) = None
           /\ FindsByName(es, GetElementByName)

AlignUp(n) == -AlignDown(-n)
SpaceNeeded(n) ==
  LET Number(word) == Cardinality({i \in 1 .. n : Keyword(Lines[i]) = word})
  IN  MinBuffer + Number("element") * AlignUp(ElementSize)
                + Number("property") * AlignUp(PropertySize)
=============================================================================
