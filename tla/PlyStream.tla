----------------------------- MODULE PlyStream -----------------------------
(***************************************************************************)
(* Reading PLY files with tom_ply.h, one after the other on one parser:    *)
(* after the header of module PlyHeader, ply_process_with_callbacks walks  *)
(* over the elements, tuples and properties and asks the streaming         *)
(* functions for one value after the other.  These keep a cursor of their  *)
(* own over the same elements, and a buffer, which begins with what the    *)
(* header left in it and is refilled from the read callback between two    *)
(* tuples.                                                                 *)
(*                                                                         *)
(* The buffer holds `fill` cells of the body after the first `dropped`.    *)
(***************************************************************************)
EXTENDS PlyHeader

VARIABLES
  dropped, offset,             \* offset: ply->bufferOffset
  element, tuple, property,    \* the cursor of the parser, property 0 for NULL
  at,                          \* how many values the handler's loops are done with
  items,                       \* items of the current list still to be read
  last                         \* the last value: where the handler takes it to be
                               \* from, and where in the file it is from
buffer == <<dropped, fill, offset>>
cursor == <<element, tuple, property>>
loop   == <<at, items>>
headerOnly == <<setup, next, learnt>>
streamVars == <<dropped, offset, cursor, loop, last>>
vars == <<headerVars, streamVars>>

Nothing == [told |-> <<>>, was |-> <<>>]

Init ==
  /\ HeaderInit
  /\ dropped = 0 /\ offset = 0
  /\ element = 0 /\ tuple = -1 /\ property = 0
  /\ at = 0 /\ items = 0 /\ last = Nothing

-----------------------------------------------------------------------------
Tuples(e) == elements[e].tuples
Props(e)  == elements[e].props
CellAt(o) == body[dropped + o + 1]

\* The loops of ply_process_with_callbacks, as the values they ask for.
Loops ==
  FlattenSeq([e \in 1 .. Len(elements) |->
    FlattenSeq([t \in 1 .. Tuples(e) |-> [p \in 1 .. Len(Props(e)) |-> <<e, t - 1, p>>]])])
Asked == Loops[at + 1]

ToNext(n) ==
  /\ at' = n
  /\ pc' = IF n = Len(Loops) THEN "done" ELSE "advance"

\* ply_process_with_callbacks and its ply_start_streaming
StartStreaming ==
  /\ pc = "accepted"
  /\ element' = 0 /\ tuple' = -1 /\ property' = 0 /\ offset' = 0
  /\ ToNext(0)
  /\ UNCHANGED <<headerOnly, dropped, fill, items, last>>

\* The buffer holds `held` cells, and `gone` were dropped from it.
StreamReads(held, gone) == Reads(memoryBreak - held, Len(body) - gone - held)

\* The first call of ply_advance.
AdvanceFirst ==
  /\ pc = "advance" /\ property = 0
  /\ element' = 1 /\ tuple' = 0
  /\ property' = IF Props(1) = <<>> THEN 0 ELSE 1
  /\ \E n \in StreamReads(fill, dropped) : fill' = fill + n
  /\ pc' = IF property' = 0 THEN "crashed" ELSE "read"
  /\ UNCHANGED <<headerOnly, dropped, offset, loop, last>>

AdvanceInTuple ==
  /\ pc = "advance" /\ property > 0 /\ property < Len(Props(element))
  /\ property' = property + 1
  /\ pc' = "read"
  /\ UNCHANGED <<headerOnly, buffer, element, tuple, loop, last>>

\* The next tuple, or the first one of the next element, which may have neither
\* tuples nor properties.
FollowingLate(e, t) ==                                    \* mutant
  IF t < Tuples(e) THEN <<e, t + 1>> ELSE <<(e % Len(elements)) + 1, 0>>
Following(e, t) ==
  IF t + 1 < Tuples(e) THEN <<e, t + 1>> ELSE <<(e % Len(elements)) + 1, 0>>
NextTuple ==
  /\ element' = Following(element, tuple)[1] /\ tuple' = Following(element, tuple)[2]
  /\ property' = IF Props(element') = <<>> THEN 0 ELSE 1

\* What was read is dropped from the buffer, and the callback fills the rest.
RefillNothing(used) ==                                    \* mutant
  /\ dropped' = dropped + used /\ fill' = fill - used /\ offset' = 0
Refill(used) ==
  /\ dropped' = dropped + used
  /\ \E n \in StreamReads(fill - used, dropped + used) : fill' = fill - used + n
  /\ offset' = 0

AtTupleEnd == pc = "advance" /\ property > 0 /\ property = Len(Props(element))
Ascii == format = "ascii"
NewlineAt == offset < fill /\ CellAt(offset) = Newline

\* The caller reads currentProperty->isList, which may be NULL then.
AdvanceToNextTuple ==
  /\ AtTupleEnd
  /\ Ascii => NewlineAt
  /\ NextTuple
  /\ Refill(IF Ascii THEN offset + 1 ELSE offset)
  /\ pc' = IF property' = 0 THEN "crashed" ELSE "read"
  /\ UNCHANGED <<headerOnly, loop, last>>

\* PLY_ERR_SYNTAX: there is no newline, or what is behind bufferFill is not one.
NoTupleEnd ==
  /\ AtTupleEnd /\ Ascii /\ ~NewlineAt
  /\ NextTuple
  /\ pc' = "error"
  /\ UNCHANGED <<headerOnly, buffer, loop, last>>

\* PLY_ERR_READ: the read callback fails.
RefillFails ==
  /\ pc = "advance"
  /\ \/ property = 0 /\ element' = 1 /\ tuple' = 0 /\ property' = Min({1, Len(Props(1))})
        /\ UNCHANGED <<dropped, fill, offset>>
     \/ AtTupleEnd /\ (Ascii => NewlineAt) /\ NextTuple
        /\ LET used == IF Ascii THEN offset + 1 ELSE offset
           IN  dropped' = dropped + used /\ fill' = fill - used /\ offset' = 0
  /\ pc' = "failed"
  /\ UNCHANGED <<headerOnly, loop, last>>

-----------------------------------------------------------------------------
\* The value of `width` cells at bufferOffset, or what was left in the memory
\* behind bufferFill: nothing checks that so much was read.
Stale(width) == offset + width > fill

\* A number in ASCII is read up to what stands behind it, which may go on with it.
RunsOn(width) == Stale(width) \/ (Ascii /\ offset + width = fill)

Prop == Props(element)[property]
Take(width) ==
  /\ offset' = offset + width
  /\ last' = [told |-> Asked, was |-> CellAt(offset).from]

\* The cursor is at another property than the loops.  Its width, and what is
\* read, are as they come; the model does not follow it.
Astray == pc = "read" /\ cursor # Asked
ReadAstray ==
  /\ Astray
  /\ pc' = "astray"
  /\ UNCHANGED <<headerOnly, buffer, cursor, loop, last>>

ReadStale ==
  /\ \/ /\ pc = "read" /\ format # "unknown"
        /\ RunsOn(Width(IF Prop.list THEN Prop.lengthType ELSE Prop.type))
     \/ AtTupleEnd /\ Ascii /\ offset >= fill
     \/ pc = "list" /\ RunsOn(Width(Prop.type))
  /\ ~Astray
  /\ pc' = "stale"
  /\ UNCHANGED <<headerOnly, buffer, cursor, loop, last>>

\* PLY_ERR_INTERNAL: the header had no format line.
NoFormat ==
  /\ pc = "read" /\ ~Astray
  /\ format = "unknown"
  /\ pc' = "error"
  /\ UNCHANGED <<headerOnly, buffer, cursor, loop, last>>

NoneLeftEarly(k) == k <= 1                                \* mutant
NoneLeft(k) == k = 0

ReadScalar ==
  /\ pc = "read" /\ ~Astray /\ format # "unknown"
  /\ ~Prop.list /\ ~Stale(Width(Prop.type))
  /\ Take(Width(Prop.type))
  /\ ToNext(at + 1)
  /\ UNCHANGED <<headerOnly, dropped, fill, cursor, items>>

ReadLength ==
  /\ pc = "read" /\ ~Astray /\ format # "unknown"
  /\ Prop.list /\ ~Stale(Width(Prop.lengthType))
  /\ Take(Width(Prop.lengthType))
  /\ items' = CellAt(offset).length
  /\ IF NoneLeft(items') THEN ToNext(at + 1) ELSE pc' = "list" /\ UNCHANGED at
  /\ UNCHANGED <<headerOnly, dropped, fill, cursor>>

\* ply_stream_list_item
ReadItem ==
  /\ pc = "list" /\ ~Stale(Width(Prop.type))
  /\ Take(Width(Prop.type))
  /\ items' = items - 1
  /\ IF NoneLeft(items') THEN ToNext(at + 1) ELSE UNCHANGED <<pc, at>>
  /\ UNCHANGED <<headerOnly, dropped, fill, cursor>>

\* A callback of the handler returns a negative value.
CallbackFails ==
  /\ pc \in {"advance", "read", "list"}
  /\ pc' = "failed"
  /\ UNCHANGED <<headerOnly, buffer, cursor, loop, last>>

Parse ==
  \/ StartStreaming \/ AdvanceFirst \/ AdvanceInTuple \/ AdvanceToNextTuple \/ NoTupleEnd
  \/ ReadAstray \/ ReadStale \/ NoFormat \/ ReadScalar \/ ReadLength \/ ReadItem

\* "Can be called on a struct ply_parser that has already previously been used
\* (but the input has to be reset by the user)."  Whatever became of the
\* former file, the parser keeps its cursor, its lists and its memoryBreak.
Again ==
  /\ pc \in {"accepted", "done", "error", "failed"}
  /\ NewInput
  /\ dropped' = 0 /\ at' = 0 /\ items' = 0 /\ last' = Nothing
  /\ UNCHANGED <<memorySize, learnt, offset, cursor>>

Next ==
  \/ HeaderNext /\ UNCHANGED streamVars
  \/ Parse \/ RefillFails \/ CallbackFails
  \/ Again
Spec == Init /\ [][Next]_vars

\* The program is sequential: it goes on until the function returns, and it
\* asks for the body when the header is accepted.
FairSpec == Spec /\ WF_vars(ProcessHeader /\ UNCHANGED streamVars) /\ WF_vars(Parse)

-----------------------------------------------------------------------------
Hollow(e) == Tuples(e) = 0 \/ Props(e) = <<>>

\* The handler is told the element, tuple and property that a value has in the
\* file: the cursor of the stream and the loops of ply_process_with_callbacks,
\* which advance on their own, come apart only behind an element that has no
\* tuples or no properties (the FIXME above ply_start_streaming).
ToldIsRead ==
  /\ last.told = last.was
  /\ pc = "list" => cursor = Asked
  /\ Astray \/ pc = "astray" => \E e \in 1 .. Asked[1] - 1 : Hollow(e)

\* A NULL pointer is followed only if the memory is used up, where ply_reserve
\* returns it (its header lists PLY_ERR_SPACE), or behind an element without
\* properties.  A second file finds all of the memory free.
CrashesExplained ==
  pc = "crashed" =>
    \/ Keyword(Lines[next]) # "end_header" /\ SpaceNeeded(next) > AlignDown(memorySize)
    \/ Keyword(Lines[next]) = "end_header" /\ \E e \in 1 .. Asked[1] - 1 : Props(e) = <<>>

LinesFit == \A i \in 1 .. Len(Lines) : Lines[i].size <= MinBuffer

\* Does the longest tuple of the body fit below memoryBreak?
TuplesFit ==
  \A e \in 1 .. Len(elements) : \A t \in 0 .. Tuples(e) - 1 :
    LET cells == {i \in 1 .. Len(body) : body[i].from[1] = e /\ body[i].from[2] = t}
    IN  Cardinality(cells) + (IF Ascii THEN 1 ELSE 0) <= memoryBreak

\* No value is made up of what the callback returned of it and of memory that it
\* did not fill, whatever it returns: "Up to max bytes may be read."  (With nothing
\* of the value in the buffer the callback may be at the end of the file; what
\* stands behind a number in ASCII may be without effect; and a tuple that does not
\* fit is not there with full reads either.)
NoStaleRead == pc = "stale" /\ ~Ascii /\ TuplesFit => fill <= offset

\* A well-formed file is no error if the callback returns all that it is asked
\* for, however the buffer splits it: each line of the header and each value
\* is there when it is looked for, if a line fits the least buffer and a tuple
\* fits what the header has left of the memory.  (Where the cursor goes astray,
\* the model has stopped before.)
FullReadsSuffice ==
  pc \in {"error", "stale line", "stale"} /\ fullReads /\ Readable(file) /\ LinesFit =>
    file.format = "unknown" \/ ~TuplesFit

\* A file that is parsed without error was read to its last value.
AllRead ==
  pc = "done" => \A i \in dropped + offset + 1 .. Len(body) : body[i] = Newline

\* The functions return, whatever the callback returns, unless they read what
\* was never there or go through NULL.
Busy == {"start", "lines", "advance", "read", "list"}
Returns == pc \in Busy ~> pc \notin Busy
=============================================================================
