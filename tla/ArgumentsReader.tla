--------------------------- MODULE ArgumentsReader ---------------------------
(***************************************************************************)
(* Arguments::Reader (src/serialization/argumentsreader.cpp).              *)
(*                                                                         *)
(* Like the writer, the reader is a record, and each call of its API an    *)
(* operator from a reader to a reader.  The reader is one element ahead:   *)
(* advanceState reads the next primitive into m_u (value) or prepares the  *)
(* next aggregate, and the call that names the element then uses it.       *)
(* m_signaturePosition is pos; the letter there is sig[pos + 1].  Data     *)
(* position p is data[p + 1].                                              *)
(***************************************************************************)
EXTENDS Signatures, SequencesExt

CONSTANT MaxArrayBytes          \* Arguments::MaxArrayLength

(* NewReader is the constructor up to beginRead's first advanceState.      *)
NewReader(args, data) ==
    [state |-> "NotStarted", sig |-> args.sig, pos |-> -1, data |-> data, at |-> 0,
     nil |-> 0, nest |-> NoNesting, stack |-> <<>>, fds |-> args.fds, value |-> 0]

Invalid(r) == [r EXCEPT !.state = "InvalidData"]
Letter(r, i) == At(r.sig, i + 1)
ToEnd(r) == Len(r.data) - r.at

ReadUint32(data, at) ==
    data[at + 1] + 256 * data[at + 2] + 65536 * data[at + 3] + 16777216 * (data[at + 4] % 128)
IsPaddingZero(data, from, to) == \A i \in (from + 1)..Min({to, Len(data)}) : data[i] = 0

(* Out of data: the reader is as before the call, except for its state.    *)
(* An array starts only when it is complete, so inside one it is an error. *)
OutOfData(r, now) ==
    IF now.nest.array > 0 THEN Invalid(now)
    ELSE [now EXCEPT !.state = "NeedMoreData", !.pos = r.pos, !.at = r.at]

(***************************************************************************)
(* The data of the next element; r is the reader before advanceState.      *)
(***************************************************************************)
ReadPrimitive(r, now, c) ==
    LET size == Alignment(c)
        raw  == IF size < 4 THEN now.data[now.at + 1] ELSE ReadUint32(now.data, now.at)
        read == [now EXCEPT !.at = @ + size, !.value = raw]
    IN  IF ToEnd(now) < size THEN OutOfData(r, now)
        ELSE CASE c = BOOLEAN_ /\ raw > 1 -> Invalid(read)
               [] c = UNIX_FD /\ now.nil = 0 ->
                     IF raw < Len(now.fds) THEN [read EXCEPT !.value = now.fds[raw + 1]]
                     ELSE Invalid(read)
               [] OTHER -> read

ReadString(r, now, c) ==
    LET prefix == Alignment(c)
        length == IF prefix = 1 THEN now.data[now.at + 1] ELSE ReadUint32(now.data, now.at)
        start  == now.at + prefix
        string == SubSeq(now.data, start + 1, start + length)
        read   == [now EXCEPT !.at = start + length + 1, !.value = string]
        isTerminated == now.data[start + length + 1] = 0
    IN  IF ToEnd(now) < prefix THEN OutOfData(r, now)
        ELSE IF prefix = 4 /\ length + 2 >= MaxArrayBytes THEN Invalid(now)
        ELSE IF start + length + 1 > Len(now.data)
        THEN OutOfData(r, [now EXCEPT !.at = start])
        ELSE IF /\ isTerminated
                /\ c = STRING_ => ~Contains(string, 0)
                /\ c = SIGNATURE => IsSignatureValid(string)
             THEN read ELSE Invalid(read)

PrepareVariant(r, now) ==
    LET length == now.data[now.at + 1]
        after  == now.at + length + 2
        sig    == IF now.nil > 0 THEN <<>> ELSE SubSeq(now.data, now.at + 2, now.at + 1 + length)
        inside == [now EXCEPT !.nest = Up(@, "variant"), !.value = sig,
                              !.at = IF now.nil > 0 THEN @ ELSE after]
    IN  IF now.nil = 0 /\ (ToEnd(now) < 1 \/ after > Len(now.data)) THEN OutOfData(r, now)
        ELSE IF now.nil = 0 /\ ~(now.data[after] = 0 /\ IsVariantSignatureValid(sig))
        THEN Invalid(now)
        ELSE IF WithinLimits(inside.nest, "variant") THEN inside ELSE Invalid(inside)

(* The length field and the padding before the first element, which is     *)
(* there even when the first element is not.  value becomes dataEnd.       *)
PrepareArray(r, now) ==
    LET isDict  == Letter(now, now.pos + 1) = BRACE
        length  == IF now.nil > 0 THEN 0 ELSE ReadUint32(now.data, now.at)
        content == IF isDict THEN 8 ELSE Alignment(Letter(now, now.pos + 1))
        start   == IF now.nil > 0 THEN now.at ELSE AlignUp(now.at + 4, content)
        once    == [now EXCEPT !.state = IF isDict THEN "BeginDict" ELSE "BeginArray",
                               !.at = start, !.value = start + length, !.nest = Up(@, "array")]
        inside  == IF isDict THEN [once EXCEPT !.nest = Up(@, "paren")] ELSE once
    IN  IF now.nil = 0 /\ ToEnd(now) < 4 THEN OutOfData(r, now)
        ELSE IF length > MaxArrayBytes THEN Invalid(now)
        ELSE IF now.nil = 0 /\ ~IsPaddingZero(now.data, now.at + 4, start)
        THEN Invalid(now)
        ELSE IF now.nil = 0 /\ start + length > Len(now.data) THEN OutOfData(r, now)
        ELSE IF WithinLimits(once.nest, "array") /\ (isDict => WithinLimits(inside.nest, "paren"))
        THEN inside ELSE Invalid(inside)

PrepareStruct(now) ==
    LET inside == [now EXCEPT !.nest = Up(@, "paren")]
    IN  IF WithinLimits(inside.nest, "paren") THEN inside ELSE Invalid(inside)

StateOf(c) ==
    CASE c \in Primitives -> "Primitive"
      [] c \in Strings -> "String"
      [] c = ARRAY -> "BeginArray"
      [] c = PAREN -> "BeginStruct"
      [] c = END_PAREN -> "EndStruct"
      [] c = VARIANT -> "BeginVariant"
      [] c = BRACE -> "BeginDict"
      [] c = END_BRACE -> "EndDict"
      [] OTHER -> "InvalidData"

NextType(r, here) ==
    LET c     == Letter(here, here.pos)
        start == IF here.nil > 0 THEN here.at ELSE AlignUp(here.at, Alignment(c))
        now   == [here EXCEPT !.state = StateOf(c), !.at = start]
    IN  IF now.state = "InvalidData" THEN now
        ELSE IF start > Len(here.data) THEN OutOfData(r, now)
        ELSE IF ~IsPaddingZero(here.data, here.at, start) THEN Invalid(now)
        ELSE CASE now.state = "Primitive" -> IF now.nil > 0 THEN now ELSE ReadPrimitive(r, now, c)
               [] now.state = "String" -> IF now.nil > 0 THEN now ELSE ReadString(r, now, c)
               [] now.state = "BeginStruct" -> PrepareStruct(now)
               [] now.state = "BeginVariant" -> PrepareVariant(r, now)
               [] now.state = "BeginArray" -> PrepareArray(r, now)
               [] OTHER -> now

(***************************************************************************)
(* advanceState: close the aggregate on top, start its next element, or    *)
(* go on to the next type of the signature.                                *)
(***************************************************************************)
AdvanceReader(r) ==
    LET here     == [r EXCEPT !.pos = @ + 1]
        top      == Last(r.stack)
        In(type) == r.stack # <<>> /\ top.type = type
        arrayEnd == In("BeginArray") /\ here.pos > top.begin
        dictEnd  == In("BeginDict") /\ here.pos > top.begin + 1
        more     == r.nil = 0 /\ r.at < top.dataEnd
    IN  CASE r.state = "InvalidData" -> r
          [] r.stack = <<>> /\ here.pos >= Len(r.sig) -> [here EXCEPT !.state = "Finished"]
          [] In("BeginVariant") /\ here.pos >= Len(r.sig) -> [here EXCEPT !.state = "EndVariant"]
          [] arrayEnd /\ ~more ->
                IF r.at = top.dataEnd THEN [here EXCEPT !.state = "EndArray"] ELSE Invalid(here)
          [] dictEnd /\ ~more -> [here EXCEPT !.state = "EndDict"]
          [] OTHER -> NextType(r, [here EXCEPT !.pos = IF arrayEnd \/ dictEnd THEN top.begin ELSE @,
                                               !.at = IF dictEnd THEN AlignUp(@, 8) ELSE @])

BeginRead(args, data) ==
    LET r == NewReader(args, data)
    IN  IF IsSignatureValid(args.sig) THEN AdvanceReader(r) ELSE Invalid(r)

(* replaceData: the same data with more at its end. *)
ReplaceData(r, data) ==
    LET more == [r EXCEPT !.data = data]
    IN  IF Len(data) < r.at THEN Invalid(r)
        ELSE IF r.state = "NeedMoreData" THEN AdvanceReader(more) ELSE more

(***************************************************************************)
(* The calls of the API.                                                   *)
(***************************************************************************)
Expecting(r, state, next) == IF r.state = state THEN next ELSE Invalid(r)
Enter(r, aggregate) == [r EXCEPT !.stack = Append(@, aggregate)]
Leave(r) == [r EXCEPT !.stack = Front(@)]

(* readByte() and the others return m_u and advance. *)
Read(r) == AdvanceReader(r)

BeginReadingStruct(r) ==
    Expecting(r, "BeginStruct", AdvanceReader(Enter(r, [type |-> "BeginStruct"])))
EndReadingStruct(r) ==
    Expecting(r, "EndStruct", AdvanceReader([Leave(r) EXCEPT !.nest = Down(@, "paren")]))

BeginReadingVariant(r) ==
    Expecting(r, "BeginVariant", AdvanceReader(
        [Enter(r, [type |-> "BeginVariant", sig |-> r.sig, pos |-> r.pos])
           EXCEPT !.sig = r.value, !.pos = -1]))
EndReadingVariant(r) ==
    Expecting(r, "EndVariant", AdvanceReader(
        [Leave(r) EXCEPT !.nest = Down(@, "variant"),
                         !.sig = Last(r.stack).sig, !.pos = Last(r.stack).pos]))

(* Move to the end of the type of the array.  The parser counts the        *)
(* array's own nesting again, so that is taken off before and put on after;*)
(* the mutant leaves it on.                                                *)
NestingOutside_Inside(nest, isDict) == nest
NestingOutside(nest, isDict) ==
    LET once == Down(nest, "array") IN IF isDict THEN Down(once, "paren") ELSE once

SkipArraySignature(r, isDict) ==
    LET before == NestingOutside(r.nest, isDict)
        from   == IF isDict THEN r.pos - 1 ELSE r.pos
        parsed == ParseSingleCompleteType(r.sig, from + 1, before)
        inside == Up(parsed.nest, "array")
    IN  IF ~parsed.ok THEN Invalid([r EXCEPT !.nest = parsed.nest, !.pos = from])
        ELSE [r EXCEPT !.pos = parsed.at - 2 - (IF isDict THEN 1 ELSE 0),
                       !.nest = IF isDict THEN Up(inside, "paren") ELSE inside]

BeginReadingArray(r, type, skipIfEmpty) ==
    LET isDict  == type = "BeginDict"
        here    == IF isDict THEN [r EXCEPT !.pos = @ + 1] ELSE r
        entered == [Enter(here, [type |-> type, dataEnd |-> r.value, begin |-> here.pos + 1])
                      EXCEPT !.nil = IF r.value = r.at THEN @ + 1 ELSE @]
    IN  Expecting(r, type, AdvanceReader(
            IF entered.nil > 0 /\ skipIfEmpty THEN SkipArraySignature(entered, isDict) ELSE entered))

EndReadingArray(r) ==
    Expecting(r, "EndArray", AdvanceReader(
        [Leave(r) EXCEPT !.pos = @ - 1, !.nest = Down(@, "array"),
                         !.nil = IF @ > 0 THEN @ - 1 ELSE 0]))
EndReadingDict(r) ==
    Expecting(r, "EndDict", AdvanceReader(
        [Leave(r) EXCEPT !.nest = Down(Down(@, "paren"), "array"),
                         !.nil = IF @ > 0 THEN @ - 1 ELSE 0]))

SkipArray(r, type) ==
    LET isDict  == type = "BeginDict"
        skipped == SkipArraySignature(IF isDict THEN [r EXCEPT !.pos = @ + 1] ELSE r, isDict)
        beyond  == [skipped EXCEPT !.at = r.value, !.nest = Down(@, "array")]
    IN  Expecting(r, type, AdvanceReader(
            IF isDict THEN [beyond EXCEPT !.pos = @ + 1, !.nest = Down(@, "paren")] ELSE beyond))

(* Primitive arrays are read in one piece; what must be validated, and a   *)
(* length that is not a multiple of the element's size, cannot be.         *)
IsPrimitiveArray(r) ==
    r.state = "BeginArray" /\ Letter(r, r.pos + 1) \in Primitives \ {BOOLEAN_, UNIX_FD}
PeekPrimitiveArray(r) == IsPrimitiveArray(r) /\ r.value # r.at
PrimitiveArrayBytes(r) == SubSeq(r.data, r.at + 1, r.value)
ReadPrimitiveArray(r) ==
    IF IsPrimitiveArray(r) /\ IsAligned(r.value - r.at, Alignment(Letter(r, r.pos + 1)))
    THEN AdvanceReader([r EXCEPT !.pos = @ + 1, !.at = r.value, !.state = "EndArray",
                                 !.nest = Down(@, "array")])
    ELSE r

(* skipCurrentElement walks through structs and variants and jumps over    *)
(* arrays and dicts; level counts the aggregates it has entered.           *)
SkipStep(r) ==
    CASE r.state = "BeginStruct" -> BeginReadingStruct(r)
      [] r.state = "EndStruct" -> EndReadingStruct(r)
      [] r.state = "BeginVariant" -> BeginReadingVariant(r)
      [] r.state = "EndVariant" -> EndReadingVariant(r)
      [] r.state \in {"BeginArray", "BeginDict"} -> SkipArray(r, r.state)
      [] r.state = "EndArray" -> EndReadingArray(r)
      [] r.state = "EndDict" -> EndReadingDict(r)
      [] r.state \in {"Primitive", "String"} -> Read(r)
      [] r.state = "Finished" -> r
      [] OTHER -> Invalid(r)

LevelAfter(r, level) ==
    CASE r.state \in {"BeginStruct", "BeginVariant"} -> level + 1
      [] r.state \in {"EndStruct", "EndVariant"} -> level - 1
      [] OTHER -> level

\* Goes on from r unless the element has been left, or the last step began
\* in a state from which there is no way on.
RECURSIVE SkipOn(_, _, _)
SkipOn(r, level, isOver) ==
    IF isOver THEN r
    ELSE LET after == LevelAfter(r, level)
         IN  SkipOn(SkipStep(r), after,
                    after = 0 \/ r.state \in {"Finished", "InvalidData", "NeedMoreData"})
SkipCurrentElement(r) == SkipOn(r, 0, FALSE)
=============================================================================
