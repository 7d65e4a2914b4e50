-------------------------- MODULE ArgumentsTransfer --------------------------
(***************************************************************************)
(* A client writes arguments with a Writer, call by call, finishes them,   *)
(* and then reads them back with a Reader: directly, skipping the types of *)
(* empty arrays, from data that arrives byte by byte, or by copying them   *)
(* into a second Writer with Arguments::copyOneElement                     *)
(* (src/serialization/arguments.cpp).                                      *)
(*                                                                         *)
(* Every value written is a different one.  written and seen record what   *)
(* the client wrote and read, without the contents of empty arrays, which  *)
(* have types but no values; skipped holds, for each aggregate that is     *)
(* being read, the reader that skipCurrentElement would have given.        *)
(***************************************************************************)
EXTENDS ArgumentsWriter

CONSTANT Scripts     \* [calls, max]: what a client may call, and how often

VARIABLES script, w, written,            \* writing
          args, session, r, seen, skipped,
          copy                           \* the second writer

vars == <<script, w, written, args, session, r, seen, skipped, copy>>
writing == <<script, w, written>>
reading == <<session, r, seen, skipped, copy>>

In == INSTANCE ArgumentsReader WITH MaxArrayBytes <- MaxArrayLength

Init ==
    /\ script \in Scripts
    /\ w = NewWriter
    /\ written = <<>>
    /\ args = NoArguments
    /\ session = "none"
    /\ r = In!NewReader(NoArguments, <<>>)
    /\ seen = <<>>
    /\ skipped = <<>>
    /\ copy = NewWriter

(***************************************************************************)
(* Writing.                                                                *)
(***************************************************************************)
Event(what, value) == [what |-> what, value |-> value]

\* The values of this run: the number of calls left makes each one unique.
Value(type) ==
    LET k == script.max
    IN  CASE type = STRING_ -> [i \in 1..(k % 3) |-> 96 + k]
          [] type = SIGNATURE -> <<ARRAY, BYTE>>
          [] type = BOOLEAN_ -> k % 2
          [] OTHER -> 10 + k

\* The client makes one call: the writer becomes next, and events are logged
\* unless they are inside an empty array.
Call(name, next, events) ==
    /\ session = "none" /\ w.state # "InvalidData"
    /\ name \in script.calls /\ script.max > 0
    /\ script' = [script EXCEPT !.max = @ - 1]
    /\ w' = next
    /\ written' = written \o events
    /\ UNCHANGED <<args, reading>>

Outside(writer, event) == IF writer.nil = 0 THEN <<event>> ELSE <<>>

ClientWrites(name, type) ==
    Call(name, Write(w, type, Value(type)),
         Outside(w, Event(name, IF type \in Strings THEN Value(type) ELSE <<Value(type)>>)))
ClientBegins(name, next) == Call(name, next, Outside(w, Event(name, <<>>)))
ClientEnds(name, next) == Call(name, next, Outside(next, Event(name, <<>>)))

WriteByte == ClientWrites("byte", BYTE)
WriteInt16 == ClientWrites("int16", INT16)
WriteBoolean == ClientWrites("boolean", BOOLEAN_)
WriteUint32 == ClientWrites("uint32", UINT32)
WriteUint64 == ClientWrites("uint64", UINT64)
WriteUnixFd == ClientWrites("fd", UNIX_FD)
WriteText == ClientWrites("string", STRING_)
WriteSignature == ClientWrites("signature", SIGNATURE)

BeginsArray(isEmpty) ==
    /\ isEmpty => "empty" \in script.calls
    /\ ClientBegins("array", BeginArrayOrDict(w, "BeginArray", isEmpty))
BeginsDict(isEmpty) ==
    /\ isEmpty => "empty" \in script.calls
    /\ ClientBegins("dict", BeginArrayOrDict(w, "BeginDict", isEmpty))
BeginsStruct == ClientBegins("struct", BeginStruct(w))
BeginsVariant == ClientBegins("variant", BeginVariant(w))
RestartsArray == Call("empty", RestartEmptyArray(w, "BeginArray"), <<>>)
RestartsDict == Call("empty", RestartEmptyArray(w, "BeginDict"), <<>>)
EndsArray == ClientEnds("array", EndArray(w))
EndsDict == ClientEnds("dict", EndDict(w))
EndsStruct == ClientEnds("struct", EndStruct(w))
EndsVariant == ClientEnds("variant", EndVariant(w))

WritesPrimitiveArray(type, length) ==
    LET element == Value(type)
        bytes   == FlattenSeq([i \in 1..length |-> LittleEndian(element + i, Alignment(type))])
        name    == IF type = BYTE THEN "byte" ELSE "uint64"
    IN  Call(name \o " array", WritePrimitiveArray(w, type, bytes),
             IF w.nil > 0 THEN <<>>
             ELSE <<Event("array", <<>>)>>
                  \o [i \in 1..length |-> Event(name, <<element + i>>)]
                  \o <<Event("array", <<>>)>>)

\* finish() with an open aggregate only puts the writer into its error state.
Finishes ==
    /\ session = "none" /\ w.state # "InvalidData"
    /\ args' = Finish(w)
    /\ IF args'.ok
       THEN /\ session' \in {"types", "skipping", "pieces", "copying"}
            /\ r' = In!BeginRead(args', IF session' = "pieces" THEN <<>> ELSE args'.data)
            /\ w' = NewWriter
       ELSE /\ w' = Fail(w, "CannotEndArgumentsHere")
            /\ UNCHANGED <<session, r>>
    /\ UNCHANGED <<script, written, seen, skipped, copy>>

(***************************************************************************)
(* Reading.  Each step reads or enters or leaves one element; when the     *)
(* session copies, the same step writes it again.                          *)
(***************************************************************************)
Copying == session = "copying"

Step(next, events, copied) ==
    /\ r' = next
    /\ seen' = seen \o events
    /\ copy' = IF Copying THEN copied ELSE copy
    /\ UNCHANGED <<writing, args, session>>

NameOf(type) ==
    CASE type = BYTE -> "byte" [] type = INT16 -> "int16" [] type = BOOLEAN_ -> "boolean"
      [] type = UINT32 -> "uint32" [] type = UINT64 -> "uint64" [] type = UNIX_FD -> "fd"
      [] type = STRING_ -> "string" [] type = SIGNATURE -> "signature"

ReadsValue ==
    /\ r.state \in {"Primitive", "String"}
    /\ LET type == In!Letter(r, r.pos) IN
       Step(In!Read(r),
            Outside(r, Event(NameOf(type), IF r.state = "String" THEN r.value ELSE <<r.value>>)),
            Write(copy, type, r.value))
    /\ UNCHANGED skipped

Enters(name, next, copied) ==
    /\ Step(next, Outside(r, Event(name, <<>>)), copied)
    /\ skipped' = Append(skipped, In!SkipCurrentElement(r))
Leaves(name, next, copied) ==
    /\ Step(next, Outside(next, Event(name, <<>>)), copied)
    /\ skipped' = Front(skipped)

EntersStruct == r.state = "BeginStruct" /\ Enters("struct", In!BeginReadingStruct(r), BeginStruct(copy))
LeavesStruct == r.state = "EndStruct" /\ Leaves("struct", In!EndReadingStruct(r), EndStruct(copy))
EntersVariant ==
    r.state = "BeginVariant" /\ Enters("variant", In!BeginReadingVariant(r), BeginVariant(copy))
LeavesVariant ==
    r.state = "EndVariant" /\ Leaves("variant", In!EndReadingVariant(r), EndVariant(copy))

EntersArray ==
    /\ r.state \in {"BeginArray", "BeginDict"}
    /\ ~(Copying /\ In!PeekPrimitiveArray(r))
    /\ LET next == In!BeginReadingArray(r, r.state, session = "skipping")
       IN  Enters(IF r.state = "BeginDict" THEN "dict" ELSE "array", next,
                  BeginArrayOrDict(copy, r.state, next.nil > 0))
CopiesPrimitiveArray ==
    /\ Copying /\ In!PeekPrimitiveArray(r)
    /\ Step(In!ReadPrimitiveArray(r), <<>>,
            WritePrimitiveArray(copy, In!Letter(r, r.pos + 1), In!PrimitiveArrayBytes(r)))
    /\ UNCHANGED skipped
LeavesArray == r.state = "EndArray" /\ Leaves("array", In!EndReadingArray(r), EndArray(copy))
LeavesDict == r.state = "EndDict" /\ Leaves("dict", In!EndReadingDict(r), EndDict(copy))

DataArrives ==
    /\ session = "pieces" /\ r.state = "NeedMoreData" /\ Len(r.data) < Len(args.data)
    /\ r' = In!ReplaceData(r, Cut(args.data, Len(r.data) + 1))
    /\ UNCHANGED <<writing, args, session, seen, skipped, copy>>

Next ==
    \/ WriteByte \/ WriteInt16 \/ WriteBoolean \/ WriteUint32 \/ WriteUint64
    \/ WriteUnixFd \/ WriteText \/ WriteSignature
    \/ \E isEmpty \in BOOLEAN : BeginsArray(isEmpty) \/ BeginsDict(isEmpty)
    \/ RestartsArray \/ RestartsDict \/ EndsArray \/ EndsDict
    \/ BeginsStruct \/ EndsStruct \/ BeginsVariant \/ EndsVariant
    \/ \E type \in {BYTE, UINT64}, length \in {0, 2} : WritesPrimitiveArray(type, length)
    \/ Finishes
    \/ ReadsValue \/ EntersStruct \/ LeavesStruct \/ EntersVariant \/ LeavesVariant
    \/ EntersArray \/ CopiesPrimitiveArray \/ LeavesArray \/ LeavesDict \/ DataArrives

Spec == Init /\ [][Next]_vars

(***************************************************************************)
(* Properties.                                                             *)
(***************************************************************************)
\* The writer never writes past the memory it has reserved, neither call by
\* call nor when it moves queued data (reserveData and its callers).
WritesStayInBuffer == Len(w.data) <= w.capacity /\ Len(copy.data) <= copy.capacity

\* When every aggregate is closed nothing of one is left: no empty array is
\* counted, no data is queued for a variant, and the current signature is the
\* main one (the assertions of finish()).
ClosedIsClean ==
    w.state # "InvalidData" /\ Total(w.nest) = 0 =>
        w.nil = 0 /\ w.stack = <<>> /\ ~InsideVariant(w) /\ w.sigAt = 1

\* What a Writer finished a Reader accepts to the end, also when the data
\* arrives byte by byte, and it reads the values that were written.
RoundTrip ==
    /\ r.state # "InvalidData"
    /\ r.state = "NeedMoreData" => session = "pieces" /\ Len(r.data) < Len(args.data)
    /\ r.state = "Finished" /\ ~Copying => seen = written

\* Copying element by element, primitive arrays in one piece, gives the same
\* signature, the same bytes and the same file descriptors.
CopyIsFaithful == r.state = "Finished" /\ Copying => Finish(copy) = args

\* Leaving an aggregate after reading through it puts the reader where
\* skipping the aggregate at its start would have put it.
SkippingIsReading ==
    [][ skipped # <<>> /\ skipped' = Front(skipped) /\ session # "pieces"
          => [r' EXCEPT !.value = 0] = [Last(skipped) EXCEPT !.value = 0] ]_vars
=============================================================================
