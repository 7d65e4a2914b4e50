--------------------------- MODULE ArgumentsWriter ---------------------------
(***************************************************************************)
(* Arguments::Writer (src/serialization/argumentswriter.cpp).              *)
(*                                                                         *)
(* The writer is a record and each call of its API an operator from a      *)
(* writer to a writer, so that calls which call each other compose.        *)
(* Buffer positions are the code's: offset p of m_data is data[p + 1], and *)
(* Len(data) is m_dataPosition.  The buffer holds the main signature at    *)
(* its front and the signature of an open variant where it was opened,     *)
(* each with a length prefix and reserved space.  Bytes are integers in    *)
(* native (little endian) order.                                           *)
(***************************************************************************)
EXTENDS Signatures, SequencesExt

CONSTANTS MaxSignatureLength, MaxArrayLength, MaxMessageLength,
          InitialDataCapacity, SignatureReservedSpace,
          LargestSize,          \* of one queued chunk of bulk data
          LargestChar,          \* of a signed char: 127
          SignExtension         \* of a negative one, to uint32: 2^32 - 256
ASSUME SpaceAssumption ==
    /\ SignatureReservedSpace % 8 = 0 /\ SignatureReservedSpace >= MaxSignatureLength + 2
    /\ InitialDataCapacity >= SignatureReservedSpace
ASSUME CharAssumption ==
    /\ LargestChar \in 1..255
    /\ SignExtension % 256 = 0 /\ SignExtension > MaxSignatureLength + 2

Zeros(n) == [i \in 1..n |-> 0]
LittleEndian(n, size) ==
    [i \in 1..size |-> IF i > 4 THEN 0 ELSE (n \div 256 ^ (i - 1)) % 256]
Put(data, at, bytes) == [i \in DOMAIN data |->
    IF i - at \in DOMAIN bytes THEN bytes[i - at] ELSE data[i]]
Cut(data, length) == SubSeq(data, 1, length)
ZeroPad(data, to) == data \o Zeros(AlignUp(Len(data), to) - Len(data))

NewWriter ==
    [state |-> "AnyData", error |-> "none", nest |-> NoNesting, stack |-> <<>>,
     sigAt |-> 1, sigLen |-> 0, sigPos |-> 0,
     data |-> Zeros(SignatureReservedSpace), capacity |-> InitialDataCapacity,
     nil |-> 0, fds |-> <<>>, queue |-> <<>>, keepQueued |-> 0, beforeVariant |-> 0]

Fail(w, error) == [w EXCEPT !.state = "InvalidData", !.error = error]

\* Space for a padded primitive on top of what is asked for; the mutant
\* reserves exactly what is asked for.
WithSlack_Not(size) == size
WithSlack(size) == size + 16

Reserve(w, size) ==
    LET Doubled[c \in Nat] == IF WithSlack(size) <= c THEN c ELSE Doubled[2 * c]
        grown == [w EXCEPT !.capacity = Doubled[w.capacity]]
    IN  IF grown.capacity > w.capacity /\ grown.capacity > 3 * MaxMessageLength
        THEN Fail(grown, "ArgumentsTooLong") ELSE grown

(***************************************************************************)
(* Inside a variant everything written is also queued, as what it takes to *)
(* move it later: a variant's signature gets its final size only when the  *)
(* variant is closed.                                                      *)
(***************************************************************************)
InsideVariant(w) == w.queue # <<>>
Queued(kind, alignment, size) == [kind |-> kind, alignment |-> alignment, size |-> size]
MaybeQueue(w, entry) ==
    IF InsideVariant(w) THEN [w EXCEPT !.queue = Append(@, entry)] ELSE w

AlignData(w, alignment) ==
    [MaybeQueue(w, Queued("data", alignment, 0)) EXCEPT !.data = ZeroPad(@, alignment)]

AppendBulkData(w, bytes) ==
    LET n == Len(bytes)
        chunks == [i \in 1..((n + LargestSize - 1) \div LargestSize) |->
                     Queued("data", 1, IF i * LargestSize <= n THEN LargestSize ELSE n % LargestSize)]
    IN  [w EXCEPT !.data = @ \o bytes,
                  !.queue = IF InsideVariant(w) THEN @ \o chunks ELSE @]

\* The mutant sends the file descriptors of empty arrays, too.
SendsFd_Always(w, type) == type = UNIX_FD
SendsFd(w, type) == type = UNIX_FD /\ w.nil = 0

WritePrimitive(w, type, value) ==
    LET size  == Alignment(type)
        bytes == LittleEndian(IF type = UNIX_FD THEN Len(w.fds) ELSE value, size)
        sent  == [w EXCEPT !.data = ZeroPad(@, size) \o bytes,
                           !.fds = IF SendsFd(w, type) THEN Append(@, value) ELSE @]
    IN  MaybeQueue(sent, Queued("data", size, size))

WriteString(w, type, string) ==
    LET prefix   == Alignment(type)
        reserved == Reserve(w, Len(w.data) + Len(string))
        counted  == [reserved EXCEPT !.data = ZeroPad(@, prefix) \o LittleEndian(Len(string), prefix)]
    IN  IF type = SIGNATURE /\ ~IsSignatureValid(string) THEN Fail(w, "InvalidSignature")
        ELSE AppendBulkData(MaybeQueue(counted, Queued("data", prefix, prefix)), Append(string, 0))

(***************************************************************************)
(* flushQueuedData: replay the queue when the outermost variant closes,    *)
(* moving everything to the front and filling in the array lengths.  m     *)
(* holds the buffer, the read and write positions and the open arrays.     *)
(***************************************************************************)
Aligned(m, alignment) ==
    LET to == AlignUp(m.out, alignment)
    IN  [m EXCEPT !.in = AlignUp(@, alignment), !.out = to,
                  !.data = Put(@, m.out, Zeros(to - m.out))]
Moved(m, length, skip) ==
    [m EXCEPT !.data = Put(@, m.out, SubSeq(@, m.in + 1, m.in + length)),
              !.in = @ + skip, !.out = @ + length]

\* The first element's alignment is found in the entry after the length
\* field; the mutant takes array data to start at the length field's end.
ContentAlignment_None(queue, i) == 1
ContentAlignment(queue, i) == queue[i + 1].alignment

FlushOne(m, queue, i) ==
    LET e == queue[i] IN
    CASE e.kind = "data" -> Moved(Aligned(m, e.alignment), e.size, e.size)
      [] e.kind = "ArrayLengthField" ->
            LET field   == Aligned(m, e.alignment)
                content == Aligned(Moved(field, 4, 4), ContentAlignment(queue, i))
            IN  [content EXCEPT !.open = Append(@, [at |-> field.out, start |-> content.out])]
      [] e.kind = "ArrayLengthEndMark" ->
            LET array == Last(m.open)
            IN  IF m.out - array.start > MaxArrayLength THEN [m EXCEPT !.tooLong = TRUE]
                ELSE [m EXCEPT !.data = Put(@, array.at, LittleEndian(m.out - array.start, 4)),
                               !.open = Front(@)]
      [] OTHER ->                                             \* VariantSignature
            LET sig == Moved(m, m.data[m.in + 1] + 1, SignatureReservedSpace)
            IN  [sig EXCEPT !.data = Put(@, sig.out, <<0>>), !.out = @ + 1]

FlushQueuedData(w) ==
    LET start == [data |-> w.data, in |-> w.beforeVariant, out |-> w.beforeVariant,
                  open |-> <<>>, tooLong |-> FALSE]
        Replay[i \in 0..Len(w.queue)] ==
            IF i = 0 THEN start
            ELSE IF Replay[i - 1].tooLong THEN Replay[i - 1] ELSE FlushOne(Replay[i - 1], w.queue, i)
        end  == Replay[Len(w.queue)]
        done == [w EXCEPT !.data = Cut(end.data, end.out), !.queue = <<>>]
    IN  IF end.tooLong THEN Fail(done, "ArrayOrDictTooLong") ELSE done

(***************************************************************************)
(* advanceState: first the constraints of the enclosing aggregate, then    *)
(* the signature, then the data.                                           *)
(***************************************************************************)
StartsNextElement(w, newState) ==
    /\ w.stack # <<>>
    /\ LET top == Last(w.stack) IN
       \/ top.type = "BeginArray" /\ w.sigPos >= top.begin + 1 /\ newState # "EndArray"
       \/ top.type = "BeginDict" /\ w.sigPos >= top.begin + 2 /\ newState # "EndDict"

AggregateError(w, fragment, newState) ==
    IF w.stack = <<>> THEN "none" ELSE
    LET top == Last(w.stack) IN
    CASE top.type = "BeginVariant" /\ w.sigPos >= 1 /\ newState # "EndVariant" ->
            "NotSingleCompleteTypeInVariant"
      [] top.type = "BeginDict" /\ w.sigPos = top.begin /\ At(fragment, 1) \notin BasicTypes ->
            "InvalidKeyTypeInDict"
      [] OTHER -> "none"

NextElement(w) ==
    LET top == Last(w.stack)
        aligned == IF top.type = "BeginDict" THEN [AlignData(w, 8) EXCEPT !.state = "DictKey"] ELSE w
    IN  [aligned EXCEPT !.sigPos = top.begin]

(* Extend the signature at its end, or compare with the first iteration.   *)
Sign(w, fragment, isWriting) ==
    LET n == Len(fragment)
        old == SubSeq(w.data, w.sigAt + w.sigPos + 1, w.sigAt + w.sigPos + n)
        at  == [w EXCEPT !.sigPos = @ + n]
    IN  IF isWriting
        THEN [at EXCEPT !.data = Put(@, w.sigAt + w.sigPos, fragment), !.sigLen = @ + n]
        ELSE IF w.sigPos + n <= w.sigLen /\ old = fragment THEN at
        ELSE Fail(w, "TypeMismatchInSubsequentArrayIteration")

Push(w, aggregate) == [w EXCEPT !.stack = Append(@, aggregate)]

OpenStruct(w) ==
    LET inside == [w EXCEPT !.nest = Up(@, "paren")]
    IN  IF WithinLimits(inside.nest, "paren")
        THEN AlignData(Push(inside, [type |-> "BeginStruct", begin |-> w.sigPos]), 8)
        ELSE Fail(inside, "ExcessiveNesting")

CloseStruct(w) ==
    IF w.stack = <<>> THEN Fail(w, "CannotEndStructHere")
    ELSE IF Last(w.stack).type = "BeginStruct" /\ w.sigPos > Last(w.stack).begin + 1
    THEN [w EXCEPT !.nest = Down(@, "paren"), !.stack = Front(@)]
    ELSE Fail(w, "EmptyStruct")

OpenVariant(w) ==
    LET inside == [w EXCEPT !.nest = Up(@, "variant")]
        saved  == [Push(inside, [type |-> "BeginVariant", sigAt |-> w.sigAt, sigPos |-> w.sigPos])
                     EXCEPT !.data = Put(@, w.sigAt - 1, <<w.sigLen % 256>>),
                            !.beforeVariant = IF InsideVariant(w) THEN @ ELSE Len(w.data),
                            !.queue = Append(@, Queued("VariantSignature", 1, 0))]
        room   == Reserve(saved, Len(w.data) + SignatureReservedSpace)
    IN  IF WithinLimits(inside.nest, "variant")
        THEN [room EXCEPT !.data = @ \o Zeros(SignatureReservedSpace),
                          !.sigAt = Len(w.data) + 1, !.sigLen = 0, !.sigPos = 0]
        ELSE Fail(inside, "ExcessiveNesting")

(* The length prefix of the signature around the variant is read back      *)
(* through a char, which is signed on x86, into a uint32: a length above   *)
(* LargestChar becomes a huge one, so that the writer no longer is at the  *)
(* end of its signature and compares what is written next with what lies   *)
(* behind it (memory not written yet: zeros here, which match nothing).    *)
SignedLength(prefix) == IF prefix <= LargestChar THEN prefix ELSE prefix + SignExtension

CloseVariant(w) ==
    IF w.stack = <<>> \/ Last(w.stack).type # "BeginVariant" THEN Fail(w, "CannotEndVariantHere")
    ELSE LET top    == Last(w.stack)
             out    == [w EXCEPT !.nest = Down(@, "variant")]
             popped == [out EXCEPT !.data = Put(@, w.sigAt - 1, <<w.sigPos>>),
                                   !.sigAt = top.sigAt, !.sigLen = SignedLength(out.data[top.sigAt]),
                                   !.sigPos = top.sigPos, !.stack = Front(@)]
         IN  IF w.nil = 0 /\ w.sigPos = 0 THEN Fail(out, "EmptyVariant")
             ELSE IF top.sigAt = 1 THEN FlushQueuedData(popped) ELSE popped

OpenArray(w, type) ==
    LET isDict  == type = "BeginDict"
        once    == [w EXCEPT !.nest = Up(@, "array")]
        inside  == IF isDict THEN [once EXCEPT !.nest = Up(@, "paren")] ELSE once
        padded  == ZeroPad(w.data, 4)
        counted == MaybeQueue([inside EXCEPT !.data = padded \o LittleEndian(0, 4)],
                              Queued("ArrayLengthField", 4, 0))
        aligned == IF isDict THEN [AlignData(counted, 8) EXCEPT !.state = "DictKey"] ELSE counted
    IN  IF WithinLimits(once.nest, "array") /\ (isDict => WithinLimits(inside.nest, "paren"))
        THEN Push(aligned, [type |-> type, begin |-> w.sigPos, lengthAt |-> Len(padded)])
        ELSE Fail(IF WithinLimits(once.nest, "array") THEN inside ELSE once, "ExcessiveNesting")

(* At the end of the outermost empty array all data written for its types  *)
(* is dropped: what stays is the length and the alignment to its content.  *)
DropEmptyArrayData(w, arrayDataStart) ==
    IF w.nil = 0 THEN w
    ELSE IF w.nil > 1 THEN [w EXCEPT !.nil = @ - 1]
    ELSE [w EXCEPT !.nil = 0,
                   !.data = Cut(@, arrayDataStart),
                   !.queue = IF @ = <<>> THEN @
                             ELSE [Cut(@, w.keepQueued) EXCEPT
                                     ![w.keepQueued] = Queued("data", @.alignment, 0)]]

CloseArray(w, type) ==
    IF w.stack = <<>> THEN Fail(w, "CannotEndArrayHere")
    ELSE LET top     == Last(w.stack)
             isDict  == type = "BeginDict"
             out     == [w EXCEPT !.nest = Down(IF isDict THEN Down(@, "paren") ELSE @, "array")]
             content == IF isDict THEN 8 ELSE Alignment(w.data[w.sigAt + top.begin + 1])
             start   == AlignUp(top.lengthAt + 4, content)
             dropped == DropEmptyArrayData(out, start)
             length  == Len(dropped.data) - start
             closed  == [dropped EXCEPT !.stack = Front(@)]
         IN  IF top.type # type THEN Fail(w, "CannotEndArrayOrDictHere")
             ELSE IF w.sigPos < top.begin + (IF isDict THEN 3 ELSE 1)
             THEN Fail(w, "TooFewTypesInArrayOrDict")
             ELSE IF InsideVariant(w) THEN MaybeQueue(closed, Queued("ArrayLengthEndMark", 1, 0))
             ELSE IF length > MaxArrayLength THEN Fail(dropped, "ArrayOrDictTooLong")
             ELSE [closed EXCEPT !.data = Put(@, top.lengthAt, LittleEndian(length, 4))]

Emit(w, fragment, newState, value) ==
    LET c == At(fragment, 1) IN
    CASE newState = "Primitive" -> WritePrimitive(w, c, value)
      [] newState = "String" -> IF w.nil = 0 THEN WriteString(w, c, value)
                                ELSE AlignData(w, Alignment(c))
      [] newState = "BeginStruct" -> OpenStruct(w)
      [] newState = "EndStruct" -> CloseStruct(w)
      [] newState = "BeginVariant" -> OpenVariant(w)
      [] newState = "EndVariant" -> CloseVariant(w)
      [] newState \in {"BeginArray", "BeginDict"} -> OpenArray(w, newState)
      [] newState = "EndArray" -> CloseArray(w, "BeginArray")
      [] newState = "EndDict" -> CloseArray(w, "BeginDict")

AdvanceState(w0, fragment, newState, value) ==
    LET w       == Reserve(w0, Len(w0.data))
        atEnd   == w.sigPos = w.sigLen
        next    == StartsNextElement(w, newState)
        problem == AggregateError(w, fragment, newState)
        open    == [w EXCEPT !.state = "AnyData"]
        signed  == Sign(IF next THEN NextElement(open) ELSE open, fragment, atEnd /\ ~next)
    IN  IF w.state = "InvalidData" THEN w
        ELSE IF atEnd /\ w.sigPos + Len(fragment) > MaxSignatureLength
        THEN Fail(w, "SignatureTooLong")
        ELSE IF problem # "none" THEN Fail(w, problem)
        ELSE IF signed.state = "InvalidData" THEN signed
        ELSE Emit(signed, fragment, newState, value)

(***************************************************************************)
(* The calls of the API.                                                   *)
(***************************************************************************)
Write(w, type, value) ==
    AdvanceState(w, <<type>>, IF type \in Strings THEN "String" ELSE "Primitive", value)
BeginStruct(w) == AdvanceState(w, <<PAREN>>, "BeginStruct", 0)
EndStruct(w) == AdvanceState(w, <<END_PAREN>>, "EndStruct", 0)
BeginVariant(w) == AdvanceState(w, <<VARIANT>>, "BeginVariant", 0)
EndVariant(w) == AdvanceState(w, <<>>, "EndVariant", 0)
EndArray(w) == AdvanceState(w, <<>>, "EndArray", 0)
EndDict(w) == AdvanceState(w, <<END_BRACE>>, "EndDict", 0)

(* An array that is empty, or inside an empty one, counts as empty; the    *)
(* outermost notes how much of the queue to keep: the length field and one *)
(* entry with the alignment of the content.                                *)
BeginArrayOrDict(w, type, isEmpty) ==
    LET nil == [w EXCEPT !.nil = @ + 1,
                         !.keepQueued = IF w.nil = 0 THEN Len(w.queue) + 2 ELSE @]
    IN  AdvanceState(IF isEmpty \/ w.nil > 0 THEN nil ELSE w,
                     IF type = "BeginDict" THEN <<ARRAY, BRACE>> ELSE <<ARRAY>>, type, 0)

(* RestartEmptyArrayToWriteTypes: turn the array just begun into an empty  *)
(* one after the fact.  Inside an empty array it is empty already; the     *)
(* mutant counts it again.                                                 *)
RestartedNil_Again(nil) == nil + 1
RestartedNil(nil) == IF nil > 0 THEN nil ELSE 1

RestartEmptyArray(w, type) ==
    IF w.stack # <<>> /\ Last(w.stack).type = type /\ w.sigPos = Last(w.stack).begin
    THEN [w EXCEPT !.nil = RestartedNil(@),
                   !.keepQueued = IF w.nil > 0 THEN @
                                  ELSE Len(w.queue) + 2 - (IF type = "BeginDict" THEN 2 ELSE 1)]
    ELSE Fail(w, "InvalidStateToRestartEmptyArray")

(* The element written to get the type into the signature is taken back,   *)
(* its alignment is not.                                                   *)
WritePrimitiveArray(w, type, bytes) ==
    LET size    == Alignment(type)
        typed   == Write(BeginArrayOrDict(w, "BeginArray", bytes = <<>>), type, 0)
        undone  == [typed EXCEPT !.data = Cut(@, Len(@) - size),
                                 !.queue = IF @ = <<>> THEN @
                                           ELSE Append(Front(@), Queued("data", size, 0))]
        payload == AppendBulkData(Reserve(undone, Len(undone.data) + Len(bytes)), bytes)
    IN  IF type \notin Primitives \ {UNIX_FD} THEN Fail(w, "NotPrimitiveType")
        ELSE IF Len(bytes) > MaxArrayLength THEN Fail(w, "ArrayOrDictTooLong")
        ELSE IF ~IsAligned(Len(bytes), size) THEN Fail(w, "CannotEndArrayOrDictHere")
        ELSE EndArray(IF bytes = <<>> THEN typed ELSE payload)

(* finish: the signature and the data as they go into an Arguments.        *)
NoArguments == [ok |-> FALSE, sig |-> <<>>, data |-> <<>>, fds |-> <<>>]
Finish(w) ==
    LET data == SubSeq(w.data, SignatureReservedSpace + 1, Len(w.data))
    IN  IF w.state = "InvalidData" \/ Total(w.nest) # 0 \/ Len(data) > MaxMessageLength
        THEN NoArguments
        ELSE [ok |-> TRUE, sig |-> SubSeq(w.data, 2, IF data = <<>> THEN 1 ELSE w.sigPos + 1),
              data |-> data, fds |-> w.fds]
=============================================================================
