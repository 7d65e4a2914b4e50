------------------------------- MODULE Message -------------------------------
(***************************************************************************)
(* One message object of message.cpp: its fields, its serialized bytes and *)
(* the rules that keep the two together.                                   *)
(*                                                                         *)
(* Lengths are counted in units of 8 bytes, the alignment of the header:   *)
(* the fixed header, with the length of the variable headers, takes two    *)
(* units, all the variable headers together one.  A serialized message is  *)
(* the sequence of its units, each of which knows the message it belongs   *)
(* to (image) and its place in it (at).  The text of a header is only good *)
(* or "bad" (what Arguments::Writer refuses), and the body is an abstract  *)
(* content of some length.                                                 *)
(*                                                                         *)
(* Two rules are subtle.  A received message keeps its body in the receive *)
(* buffer (args.borrowed), which clearBuffer frees.  And bytes that are in *)
(* sync with the fields are not made again: dirty says when they must be.  *)
(***************************************************************************)
EXTENDS Integers, Sequences, FiniteSets, TLC

CONSTANTS MaxMessageLength, \* Arguments::MaxMessageLength, in units
          Block             \* the smallest buffer (256 bytes), in units

LargestBuffer == 16777216 \* 128 MiB

\* Up to the largest buffer
PowersOf2 == {1, 2, 4, 8, 16, 32, 64, 128, 256, 512, 1024, 2048, 4096, 8192, 16384, 32768,
              65536, 131072, 262144, 524288, 1048576, 2097152, 4194304, 8388608, LargestBuffer}

ASSUME LengthsAssumption == /\ MaxMessageLength \in Nat /\ MaxMessageLength <= LargestBuffer
                            /\ Block \in PowersOf2

NoError == "NoError"
FixedLength == 2
VariableLength == 1

NoArguments == [content |-> "none", fds |-> <<>>, signature |-> "", length |-> 0,
                borrowed |-> FALSE, error |-> NoError]

NewMessage ==
    [state |-> "Empty", type |-> "Invalid", flags |-> {}, serial |-> 0,
     headers |-> <<>>, args |-> NoArguments, error |-> NoError, dirty |-> TRUE,
     swapped |-> FALSE, buffer |-> <<>>, room |-> 0, pos |-> 0,
     headerLength |-> 0, bodyLength |-> 0]

HasHeader(m, h) == h \in DOMAIN m.headers
IntHeader(m, h) == IF HasHeader(m, h) THEN m.headers[h] ELSE 0

WithHeader(headers, h, v) == (h :> v) @@ headers
WithoutHeader(headers, h) == [x \in DOMAIN headers \ {h} |-> headers[x]]

-----------------------------------------------------------------------------
(* The setters *)

\* The flags are not covered by dirty: bytes that exist keep the old flags.
SetExpectsReply(m, expects) ==
    [m EXCEPT !.flags = IF expects THEN @ \ {"NoReplyExpected"}
                                   ELSE @ \cup {"NoReplyExpected"}]

SetType(m, type) ==
    IF m.type = type THEN m
    ELSE SetExpectsReply([m EXCEPT !.dirty = TRUE, !.type = type],
                         type = "MethodCall")

SetHeader(m, h, v) ==
    IF h = "Signature" THEN m
    ELSE [m EXCEPT !.dirty = TRUE, !.headers = WithHeader(@, h, v)]

\* the mutant leaves the old serial in the bytes
PatchSerial_Not(buffer, serial) == buffer

\* The serial is written in the order of this machine, whatever the order of the bytes is.
PatchSerial(buffer, serial) ==
    [i \in DOMAIN buffer |->
        [buffer[i] EXCEPT !.image.serial =
            IF buffer[i].image.swapped THEN "garbled" ELSE serial]]

SetSerial(m, serial) ==
    IF m.state = "Serialized" /\ ~m.dirty
    THEN [m EXCEPT !.serial = serial, !.buffer = PatchSerial(@, serial)]
    ELSE [m EXCEPT !.serial = serial, !.dirty = TRUE]

SetArguments(m, args) ==
    LET counted == IF args.fds # <<>> THEN WithHeader(m.headers, "UnixFds", Len(args.fds))
                                      ELSE WithoutHeader(m.headers, "UnixFds")
        typed == IF args.signature # "" THEN WithHeader(counted, "Signature", args.signature)
                                        ELSE WithoutHeader(counted, "Signature")
    IN  [m EXCEPT !.dirty = TRUE, !.error = args.error, !.headers = typed, !.args = args]

SetCall(m, path, method) ==
    SetHeader(SetHeader(SetType(m, "MethodCall"), "Path", path), "Method", method)

SetSignal(m, path, interface, method) ==
    SetHeader(SetHeader(SetHeader(SetType(m, "Signal"), "Path", path),
                        "Interface", interface), "Method", method)

SetReplyTo(m, call) ==
    SetHeader(SetHeader(SetType(m, "MethodReturn"), "Destination",
                        IF HasHeader(call, "Sender") THEN call.headers["Sender"] ELSE ""),
              "ReplySerial", call.serial)

SetErrorReplyTo(m, call, name) ==
    SetHeader(SetHeader(SetHeader(SetType(m, "Error"), "ErrorName", name), "Destination",
                        IF HasHeader(call, "Sender") THEN call.headers["Sender"] ELSE ""),
              "ReplySerial", call.serial)

-----------------------------------------------------------------------------
(* Buffers *)

NextPowerOf2(n) == CHOOSE p \in PowersOf2 : p >= n /\ p < 2 * n

Reserved(room, n) == CASE n <= room  -> room
                       [] n > room /\ n <= Block -> Block
                       [] OTHER -> NextPowerOf2(n)

\* A body that lies in the buffer goes with it.
ClearBuffer(m) ==
    [m EXCEPT !.buffer = <<>>, !.room = 0, !.pos = 0,
              !.args = IF @.borrowed THEN [@ EXCEPT !.content = "freed"] ELSE @]

\* The type and the flags stay what they were.
Clear(m) == [ClearBuffer(m) EXCEPT !.state = "Empty", !.args = NoArguments,
                                   !.headers = <<>>]

-----------------------------------------------------------------------------
(* Serializing *)

RequiredHeaders(type) ==
    CASE type = "Signal"       -> <<"Interface", "Path", "Method">>
      [] type = "MethodCall"   -> <<"Path", "Method">>
      [] type = "Error"        -> <<"ErrorName", "ReplySerial">>
      [] type = "MethodReturn" -> <<"ReplySerial">>

CheckRequiredHeaders(m) ==
    CASE m.serial = 0       -> "MessageSerial"
      [] m.serial # 0 /\ m.type = "Invalid" -> "MessageType"
      [] OTHER -> LET missing == SelectSeq(RequiredHeaders(m.type),
                                           LAMBDA h : ~HasHeader(m, h))
                  IN  IF missing = <<>> THEN NoError ELSE "Message" \o missing[1]

\* What the writer of the variable headers says of the texts.
HeaderError(m) ==
    LET strings == <<"Path", "Interface", "Method", "ErrorName", "Destination",
                     "Sender", "Signature">>
        refused == SelectSeq(strings, LAMBDA h : HasHeader(m, h) /\ m.headers[h] = "bad")
    IN  IF refused = <<>> THEN NoError ELSE "Message" \o refused[1]

Image(m) == [swapped |-> FALSE, type |-> m.type, flags |-> m.flags, serial |-> m.serial,
             headers |-> m.headers, content |-> m.args.content,
             headerLength |-> FixedLength + VariableLength,
             bodyLength |-> m.args.length, flaw |-> "none"]

Units(image) == [i \in 1..(image.headerLength + image.bodyLength) |->
                    [image |-> image, at |-> i]]

Refused(m, error) == [ok |-> FALSE, m |-> [m EXCEPT !.error = error]]

IsInSync(m) == m.state \in {"Serialized", "Sending"} /\ ~m.dirty

SerializedAnew(cleared) ==
    LET required == CheckRequiredHeaders(cleared)
        total    == FixedLength + VariableLength + cleared.args.length
    IN  CASE cleared.error # NoError -> Refused(cleared, cleared.error)
          [] cleared.error = NoError /\ required # NoError -> Refused(cleared, required)
          [] cleared.error = NoError /\ required = NoError /\ HeaderError(cleared) # NoError ->
                Refused(cleared, HeaderError(cleared))
          [] OTHER ->
                IF total > MaxMessageLength THEN Refused(cleared, "ArgumentsTooLong")
                ELSE [ok |-> TRUE,
                      m |-> [cleared EXCEPT
                                !.headerLength = FixedLength + VariableLength,
                                !.bodyLength = cleared.args.length,
                                !.buffer = Units(Image(cleared)), !.room = total,
                                !.dirty = FALSE, !.state = "Serialized"]]

Serialize(m) ==
    CASE IsInSync(m) -> [ok |-> TRUE, m |-> m]
      [] ~IsInSync(m) /\ m.state \in {"Sending", "Receiving"} -> [ok |-> FALSE, m |-> m]
      [] OTHER -> SerializedAnew(ClearBuffer(m))

-----------------------------------------------------------------------------
(* Deserializing.  A foreign program may send what no Message serializes   *)
(* to: flaw says what is wrong with it.                                    *)

FirstImage(m) == m.buffer[1].image

\* deserializeFixedHeaders: the units read so far must begin with a message.
FixedHeadersOk(m) == /\ FirstImage(m).flaw # "endianness"
                     /\ FirstImage(m).headerLength + FirstImage(m).bodyLength
                            <= MaxMessageLength

WithFixedHeaders(m) ==
    LET image == FirstImage(m)
    IN  IF image.flaw = "endianness" THEN m
        ELSE [m EXCEPT !.swapped = image.swapped, !.type = image.type,
                       !.flags = image.flags, !.serial = image.serial,
                       !.headerLength = image.headerLength,
                       !.bodyLength = image.bodyLength]

\* deserializeVariableHeaders: a header that is unknown, of the wrong type or there
\* twice (a header the object already has counts), and padding that is not zero,
\* are all refused.
VariableHeadersOk(m) == /\ FirstImage(m).flaw # "variable headers"
                        /\ DOMAIN m.headers \cap DOMAIN FirstImage(m).headers = {}

WithVariableHeaders(m) == [m EXCEPT !.headers = FirstImage(m).headers]

\* The finished message takes its arguments from where they lie in the buffer.
WithBody(m, fds) ==
    [m EXCEPT !.state = "Serialized",
              !.args = [content |-> IF m.bodyLength = 0 THEN "none"
                                    ELSE m.buffer[m.headerLength + 1].image.content,
                        fds |-> fds,
                        signature |-> IF HasHeader(m, "Signature")
                                      THEN m.headers["Signature"] ELSE "",
                        length |-> m.bodyLength, borrowed |-> TRUE, error |-> NoError]]

\* deserializeAndTake and load: all the bytes at once, from a file for instance
Load(m, units) ==
    IF m.state \in {"Sending", "Receiving"} THEN m
    ELSE LET taken == [ClearBuffer(m) EXCEPT !.buffer = units, !.room = Len(units),
                                             !.pos = Len(units), !.headerLength = 0,
                                             !.bodyLength = 0]
             fixed == IF Len(units) < FixedLength THEN taken ELSE WithFixedHeaders(taken)
             ok    == /\ Len(units) >= FixedLength
                      /\ FixedHeadersOk(taken)
                      /\ Len(units) >= fixed.headerLength
                      /\ VariableHeadersOk(fixed)
                      /\ Len(units) = fixed.headerLength + fixed.bodyLength
         IN  IF ok THEN WithBody(WithVariableHeaders(fixed), <<>>)
             ELSE Clear([fixed EXCEPT !.error = IF @ = NoError THEN "MalformedReply" ELSE @])
=============================================================================
