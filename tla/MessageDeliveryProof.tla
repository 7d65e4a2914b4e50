------------------------ MODULE MessageDeliveryProof ------------------------
(***************************************************************************)
(* Proof that the n-th message an end delivers is the n-th that its peer   *)
(* sent, for any messages, any lengths and any capacity of the stream, on  *)
(* top of MessageExchangeProof.                                            *)
(*                                                                         *)
(* Nothing on the wire says which message it is, so the proof numbers the  *)
(* units of a line: the number goes up where a message begins (Numbers).   *)
(* A message that is flawed has no number among those that were sent; what *)
(* comes behind it is never delivered, and nothing is claimed of it        *)
(* (Clean).  What was only begun with send() may still be taken back, and  *)
(* does not count (Committed).                                             *)
(***************************************************************************)
EXTENDS MessageExchangeProof

-----------------------------------------------------------------------------
(* The inductive invariant.                                                *)

Sound(image) == image.flaw = "none"

ContentOf(image) == IF image.bodyLength = 0 THEN "none" ELSE image.content

\* The bytes say what the receiver is owed.
IsCopy(image, owed) ==
  /\ Sound(image) /\ image.type # "Invalid"
  /\ image.type = owed.type /\ image.flags = owed.flags /\ image.serial = owed.serial
  /\ image.headers = owed.headers
  /\ owed.whole => owed.content = ContentOf(image)

ArgsOK(args) ==
  /\ DOMAIN args = DOMAIN NoArguments /\ IsSeq(args.fds) /\ args.borrowed \in BOOLEAN
  /\ args.borrowed = FALSE /\ args.length = 0 => args.content = "none"

\* What message_p.h says of a Serialized message: the bytes and the fields are in sync.
MessageOK(m) ==
  /\ ArgsOK(m.args)
  /\ m.state = "Serialized" /\ ~m.dirty => m.buffer[1].image = Image(m) /\ m.type # "Invalid"

LastSent(e) == sent[e][Len(sent[e])]

\* A message that is being sent is the one that was last entered as sent.
Carried(e) ==
  /\ Len(sent[e]) > 0 /\ IsCopy(out[e].buffer[1].image, LastSent(e))
  /\ IsSeq(out[e].args.fds) /\ out[e].args.fds = LastSent(e).fds

\* No byte of it is on the line yet, and it may be taken back.
NotBegun(e) == out[e].state = "Sending" /\ out[e].pos = 0

Committed(e) == IF NotBegun(e) THEN Len(sent[e]) - 1 ELSE Len(sent[e])

SenderOK(e) == /\ IsSeq(sent[e])
               /\ IF out[e].state = "Sending" THEN Carried(e)
                  ELSE out[e].state = "none" \/ MessageOK(out[e])

FlawIsFound(image, fds) == Sound(image) \/ (IsRefused(image) /\ fds = <<>>)

\* What has been read of a message is in its fields, and would not have been read on if it
\* had shown a flaw.
Parsed(m) ==
  /\ m.error = NoError /\ ArgsOK(m.args)
  /\ m.pos = 0 => m.args.fds = <<>>
  /\ m.pos > 0 => FlawIsFound(FirstImage(m), m.args.fds)
  /\ m.headerLength # 0 =>
        /\ FirstImage(m).flaw # "endianness"
        /\ m.type = FirstImage(m).type /\ m.flags = FirstImage(m).flags
        /\ m.serial = FirstImage(m).serial
  /\ HeadersDone(m) =>
        /\ FirstImage(m).flaw # "variable headers" /\ m.headers = FirstImage(m).headers
        /\ FdsAnnounced(m, FirstImage(m))

\* A flaw in what is on the line will be found, and what cannot be passed is not there.
UnitOK(e, x) ==
  /\ FlawIsFound(x.unit.image, x.fds) /\ IsSeq(x.fds)
  /\ x.fds # <<>> => transport[e].kind # "ip"

UnitsOK(e) == \A i \in 1..Len(stream[e]) : UnitOK(e, stream[e][i])

\* The image is that of the n-th message that was sent to e.
IsNth(e, image, n) == n \in 1..Committed(Peer(e)) /\ IsCopy(image, sent[Peer(e)][n])

\* The number of the message that e is receiving, or will receive next.
Expected(e) == Len(delivered[e]) + 1

CleanIn(e) == in[e].pos > 0 => Sound(FirstImage(in[e]))

\* There is no flaw in what e receives up to the i-th unit of its line.
Clean(e, i) == CleanIn(e) /\ \A j \in 1..i : Sound(stream[e][j].unit.image)

InNumbered(e) ==
  in[e].pos > 0 /\ Sound(FirstImage(in[e])) =>
     /\ IsNth(e, FirstImage(in[e]), Expected(e))
     /\ in[e].args.fds = sent[Peer(e)][Expected(e)].fds

UnitNumbered(e, x, n) ==
  /\ IsNth(e, x.unit.image, n)
  /\ x.unit.at = 1 => x.fds = sent[Peer(e)][n].fds

LastNumber(e, f) ==
  IF stream[e] = <<>> THEN IF in[e].pos = 0 THEN Len(delivered[e]) ELSE Expected(e)
  ELSE f[Len(stream[e])]

Numbers(e, f) ==
  /\ stream[e] # <<>> => f[1] = Expected(e)
  /\ \A i \in 1..Len(stream[e]) - 1 :
        f[i + 1] = IF stream[e][i + 1].unit.at = 1 THEN f[i] + 1 ELSE f[i]
  /\ \A i \in 1..Len(stream[e]) : Clean(e, i) => UnitNumbered(e, stream[e][i], f[i])
  /\ transport[Peer(e)].open /\ Clean(e, Len(stream[e])) =>
        Committed(Peer(e)) = LastNumber(e, f)

LineNumbered(e) ==
  transport[e].open =>
     InNumbered(e) /\ \E f \in [1..Len(stream[e]) -> Nat] : Numbers(e, f)

Arrived(e) ==
  \A i \in 1..Len(delivered[e]) :
     /\ ArgsOK(delivered[e][i].args)
     /\ IF delivered[e][i].error # NoError THEN i = Len(delivered[e]) /\ ~transport[e].open
        ELSE i <= Committed(Peer(e)) /\ Matches(sent[Peer(e)][i], delivered[e][i])

ReadsOpen(e) == busy[e] = "reading" => transport[e].open

SentTables == sent = [e \in End |-> sent[e]] /\ busy = [e \in End |-> busy[e]]

OneKind == \A e \in End : transport[e].kind = transport[Peer(e)].kind

ReceiverOK(e) == Parsed(in[e]) /\ UnitsOK(e) /\ LineNumbered(e) /\ Arrived(e) /\ ReadsOpen(e)

DeliveryInv == SentTables /\ OneKind /\ \A e \in End : SenderOK(e) /\ ReceiverOK(e)

-----------------------------------------------------------------------------
(* Messages: the bytes and the fields in sync.                             *)

LEMMA NoArgumentsOK == ArgsOK(NoArguments)
<1>1. IsSeq(<<>>)
  BY EmptySeq DEF IsSeq
<1> QED
  BY <1>1 DEF ArgsOK, NoArguments

LEMMA FinishedOK == ASSUME NEW args, AreFinished(args) PROVE ArgsOK(args)
BY DEF AreFinished, ArgsOK, IsSeq, Values

\* Bytes that will be made anew need not agree with the fields.
LEMMA DirtyOK == ASSUME NEW m, ArgsOK(m.args), m.dirty = TRUE PROVE MessageOK(m)
BY DEF MessageOK

LEMMA SetTypeOK ==
  ASSUME NEW m, IsReady(m), MessageOK(m), NEW type PROVE MessageOK(SetType(m, type))
<1> DEFINE r == [m EXCEPT !.dirty = TRUE, !.type = type]
<1>1. DOMAIN r = DOMAIN m /\ r.args = m.args /\ r.dirty = TRUE
  BY Fields DEF IsReady, IsMessage
<1> HIDE DEF r
<1>2. ASSUME NEW expects PROVE MessageOK(SetExpectsReply(r, expects))
  <2>1. PICK x : x = SetExpectsReply(r, expects)
    OBVIOUS
  <2>2. x.args = r.args /\ x.dirty = r.dirty
    BY <1>1, <2>1, Fields DEF IsReady, IsMessage, SetExpectsReply
  <2> QED
    BY <1>1, <2>1, <2>2, DirtyOK DEF MessageOK
<1>3. SetType(m, type) = m \/ \E expects : SetType(m, type) = SetExpectsReply(r, expects)
  BY DEF SetType, r
<1> QED
  BY <1>2, <1>3

LEMMA SetHeaderOK ==
  ASSUME NEW m, IsReady(m), MessageOK(m), NEW h, NEW v PROVE MessageOK(SetHeader(m, h, v))
<1> DEFINE r == [m EXCEPT !.dirty = TRUE, !.headers = WithHeader(@, h, v)]
<1>1. r.args = m.args /\ r.dirty = TRUE
  BY Fields DEF IsReady, IsMessage
<1>2. SetHeader(m, h, v) = m \/ SetHeader(m, h, v) = r
  BY DEF SetHeader
<1> HIDE DEF r
<1> QED
  BY <1>1, <1>2, DirtyOK DEF MessageOK

LEMMA SetArgumentsOK ==
  ASSUME NEW m, IsReady(m), NEW args, ArgsOK(args) PROVE MessageOK(SetArguments(m, args))
<1>1. PICK r : r = SetArguments(m, args)
  OBVIOUS
<1>2. r.args = args /\ r.dirty = TRUE
  BY <1>1, Fields DEF IsReady, IsMessage, SetArguments
<1> QED
  BY <1>1, <1>2, DirtyOK

LEMMA RepliesAreOK ==
  ASSUME NEW call, NEW name
  PROVE  MessageOK(SetReplyTo(NewMessage, call)) /\ MessageOK(SetErrorReplyTo(NewMessage, call, name))
<1>1. IsReady(NewMessage) /\ MessageOK(NewMessage)
  <2>1. NewMessage.args = NoArguments /\ NewMessage.dirty = TRUE
    BY DEF NewMessage
  <2> QED
    BY <2>1, NewIsReady, NoArgumentsOK, DirtyOK
<1>2. \A type : IsReady(SetType(NewMessage, type)) /\ MessageOK(SetType(NewMessage, type))
  BY <1>1, SetTypeReady, SetTypeOK
<1>3. \A m, h, v : IsReady(m) /\ MessageOK(m) =>
                      IsReady(SetHeader(m, h, v)) /\ MessageOK(SetHeader(m, h, v))
  BY SetHeaderReady, SetHeaderOK
<1> QED
  BY <1>2, <1>3 DEF SetReplyTo, SetErrorReplyTo

\* The serial that is written into the bytes is that of the field.
LEMMA SetSerialOK ==
  ASSUME NEW m, IsReady(m), MessageOK(m), NEW s PROVE MessageOK(SetSerial(m, s))
<1>1. CASE m.state = "Serialized" /\ ~m.dirty
  <2>1. PICK q : q = m.buffer
    OBVIOUS
  <2>2. /\ IsWhole(q) /\ q[1].image = Image(m) /\ m.type # "Invalid"
        /\ 1 \in DOMAIN q /\ "image" \in DOMAIN q[1]
    BY <1>1, <2>1, LengthIsNat DEF IsReady, MessageOK, IsWhole, FixedLength
  <2>3. PICK image : image = Image(m)
    OBVIOUS
  <2>4. PatchSerial(q, s)[1].image = [image EXCEPT !.serial = s]
    <3>1. image.swapped = FALSE
      BY <2>3 DEF Image
    <3>2. PICK u, v : u = q[1] /\ v = IF u.image.swapped THEN "garbled" ELSE s
      OBVIOUS
    <3>3. u.image = image /\ "image" \in DOMAIN u /\ v = s
      BY <2>2, <2>3, <3>1, <3>2
    <3>4. PatchSerial(q, s)[1] = [u EXCEPT !.image.serial = v]
      BY <2>2, <3>2 DEF PatchSerial
    <3>5. [u EXCEPT !.image.serial = v].image = [u.image EXCEPT !.serial = v]
      BY <3>3
    <3> QED
      BY <3>3, <3>4, <3>5
  <2> DEFINE r == [m EXCEPT !.serial = s, !.buffer = PatchSerial(@, s)]
  <2>5. /\ DOMAIN r = DOMAIN m /\ r.args = m.args /\ r.buffer = PatchSerial(q, s)
        /\ r.type = m.type /\ r.flags = m.flags /\ r.serial = s /\ r.headers = m.headers
    BY <2>1, Fields DEF IsReady, IsMessage
  <2>6. SetSerial(m, s) = r
    BY <1>1 DEF SetSerial
  <2> HIDE DEF r
  <2>7. Image(r) = [image EXCEPT !.serial = s]
    <3>1. PICK l : l = FixedLength + VariableLength
      OBVIOUS
    <3>2. image = [swapped |-> FALSE, type |-> m.type, flags |-> m.flags, serial |-> m.serial,
                   headers |-> m.headers, content |-> m.args.content, headerLength |-> l,
                   bodyLength |-> m.args.length, flaw |-> "none"]
      BY <2>3, <3>1 DEF Image
    <3>3. Image(r) =
            [swapped |-> FALSE, type |-> m.type, flags |-> m.flags, serial |-> s,
             headers |-> m.headers, content |-> m.args.content, headerLength |-> l,
             bodyLength |-> m.args.length, flaw |-> "none"]
      BY <2>5, <3>1 DEF Image
    <3>4. PICK i : i = [image EXCEPT !.serial = s]
      OBVIOUS
    <3>5. i = [swapped |-> FALSE, type |-> m.type, flags |-> m.flags, serial |-> s,
               headers |-> m.headers, content |-> m.args.content, headerLength |-> l,
               bodyLength |-> m.args.length, flaw |-> "none"]
      <4>1. PICK t, f, hs, c, n : /\ t = m.type /\ f = m.flags /\ hs = m.headers
                                  /\ c = m.args.content /\ n = m.args.length
        OBVIOUS
      <4>2. image = [swapped |-> FALSE, type |-> t, flags |-> f, serial |-> m.serial,
                     headers |-> hs, content |-> c, headerLength |-> l, bodyLength |-> n,
                     flaw |-> "none"]
        BY <3>2, <4>1
      <4> QED
        BY <3>4, <4>1, <4>2
    <3> QED
      BY <3>3, <3>4, <3>5
  <2>8. ArgsOK(r.args) /\ r.buffer[1].image = Image(r) /\ r.type # "Invalid"
    <3>1. ArgsOK(m.args)
      BY DEF MessageOK
    <3>2. PatchSerial(q, s)[1].image = Image(r)
      BY <2>4, <2>7
    <3> QED
      BY <2>2, <2>5, <3>1, <3>2
  <2> QED
    BY <2>6, <2>8 DEF MessageOK
<1>2. CASE ~(m.state = "Serialized" /\ ~m.dirty)
  <2> DEFINE r == [m EXCEPT !.serial = s, !.dirty = TRUE]
  <2>1. r.args = m.args /\ r.dirty = TRUE
    BY Fields DEF IsReady, IsMessage
  <2>2. SetSerial(m, s) = r
    BY <1>2 DEF SetSerial
  <2> HIDE DEF r
  <2> QED
    BY <2>1, <2>2, DirtyOK DEF MessageOK
<1> QED
  BY <1>1, <1>2

\* n has the fields of m, and its body unless that lay in the buffer.
SameFields(m, n) ==
  /\ n.type = m.type /\ n.flags = m.flags /\ n.serial = m.serial /\ n.headers = m.headers
  /\ n.args.fds = m.args.fds /\ n.args.length = m.args.length
  /\ n.args.borrowed = m.args.borrowed
  /\ m.args.borrowed = FALSE => n.args.content = m.args.content

LEMMA StillSameFields ==
  ASSUME NEW m, NEW n, NEW x, SameFields(m, n), SameFields(n, x) PROVE SameFields(m, x)
BY DEF SameFields

LEMMA ClearBufferOK ==
  ASSUME NEW m, IsMessage(m), ArgsOK(m.args), NEW c, c = ClearBuffer(m)
  PROVE  ArgsOK(c.args) /\ SameFields(m, c) /\ c.error = m.error
<1> DEFINE args == IF m.args.borrowed THEN [m.args EXCEPT !.content = "freed"] ELSE m.args
           r == [m EXCEPT !.buffer = <<>>, !.room = 0, !.pos = 0, !.args = args]
<1>1. /\ DOMAIN args = DOMAIN m.args /\ args.length = m.args.length
      /\ args.borrowed = m.args.borrowed /\ args.fds = m.args.fds
      /\ m.args.borrowed = FALSE => args.content = m.args.content
  BY Fields DEF IsMessage, ArgsOK
<1> HIDE DEF args
<1>2. /\ r.args = args /\ r.type = m.type /\ r.flags = m.flags /\ r.serial = m.serial
      /\ r.headers = m.headers /\ r.error = m.error
  BY Fields DEF IsMessage
<1>3. r = c
  BY DEF ClearBuffer, args
<1> HIDE DEF r
<1>4. ArgsOK(args)
  BY <1>1 DEF ArgsOK
<1> QED
  BY <1>1, <1>2, <1>3, <1>4 DEF SameFields

LEMMA UnitsImage ==
  ASSUME NEW image, IsImage(image) PROVE Units(image)[1].image = image
<1>1. 1 \in 1..image.headerLength + image.bodyLength
  BY DEF IsImage, FixedLength
<1>2. Units(image)[1] = [image |-> image, at |-> 1]
  BY <1>1 DEF Units
<1> QED
  BY <1>2

\* What is serialized anew has a type, and its bytes have its fields.
LEMMA SerializedAnewOK ==
  ASSUME NEW c, IsMessage(c), ArgsOK(c.args), c.state = "Serialized" => c.dirty = TRUE,
         NEW s, s = SerializedAnew(c)
  PROVE  /\ MessageOK(s.m)
         /\ s.ok => SameFields(c, s.m) /\ s.m.buffer[1].image = Image(s.m) /\ s.m.type # "Invalid"
<1> DEFINE image == Image(c)
           made == [c EXCEPT !.headerLength = FixedLength + VariableLength,
                             !.bodyLength = c.args.length,
                             !.buffer = Units(image),
                             !.room = FixedLength + VariableLength + c.args.length,
                             !.dirty = FALSE, !.state = "Serialized"]
           refused(error) == [c EXCEPT !.error = error]
<1>1. \/ s = [ok |-> TRUE, m |-> made] /\ CheckRequiredHeaders(c) = NoError
      \/ \E error : s = [ok |-> FALSE, m |-> refused(error)]
  BY DEF SerializedAnew, Refused
<1>2. ASSUME NEW error PROVE MessageOK(refused(error))
  <2> DEFINE r == refused(error)
  <2>1. r.args = c.args /\ r.state = c.state /\ r.dirty = c.dirty
    BY Fields DEF IsMessage
  <2> HIDE DEF r
  <2>2. MessageOK(r)
    BY <2>1 DEF MessageOK
  <2> QED
    BY <2>2 DEF r
<1>3. ASSUME CheckRequiredHeaders(c) = NoError
      PROVE  /\ MessageOK(made) /\ SameFields(c, made) /\ made.buffer[1].image = Image(made)
             /\ made.type # "Invalid"
  <2>1. IsImage(image)
    BY DEF Image, IsImage, IsMessage, FixedLength, VariableLength
  <2>2. PICK i : i = image
    OBVIOUS
  <2>3. Units(i)[1].image = i
    BY <2>1, <2>2, UnitsImage
  <2>4. c.type # "Invalid"
    BY <1>3 DEF CheckRequiredHeaders, NoError
  <2>5. /\ made.args = c.args /\ made.buffer = Units(i) /\ made.type = c.type
        /\ made.flags = c.flags /\ made.serial = c.serial /\ made.headers = c.headers
    BY <2>2, Fields DEF IsMessage
  <2> HIDE DEF made
  <2>6. Image(made) = Image(c)
    BY <2>5 DEF Image
  <2> HIDE DEF image
  <2>7. made.buffer[1].image = Image(made)
    BY <2>2, <2>3, <2>5, <2>6 DEF image
  <2> QED
    BY <2>4, <2>5, <2>7 DEF MessageOK, SameFields
<1> HIDE DEF made, refused
<1> QED
  BY <1>1, <1>2, <1>3

LEMMA SerializeOK ==
  ASSUME NEW m, IsReady(m), MessageOK(m), NEW s, s = Serialize(m)
  PROVE  /\ MessageOK(s.m)
         /\ s.ok => SameFields(m, s.m) /\ s.m.buffer[1].image = Image(s.m) /\ s.m.type # "Invalid"
<1>1. CASE IsInSync(m)
  <2>1. s = [ok |-> TRUE, m |-> m] /\ m.state = "Serialized" /\ ~m.dirty
    BY <1>1 DEF Serialize, IsInSync, IsReady
  <2> QED
    BY <2>1 DEF MessageOK, SameFields
<1>2. CASE ~IsInSync(m)
  <2>1. PICK c : c = ClearBuffer(m)
    OBVIOUS
  <2>2. IsMessage(c) /\ c.state = m.state /\ c.dirty = m.dirty
    BY <2>1, ClearBufferDoes DEF IsReady
  <2>3. ArgsOK(c.args) /\ SameFields(m, c)
    BY <2>1, ClearBufferOK DEF IsReady, MessageOK
  <2>4. s = SerializedAnew(c)
    BY <1>2, <2>1 DEF Serialize, IsReady
  <2>5. /\ MessageOK(s.m)
        /\ s.ok => /\ SameFields(c, s.m) /\ s.m.buffer[1].image = Image(s.m)
                   /\ s.m.type # "Invalid"
    <3>1. c.state = "Serialized" => c.dirty = TRUE
      BY <1>2, <2>2 DEF IsReady, IsInSync
    <3> QED
      BY <2>2, <2>3, <2>4, <3>1, SerializedAnewOK
  <2>6. s.ok => SameFields(m, s.m)
    <3>1. PICK x, ok : x = s.m /\ ok = s.ok
      OBVIOUS
    <3>2. SameFields(m, c) /\ (ok => SameFields(c, x))
      BY <2>3, <2>5, <3>1
    <3> QED
      BY <3>1, <3>2, StillSameFields
  <2> QED
    BY <2>5, <2>6
<1> QED
  BY <1>1, <1>2

\* A message that was received, or loaded, is as its headers say; its bytes are not those it
\* would be serialized to.
LEMMA WithBodyOK ==
  ASSUME NEW m, IsMessage(m), NEW fds, IsSeq(fds), NEW x, x = WithBody(m, fds)
  PROVE  /\ ArgsOK(x.args) /\ x.dirty = m.dirty /\ x.args.fds = fds
         /\ x.type = m.type /\ x.flags = m.flags /\ x.serial = m.serial
         /\ x.headers = m.headers /\ x.error = m.error
         /\ m.bodyLength = 0 => x.args.content = "none"
         /\ m.bodyLength # 0 => x.args.content = m.buffer[m.headerLength + 1].image.content
<1> DEFINE args == [signature |-> IF HasHeader(m, "Signature")
                                  THEN m.headers["Signature"] ELSE "",
                    length |-> m.bodyLength,
                    content |-> IF m.bodyLength = 0 THEN "none"
                                ELSE m.buffer[m.headerLength + 1].image.content,
                    fds |-> fds, error |-> NoError, borrowed |-> TRUE]
           r == [m EXCEPT !.state = "Serialized", !.args = args]
<1>1. /\ DOMAIN args = DOMAIN NoArguments /\ args.fds = fds /\ args.borrowed = TRUE
      /\ m.bodyLength = 0 => args.content = "none"
      /\ m.bodyLength # 0 => args.content = m.buffer[m.headerLength + 1].image.content
  BY Fields
<1> HIDE DEF args
<1>2. /\ r.args = args /\ r.dirty = m.dirty /\ r.type = m.type /\ r.flags = m.flags
      /\ r.serial = m.serial /\ r.headers = m.headers /\ r.error = m.error
  BY Fields DEF IsMessage
<1>3. x = r
  BY DEF WithBody, args
<1> HIDE DEF r
<1>4. ArgsOK(args)
  BY <1>1 DEF ArgsOK
<1> QED
  BY <1>1, <1>2, <1>3, <1>4

LEMMA ClearOK ==
  ASSUME NEW m, IsMessage(m), NEW error
  PROVE  /\ Clear(m).args = NoArguments /\ FailedRead(m, error).args = NoArguments
         /\ FailedRead(m, error).error = error
<1>1. PICK c : c = ClearBuffer(m)
  OBVIOUS
<1>2. IsMessage(c)
  BY <1>1, ClearBufferDoes
<1> DEFINE r == [c EXCEPT !.state = "Empty", !.args = NoArguments, !.headers = <<>>]
<1>3. DOMAIN r = DOMAIN c /\ r.args = NoArguments
  BY <1>2, Fields DEF IsMessage
<1>4. Clear(m) = r
  BY <1>1 DEF Clear
<1> HIDE DEF r
<1>5. PICK f : f = [r EXCEPT !.error = error]
  OBVIOUS
<1>6. f.args = r.args /\ f.error = error
  BY <1>2, <1>3, <1>5, Fields DEF IsMessage
<1>7. FailedRead(m, error) = f
  BY <1>4, <1>5 DEF FailedRead
<1> QED
  BY <1>3, <1>4, <1>6, <1>7

LEMMA LoadedOK ==
  ASSUME NEW image, IsImage(image) PROVE MessageOK(Load(NewMessage, Units(image)))
<1>1. PICK x : x = Load(NewMessage, Units(image))
  OBVIOUS
<1>2. PICK m : /\ IsMessage(m) /\ m.dirty = TRUE
               /\ \/ m.bodyLength \in Nat /\ x = WithBody(m, <<>>)
                  \/ x = Clear(m)
  BY <1>1, LoadedFrom
<1>3. ArgsOK(x.args) /\ x.dirty = TRUE
  <2>1. CASE x = WithBody(m, <<>>)
    <3>1. PICK fds : fds = <<>>
      OBVIOUS
    <3>2. IsSeq(fds) /\ x = WithBody(m, fds)
      BY <2>1, <3>1, EmptySeq DEF IsSeq
    <3> QED
      BY <1>2, <3>2, WithBodyOK
  <2>2. CASE x = Clear(m)
    BY <1>2, <2>2, ClearDoes, ClearOK, NoArgumentsOK
  <2> QED
    BY <1>2, <2>1, <2>2
<1> QED
  BY <1>1, <1>3, DirtyOK

-----------------------------------------------------------------------------
(* A line on which nothing moves.                                          *)

LEMMA CommittedIsNat ==
  ASSUME NEW p, SenderOK(p)
  PROVE  Committed(p) \in Nat /\ Committed(p) <= Len(sent[p]) /\ Len(sent[p]) \in Nat
<1>1. Len(sent[p]) \in Nat
  BY LengthIsNat DEF SenderOK
<1>2. NotBegun(p) => Len(sent[p]) > 0
  BY DEF SenderOK, NotBegun, Carried
<1> QED
  BY <1>1, <1>2 DEF Committed

LEMMA CommittedIsNatNext ==
  ASSUME NEW p, SenderOK(p)'
  PROVE  (Committed(p) \in Nat /\ Committed(p) <= Len(sent[p]) /\ Len(sent[p]) \in Nat)'
<1>1. Len(sent'[p]) \in Nat
  BY LengthIsNat DEF SenderOK
<1>2. NotBegun(p)' => Len(sent'[p]) > 0
  BY DEF SenderOK, NotBegun, Carried
<1> QED
  BY <1>1, <1>2 DEF Committed

\* What p has sent stays, but for a message that no byte of is on the line; and as long as p
\* is open nothing more counts as sent.
SentKept(p) ==
  /\ Committed(p) <= Committed(p)' /\ \A i \in 1..Committed(p) : sent'[p][i] = sent[p][i]

SentStays(p) ==
  SentKept(p) /\ (transport'[p].open => transport[p].open /\ Committed(p)' = Committed(p))

LEMMA NthKept ==
  ASSUME NEW e \in End, SenderOK(Peer(e)), SenderOK(Peer(e))', SentKept(Peer(e)),
         NEW image, NEW n, IsNth(e, image, n)
  PROVE  IsNth(e, image, n)' /\ sent'[Peer(e)][n] = sent[Peer(e)][n]
<1>1. PICK p : p = Peer(e)
  OBVIOUS
<1>2. Committed(p) \in Nat /\ Committed(p)' \in Nat /\ Committed(p) <= Committed(p)'
  BY <1>1, CommittedIsNat, CommittedIsNatNext DEF SentKept
<1>3. n \in 1..Committed(p) /\ IsCopy(image, sent[p][n])
  BY <1>1 DEF IsNth
<1>4. n \in 1..Committed(p)' /\ sent'[p][n] = sent[p][n]
  BY <1>1, <1>2, <1>3 DEF SentKept
<1> QED
  BY <1>1, <1>3, <1>4 DEF IsNth

LEMMA ArrivedKept ==
  ASSUME NEW e \in End, SenderOK(Peer(e)), SenderOK(Peer(e))', SentKept(Peer(e)),
         Arrived(e), delivered'[e] = delivered[e], transport'[e].open => transport[e].open
  PROVE  Arrived(e)'
<1>1. PICK p, d : p = Peer(e) /\ d = delivered[e]
  OBVIOUS
<1>2. Committed(p) \in Nat /\ Committed(p)' \in Nat /\ Committed(p) <= Committed(p)'
  BY <1>1, CommittedIsNat, CommittedIsNatNext DEF SentKept
<1>3. ASSUME NEW i \in 1..Len(d)
      PROVE  /\ ArgsOK(d[i].args)
             /\ d[i].error # NoError => i = Len(d) /\ ~transport'[e].open
             /\ d[i].error = NoError => i <= Committed(p)' /\ Matches(sent'[p][i], d[i])
  <2>1. /\ ArgsOK(d[i].args)
        /\ d[i].error # NoError => i = Len(d) /\ ~transport[e].open
        /\ d[i].error = NoError => i <= Committed(p) /\ Matches(sent[p][i], d[i])
    BY <1>1 DEF Arrived
  <2>2. ASSUME d[i].error = NoError PROVE i <= Committed(p)' /\ sent'[p][i] = sent[p][i]
    <3>1. i \in Nat /\ i >= 1
      OBVIOUS
    <3>2. i \in 1..Committed(p) /\ i <= Committed(p)'
      BY <1>2, <2>1, <2>2, <3>1
    <3> QED
      BY <1>1, <3>2 DEF SentKept
  <2> QED
    BY <2>1, <2>2
<1> QED
  BY <1>1, <1>3 DEF Arrived

LEMMA InNumberedKept ==
  ASSUME NEW e \in End, SenderOK(Peer(e)), SenderOK(Peer(e))', SentKept(Peer(e)),
         InNumbered(e), in'[e] = in[e], delivered'[e] = delivered[e]
  PROVE  InNumbered(e)'
<1>1. PICK p, m : p = Peer(e) /\ m = in[e]
  OBVIOUS
<1>2. PICK image, n : image = FirstImage(m) /\ n = Expected(e)
  OBVIOUS
<1>3. Expected(e)' = n
  BY <1>2 DEF Expected
<1> SUFFICES ASSUME m.pos > 0 /\ Sound(image)
             PROVE  IsNth(e, image, n)' /\ m.args.fds = sent'[p][n].fds
  BY <1>1, <1>2, <1>3 DEF InNumbered, IsNth
<1>4. IsNth(e, image, n) /\ m.args.fds = sent[p][n].fds
  BY <1>1, <1>2 DEF InNumbered
<1>5. IsNth(e, image, n)' /\ sent'[p][n] = sent[p][n]
  BY <1>1, <1>4, NthKept
<1> QED
  BY <1>4, <1>5

LEMMA UnitNumberedKept ==
  ASSUME NEW e \in End, SenderOK(Peer(e)), SenderOK(Peer(e))', SentKept(Peer(e)),
         NEW x, NEW n, UnitNumbered(e, x, n)
  PROVE  UnitNumbered(e, x, n)'
<1>1. PICK p, image : p = Peer(e) /\ image = x.unit.image
  OBVIOUS
<1>2. IsNth(e, image, n) /\ (x.unit.at = 1 => x.fds = sent[p][n].fds)
  BY <1>1 DEF UnitNumbered
<1>3. IsNth(e, image, n)' /\ sent'[p][n] = sent[p][n]
  BY <1>1, <1>2, NthKept
<1> QED
  BY <1>1, <1>2, <1>3 DEF UnitNumbered

LEMMA NumbersKept ==
  ASSUME NEW e \in End, SenderOK(Peer(e)), SenderOK(Peer(e))', SentStays(Peer(e)),
         LineNumbered(e), in'[e] = in[e], stream'[e] = stream[e], delivered'[e] = delivered[e],
         transport'[e].open => transport[e].open
  PROVE  LineNumbered(e)'
<1>1. PICK p, m, s : p = Peer(e) /\ m = in[e] /\ s = stream[e]
  OBVIOUS
<1> SUFFICES ASSUME transport[e].open
             PROVE  InNumbered(e)' /\ \E f \in [1..Len(s) -> Nat] : Numbers(e, f)'
  BY <1>1 DEF LineNumbered
<1>2. PICK f \in [1..Len(s) -> Nat] : Numbers(e, f)
  BY <1>1 DEF LineNumbered
<1>3. Expected(e)' = Expected(e) /\ \A i : Clean(e, i)' <=> Clean(e, i)
  BY DEF Expected, Clean, CleanIn
<1>4. InNumbered(e)'
  BY InNumberedKept DEF LineNumbered, SentStays
<1>5. ASSUME NEW i \in 1..Len(s), Clean(e, i) PROVE UnitNumbered(e, s[i], f[i])'
  <2>1. PICK x, n : x = s[i] /\ n = f[i]
    OBVIOUS
  <2>2. UnitNumbered(e, x, n)
    BY <1>1, <1>2, <1>5, <2>1 DEF Numbers
  <2>3. UnitNumbered(e, x, n)'
    BY <2>2, UnitNumberedKept DEF SentStays
  <2> QED
    BY <2>1, <2>3
<1>6. LastNumber(e, f)' = LastNumber(e, f)
  BY <1>3 DEF LastNumber
<1>7. transport'[p].open => transport[p].open /\ Committed(p)' = Committed(p)
  BY <1>1 DEF SentStays
<1>8. Numbers(e, f)'
  BY <1>1, <1>2, <1>3, <1>5, <1>6, <1>7 DEF Numbers
<1> QED
  BY <1>4, <1>8

-----------------------------------------------------------------------------
(* The steps of a sender.                                                  *)

LEMMA UnitsKept ==
  ASSUME NEW e, UnitsOK(e), stream'[e] = stream[e], transport'[e].kind = transport[e].kind
  PROVE  UnitsOK(e)'
BY DEF UnitsOK, UnitOK

\* What no step of e changes at the other end.
OthersKept(e) ==
  \A l \in End : l # e => /\ out'[l] = out[l] /\ sent'[l] = sent[l]
                          /\ transport'[l] = transport[l] /\ busy'[l] = busy[l]

LEMMA OthersSentStays ==
  ASSUME NEW e \in End, NEW l \in End, l # e, SenderOK(l), OthersKept(e)
  PROVE  SenderOK(l)' /\ SentStays(l)
<1>1. /\ out'[l] = out[l] /\ sent'[l] = sent[l] /\ transport'[l] = transport[l]
  BY DEF OthersKept
<1>2. SenderOK(l)'
  BY <1>1 DEF SenderOK, Carried, LastSent
<1>3. Committed(l)' = Committed(l) /\ Committed(l) \in Nat
  BY <1>1, CommittedIsNat DEF Committed, NotBegun
<1> QED
  BY <1>1, <1>2, <1>3 DEF SentStays, SentKept

\* e sends, and receives nothing.
LEMMA SenderDelivery ==
  ASSUME DeliveryInv, NEW e \in End, OthersKept(e), SentTables', UNCHANGED <<in, delivered>>,
         stream'[e] = stream[e], transport'[e].open => transport[e].open,
         transport'[e].kind = transport[e].kind, busy'[e] # "reading",
         SenderOK(e)', SentKept(e), UnitsOK(Peer(e))', LineNumbered(Peer(e))'
  PROVE  DeliveryInv'
<1>1. PICK p : p = Peer(e)
  OBVIOUS
<1>2. p \in End /\ p # e /\ Peer(p) = e /\ \A l \in End : l = e \/ l = p
  BY <1>1 DEF End, Peer
<1>3. transport'[p] = transport[p] /\ busy'[p] = busy[p]
  BY <1>2 DEF OthersKept
<1>4. SenderOK(e) /\ SenderOK(p) /\ ReceiverOK(e) /\ ReceiverOK(p)
  BY <1>2 DEF DeliveryInv
<1>5. SenderOK(p)' /\ SentStays(p)
  BY <1>2, <1>4, OthersSentStays
<1>6. ReceiverOK(e)'
  <2>1. LineNumbered(e)'
    BY <1>1, <1>4, <1>5, NumbersKept DEF ReceiverOK
  <2>2. Arrived(e)'
    BY <1>1, <1>4, <1>5, ArrivedKept DEF ReceiverOK, SentStays
  <2>3. UnitsOK(e)' /\ Parsed(in[e])' /\ ReadsOpen(e)'
    BY <1>4, UnitsKept DEF ReceiverOK, ReadsOpen
  <2> QED
    BY <2>1, <2>2, <2>3 DEF ReceiverOK
<1>7. ReceiverOK(p)'
  <2>1. Arrived(p)'
    BY <1>2, <1>3, <1>4, ArrivedKept DEF ReceiverOK
  <2>2. Parsed(in[p])' /\ ReadsOpen(p)'
    BY <1>3, <1>4 DEF ReceiverOK, ReadsOpen
  <2> QED
    BY <1>1, <2>1, <2>2 DEF ReceiverOK
<1>8. OneKind'
  <2>1. \A l \in End : transport'[l].kind = transport[l].kind
    BY <1>2, <1>3
  <2> QED
    BY <2>1, Ends DEF DeliveryInv, OneKind
<1> QED
  BY <1>2, <1>5, <1>6, <1>7, <1>8 DEF DeliveryInv

\* Nothing moves on either line.
LEMMA QuietDelivery ==
  ASSUME DeliveryInv, NEW e \in End, OthersKept(e), SentTables',
         UNCHANGED <<in, stream, delivered>>,
         transport'[e].open => transport[e].open,
         transport'[e].kind = transport[e].kind, busy'[e] # "reading",
         SenderOK(e)', SentStays(e)
  PROVE  DeliveryInv'
<1>1. PICK p : p = Peer(e)
  OBVIOUS
<1>2. p \in End /\ p # e /\ Peer(p) = e
  BY <1>1, Ends
<1>3. transport'[p] = transport[p]
  BY <1>2 DEF OthersKept
<1>4. SenderOK(e) /\ UnitsOK(p) /\ LineNumbered(p)
  BY <1>2 DEF DeliveryInv, ReceiverOK
<1>5. UnitsOK(p)'
  BY <1>3, <1>4, UnitsKept
<1>6. LineNumbered(p)'
  BY <1>2, <1>3, <1>4, NumbersKept
<1> QED
  BY <1>1, <1>5, <1>6, SenderDelivery DEF SentStays

LEMMA PreparedDelivery ==
  ASSUME Inv, DeliveryInv, NEW e \in End, Idle(e), out[e].state # "Sending",
         NEW m, IsReady(m), MessageOK(m), out' = [out EXCEPT ![e] = m],
         UNCHANGED <<transport, in, stream, busy, sent, delivered>>
  PROVE  DeliveryInv'
<1>1. out'[e] = m /\ m.state # "Sending" /\ OthersKept(e)
  BY DEF Inv, Tables, OthersKept, IsReady
<1>2. SenderOK(e)
  BY DEF DeliveryInv
<1>3. SenderOK(e)'
  BY <1>1, <1>2 DEF SenderOK
<1>4. SentStays(e)
  <2>1. Committed(e)' = Committed(e) /\ Committed(e) \in Nat
    BY <1>1, <1>2, CommittedIsNat DEF Committed, NotBegun
  <2> QED
    BY <2>1 DEF SentStays, SentKept
<1>5. SentTables'
  BY DEF DeliveryInv, SentTables
<1> QED
  BY <1>1, <1>3, <1>4, <1>5, QuietDelivery DEF Idle

LEMMA PreparingDelivery ==
  ASSUME Inv, DeliveryInv, NEW e \in End,
         \/ Compose(e) \/ ComposeReply(e) \/ Forward(e) \/ LoadMessage(e) \/ Save(e)
         \/ EditSerial(e) \/ EditHeader(e) \/ EditArguments(e)
  PROVE  DeliveryInv'
<1>1. ASSUME NEW m, NEW changes, Begin(e, m, changes), IsReady(m), MessageOK(m)
      PROVE  DeliveryInv'
  BY <1>1, PreparedDelivery DEF Begin
<1>2. ASSUME NEW m, Edit(e, m), IsReady(m), MessageOK(m) PROVE DeliveryInv'
  BY <1>2, PreparedDelivery DEF Edit, IsPrepared
<1>3. IsPrepared(e) => IsReady(out[e]) /\ MessageOK(out[e])
  BY DEF Inv, WatchInv, OutOK, IsPrepared, IsOnItsWay, DeliveryInv, SenderOK
<1>4. delivered[e] # <<>> => IsReady(LastReceived(e)) /\ MessageOK(LastReceived(e))
  <2> SUFFICES ASSUME delivered[e] # <<>>
               PROVE  IsReady(LastReceived(e)) /\ MessageOK(LastReceived(e))
    OBVIOUS
  <2>1. PICK d, n : d = delivered[e] /\ n = Len(d)
    OBVIOUS
  <2>2. n \in 1..Len(d)
    BY <2>1, LengthIsNat DEF Inv, WatchInv, DeliveredOK
  <2>3. IsReady(d[n]) /\ d[n].dirty /\ ArgsOK(d[n].args)
    BY <2>1, <2>2 DEF Inv, WatchInv, DeliveredOK, DeliveryInv, ReceiverOK, Arrived
  <2>4. MessageOK(d[n])
    BY <2>3 DEF MessageOK
  <2> QED
    BY <2>1, <2>3, <2>4 DEF LastReceived
<1>5. CASE Compose(e)
  <2>1. PICK m \in Template[e] : Begin(e, m, MaxEdits)
    BY <1>5 DEF Compose
  <2>2. DOMAIN m = DOMAIN NewMessage /\ m.state = "Empty" /\ AreFinished(m.args)
    BY TemplateAssumption DEF End
  <2>3. IsReady(m)
    BY <2>2 DEF IsReady, IsMessage, AreFinished
  <2>4. MessageOK(m)
    BY <2>2, FinishedOK DEF MessageOK
  <2> QED
    BY <1>1, <2>1, <2>3, <2>4
<1>6. CASE ComposeReply(e)
  BY <1>1, <1>6, RepliesAreReady, RepliesAreOK DEF ComposeReply
<1>7. CASE Forward(e)
  BY <1>1, <1>4, <1>7 DEF Forward
<1>8. CASE LoadMessage(e)
  <2>1. PICK image \in Saved[e] : Begin(e, Load(NewMessage, Units(image)), MaxEdits)
    BY <1>8 DEF LoadMessage
  <2>2. IsImage(image)
    BY ImageAssumption DEF IsImage, End
  <2> QED
    BY <1>1, <2>1, <2>2, LoadedIsReady, LoadedOK
<1>9. CASE Save(e)
  <2>1. PICK s : s = Serialize(out[e])
    OBVIOUS
  <2>2. IsPrepared(e) /\ Edit(e, s.m)
    BY <1>9, <2>1 DEF Save
  <2>3. IsReady(s.m) /\ MessageOK(s.m)
    BY <1>3, <2>1, <2>2, SerializeDoes, SerializeOK
  <2> QED
    BY <1>2, <2>2, <2>3
<1>10. CASE EditSerial(e)
  BY <1>2, <1>3, <1>10, SetSerialReady, SetSerialOK DEF EditSerial
<1>11. CASE EditHeader(e)
  BY <1>2, <1>3, <1>11, SetHeaderReady, SetHeaderOK DEF EditHeader
<1>12. CASE EditArguments(e)
  <2>1. PICK args \in Arguments_ : IsPrepared(e) /\ Edit(e, SetArguments(out[e], args))
    BY <1>12 DEF EditArguments
  <2>2. ArgsOK(args)
    BY ArgumentsAssumption, FinishedOK
  <2> QED
    BY <1>2, <1>3, <2>1, <2>2, SetArgumentsReady, SetArgumentsOK
<1> QED
  BY <1>5, <1>6, <1>7, <1>8, <1>9, <1>10, <1>11, <1>12

\* The bytes that go out are those of the message that was handed in.
LEMMA SerializedIsCopy ==
  ASSUME NEW n, IsReady(n), MessageOK(n), NEW s, s = Serialize(n), s.ok, NEW o, o = Owed(n)
  PROVE  /\ IsCopy(s.m.buffer[1].image, o) /\ IsSeq(s.m.args.fds) /\ s.m.args.fds = o.fds
<1>1. PICK x : x = s.m
  OBVIOUS
<1>2. /\ MessageOK(x) /\ SameFields(n, x) /\ x.type # "Invalid"
      /\ x.buffer[1].image = Image(x)
  BY <1>1, SerializeOK
<1>3. PICK image : image = Image(x)
  OBVIOUS
<1>4. /\ image.flaw = "none" /\ image.type = x.type /\ image.flags = x.flags
      /\ image.serial = x.serial /\ image.headers = x.headers
      /\ image.content = x.args.content /\ image.bodyLength = x.args.length
  BY <1>3 DEF Image
<1>5. /\ o.type = n.type /\ o.flags = n.flags /\ o.serial = n.serial /\ o.headers = n.headers
      /\ o.fds = n.args.fds /\ o.content = n.args.content /\ o.whole = (~n.args.borrowed)
  BY DEF Owed
<1>6. ArgsOK(x.args) /\ ArgsOK(n.args)
  BY <1>2 DEF MessageOK
<1>7. ASSUME o.whole PROVE o.content = ContentOf(image)
  <2>1. n.args.borrowed = FALSE
    BY <1>5, <1>6, <1>7 DEF ArgsOK
  <2>2. n.args.content = x.args.content /\ x.args.borrowed = FALSE
    BY <1>2, <2>1 DEF SameFields
  <2>3. x.args.length = 0 => x.args.content = "none"
    BY <1>6, <2>2 DEF ArgsOK
  <2> QED
    BY <1>4, <1>5, <2>2, <2>3 DEF ContentOf
<1>8. IsCopy(image, o)
  BY <1>2, <1>4, <1>5, <1>7 DEF IsCopy, Sound, SameFields
<1>9. IsSeq(x.args.fds) /\ x.args.fds = o.fds
  BY <1>2, <1>5, <1>6 DEF ArgsOK, SameFields
<1> QED
  BY <1>1, <1>2, <1>3, <1>8, <1>9

\* An end that has nothing more to send: what it did not begin no longer matters when it
\* closes.
LEMMA EndedDelivery ==
  ASSUME Inv, DeliveryInv, NEW e \in End, NEW t, out' = [out EXCEPT ![e] = NoMessage],
         transport' = [transport EXCEPT ![e] = t], t.kind = transport[e].kind,
         t.open => transport[e].open /\ ~NotBegun(e),
         UNCHANGED <<in, stream, sent, delivered>>, busy'[e] # "reading",
         busy' = [busy EXCEPT ![e] = busy'[e]]
  PROVE  DeliveryInv'
<1>1. out'[e] = NoMessage /\ transport'[e] = t /\ OthersKept(e)
  <2>1. busy = [l \in End |-> busy[l]]
    BY DEF DeliveryInv, SentTables
  <2>2. \A l \in End : l # e => busy'[l] = busy[l]
    BY <2>1
  <2> QED
    BY <2>2 DEF Inv, Tables, OthersKept
<1>2. out'[e].state = "none"
  BY <1>1 DEF NoMessage
<1>3. SenderOK(e)
  BY DEF DeliveryInv
<1>4. SenderOK(e)'
  BY <1>2, <1>3 DEF SenderOK
<1>5. /\ Committed(e)' = Len(sent[e]) /\ Committed(e) \in Nat /\ Committed(e) <= Len(sent[e])
      /\ ~NotBegun(e) => Committed(e) = Len(sent[e])
  BY <1>2, <1>3, CommittedIsNat DEF Committed, NotBegun
<1>6. SentStays(e)
  BY <1>1, <1>5 DEF SentStays, SentKept
<1>7. SentTables'
  BY DEF DeliveryInv, SentTables
<1> QED
  BY <1>1, <1>4, <1>6, <1>7, QuietDelivery

LEMMA SendDelivery == ASSUME Inv, DeliveryInv, NEW e \in End, Send(e) PROVE DeliveryInv'
<1>1. PICK n, s : n = Numbered(e) /\ s = Serialize(n)
  OBVIOUS
<1>2. PICK o : o = Owed(n)
  OBVIOUS
<1>3. /\ IsPrepared(e) /\ UNCHANGED <<in, stream, busy, delivered>>
      /\ s.ok => /\ out' = [out EXCEPT ![e] = [s.m EXCEPT !.state = "Sending"]]
                 /\ transport' = [transport EXCEPT ![e] = SetWriteListener(@, "out")]
                 /\ sent' = [sent EXCEPT ![e] = Append(@, o)]
      /\ ~s.ok => /\ out' = [out EXCEPT ![e] = NoMessage] /\ transport' = transport
                  /\ sent' = sent
  BY <1>1, <1>2 DEF Send
<1>4. /\ IsReady(out[e]) /\ MessageOK(out[e]) /\ out[e].state # "Sending" /\ SenderOK(e)
      /\ busy[e] = "no" /\ TransportOK(e)
  BY <1>3 DEF Inv, WatchInv, OutOK, IsPrepared, IsOnItsWay, DeliveryInv, SenderOK, Idle
<1>5. SentTables
  BY DEF DeliveryInv
<1>6. IsReady(n) /\ MessageOK(n)
  BY <1>1, <1>4, SetSerialReady, SetSerialOK DEF Numbered
<1>7. CASE ~s.ok
  <2>1. PICK t : t = transport[e]
    OBVIOUS
  <2>2. transport' = [transport EXCEPT ![e] = t] /\ busy' = [busy EXCEPT ![e] = busy'[e]]
    BY <1>3, <1>5, <1>7, <2>1 DEF Inv, Tables, SentTables
  <2> QED
    BY <1>3, <1>4, <1>7, <2>1, <2>2, EndedDelivery DEF NotBegun
<1>8. CASE s.ok
  <2>1. IsReady(s.m) /\ s.m.state = "Serialized" /\ ~s.m.dirty
    BY <1>1, <1>6, <1>8, SerializeDoes
  <2>2. PICK m : m = [s.m EXCEPT !.state = "Sending"]
    OBVIOUS
  <2>3. /\ m.args = s.m.args /\ m.state = "Sending" /\ m.pos = 0 /\ m.buffer = s.m.buffer
    BY <2>1, <2>2, Fields DEF IsReady, IsMessage
  <2>4. /\ IsCopy(m.buffer[1].image, o) /\ IsSeq(m.args.fds) /\ m.args.fds = o.fds
    BY <1>1, <1>2, <1>6, <1>8, <2>3, SerializedIsCopy
  <2>5. PICK q, t : q = sent[e] /\ t = SetWriteListener(transport[e], "out")
    OBVIOUS
  <2>6. t.open = transport[e].open /\ t.kind = transport[e].kind
    BY <1>4, <2>5 DEF TransportOK, SetWriteListener
  <2>7. /\ out'[e] = m /\ transport'[e] = t /\ sent'[e] = Append(q, o) /\ OthersKept(e)
        /\ SentTables'
    BY <1>3, <1>5, <1>8, <2>2, <2>5 DEF Inv, Tables, SentTables, OthersKept
  <2>8. /\ IsSeq(q) /\ Len(q) \in Nat /\ IsSeq(sent'[e]) /\ Len(sent'[e]) = Len(q) + 1
        /\ \A i \in 1..Len(q) : sent'[e][i] = q[i]
        /\ sent'[e][Len(q) + 1] = o
    BY <1>4, <2>5, <2>7, Appended, LengthIsNat DEF SenderOK
  <2>9. SenderOK(e)'
    <3>1. LastSent(e)' = o /\ Len(sent'[e]) > 0
      BY <2>8 DEF LastSent
    <3>2. Carried(e)'
      BY <2>4, <2>7, <3>1 DEF Carried
    <3> QED
      BY <2>3, <2>7, <2>8, <3>2 DEF SenderOK
  <2>10. SentStays(e)
    <3>1. Committed(e)' = Len(q) /\ Committed(e) = Len(q)
      BY <1>4, <2>3, <2>5, <2>7, <2>8 DEF Committed, NotBegun
    <3> QED
      BY <2>5, <2>6, <2>7, <2>8, <3>1 DEF SentStays, SentKept
  <2> QED
    BY <1>3, <1>4, <2>6, <2>7, <2>9, <2>10, QuietDelivery
<1> QED
  BY <1>7, <1>8

LEMMA CloseDelivery == ASSUME Inv, DeliveryInv, NEW e \in End, Close(e) PROVE DeliveryInv'
<1>1. PICK t : t = Closed(transport[e])
  OBVIOUS
<1>2. /\ transport' = [transport EXCEPT ![e] = t] /\ out' = [out EXCEPT ![e] = NoMessage]
      /\ busy[e] = "no" /\ UNCHANGED <<in, stream, busy, sent, delivered>>
  BY <1>1 DEF Close, Idle
<1>3. t.open = FALSE /\ t.kind = transport[e].kind
  BY <1>1 DEF Inv, WatchInv, TransportOK, Closed, CloseTransport, SetWriteListener
<1>4. busy' = [busy EXCEPT ![e] = busy'[e]]
  BY <1>2 DEF DeliveryInv, SentTables
<1> QED
  BY <1>2, <1>3, <1>4, EndedDelivery

-----------------------------------------------------------------------------
(* A line that becomes longer.                                             *)

\* Units of one message, that begin it or go on with it.
AreOfOne(a, image) ==
  /\ IsSeq(a) /\ Len(a) > 0
  /\ \A i \in 1..Len(a) : a[i].unit.image = image /\ (i > 1 => a[i].unit.at # 1)

\* The message they belong to is the last that was sent, and counts as sent from the step on
\* in which x, its first unit, is put on the line.
IsLastSent(e, x, image) ==
  /\ Committed(Peer(e))' = IF x.unit.at = 1 THEN Committed(Peer(e)) + 1 ELSE Committed(Peer(e))
  /\ Committed(Peer(e))' > 0 /\ IsCopy(image, sent'[Peer(e)][Committed(Peer(e))'])
  /\ x.unit.at = 1 => x.fds = sent'[Peer(e)][Committed(Peer(e))'].fds

LEMMA LongerNumbers ==
  ASSUME NEW e \in End, SenderOK(Peer(e)), SenderOK(Peer(e))', SentKept(Peer(e)),
         IsSeq(stream[e]), IsSeq(delivered[e]), IsArriving(in[e]), LineNumbered(e), LineOK(e)',
         NEW a, NEW image, AreOfOne(a, image), stream'[e] = Lengthened(stream[e], a),
         in'[e] = in[e], delivered'[e] = delivered[e],
         transport'[e].open => transport[e].open, transport[Peer(e)].open,
         Sound(image) => IsLastSent(e, a[1], image)
  PROVE  LineNumbered(e)'
<1>1. PICK p, m, s, z, d : /\ p = Peer(e) /\ m = in[e] /\ s = stream[e] /\ z = stream'[e]
                           /\ d = delivered[e]
  OBVIOUS
<1>2. PICK k, l : k = Len(s) /\ l = Len(a)
  OBVIOUS
<1>3. /\ k \in Nat /\ l \in Nat /\ l > 0 /\ Len(d) \in Nat /\ m.pos \in Nat
      /\ (s = <<>> <=> k = 0)
      /\ IsSeq(z) /\ Len(z) = k + l /\ (z = <<>> <=> k + l = 0)
      /\ \A i \in 1..k : z[i] = s[i]
      /\ \A i \in 1..l : z[k + i] = a[i]
      /\ \A i \in k + 1..k + l : z[i] = a[i - k]
  <2>1. IsSeq(a) /\ IsSeq(s) /\ z = s \o a
    BY <1>1 DEF AreOfOne, Lengthened
  <2>2. /\ IsSeq(z) /\ Len(z) = k + l /\ \A i \in 1..k : z[i] = s[i]
        /\ \A i \in 1..l : z[k + i] = a[i]
        /\ \A i \in k + 1..k + l : z[i] = a[i - k]
    BY <1>2, <2>1, Joined
  <2> QED
    BY <1>1, <1>2, <2>1, <2>2, LengthIsNat DEF AreOfOne, IsArriving
<1> SUFFICES ASSUME transport'[e].open
             PROVE  InNumbered(e)' /\ \E g \in [1..Len(z) -> Nat] : Numbers(e, g)'
  BY <1>1 DEF LineNumbered
<1>4. PICK f \in [1..k -> Nat] : Numbers(e, f)
  BY <1>1, <1>2 DEF LineNumbered
<1>5. PICK n : n = LastNumber(e, f)
  OBVIOUS
<1>6. /\ n \in Nat
      /\ k > 0 => n = f[k]
      /\ k = 0 => n = IF m.pos = 0 THEN Len(d) ELSE Len(d) + 1
  <2>1. CASE k = 0
    BY <1>1, <1>3, <1>5, <2>1 DEF LastNumber, Expected
  <2>2. CASE k > 0
    <3>1. k \in 1..k /\ s # <<>>
      BY <1>3, <2>2
    <3>2. n = f[k]
      BY <1>1, <1>2, <1>5, <3>1 DEF LastNumber
    <3> QED
      BY <2>2, <3>1, <3>2
  <2> QED
    BY <1>3, <2>1, <2>2
<1>7. PICK N : N = IF a[1].unit.at = 1 THEN n + 1 ELSE n
  OBVIOUS
<1>8. PICK g : /\ g \in [1..k + l -> Nat]
               /\ \A i \in 1..k : g[i] = f[i]
               /\ \A i \in k + 1..k + l : g[i] = N
  <2> DEFINE G == [i \in 1..k + l |-> IF i <= k THEN f[i] ELSE N]
  <2>1. N \in Nat
    BY <1>6, <1>7
  <2>2. G \in [1..k + l -> Nat]
    BY <1>3, <2>1
  <2>3. \A i \in 1..k : G[i] = f[i]
    BY <1>3
  <2>4. \A i \in k + 1..k + l : G[i] = N
    BY <1>3
  <2> HIDE DEF G
  <2> QED
    BY <2>2, <2>3, <2>4
<1>9. z # <<>> => g[1] = Expected(e)'
  <2>1. Expected(e)' = Len(d) + 1
    BY <1>1 DEF Expected
  <2>2. CASE k > 0
    <3>1. g[1] = f[1] /\ 1 \in 1..k /\ s # <<>>
      BY <1>3, <1>8, <2>2
    <3>2. f[1] = Len(d) + 1
      BY <1>1, <1>4, <3>1 DEF Numbers, Expected
    <3> QED
      BY <2>1, <3>1, <3>2
  <2>3. CASE k = 0
    <3>1. z[1] = a[1] /\ 1 \in k + 1..k + l /\ z # <<>>
      <4>1. 1 \in 1..l /\ k + 1 = 1
        BY <1>3, <2>3
      <4> QED
        BY <1>3, <2>3, <4>1
    <3>2. Resumes(m, z[1].unit)
      BY <1>1, <3>1 DEF LineOK
    <3>3. IF m.pos = 0 THEN a[1].unit.at = 1 ELSE a[1].unit.at # 1
      BY <1>3, <3>1, <3>2 DEF Resumes
    <3>4. N = Len(d) + 1
      BY <1>3, <1>6, <1>7, <2>3, <3>3
    <3> QED
      BY <1>8, <2>1, <3>1, <3>4
  <2> QED
    BY <1>3, <2>2, <2>3
<1>10. ASSUME NEW i \in 1..Len(z) - 1
       PROVE  g[i + 1] = IF z[i + 1].unit.at = 1 THEN g[i] + 1 ELSE g[i]
  <2>1. PICK j : j = i + 1
    OBVIOUS
  <2>2. i \in Nat /\ i >= 1 /\ i < k + l /\ j \in 1..k + l
    BY <1>3, <2>1
  <2>3. CASE i < k
    <3>1. i \in 1..k /\ j \in 1..k /\ i \in 1..Len(s) - 1
      BY <1>2, <1>3, <2>1, <2>2, <2>3
    <3>2. f[j] = IF s[j].unit.at = 1 THEN f[i] + 1 ELSE f[i]
      BY <1>1, <1>4, <2>1, <3>1 DEF Numbers
    <3>3. g[i] = f[i] /\ g[j] = f[j] /\ z[j] = s[j]
      BY <1>3, <1>8, <3>1
    <3> QED
      BY <2>1, <3>2, <3>3
  <2>4. CASE i = k
    <3>1. 1 \in 1..l /\ j \in k + 1..k + l /\ i \in 1..k /\ k > 0
      BY <1>3, <2>1, <2>2, <2>4
    <3>2. z[j] = a[1]
      BY <1>3, <2>1, <2>4, <3>1
    <3>3. g[j] = N /\ g[i] = n
      BY <1>6, <1>8, <2>4, <3>1
    <3> QED
      BY <1>7, <2>1, <3>2, <3>3
  <2>5. CASE i > k
    <3>1. PICK r : r = j - k
      OBVIOUS
    <3>2. r \in 1..l /\ r > 1 /\ j \in k + 1..k + l /\ i \in k + 1..k + l
      BY <1>3, <2>1, <2>2, <2>5, <3>1
    <3>3. z[j] = a[r] /\ g[j] = N /\ g[i] = N
      BY <1>3, <1>8, <3>1, <3>2
    <3>4. a[r].unit.at # 1
      BY <1>2, <3>2 DEF AreOfOne
    <3> QED
      BY <2>1, <3>3, <3>4
  <2> QED
    BY <1>3, <2>2, <2>3, <2>4, <2>5
<1>11. \A i \in 1..k : Clean(e, i)' => Clean(e, i)
  <2> SUFFICES ASSUME NEW i \in 1..k, Clean(e, i)' PROVE Clean(e, i)
    OBVIOUS
  <2>1. \A j \in 1..i : j \in 1..k /\ z[j] = s[j]
    BY <1>3
  <2> QED
    BY <1>1, <2>1 DEF Clean, CleanIn
<1>12. ASSUME NEW i \in k + 1..k + l, Clean(e, i)' PROVE Clean(e, k) /\ Sound(image)
  <2>1. \A j \in 1..k : j \in 1..i /\ z[j] = s[j]
    BY <1>3
  <2>2. Clean(e, k)
    BY <1>1, <1>12, <2>1 DEF Clean, CleanIn
  <2>3. PICK r : r = i - k
    OBVIOUS
  <2>4. r \in 1..l /\ i \in 1..i /\ z[i] = a[r]
    BY <1>3, <2>3
  <2>5. Sound(a[r].unit.image)
    BY <1>1, <1>12, <2>4 DEF Clean
  <2>6. a[r].unit.image = image
    BY <1>2, <2>4 DEF AreOfOne
  <2> QED
    BY <2>2, <2>5, <2>6
<1>13. ASSUME Clean(e, k), Sound(image)
       PROVE  /\ Committed(p)' = N /\ IsNth(e, image, N)'
              /\ a[1].unit.at = 1 => a[1].fds = sent'[p][N].fds
  <2>1. Committed(p) = n
    BY <1>1, <1>2, <1>4, <1>5, <1>13 DEF Numbers
  <2>2. IsLastSent(e, a[1], image)
    BY <1>13
  <2>3. Committed(p)' = N /\ N > 0
    BY <1>1, <1>7, <2>1, <2>2 DEF IsLastSent
  <2>4. IsCopy(image, sent'[p][N]) /\ (a[1].unit.at = 1 => a[1].fds = sent'[p][N].fds)
    BY <1>1, <2>2, <2>3 DEF IsLastSent
  <2>5. N \in 1..N
    BY <1>6, <1>7, <2>3
  <2> QED
    BY <1>1, <2>3, <2>4, <2>5 DEF IsNth
<1>14. ASSUME NEW i \in 1..Len(z), Clean(e, i)' PROVE UnitNumbered(e, z[i], g[i])'
  <2>1. CASE i <= k
    <3>1. i \in 1..k /\ z[i] = s[i] /\ g[i] = f[i]
      BY <1>3, <1>8, <2>1
    <3>2. PICK x, b : x = s[i] /\ b = f[i]
      OBVIOUS
    <3>3. UnitNumbered(e, x, b)
      BY <1>1, <1>2, <1>4, <1>11, <1>14, <3>1, <3>2 DEF Numbers
    <3>4. UnitNumbered(e, x, b)'
      BY <3>3, UnitNumberedKept
    <3> QED
      BY <3>1, <3>2, <3>4
  <2>2. CASE i > k
    <3>1. PICK r : r = i - k
      OBVIOUS
    <3>2. i \in k + 1..k + l /\ r \in 1..l /\ z[i] = a[r] /\ g[i] = N
      BY <1>3, <1>8, <2>2, <3>1
    <3>3. /\ Committed(p)' = N /\ IsNth(e, image, N)'
          /\ a[1].unit.at = 1 => a[1].fds = sent'[p][N].fds
      BY <1>12, <1>13, <1>14, <3>2
    <3>4. a[r].unit.image = image /\ (r > 1 => a[r].unit.at # 1)
      BY <1>2, <3>2 DEF AreOfOne
    <3>5. a[r].unit.at = 1 => r = 1
      BY <3>2, <3>4
    <3>6. PICK x : x = a[r]
      OBVIOUS
    <3>7. UnitNumbered(e, x, N)'
      BY <1>1, <3>3, <3>4, <3>5, <3>6 DEF UnitNumbered
    <3> QED
      BY <3>2, <3>6, <3>7
  <2> QED
    BY <1>3, <2>1, <2>2
<1>15. ASSUME transport'[p].open, Clean(e, Len(z))' PROVE Committed(p)' = LastNumber(e, g)'
  <2>1. Len(z) \in k + 1..k + l /\ z # <<>>
    BY <1>3
  <2>2. Committed(p)' = N
    BY <1>12, <1>13, <1>15, <2>1
  <2>3. LastNumber(e, g)' = g[Len(z)]
    BY <1>1, <2>1 DEF LastNumber
  <2> QED
    BY <1>8, <2>1, <2>2, <2>3
<1>16. Numbers(e, g)'
  BY <1>1, <1>9, <1>10, <1>14, <1>15 DEF Numbers
<1>17. InNumbered(e)'
  BY InNumberedKept DEF LineNumbered
<1> QED
  BY <1>3, <1>8, <1>16, <1>17

AreUnitsOK(e, a) == \A i \in 1..Len(a) : UnitOK(e, a[i])

LEMMA LongerUnitsOK ==
  ASSUME NEW e, UnitsOK(e), IsSeq(stream[e]), transport'[e].kind = transport[e].kind,
         NEW a, IsSeq(a), AreUnitsOK(e, a), stream'[e] = Lengthened(stream[e], a)
  PROVE  UnitsOK(e)'
<1>1. PICK s, z, k, l : s = stream[e] /\ z = stream'[e] /\ k = Len(s) /\ l = Len(a)
  OBVIOUS
<1>2. IsSeq(s) /\ z = s \o a
  BY <1>1 DEF Lengthened
<1>3. /\ k \in Nat /\ l \in Nat /\ Len(z) = k + l /\ \A i \in 1..k : z[i] = s[i]
      /\ \A i \in k + 1..k + l : z[i] = a[i - k]
  BY <1>1, <1>2, Joined, LengthIsNat
<1>4. ASSUME NEW x, UnitOK(e, x) PROVE UnitOK(e, x)'
  BY <1>4 DEF UnitOK
<1>5. ASSUME NEW i \in 1..Len(z) PROVE UnitOK(e, z[i])'
  <2>1. PICK x : x = z[i]
    OBVIOUS
  <2>2. CASE i <= k
    <3>1. i \in 1..k /\ x = s[i]
      BY <1>3, <2>1, <2>2
    <3>2. UnitOK(e, x)
      BY <1>1, <3>1 DEF UnitsOK
    <3> QED
      BY <1>4, <2>1, <3>2 DEF UnitOK
  <2>3. CASE i > k
    <3>1. PICK r : r = i - k
      OBVIOUS
    <3>2. i \in k + 1..k + l /\ r \in 1..l
      BY <1>3, <2>3, <3>1
    <3>3. x = a[r]
      BY <1>3, <2>1, <3>1, <3>2
    <3>4. UnitOK(e, x)
      BY <1>1, <3>2, <3>3 DEF AreUnitsOK
    <3> QED
      BY <1>4, <2>1, <3>4 DEF UnitOK
  <2> QED
    BY <1>3, <2>2, <2>3
<1> QED
  BY <1>1, <1>5 DEF UnitsOK

\* What another program sends counts as sent, unless it is flawed.
LEMMA SendForeignDelivery ==
  ASSUME Inv, Inv', DeliveryInv, NEW e \in End, SendForeign(e) PROVE DeliveryInv'
<1>1. PICK image \in Foreign[e] :
         /\ out[e].state = "none" /\ transport[e].open /\ busy[e] = "no"
         /\ stream' = [stream EXCEPT ![Peer(e)] =
                          @ \o [i \in DOMAIN Units(image) |->
                                   [unit |-> Units(image)[i], fds |-> <<>>]]]
         /\ sent' = IF image.flaw # "none" THEN sent
                    ELSE [sent EXCEPT ![e] =
                             Append(@, [type |-> image.type, flags |-> image.flags,
                                        serial |-> image.serial, headers |-> image.headers,
                                        fds |-> <<>>, content |-> image.content,
                                        whole |-> TRUE])]
         /\ UNCHANGED <<transport, out, in, busy, delivered>>
  BY DEF SendForeign, Idle
<1>2. IsImage(image)
  BY ImageAssumption DEF IsImage, End
<1>3. IF image.flaw # "none" THEN IsRefused(image)
      ELSE image.type # "Invalid" /\ (image.bodyLength = 0 => image.content = "none")
  BY ForeignAssumption DEF End
<1>4. PICK q, p : q = Units(image) /\ p = Peer(e)
  OBVIOUS
<1>5. p \in End /\ p # e /\ Peer(p) = e
  BY <1>4, Ends
<1>6. IsWhole(q) /\ Len(q) \in Nat /\ Len(q) > 0 /\ DOMAIN q = 1..Len(q) /\ q[1].image = image
  BY <1>2, <1>4, UnitsAreWhole, UnitsImage, LengthIsNat DEF IsWhole, FixedLength
<1>7. PICK a : a = [i \in 1..Len(q) |-> [unit |-> q[i], fds |-> <<>>]]
  OBVIOUS
<1>8. /\ IsSeq(a) /\ Len(a) = Len(q) /\ \A i \in 1..Len(q) : a[i].unit = q[i] /\ a[i].fds = <<>>
  <2>1. a = [i \in 1..Len(q) |-> a[i]]
    BY <1>7
  <2> QED
    BY <1>6, <1>7, <2>1, FunctionIsSeq
<1>9. \A i \in 1..Len(a) : /\ a[i].unit.image = image /\ a[i].unit.at = i /\ a[i].fds = <<>>
  BY <1>6, <1>8 DEF IsWhole
<1>10. AreOfOne(a, image)
  BY <1>6, <1>8, <1>9 DEF AreOfOne
<1>11. /\ stream'[p] = Lengthened(stream[p], a) /\ stream'[e] = stream[e]
  BY <1>1, <1>4, <1>5, <1>6, <1>7 DEF Inv, Tables, Lengthened
<1>12. SenderOK(e) /\ UnitsOK(p) /\ LineNumbered(p) /\ SentTables
  BY <1>5 DEF DeliveryInv, ReceiverOK
<1>13. PICK n : n = Len(sent[e])
  OBVIOUS
<1>14. n \in Nat /\ Committed(e) = n /\ Committed(e)' = Len(sent'[e])
  BY <1>1, <1>12, <1>13, CommittedIsNat DEF Committed, NotBegun
<1>15. /\ SenderOK(e)' /\ SentKept(e) /\ SentTables' /\ OthersKept(e)
       /\ Sound(image) => IsLastSent(p, a[1], image)
  <2>1. CASE image.flaw # "none"
    <3>1. sent' = sent
      BY <1>1, <2>1
    <3>2. SenderOK(e)' /\ SentTables' /\ OthersKept(e)
      BY <1>1, <1>12, <3>1 DEF SenderOK, SentTables, OthersKept
    <3>3. SentKept(e)
      BY <1>13, <1>14, <3>1 DEF SentKept
    <3> QED
      BY <2>1, <3>2, <3>3 DEF Sound
  <2>2. CASE image.flaw = "none"
    <3>1. PICK o : o = [type |-> image.type, flags |-> image.flags, serial |-> image.serial,
                        headers |-> image.headers, fds |-> <<>>, content |-> image.content,
                        whole |-> TRUE]
      OBVIOUS
    <3>2. sent' = [sent EXCEPT ![e] = Append(@, o)]
      BY <1>1, <2>2, <3>1
    <3>3. PICK z : z = sent[e]
      OBVIOUS
    <3>4. sent'[e] = Append(z, o) /\ SentTables' /\ OthersKept(e)
      BY <1>1, <1>12, <3>2, <3>3 DEF SentTables, OthersKept
    <3>5. /\ IsSeq(z) /\ IsSeq(sent'[e]) /\ Len(sent'[e]) = n + 1
          /\ \A i \in 1..n : sent'[e][i] = z[i]
          /\ sent'[e][n + 1] = o
      BY <1>12, <1>13, <3>3, <3>4, Appended DEF SenderOK
    <3>6. SenderOK(e)'
      BY <1>1, <3>5 DEF SenderOK
    <3>7. SentKept(e)
      BY <1>14, <3>3, <3>5 DEF SentKept
    <3>8. IsCopy(image, o)
      BY <1>3, <2>2, <3>1 DEF IsCopy, Sound, ContentOf
    <3>9. PICK x : x = a[1]
      OBVIOUS
    <3>10. x.unit.at = 1 /\ x.fds = o.fds
      BY <1>6, <1>8, <1>9, <3>1, <3>9
    <3>11. IsLastSent(p, x, image)
      <4>1. Committed(e)' = n + 1 /\ n + 1 > 0
        BY <1>14, <3>5
      <4> QED
        BY <1>5, <1>14, <3>5, <3>8, <3>10, <4>1 DEF IsLastSent
    <3> QED
      BY <3>4, <3>6, <3>7, <3>9, <3>11
  <2> QED
    BY <2>1, <2>2
<1>16. LineNumbered(p)'
  <2>1. IsSeq(stream[p]) /\ IsSeq(delivered[p]) /\ IsArriving(in[p])
    BY <1>5 DEF Inv, LineInv, StreamOK, WatchInv, DeliveredOK
  <2>2. LineOK(p)'
    BY <1>5 DEF Inv, LineInv
  <2> QED
    BY <1>1, <1>5, <1>10, <1>11, <1>12, <1>15, <2>1, <2>2, LongerNumbers
<1>17. UnitsOK(p)'
  <2>1. IsSeq(<<>>)
    BY EmptySeq DEF IsSeq
  <2>2. FlawIsFound(image, <<>>)
    BY <1>3 DEF FlawIsFound, Sound
  <2>3. AreUnitsOK(p, a)
    BY <1>9, <2>1, <2>2 DEF AreUnitsOK, UnitOK
  <2>4. IsSeq(stream[p])
    BY <1>5 DEF Inv, LineInv, StreamOK
  <2> QED
    BY <1>1, <1>8, <1>11, <1>12, <2>3, <2>4, LongerUnitsOK
<1> QED
  BY <1>1, <1>4, <1>11, <1>15, <1>16, <1>17, SenderDelivery

\* A message that is given up before a byte of it was written is as if it had not been sent.
LEMMA TakenBackDelivery ==
  ASSUME Inv, DeliveryInv, NEW e \in End, NotBegun(e), out' = [out EXCEPT ![e] = NoMessage],
         sent' = [sent EXCEPT ![e] = Front(@)], busy' = [busy EXCEPT ![e] = "no"],
         NEW t, transport' = [transport EXCEPT ![e] = t], t.kind = transport[e].kind,
         t.open = transport[e].open, UNCHANGED <<in, stream, delivered>>
  PROVE  DeliveryInv'
<1>1. SenderOK(e) /\ SentTables /\ out[e].state = "Sending"
  BY DEF DeliveryInv, NotBegun
<1>2. PICK q, n, z : q = sent[e] /\ n = Len(q) - 1 /\ z = SubSeq(q, 1, n)
  OBVIOUS
<1>3. IsSeq(q) /\ Len(q) \in Nat /\ Len(q) > 0 /\ n \in Nat /\ n \in 0..Len(q)
  BY <1>1, <1>2, LengthIsNat DEF SenderOK, Carried
<1>4. IsSeq(z) /\ Len(z) = n /\ \A i \in 1..n : z[i] = q[i]
  <2>1. PICK one : one = 1
    OBVIOUS
  <2>2. /\ IsSeq(z) /\ Len(z) = n - one + 1
        /\ \A i \in 1..n - one + 1 : z[i] = q[one + i - 1]
    BY <1>2, <1>3, <2>1, Cut
  <2>3. n - one + 1 = n /\ \A i \in 1..n : one + i - 1 = i
    BY <1>3, <2>1
  <2> QED
    BY <2>2, <2>3
<1>5. /\ out'[e] = NoMessage /\ transport'[e] = t /\ sent'[e] = z /\ busy'[e] = "no"
      /\ OthersKept(e) /\ SentTables'
  BY <1>1, <1>2 DEF Inv, Tables, SentTables, OthersKept, Front
<1>6. out'[e].state = "none"
  BY <1>5 DEF NoMessage
<1>7. SenderOK(e)'
  BY <1>4, <1>5, <1>6 DEF SenderOK
<1>8. Committed(e) = n /\ Committed(e)' = n
  BY <1>2, <1>4, <1>5, <1>6 DEF Committed, NotBegun
<1>9. SentStays(e)
  BY <1>2, <1>3, <1>4, <1>5, <1>8 DEF SentStays, SentKept
<1> QED
  BY <1>5, <1>7, <1>9, QuietDelivery

\* The next units of the message are written.
LEMMA WrittenDelivery ==
  ASSUME Inv, Inv', DeliveryInv, NEW e \in End, out[e].state = "Sending", transport[e].open,
         NEW a, IsWritten(out[e], a, transport[e]),
         NEW n, n = [out[e] EXCEPT !.pos = @ + Len(a)], out' = [out EXCEPT ![e] = n],
         stream' = [stream EXCEPT ![Peer(e)] = Lengthened(stream[Peer(e)], a)],
         busy' = [busy EXCEPT ![e] = "writing"],
         UNCHANGED <<transport, in, sent, delivered>>
  PROVE  DeliveryInv'
<1>1. PICK p, m, q : p = Peer(e) /\ m = out[e] /\ q = sent[e]
  OBVIOUS
<1>2. p \in End /\ p # e /\ Peer(p) = e
  BY <1>1, Ends
<1>3. /\ SenderOK(e) /\ Carried(e) /\ SentTables /\ UnitsOK(p) /\ LineNumbered(p)
      /\ transport[p].kind = transport[e].kind
  BY <1>2 DEF DeliveryInv, ReceiverOK, SenderOK, OneKind
<1>4. PICK image, o, k, l : /\ image = m.buffer[1].image /\ o = q[Len(q)] /\ k = m.pos
                            /\ l = Len(a)
  OBVIOUS
<1>5. /\ IsSeq(q) /\ Len(q) \in Nat /\ Len(q) > 0 /\ IsCopy(image, o)
      /\ IsSeq(m.args.fds) /\ m.args.fds = o.fds
  BY <1>1, <1>3, <1>4, LengthIsNat DEF SenderOK, Carried, LastSent
<1>6. IsMessage(m) /\ IsWhole(m.buffer) /\ m.state = "Sending" /\ k \in Nat
  BY <1>1, <1>4, LengthIsNat DEF Inv, WatchInv, OutOK, IsReady, IsOnItsWay
<1>7. /\ IsSeq(a) /\ l \in Nat /\ k + l <= Len(m.buffer) /\ Len(m.buffer) \in Nat
      /\ \A i \in 1..l : a[i].unit = m.buffer[k + i]
      /\ \A i \in 1..l : a[i].fds = IF k = 0 /\ i = 1 THEN m.args.fds ELSE <<>>
      /\ k = 0 /\ m.args.fds # <<>> => l = 0 \/ transport[e].kind # "ip"
  BY <1>1, <1>4, <1>6, LengthIsNat DEF IsWritten, IsWhole
<1>8. /\ n.args = m.args /\ n.state = "Sending" /\ n.buffer = m.buffer /\ n.pos = k + l
  BY <1>1, <1>4, <1>6, Fields DEF IsMessage
<1>9. /\ out'[e] = n /\ stream'[e] = stream[e] /\ stream'[p] = Lengthened(stream[p], a)
      /\ OthersKept(e) /\ SentTables' /\ busy'[e] = "writing"
  BY <1>1, <1>2, <1>3 DEF Inv, Tables, SentTables, OthersKept
<1>10. SenderOK(e)'
  BY <1>1, <1>4, <1>5, <1>8, <1>9 DEF SenderOK, Carried, LastSent
<1>11. /\ Committed(e) = IF k = 0 THEN Len(q) - 1 ELSE Len(q)
       /\ Committed(e)' = IF k + l = 0 THEN Len(q) - 1 ELSE Len(q)
  BY <1>1, <1>4, <1>6, <1>8, <1>9 DEF Committed, NotBegun
<1>12. SentKept(e)
  BY <1>5, <1>6, <1>7, <1>11 DEF SentKept
<1>13. CASE l = 0
  <2>1. a = <<>> /\ IsSeq(stream[p])
    BY <1>2, <1>4, <1>7, <1>13, LengthIsNat DEF Inv, LineInv, StreamOK
  <2>2. stream'[p] = stream[p]
    BY <1>9, <2>1, ConcatEmptySeq DEF IsSeq, Lengthened
  <2>3. stream' = stream
    BY <1>1, <1>9, <2>2 DEF Inv, Tables
  <2>4. SentStays(e)
    BY <1>6, <1>11, <1>12, <1>13 DEF SentStays
  <2> QED
    BY <1>9, <1>10, <2>3, <2>4, QuietDelivery
<1>14. CASE l > 0
  <2>1. \A i \in 1..l : a[i].unit.image = image /\ a[i].unit.at = k + i
    <3>1. \A i \in 1..l : k + i \in 1..Len(m.buffer)
      BY <1>6, <1>7
    <3> QED
      BY <1>4, <1>6, <1>7, <3>1 DEF IsWhole
  <2>2. AreOfOne(a, image)
    <3>1. \A i \in 1..l : i > 1 => a[i].unit.at # 1
      BY <1>6, <2>1
    <3> QED
      BY <1>4, <1>7, <1>14, <2>1, <3>1 DEF AreOfOne
  <2>3. PICK x : x = a[1]
    OBVIOUS
  <2>4. /\ x.unit.at = k + 1
        /\ x.unit.at = 1 <=> k = 0
        /\ k = 0 => x.fds = o.fds
    <3>1. 1 \in 1..l
      BY <1>7, <1>14
    <3>2. x.unit.at = k + 1 /\ (k = 0 => x.fds = m.args.fds)
      BY <1>7, <2>1, <2>3, <3>1
    <3> QED
      BY <1>5, <1>6, <3>2
  <2>5. IsLastSent(p, x, image)
    <3>1. Committed(e)' = Len(q) /\ k + l > 0
      BY <1>6, <1>7, <1>11, <1>14
    <3>2. Committed(e)' = IF x.unit.at = 1 THEN Committed(e) + 1 ELSE Committed(e)
      BY <1>5, <1>11, <2>4, <3>1
    <3>3. sent'[e][Len(q)] = o
      BY <1>1, <1>4
    <3> QED
      BY <1>2, <1>5, <2>4, <3>1, <3>2, <3>3 DEF IsLastSent
  <2>6. IsSeq(stream[p]) /\ IsSeq(delivered[p]) /\ IsArriving(in[p]) /\ LineOK(p)'
    BY <1>2 DEF Inv, LineInv, StreamOK, WatchInv, DeliveredOK
  <2>7. LineNumbered(p)'
    BY <1>2, <1>3, <1>9, <1>10, <1>12, <2>2, <2>3, <2>5, <2>6, LongerNumbers
  <2>8. AreUnitsOK(p, a)
    <3>1. IsSeq(<<>>)
      BY EmptySeq DEF IsSeq
    <3>2. Sound(image)
      BY <1>5 DEF IsCopy
    <3>3. ASSUME NEW i \in 1..l PROVE UnitOK(p, a[i])
      BY <1>3, <1>5, <1>7, <1>14, <2>1, <3>1, <3>2 DEF UnitOK, FlawIsFound
    <3> QED
      BY <1>4, <3>3 DEF AreUnitsOK
  <2>9. UnitsOK(p)'
    BY <1>3, <1>7, <1>9, <2>6, <2>8, LongerUnitsOK
  <2> QED
    BY <1>1, <1>9, <1>10, <1>12, <2>7, <2>9, SenderDelivery
<1> QED
  BY <1>7, <1>13, <1>14

LEMMA WriteStepDelivery ==
  ASSUME Inv, Inv', DeliveryInv, NEW e \in End, WriteStep(e) PROVE DeliveryInv'
<1>1. PICK m, r : m = out[e] /\ r = Written(e)
  OBVIOUS
<1>2. /\ m.state = "Sending" /\ UNCHANGED <<in, delivered>>
      /\ \/ /\ m.pos = Len(m.buffer) /\ UNCHANGED <<stream, sent>>
            /\ EndWrite(e, SetWriteListener(transport[e], None))
         \/ /\ TooManyFds(e) /\ UNCHANGED stream
            /\ EndWrite(e, Unwatched(transport[e])) /\ sent' = [sent EXCEPT ![e] = Front(@)]
         \/ /\ m.pos < Len(m.buffer) /\ UNCHANGED sent
            /\ stream' = [stream EXCEPT ![Peer(e)] = r.stream]
            /\ r.status = "OK" => /\ out' = [out EXCEPT ![e].pos = @ + r.units]
                                  /\ busy' = [busy EXCEPT ![e] = "writing"]
                                  /\ UNCHANGED transport
            /\ r.status # "OK" => EndWrite(e, Closed(r.t))
  BY <1>1 DEF WriteStep
<1>3. TransportOK(e) /\ SentTables
  BY DEF Inv, WatchInv, DeliveryInv
<1>4. ASSUME NEW t, EndWrite(e, t), UNCHANGED <<stream, sent>>, t.kind = transport[e].kind,
             t.open => transport[e].open /\ ~NotBegun(e)
      PROVE  DeliveryInv'
  <2>1. /\ out' = [out EXCEPT ![e] = NoMessage] /\ transport' = [transport EXCEPT ![e] = t]
        /\ busy' = [busy EXCEPT ![e] = "no"]
    BY <1>4 DEF EndWrite
  <2>2. busy'[e] = "no" /\ busy' = [busy EXCEPT ![e] = busy'[e]]
    BY <1>3, <2>1 DEF SentTables
  <2> QED
    BY <1>2, <1>4, <2>1, <2>2, EndedDelivery
<1>5. PICK t : t = SetWriteListener(transport[e], None)
  OBVIOUS
<1>6. t.open = transport[e].open /\ t.kind = transport[e].kind
  BY <1>3, <1>5 DEF TransportOK, SetWriteListener
<1>7. CASE /\ m.pos = Len(m.buffer) /\ UNCHANGED <<stream, sent>>
           /\ EndWrite(e, SetWriteListener(transport[e], None))
  <2>1. IsOnItsWay(m)
    BY <1>1, <1>2 DEF Inv, WatchInv, OutOK, IsReady, IsOnItsWay
  <2>2. m.pos # 0
    BY <1>7, <2>1 DEF IsOnItsWay, IsWhole, FixedLength
  <2> QED
    BY <1>1, <1>4, <1>5, <1>6, <1>7, <2>2 DEF NotBegun
<1>8. CASE /\ TooManyFds(e) /\ UNCHANGED stream
           /\ EndWrite(e, Unwatched(transport[e])) /\ sent' = [sent EXCEPT ![e] = Front(@)]
  <2>1. NotBegun(e)
    BY <1>1, <1>2, <1>8 DEF NotBegun, TooManyFds
  <2>2. /\ out' = [out EXCEPT ![e] = NoMessage] /\ transport' = [transport EXCEPT ![e] = t]
        /\ busy' = [busy EXCEPT ![e] = "no"]
    BY <1>5, <1>8 DEF EndWrite, Unwatched
  <2> QED
    BY <1>2, <1>6, <1>8, <2>1, <2>2, TakenBackDelivery
<1>9. CASE /\ m.pos < Len(m.buffer) /\ UNCHANGED sent
           /\ stream' = [stream EXCEPT ![Peer(e)] = r.stream]
           /\ r.status = "OK" => /\ out' = [out EXCEPT ![e].pos = @ + r.units]
                                 /\ busy' = [busy EXCEPT ![e] = "writing"]
                                 /\ UNCHANGED transport
           /\ r.status # "OK" => EndWrite(e, Closed(r.t))
  <2>1. /\ r.status = "OK" =>
              /\ transport[e].open
              /\ \E a : /\ IsWritten(m, a, transport[e]) /\ r.units = Len(a)
                        /\ r.stream = Lengthened(stream[Peer(e)], a)
        /\ r.status # "OK" =>
              /\ r.stream = stream[Peer(e)]
              /\ r.t = transport[e] \/ r.t = CloseTransport(transport[e])
    BY <1>1, <1>2, <1>9, WrittenUnits
  <2>2. CASE r.status # "OK"
    <3>1. PICK u : u = Closed(r.t)
      OBVIOUS
    <3>2. u.open = FALSE /\ u.kind = transport[e].kind
      BY <1>3, <2>1, <2>2, <3>1 DEF TransportOK, Closed, CloseTransport, SetWriteListener
    <3>3. stream' = stream
      BY <1>9, <2>1, <2>2, Ends DEF Inv, Tables
    <3> QED
      BY <1>4, <1>9, <2>2, <3>1, <3>2, <3>3
  <2>3. CASE r.status = "OK"
    <3>1. PICK a : /\ IsWritten(m, a, transport[e]) /\ r.units = Len(a)
                   /\ r.stream = Lengthened(stream[Peer(e)], a)
      BY <2>1, <2>3
    <3>2. PICK n : n = [m EXCEPT !.pos = @ + Len(a)]
      OBVIOUS
    <3>3. out' = [out EXCEPT ![e] = n]
      BY <1>1, <1>9, <2>3, <3>1, <3>2 DEF Inv, Tables
    <3>4. /\ m = out[e] /\ m.state = "Sending" /\ transport[e].open
          /\ stream' = [stream EXCEPT ![Peer(e)] = Lengthened(stream[Peer(e)], a)]
          /\ busy' = [busy EXCEPT ![e] = "writing"]
          /\ UNCHANGED <<transport, in, sent, delivered>>
      BY <1>1, <1>2, <1>9, <2>1, <2>3, <3>1
    <3>5. IsWritten(out[e], a, transport[e]) /\ n = [out[e] EXCEPT !.pos = @ + Len(a)]
      BY <3>1, <3>2, <3>4
    <3> QED
      BY <3>3, <3>4, <3>5, WrittenDelivery
  <2> QED
    BY <2>2, <2>3
<1> QED
  BY <1>2, <1>7, <1>8, <1>9

-----------------------------------------------------------------------------
(* What a receiver has, and a line that becomes shorter.                   *)

LEMMA ReceivingIsParsed == Parsed(Receiving)
<1>1. /\ Receiving.args = NoArguments /\ Receiving.error = NoError /\ Receiving.pos = 0
      /\ Receiving.headerLength = 0
  BY DEF Receiving, NewMessage
<1>2. NoArguments.fds = <<>>
  BY DEF NoArguments
<1> QED
  BY <1>1, <1>2, NoArgumentsOK DEF Parsed, HeadersDone

\* Numbers that do not change are all the first one.
LEMMA AllAsTheFirst ==
  ASSUME NEW f, NEW n \in Nat, NEW v, n > 0 => f[1] = v, \A i \in 1..n - 1 : f[i + 1] = f[i]
  PROVE  \A i \in 1..n : f[i] = v
<1> DEFINE S == {i \in 1..n : f[i] # v}
<1> SUFFICES ASSUME S # {} PROVE FALSE
  OBVIOUS
<1>1. PICK T : T = S
  OBVIOUS
<1>2. T \in SUBSET Nat /\ T # {} /\ \A i : i \in T <=> i \in 1..n /\ f[i] # v
  BY <1>1
<1> HIDE DEF S
<1>3. PICK x \in T : \A y \in T : x <= y
  BY <1>2, Least
<1>4. x \in 1..n /\ f[x] # v
  BY <1>2, <1>3
<1>5. x # 1
  BY <1>4
<1>6. PICK y : y = x - 1
  OBVIOUS
<1>7. y \in 1..n - 1 /\ y \in 1..n /\ y + 1 = x /\ y < x
  BY <1>4, <1>5, <1>6
<1>8. f[y] = v
  BY <1>2, <1>3, <1>7
<1>9. f[x] = f[y]
  BY <1>7
<1> QED
  BY <1>4, <1>8, <1>9

\* One more message is delivered.
LEMMA ArrivedMore ==
  ASSUME NEW e \in End, Arrived(e), transport[e].open, IsSeq(delivered[e]),
         NEW x, ArgsOK(x.args), delivered'[e] = Append(delivered[e], x),
         SentStays(Peer(e)), SenderOK(Peer(e)), SenderOK(Peer(e))',
         x.error # NoError => ~transport'[e].open,
         x.error = NoError => /\ Len(delivered[e]) + 1 <= Committed(Peer(e))'
                              /\ Matches(sent'[Peer(e)][Len(delivered[e]) + 1], x)
  PROVE  Arrived(e)'
<1>1. PICK p, d, z, n : /\ p = Peer(e) /\ d = delivered[e] /\ z = delivered'[e]
                        /\ n = Len(d)
  OBVIOUS
<1>2. /\ n \in Nat /\ Len(z) = n + 1 /\ z[n + 1] = x /\ \A i \in 1..n : z[i] = d[i]
  BY <1>1, Appended, LengthIsNat
<1>3. Committed(p) \in Nat /\ Committed(p)' \in Nat /\ Committed(p) <= Committed(p)'
  BY <1>1, CommittedIsNat, CommittedIsNatNext DEF SentStays, SentKept
<1>4. ASSUME NEW i \in 1..n + 1
      PROVE  /\ ArgsOK(z[i].args)
             /\ z[i].error # NoError => i = n + 1 /\ ~transport'[e].open
             /\ z[i].error = NoError => i <= Committed(p)' /\ Matches(sent'[p][i], z[i])
  <2>1. CASE i = n + 1
    <3>1. z[i] = x
      BY <1>2, <2>1
    <3>2. x.error = NoError => n + 1 <= Committed(p)' /\ Matches(sent'[p][n + 1], x)
      BY <1>1
    <3> QED
      BY <2>1, <3>1, <3>2
  <2>2. CASE i # n + 1
    <3>1. i \in 1..n /\ z[i] = d[i] /\ i \in Nat /\ i >= 1
      BY <1>2, <2>2
    <3>2. ArgsOK(d[i].args) /\ d[i].error = NoError
      BY <1>1, <3>1 DEF Arrived
    <3>3. i <= Committed(p) /\ Matches(sent[p][i], d[i])
      BY <1>1, <3>1, <3>2 DEF Arrived
    <3>4. i \in 1..Committed(p) /\ i <= Committed(p)'
      BY <1>3, <3>1, <3>3
    <3>5. sent'[p][i] = sent[p][i]
      BY <1>1, <3>4 DEF SentStays, SentKept
    <3> QED
      BY <3>1, <3>2, <3>3, <3>4, <3>5
  <2> QED
    BY <2>1, <2>2
<1> QED
  BY <1>1, <1>2, <1>4 DEF Arrived

\* The first units of a line are taken from it: the numbers of the rest stay.
LEMMA ShorterNumbers ==
  ASSUME NEW e \in End, NEW k \in Nat, NEW z, NEW f \in [1..Len(stream[e]) -> Nat],
         IsSeq(stream[e]), k <= Len(stream[e]), IsRestAfter(z, stream[e], k),
         stream'[e] = z, Numbers(e, f),
         z # <<>> => f[k + 1] = Expected(e)',
         CleanIn(e)' => Clean(e, k),
         z = <<>> => LastNumber(e, f)
                        = IF in'[e].pos = 0 THEN Len(delivered'[e]) ELSE Expected(e)',
         SenderOK(Peer(e)), SenderOK(Peer(e))', SentKept(Peer(e)),
         Committed(Peer(e))' = Committed(Peer(e)),
         transport'[Peer(e)].open => transport[Peer(e)].open
  PROVE  \E g \in [1..Len(z) -> Nat] : Numbers(e, g)'
<1>1. PICK s, p, l : s = stream[e] /\ p = Peer(e) /\ l = Len(z)
  OBVIOUS
<1>2. /\ IsSeq(z) /\ Len(s) \in Nat /\ l \in Nat /\ l = Len(s) - k /\ Len(s) = k + l
      /\ \A i \in 1..l : z[i] = s[k + i]
      /\ z = <<>> <=> l = 0
      /\ s = <<>> <=> Len(s) = 0
  BY <1>1, LengthIsNat DEF IsRestAfter
<1>3. PICK g : g \in [1..l -> Nat] /\ \A i \in 1..l : g[i] = f[k + i]
  <2> DEFINE G == [i \in 1..l |-> f[k + i]]
  <2>1. \A i \in 1..l : k + i \in 1..Len(s)
    BY <1>2
  <2>2. G \in [1..l -> Nat]
    BY <1>1, <2>1
  <2>3. \A i \in 1..l : G[i] = f[k + i]
    OBVIOUS
  <2> HIDE DEF G
  <2> QED
    BY <2>2, <2>3
<1>4. z # <<>> => g[1] = Expected(e)'
  <2>1. z # <<>> => 1 \in 1..l
    BY <1>2
  <2> QED
    BY <1>3, <2>1
<1>5. ASSUME NEW i \in 1..l - 1
      PROVE  g[i + 1] = IF z[i + 1].unit.at = 1 THEN g[i] + 1 ELSE g[i]
  <2>1. PICK i1, j, j1 : i1 = i + 1 /\ j = k + i /\ j1 = k + i1
    OBVIOUS
  <2>2. i \in 1..l /\ i1 \in 1..l /\ j \in 1..Len(s) - 1 /\ j1 = j + 1
    BY <1>2, <2>1
  <2>3. f[j + 1] = IF s[j + 1].unit.at = 1 THEN f[j] + 1 ELSE f[j]
    BY <1>1, <2>2 DEF Numbers
  <2>4. g[i] = f[j] /\ g[i1] = f[j1] /\ z[i1] = s[j1]
    BY <1>2, <1>3, <2>1, <2>2
  <2> QED
    BY <2>1, <2>2, <2>3, <2>4
<1>6. ASSUME NEW i \in 0..l, Clean(e, i)' PROVE Clean(e, k + i)
  <2>1. CleanIn(e)'
    BY <1>6 DEF Clean
  <2>2. Clean(e, k)
    BY <2>1
  <2>3. ASSUME NEW j \in 1..k + i PROVE Sound(s[j].unit.image)
    <3>1. CASE j <= k
      <4>1. j \in 1..k
        BY <1>2, <3>1
      <4> QED
        BY <1>1, <2>2, <4>1 DEF Clean
    <3>2. CASE j > k
      <4>1. PICK r : r = j - k
        OBVIOUS
      <4>2. r \in 1..i /\ r \in 1..l /\ k + r = j
        BY <1>2, <3>2, <4>1
      <4>3. z[r] = s[j]
        BY <1>2, <4>2
      <4>4. Sound(z[r].unit.image)
        BY <1>6, <4>2 DEF Clean
      <4> QED
        BY <4>3, <4>4
    <3> QED
      BY <1>2, <3>1, <3>2
  <2> QED
    BY <1>1, <2>2, <2>3 DEF Clean
<1>7. ASSUME NEW i \in 1..l, Clean(e, i)' PROVE UnitNumbered(e, z[i], g[i])'
  <2>1. PICK j : j = k + i
    OBVIOUS
  <2>2. j \in 1..Len(s) /\ i \in 0..l /\ z[i] = s[j] /\ g[i] = f[j]
    BY <1>2, <1>3, <2>1
  <2>3. PICK x, n : x = s[j] /\ n = f[j]
    OBVIOUS
  <2>4. UnitNumbered(e, x, n)
    BY <1>1, <1>6, <1>7, <2>1, <2>2, <2>3 DEF Numbers
  <2>5. UnitNumbered(e, x, n)'
    BY <2>4, UnitNumberedKept
  <2> QED
    BY <2>2, <2>3, <2>5
<1>8. ASSUME transport'[p].open, Clean(e, l)' PROVE Committed(p)' = LastNumber(e, g)'
  <2>1. PICK n : n = LastNumber(e, f)
    OBVIOUS
  <2>2. Committed(p)' = n
    <3>1. Clean(e, k + l)
      BY <1>2, <1>6, <1>8
    <3>2. Clean(e, Len(s))
      BY <1>2, <3>1
    <3> QED
      BY <1>1, <1>8, <2>1, <3>2 DEF Numbers
  <2>3. CASE z = <<>>
    <3>1. n = IF in'[e].pos = 0 THEN Len(delivered'[e]) ELSE Expected(e)'
      BY <2>1, <2>3
    <3> QED
      BY <2>2, <2>3, <3>1 DEF LastNumber
  <2>4. CASE z # <<>>
    <3>1. l \in 1..l /\ s # <<>>
      BY <1>2, <2>4
    <3>2. g[l] = f[Len(s)]
      BY <1>2, <1>3, <3>1
    <3>3. n = f[Len(s)]
      BY <1>1, <2>1, <3>1 DEF LastNumber
    <3> QED
      BY <1>1, <2>2, <2>4, <3>2, <3>3 DEF LastNumber
  <2> QED
    BY <2>3, <2>4
<1>9. Numbers(e, g)'
  BY <1>1, <1>4, <1>5, <1>7, <1>8 DEF Numbers
<1> QED
  BY <1>1, <1>3, <1>9

LEMMA ShorterUnitsOK ==
  ASSUME NEW e, NEW k \in Nat, NEW z, UnitsOK(e), IsSeq(stream[e]), k <= Len(stream[e]),
         IsRestAfter(z, stream[e], k), stream'[e] = z,
         transport'[e].kind = transport[e].kind
  PROVE  UnitsOK(e)'
<1>1. PICK s : s = stream[e]
  OBVIOUS
<1>2. /\ Len(s) \in Nat /\ Len(z) \in Nat /\ Len(z) = Len(s) - k
      /\ \A i \in 1..Len(z) : z[i] = s[k + i]
  BY <1>1, LengthIsNat DEF IsRestAfter
<1>3. ASSUME NEW i \in 1..Len(z) PROVE UnitOK(e, z[i])'
  <2>1. PICK j, x : j = k + i /\ x = z[i]
    OBVIOUS
  <2>2. j \in 1..Len(s) /\ x = s[j]
    BY <1>2, <2>1
  <2>3. UnitOK(e, x)
    BY <1>1, <2>2 DEF UnitsOK
  <2> QED
    BY <2>1, <2>3 DEF UnitOK
<1> QED
  BY <1>3 DEF UnitsOK

\* e receives; if it closes, it no longer sends either.
Receives(e, n, t, m, z, d, b) ==
  /\ in' = [in EXCEPT ![e] = n] /\ transport' = [transport EXCEPT ![e] = t]
  /\ out' = [out EXCEPT ![e] = m] /\ stream' = [stream EXCEPT ![e] = z]
  /\ delivered' = [delivered EXCEPT ![e] = d] /\ busy' = [busy EXCEPT ![e] = b]
  /\ sent' = sent

LEMMA ReceiverDelivery ==
  ASSUME Inv, DeliveryInv, NEW e \in End, NEW n, NEW t, NEW m, NEW z, NEW d, NEW b,
         Receives(e, n, t, m, z, d, b),
         t.kind = transport[e].kind, t.open => transport[e].open,
         m = out[e] \/ (m.state = "none" /\ ~t.open),
         Parsed(n), UnitsOK(e)', LineNumbered(e)', Arrived(e)', b = "reading" => t.open
  PROVE  DeliveryInv'
<1>1. PICK p : p = Peer(e)
  OBVIOUS
<1>2. p \in End /\ p # e /\ Peer(p) = e /\ \A l \in End : l = e \/ l = p
  BY <1>1 DEF End, Peer
<1>3. /\ in'[e] = n /\ transport'[e] = t /\ out'[e] = m /\ busy'[e] = b
      /\ in'[p] = in[p] /\ transport'[p] = transport[p] /\ stream'[p] = stream[p]
      /\ delivered'[p] = delivered[p] /\ busy'[p] = busy[p] /\ OthersKept(e) /\ SentTables'
      /\ sent' = sent
  BY <1>2 DEF Receives, Inv, Tables, DeliveryInv, SentTables, OthersKept
<1>4. SenderOK(e) /\ SenderOK(p) /\ ReceiverOK(p)
  BY <1>2 DEF DeliveryInv
<1>5. SenderOK(p)' /\ SentStays(p)
  BY <1>2, <1>3, <1>4, OthersSentStays
<1>6. SenderOK(e)' /\ SentStays(e)
  <2>1. Committed(e) \in Nat /\ Committed(e) <= Len(sent[e])
    BY <1>4, CommittedIsNat
  <2>2. CASE m = out[e]
    <3>1. SenderOK(e)'
      BY <1>3, <1>4, <2>2 DEF SenderOK, Carried, LastSent
    <3>2. Committed(e)' = Committed(e)
      BY <1>3, <2>2 DEF Committed, NotBegun
    <3> QED
      BY <1>3, <2>1, <3>1, <3>2 DEF SentStays, SentKept
  <2>3. CASE m.state = "none" /\ ~t.open
    <3>1. SenderOK(e)'
      BY <1>3, <1>4, <2>3 DEF SenderOK
    <3>2. Committed(e)' = Len(sent[e])
      BY <1>3, <2>3 DEF Committed, NotBegun
    <3> QED
      BY <1>3, <2>1, <2>3, <3>1, <3>2 DEF SentStays, SentKept
  <2> QED
    BY <2>2, <2>3
<1>7. ReceiverOK(p)'
  <2>1. LineNumbered(p)'
    BY <1>2, <1>3, <1>4, <1>6, NumbersKept DEF ReceiverOK
  <2>2. Arrived(p)'
    BY <1>2, <1>3, <1>4, <1>6, ArrivedKept DEF ReceiverOK, SentStays
  <2>3. UnitsOK(p)' /\ Parsed(in[p])' /\ ReadsOpen(p)'
    BY <1>3, <1>4, UnitsKept DEF ReceiverOK, ReadsOpen
  <2> QED
    BY <2>1, <2>2, <2>3 DEF ReceiverOK
<1>8. ReceiverOK(e)'
  BY <1>3 DEF ReceiverOK, ReadsOpen
<1>9. OneKind'
  <2>1. \A l \in End : transport'[l].kind = transport[l].kind
    BY <1>2, <1>3
  <2> QED
    BY <2>1, Ends DEF DeliveryInv, OneKind
<1> QED
  BY <1>2, <1>3, <1>5, <1>6, <1>7, <1>8, <1>9 DEF DeliveryInv

-----------------------------------------------------------------------------
(* What is read of a message.                                              *)

LEMMA WithUnitsSays ==
  ASSUME NEW m, NEW r, NEW read, IsMessage(m), ArgsOK(m.args), IsSeq(r.fds),
         read = WithUnits(m, r)
  PROVE  /\ read.type = m.type /\ read.flags = m.flags /\ read.serial = m.serial
         /\ read.headers = m.headers /\ read.error = m.error /\ ArgsOK(read.args)
         /\ read.headerLength = m.headerLength
         /\ m.args.fds = <<>> => read.args.fds = r.fds
         /\ r.fds = <<>> => read.args.fds = m.args.fds
<1>1. PICK b, p, n, f : /\ b = m.buffer \o r.units /\ p = m.pos + Len(r.units)
                        /\ n = Reserved(m.room, m.pos + Wanted(m))
                        /\ f = m.args.fds \o r.fds
  OBVIOUS
<1>2. /\ IsSeq(f)
      /\ m.args.fds = <<>> => f = r.fds
      /\ r.fds = <<>> => f = m.args.fds
  <2>1. PICK x, y : x = m.args.fds /\ y = r.fds
    OBVIOUS
  <2>2. IsSeq(x) /\ IsSeq(y) /\ f = x \o y
    BY <1>1, <2>1 DEF ArgsOK
  <2>3. IsSeq(f)
    BY <2>2, Joined
  <2>4. x = <<>> => f = y
    BY <2>2, ConcatEmptySeq DEF IsSeq
  <2>5. y = <<>> => f = x
    BY <2>2, ConcatEmptySeq DEF IsSeq
  <2> QED
    BY <2>1, <2>3, <2>4, <2>5
<1> DEFINE args == [m.args EXCEPT !.fds = f]
           x == [m EXCEPT !.buffer = b, !.room = n, !.pos = p, !.args = args]
<1>3. /\ DOMAIN args = DOMAIN m.args /\ args.length = m.args.length /\ args.fds = f
      /\ args.borrowed = m.args.borrowed /\ args.content = m.args.content
  BY Fields DEF IsMessage
<1>4. read = x
  BY <1>1 DEF WithUnits
<1> HIDE DEF args
<1>5. ArgsOK(args)
  BY <1>2, <1>3 DEF ArgsOK
<1>6. /\ x.args = args /\ x.type = m.type /\ x.flags = m.flags /\ x.serial = m.serial
      /\ x.headers = m.headers /\ x.error = m.error /\ x.headerLength = m.headerLength
  BY Fields DEF IsMessage
<1> HIDE DEF x
<1> QED
  BY <1>2, <1>3, <1>4, <1>5, <1>6

LEMMA WithFixedHeadersSays ==
  ASSUME NEW m, IsMessage(m), FirstImage(m).flaw # "endianness",
         NEW x, x = WithFixedHeaders(m)
  PROVE  /\ x.type = FirstImage(m).type /\ x.flags = FirstImage(m).flags
         /\ x.serial = FirstImage(m).serial /\ x.headers = m.headers
         /\ x.args = m.args /\ x.error = m.error /\ x.buffer = m.buffer /\ x.pos = m.pos
         /\ IsMessage(x)
<1>1. PICK image : image = FirstImage(m)
  OBVIOUS
<1> DEFINE r == [m EXCEPT !.swapped = image.swapped, !.type = image.type,
                          !.flags = image.flags, !.serial = image.serial,
                          !.headerLength = image.headerLength,
                          !.bodyLength = image.bodyLength]
<1>2. /\ r.type = image.type /\ r.flags = image.flags /\ r.serial = image.serial
      /\ r.headers = m.headers /\ r.args = m.args /\ r.error = m.error
      /\ r.buffer = m.buffer /\ r.pos = m.pos
  BY Fields DEF IsMessage
<1>3. x = r
  BY <1>1 DEF WithFixedHeaders
<1> HIDE DEF r
<1>4. IsMessage(x)
  BY WithFixedHeadersDoes
<1> QED
  BY <1>1, <1>2, <1>3, <1>4

LEMMA WithVariableHeadersSays ==
  ASSUME NEW m, IsMessage(m), NEW x, x = WithVariableHeaders(m)
  PROVE  /\ x.headers = FirstImage(m).headers
         /\ x.type = m.type /\ x.flags = m.flags /\ x.serial = m.serial
         /\ x.args = m.args /\ x.error = m.error /\ x.buffer = m.buffer /\ x.pos = m.pos
         /\ x.headerLength = m.headerLength
<1>1. PICK h : h = FirstImage(m).headers
  OBVIOUS
<1>2. x = [m EXCEPT !.headers = h]
  BY <1>1 DEF WithVariableHeaders
<1> QED
  BY <1>1, <1>2, Fields DEF IsMessage

\* What is known of a message with the units that were just read: those headers that were
\* there before have been looked at.
IsToBeParsed(m, read) ==
  /\ read.error = NoError /\ ArgsOK(read.args)
  /\ read.pos = 0 => read.args.fds = <<>>
  /\ read.pos > 0 => FlawIsFound(FirstImage(read), read.args.fds)
  /\ read.headerLength # 0 =>
        /\ FirstImage(read).flaw # "endianness"
        /\ read.type = FirstImage(read).type /\ read.flags = FirstImage(read).flags
        /\ read.serial = FirstImage(read).serial
  /\ HeadersDone(m) =>
        /\ FirstImage(read).flaw # "variable headers"
        /\ read.headers = FirstImage(read).headers /\ FdsAnnounced(read, FirstImage(read))

LEMMA NextIsParsed ==
  ASSUME NEW m, NEW read, NEW next, IsMessage(read), IsToBeParsed(m, read),
         HeadersOk(m, read), next = WithHeaders(m, read)
  PROVE  /\ Parsed(next) /\ FirstImage(next) = FirstImage(read)
         /\ next.args.fds = read.args.fds /\ next.pos = read.pos
<1>1. PICK image, fixed : /\ image = FirstImage(read)
                          /\ fixed = IF BeginsWithFixed(read) THEN WithFixedHeaders(read)
                                                              ELSE read
  OBVIOUS
<1>2. /\ IsMessage(fixed) /\ fixed.args = read.args /\ fixed.error = NoError
      /\ fixed.buffer = read.buffer /\ fixed.pos = read.pos /\ FirstImage(fixed) = image
      /\ fixed.headers = read.headers
      /\ fixed.headerLength # 0 =>
            /\ image.flaw # "endianness" /\ fixed.type = image.type
            /\ fixed.flags = image.flags /\ fixed.serial = image.serial
  <2>1. CASE BeginsWithFixed(read)
    <3>1. image.flaw # "endianness"
      BY <1>1, <2>1 DEF HeadersOk, FixedHeadersOk
    <3>2. fixed = WithFixedHeaders(read)
      BY <1>1, <2>1
    <3>3. FirstImage(read).flaw # "endianness" /\ read.error = NoError
      BY <1>1, <3>1 DEF IsToBeParsed
    <3>4. /\ fixed.type = image.type /\ fixed.flags = image.flags
          /\ fixed.serial = image.serial /\ fixed.headers = read.headers
          /\ fixed.args = read.args /\ fixed.error = NoError /\ fixed.buffer = read.buffer
          /\ fixed.pos = read.pos /\ IsMessage(fixed)
      BY <1>1, <3>2, <3>3, WithFixedHeadersSays
    <3>5. FirstImage(fixed) = image
      BY <1>1, <3>4 DEF FirstImage
    <3> QED
      BY <3>1, <3>4, <3>5
  <2>2. CASE ~BeginsWithFixed(read)
    <3>1. fixed = read
      BY <1>1, <2>2
    <3> QED
      BY <1>1, <3>1 DEF IsToBeParsed
  <2> QED
    BY <2>1, <2>2
<1>3. /\ ArgsOK(read.args)
      /\ read.pos = 0 => read.args.fds = <<>>
      /\ read.pos > 0 => FlawIsFound(image, read.args.fds)
  BY <1>1 DEF IsToBeParsed
<1>4. CASE ~HeadersDone(m) /\ HeadersDone(fixed)
  <2>1. /\ image.flaw # "variable headers"
        /\ Len(fixed.args.fds) =
              (IF "UnixFds" \in DOMAIN image.headers THEN image.headers["UnixFds"] ELSE 0)
    BY <1>1, <1>2, <1>4 DEF HeadersOk, VariableHeadersOk, FdsAnnounced
  <2>2. next = WithVariableHeaders(fixed)
    BY <1>1, <1>4 DEF WithHeaders
  <2>3. /\ next.headers = image.headers /\ next.type = fixed.type /\ next.flags = fixed.flags
        /\ next.serial = fixed.serial /\ next.args = fixed.args /\ next.error = fixed.error
        /\ next.buffer = fixed.buffer /\ next.pos = fixed.pos
        /\ next.headerLength = fixed.headerLength
    BY <1>2, <2>2, WithVariableHeadersSays
  <2>4. FirstImage(next) = image
    BY <1>2, <2>3 DEF FirstImage
  <2>5. FdsAnnounced(next, image)
    BY <2>1, <2>3 DEF FdsAnnounced
  <2> QED
    BY <1>1, <1>2, <1>3, <2>1, <2>3, <2>4, <2>5 DEF Parsed
<1>5. CASE ~(~HeadersDone(m) /\ HeadersDone(fixed))
  <2>1. next = fixed
    BY <1>1, <1>5 DEF WithHeaders
  <2>2. ASSUME HeadersDone(fixed)
        PROVE  /\ image.flaw # "variable headers" /\ fixed.headers = image.headers
               /\ FdsAnnounced(fixed, image)
    <3>1. /\ image.flaw # "variable headers" /\ read.headers = image.headers
          /\ FdsAnnounced(read, image)
      BY <1>1, <1>5, <2>2 DEF IsToBeParsed
    <3> QED
      BY <1>2, <3>1 DEF FdsAnnounced
  <2> QED
    BY <1>1, <1>2, <1>3, <2>1, <2>2 DEF Parsed
<1> QED
  BY <1>4, <1>5

\* A message that has been received completely has no flaw that is not found.
LEMMA CompleteIsSound ==
  ASSUME NEW next, Parsed(next), next.pos > 0, HeadersDone(next), next.headerLength # 0,
         next.headerLength = FirstImage(next).headerLength,
         next.bodyLength = FirstImage(next).bodyLength, IsImage(FirstImage(next)),
         Total(FirstImage(next)) <= MaxMessageLength
  PROVE  /\ Sound(FirstImage(next)) /\ next.headers = FirstImage(next).headers
         /\ next.type = FirstImage(next).type /\ next.flags = FirstImage(next).flags
         /\ next.serial = FirstImage(next).serial
<1>1. PICK image, fds : image = FirstImage(next) /\ fds = next.args.fds
  OBVIOUS
<1>2. /\ FlawIsFound(image, fds) /\ image.flaw # "endianness"
      /\ image.flaw # "variable headers" /\ next.headers = image.headers
      /\ Len(fds) = (IF "UnixFds" \in DOMAIN image.headers THEN image.headers["UnixFds"] ELSE 0)
      /\ next.type = image.type /\ next.flags = image.flags /\ next.serial = image.serial
  BY <1>1 DEF Parsed, FdsAnnounced
<1>3. ASSUME IsRefused(image), fds = <<>> PROVE FALSE
  <2>1. ~(image.headerLength + image.bodyLength > MaxMessageLength)
    <3>1. MaxMessageLength \in Nat
      BY LengthsAssumption
    <3> QED
      BY <1>1, <3>1 DEF IsImage, Total
  <2>2. Len(fds) = 0
    BY <1>3, EmptySeq
  <2> QED
    BY <1>2, <1>3, <2>1, <2>2 DEF IsRefused
<1> QED
  BY <1>1, <1>2, <1>3 DEF FlawIsFound

LEMMA ReadIsToBeParsed ==
  ASSUME Inv, DeliveryInv, NEW e \in End, NEW m, NEW r, NEW read, NEW next,
         HasRead(e, m, r, read, next)
  PROVE  /\ IsToBeParsed(m, read)
         /\ m.pos > 0 => FirstImage(read) = FirstImage(m) /\ read.args.fds = m.args.fds
         /\ Len(r.units) > 0 => FirstImage(read) = stream[e][1].unit.image
         /\ m.pos = 0 /\ Len(r.units) > 0 => read.args.fds = stream[e][1].fds
<1>1. PICK s, u, k : s = stream[e] /\ u = r.units /\ k = Len(u)
  OBVIOUS
<1>2. /\ m = in[e] /\ read = WithUnits(m, r) /\ TakesUnits(r, transport[e], s, Wanted(m))
      /\ r.fds = IF m.pos = 0 /\ transport[e].kind # "ip" /\ k > 0 THEN s[1].fds ELSE <<>>
      /\ IsRead(read) /\ ContinuesWith(m, u, read) /\ read.pos = m.pos + k
  BY <1>1 DEF HasRead
<1>3. IsArriving(m) /\ IsMessage(m) /\ m.pos \in Nat /\ Parsed(m) /\ UnitsOK(e) /\ IsSeq(s)
  BY <1>1, <1>2, LengthIsNat DEF Inv, LineInv, StreamOK, IsArriving, DeliveryInv, ReceiverOK
<1>4. /\ k \in Nat /\ Len(s) \in Nat /\ k <= Len(s)
      /\ \A i \in 1..k : u[i] = s[i].unit
  BY <1>1, <1>2, <1>3, LengthIsNat DEF TakesUnits
<1>5. k > 0 => UnitOK(e, s[1])
  BY <1>1, <1>3, <1>4 DEF UnitsOK
<1>6. /\ IsSeq(r.fds)
      /\ m.pos = 0 /\ k > 0 => r.fds = s[1].fds
      /\ m.pos > 0 \/ k = 0 => r.fds = <<>>
  <2>1. IsSeq(<<>>)
    BY EmptySeq DEF IsSeq
  <2> QED
    BY <1>2, <1>3, <1>4, <1>5, <2>1 DEF UnitOK
<1>7. /\ read.type = m.type /\ read.flags = m.flags /\ read.serial = m.serial
      /\ read.headers = m.headers /\ read.error = m.error /\ ArgsOK(read.args)
      /\ read.headerLength = m.headerLength
      /\ m.args.fds = <<>> => read.args.fds = r.fds
      /\ r.fds = <<>> => read.args.fds = m.args.fds
  <2>1. ArgsOK(m.args)
    BY <1>3 DEF Parsed
  <2> QED
    BY <1>2, <1>3, <1>6, <2>1, WithUnitsSays
<1>8. /\ m.pos > 0 => FirstImage(read) = FirstImage(m)
      /\ k > 0 => FirstImage(read) = s[1].unit.image
  <2>1. m.pos > 0 => read.buffer[1].image = m.buffer[1].image
    BY <1>2 DEF ContinuesWith
  <2>2. ASSUME k > 0 PROVE read.buffer[1].image = s[1].unit.image
    <3>1. 1 \in 1..k
      BY <1>4, <2>2
    <3>2. u[1].image = read.buffer[1].image
      BY <1>1, <1>2, <3>1 DEF ContinuesWith
    <3> QED
      BY <1>4, <3>1, <3>2
  <2> QED
    BY <2>1, <2>2 DEF FirstImage
<1>9. /\ m.pos > 0 => read.args.fds = m.args.fds
      /\ m.pos = 0 => m.args.fds = <<>>
      /\ m.pos = 0 /\ k > 0 => read.args.fds = s[1].fds
      /\ m.pos = 0 /\ k = 0 => read.args.fds = <<>>
  BY <1>3, <1>6, <1>7 DEF Parsed
<1>10. read.pos > 0 => FlawIsFound(FirstImage(read), read.args.fds)
  <2>1. CASE m.pos > 0
    BY <1>3, <1>8, <1>9, <2>1 DEF Parsed
  <2>2. CASE m.pos = 0
    <3>1. read.pos > 0 => k > 0
      BY <1>2, <1>4, <2>2
    <3> QED
      BY <1>5, <1>8, <1>9, <2>2, <3>1 DEF UnitOK
  <2> QED
    BY <1>3, <2>1, <2>2
<1>11. read.pos = 0 => read.args.fds = <<>>
  <2>1. read.pos = 0 => m.pos = 0 /\ k = 0
    BY <1>2, <1>3, <1>4
  <2> QED
    BY <1>9, <2>1
<1>12. m.headerLength # 0 => m.pos > 0
  BY <1>3 DEF IsArriving, FixedLength
<1>13. read.headerLength # 0 =>
         /\ FirstImage(read).flaw # "endianness"
         /\ read.type = FirstImage(read).type /\ read.flags = FirstImage(read).flags
         /\ read.serial = FirstImage(read).serial
  BY <1>3, <1>7, <1>8, <1>12 DEF Parsed
<1>14. HeadersDone(m) =>
         /\ FirstImage(read).flaw # "variable headers"
         /\ read.headers = FirstImage(read).headers /\ FdsAnnounced(read, FirstImage(read))
  <2> SUFFICES ASSUME HeadersDone(m)
               PROVE  /\ FirstImage(read).flaw # "variable headers"
                      /\ read.headers = FirstImage(read).headers
                      /\ FdsAnnounced(read, FirstImage(read))
    OBVIOUS
  <2>1. m.pos > 0
    BY <1>12 DEF HeadersDone
  <2>2. /\ FirstImage(m).flaw # "variable headers" /\ m.headers = FirstImage(m).headers
        /\ FdsAnnounced(m, FirstImage(m))
    BY <1>3 DEF Parsed
  <2>3. FdsAnnounced(read, FirstImage(m))
    BY <1>9, <2>1, <2>2 DEF FdsAnnounced
  <2> QED
    BY <1>7, <1>8, <2>1, <2>2, <2>3
<1>15. read.error = NoError
  BY <1>3, <1>7 DEF Parsed
<1>16. IsToBeParsed(m, read)
  BY <1>7, <1>10, <1>11, <1>13, <1>14, <1>15 DEF IsToBeParsed
<1> QED
  BY <1>1, <1>8, <1>9, <1>16

\* What was read is of the message that is expected.
LEMMA ReadIsNumbered ==
  ASSUME Inv, DeliveryInv, NEW e \in End, NEW m, NEW r, NEW read, NEW next,
         HasRead(e, m, r, read, next), transport[e].open,
         NEW f, f \in [1..Len(stream[e]) -> Nat], Numbers(e, f)
  PROVE  /\ \A i \in 1..Len(r.units) : f[i] = Expected(e)
         /\ read.pos > 0 /\ Sound(FirstImage(read)) =>
               /\ IsNth(e, FirstImage(read), Expected(e))
               /\ read.args.fds = sent[Peer(e)][Expected(e)].fds
         /\ (read.pos > 0 => Sound(FirstImage(read))) => Clean(e, Len(r.units))
<1>1. PICK s, u, k, n, image : /\ s = stream[e] /\ u = r.units /\ k = Len(u)
                               /\ n = Expected(e) /\ image = FirstImage(read)
  OBVIOUS
<1>2. /\ m = in[e] /\ TakesUnits(r, transport[e], s, Wanted(m))
      /\ ContinuesWith(m, u, read) /\ read.pos = m.pos + k
  BY <1>1 DEF HasRead
<1>3. m.pos \in Nat /\ IsSeq(s) /\ InNumbered(e)
  BY <1>1, <1>2, LengthIsNat
     DEF Inv, LineInv, StreamOK, IsArriving, DeliveryInv, ReceiverOK, LineNumbered
<1>4. /\ k \in Nat /\ Len(s) \in Nat /\ k <= Len(s) /\ (s = <<>> <=> Len(s) = 0)
      /\ \A i \in 1..k : s[i].unit.at = m.pos + i /\ s[i].unit.image = image
  <2>1. \A i \in 1..k : u[i] = s[i].unit
    BY <1>1, <1>2 DEF TakesUnits
  <2>2. \A i \in 1..k : u[i].at = m.pos + i /\ u[i].image = image
    BY <1>1, <1>2 DEF ContinuesWith, FirstImage
  <2>3. k \in Nat /\ Len(s) \in Nat /\ k <= Len(s) /\ (s = <<>> <=> Len(s) = 0)
    BY <1>1, <1>2, <1>3, LengthIsNat DEF TakesUnits
  <2> QED
    BY <2>1, <2>2, <2>3
<1>5. /\ m.pos > 0 => image = FirstImage(m) /\ read.args.fds = m.args.fds
      /\ m.pos = 0 /\ k > 0 => read.args.fds = s[1].fds
  BY <1>1, ReadIsToBeParsed
<1>6. \A i \in 1..k : f[i] = n
  <2>1. k > 0 => f[1] = n
    BY <1>1, <1>4 DEF Numbers
  <2>2. ASSUME NEW i \in 1..k - 1 PROVE f[i + 1] = f[i]
    <3>1. PICK j : j = i + 1
      OBVIOUS
    <3>2. i \in 1..Len(s) - 1 /\ j \in 1..k /\ j > 1
      BY <1>4, <3>1
    <3>3. s[j].unit.at # 1
      <4>1. s[j].unit.at = m.pos + j
        BY <1>4, <3>2
      <4> QED
        BY <1>3, <3>2, <4>1
    <3> QED
      BY <1>1, <3>1, <3>2, <3>3 DEF Numbers
  <2> QED
    BY <1>4, <2>1, <2>2, AllAsTheFirst
<1>7. ASSUME read.pos > 0, Sound(image)
      PROVE  IsNth(e, image, n) /\ read.args.fds = sent[Peer(e)][n].fds
  <2>1. CASE m.pos > 0
    BY <1>1, <1>2, <1>3, <1>5, <1>7, <2>1 DEF InNumbered
  <2>2. CASE m.pos = 0
    <3>1. 1 \in 1..k /\ k > 0 /\ 1 \in 1..Len(s)
      BY <1>2, <1>4, <1>7, <2>2
    <3>2. s[1].unit.image = image /\ s[1].unit.at = 1
      BY <1>4, <2>2, <3>1
    <3>3. Clean(e, 1)
      BY <1>1, <1>2, <1>7, <2>2, <3>2 DEF Clean, CleanIn
    <3>4. UnitNumbered(e, s[1], f[1])
      BY <1>1, <3>1, <3>3 DEF Numbers
    <3> QED
      BY <1>5, <1>6, <2>2, <3>1, <3>2, <3>4 DEF UnitNumbered
  <2> QED
    BY <1>3, <2>1, <2>2
<1>8. ASSUME read.pos > 0 => Sound(image) PROVE Clean(e, k)
  <2>1. CleanIn(e)
    <3>1. m.pos > 0 => read.pos > 0
      BY <1>2, <1>3, <1>4
    <3> QED
      BY <1>2, <1>5, <1>8, <3>1 DEF CleanIn
  <2>2. ASSUME NEW i \in 1..k PROVE Sound(s[i].unit.image)
    <3>1. read.pos > 0
      BY <1>2, <1>3, <1>4
    <3> QED
      BY <1>4, <1>8, <3>1
  <2> QED
    BY <1>1, <2>1, <2>2 DEF Clean
<1> QED
  BY <1>1, <1>6, <1>7, <1>8

\* The number of what is now the first unit of the line, or of what comes next.
LEMMA NextNumber ==
  ASSUME NEW e \in End, NEW k \in Nat, NEW z, NEW f, Numbers(e, f), IsSeq(stream[e]),
         k <= Len(stream[e]), IsRestAfter(z, stream[e], k),
         \A i \in 1..k : f[i] = Expected(e)
  PROVE  /\ z # <<>> => f[k + 1] = IF k > 0 /\ z[1].unit.at = 1 THEN Expected(e) + 1
                                                                ELSE Expected(e)
         /\ z = <<>> => LastNumber(e, f) =
               IF k = 0 /\ in[e].pos = 0 THEN Len(delivered[e]) ELSE Expected(e)
<1>1. PICK s, n : s = stream[e] /\ n = Expected(e)
  OBVIOUS
<1>2. /\ Len(s) \in Nat /\ Len(z) \in Nat /\ Len(z) = Len(s) - k
      /\ \A i \in 1..Len(z) : z[i] = s[k + i]
      /\ z = <<>> <=> Len(z) = 0
      /\ s = <<>> <=> Len(s) = 0
  BY <1>1, LengthIsNat DEF IsRestAfter
<1>3. ASSUME z # <<>> PROVE f[k + 1] = IF k > 0 /\ z[1].unit.at = 1 THEN n + 1 ELSE n
  <2>1. 1 \in 1..Len(z) /\ z[1] = s[k + 1] /\ s # <<>>
    BY <1>2, <1>3
  <2>2. CASE k = 0
    <3>1. k + 1 = 1
      BY <2>2
    <3> QED
      BY <1>1, <2>1, <2>2, <3>1 DEF Numbers
  <2>3. CASE k > 0
    <3>1. k \in 1..Len(s) - 1 /\ k \in 1..k
      BY <1>2, <2>1, <2>3
    <3>2. f[k + 1] = IF s[k + 1].unit.at = 1 THEN f[k] + 1 ELSE f[k]
      BY <1>1, <3>1 DEF Numbers
    <3>3. f[k] = n
      BY <1>1, <3>1
    <3> QED
      BY <2>1, <2>3, <3>2, <3>3
  <2> QED
    BY <2>2, <2>3
<1>4. ASSUME z = <<>>
      PROVE  LastNumber(e, f) = IF k = 0 /\ in[e].pos = 0 THEN Len(delivered[e]) ELSE n
  <2>1. k = Len(s)
    BY <1>2, <1>4
  <2>2. CASE k = 0
    BY <1>1, <1>2, <2>1, <2>2 DEF LastNumber
  <2>3. CASE k > 0
    <3>1. s # <<>> /\ k \in 1..k
      BY <1>2, <2>1, <2>3
    <3>2. LastNumber(e, f) = f[k]
      BY <1>1, <2>1, <3>1 DEF LastNumber
    <3> QED
      BY <1>1, <2>3, <3>1, <3>2
  <2> QED
    BY <2>2, <2>3
<1> QED
  BY <1>1, <1>3, <1>4

-----------------------------------------------------------------------------
(* The steps of a receiver.                                                *)

\* A message that fails is delivered with its error, and the receiver closes.
LEMMA AbandonDelivery ==
  ASSUME Inv, DeliveryInv, NEW e \in End, NEW x, NEW error, NEW z, NEW k \in Nat,
         transport[e].open, IsMessage(x), error # NoError, Abandon(e, x, error),
         stream' = [stream EXCEPT ![e] = z], k <= Len(stream[e]),
         IsRestAfter(z, stream[e], k), sent' = sent
  PROVE  DeliveryInv'
<1>1. PICK p, f, n, t, m, b : /\ p = Peer(e) /\ f = FailedRead(x, error) /\ n = Receiving
                              /\ t = Closed(transport[e]) /\ m = NoMessage /\ b = "no"
  OBVIOUS
<1>2. /\ p \in End /\ p # e /\ IsSeq(delivered[e]) /\ IsSeq(stream[e])
      /\ SenderOK(p) /\ ReceiverOK(e)
  BY <1>1, Ends DEF Inv, WatchInv, DeliveredOK, LineInv, StreamOK, DeliveryInv
<1>3. /\ in' = [in EXCEPT ![e] = n] /\ transport' = [transport EXCEPT ![e] = t]
      /\ out' = [out EXCEPT ![e] = m] /\ busy' = [busy EXCEPT ![e] = b]
      /\ \/ delivered' = delivered
         \/ delivered' = [delivered EXCEPT ![e] = Append(@, f)]
  BY <1>1 DEF Abandon, HandOver
<1>4. t.open = FALSE /\ t.kind = transport[e].kind /\ m.state = "none"
  BY <1>1 DEF Inv, WatchInv, TransportOK, Closed, CloseTransport, SetWriteListener, NoMessage
<1>5. transport'[e] = t /\ stream'[e] = z /\ OthersKept(e)
  BY <1>3 DEF Inv, Tables, DeliveryInv, SentTables, OthersKept
<1>6. SenderOK(p)' /\ SentStays(p)
  BY <1>2, <1>5, OthersSentStays
<1>7. UnitsOK(e)'
  BY <1>2, <1>4, <1>5, ShorterUnitsOK DEF ReceiverOK
<1>8. LineNumbered(e)'
  BY <1>4, <1>5 DEF LineNumbered
<1>9. \E d : delivered' = [delivered EXCEPT ![e] = d] /\ Arrived(e)'
  <2>1. CASE delivered' = delivered
    <3>1. Arrived(e)'
      BY <1>1, <1>2, <1>4, <1>5, <1>6, <2>1, ArrivedKept DEF ReceiverOK, SentStays
    <3>2. PICK d : d = delivered[e]
      OBVIOUS
    <3>3. delivered' = [delivered EXCEPT ![e] = d]
      BY <2>1, <3>2 DEF Inv, Tables
    <3> QED
      BY <3>1, <3>3
  <2>2. CASE delivered' = [delivered EXCEPT ![e] = Append(@, f)]
    <3>1. PICK d : d = Append(delivered[e], f)
      OBVIOUS
    <3>2. delivered' = [delivered EXCEPT ![e] = d] /\ delivered'[e] = d
      BY <2>2, <3>1 DEF Inv, Tables
    <3>3. ArgsOK(f.args) /\ f.error # NoError
      BY <1>1, ClearOK, NoArgumentsOK
    <3>4. Arrived(e)'
      BY <1>1, <1>2, <1>4, <1>5, <1>6, <3>1, <3>2, <3>3, ArrivedMore DEF ReceiverOK
    <3> QED
      BY <3>2, <3>4
  <2> QED
    BY <1>3, <2>1, <2>2
<1>10. PICK d : delivered' = [delivered EXCEPT ![e] = d] /\ Arrived(e)'
  BY <1>9
<1>11. Parsed(n) /\ (t.open => transport[e].open) /\ (b = "reading" => t.open)
  BY <1>1, <1>4, ReceivingIsParsed
<1>12. Receives(e, n, t, m, z, d, b)
  BY <1>3, <1>10 DEF Receives
<1> QED
  BY <1>4, <1>7, <1>8, <1>10, <1>11, <1>12, ReceiverDelivery

\* What a step that reads leaves of the line has numbers again: when the message is complete
\* the next unit begins the next one, and else it goes on with this one.
LEMMA TakenNumbers ==
  ASSUME Inv, Inv', DeliveryInv, NEW e \in End, NEW m, NEW r, NEW read, NEW next,
         HasRead(e, m, r, read, next), transport[e].open, transport'[e].open,
         stream'[e] = r.stream, OthersKept(e),
         \/ /\ in'[e].pos = 0 /\ Len(delivered'[e]) = Len(delivered[e]) + 1
            /\ Len(r.units) > 0 /\ Sound(FirstImage(read))
         \/ /\ in'[e].pos = read.pos /\ delivered'[e] = delivered[e]
            /\ FirstImage(in'[e]) = FirstImage(read)
  PROVE  \E g \in [1..Len(stream'[e]) -> Nat] : Numbers(e, g)'
<1>1. PICK s, p, z, k, n : /\ s = stream[e] /\ p = Peer(e) /\ z = r.stream /\ k = Len(r.units)
                           /\ n = Expected(e)
  OBVIOUS
<1>2. /\ p \in End /\ p # e /\ IsSeq(s) /\ SenderOK(p) /\ LineNumbered(e)
      /\ IsSeq(delivered[e]) /\ IsArriving(in[e]) /\ LineOK(e)'
  BY <1>1, Ends
     DEF Inv, WatchInv, DeliveredOK, LineInv, StreamOK, DeliveryInv, ReceiverOK
<1>3. /\ m = in[e] /\ TakesUnits(r, transport[e], s, Wanted(m)) /\ read.pos = m.pos + k
  BY <1>1 DEF HasRead
<1>4. /\ k \in Nat /\ k <= Len(s) /\ IsRestAfter(z, s, k) /\ IsSeq(z) /\ Len(z) \in Nat
      /\ m.pos \in Nat /\ Len(delivered[e]) \in Nat
  BY <1>1, <1>2, <1>3, LengthIsNat DEF TakesUnits, IsRestAfter, IsArriving
<1>5. SenderOK(p)' /\ SentStays(p) /\ transport'[p] = transport[p]
      /\ Committed(p)' = Committed(p)
  <2>1. out'[p] = out[p] /\ sent'[p] = sent[p]
    BY <1>2 DEF OthersKept
  <2>2. Committed(p)' = Committed(p)
    BY <2>1 DEF Committed, NotBegun
  <2> QED
    BY <1>2, <2>2, OthersSentStays DEF OthersKept
<1>6. PICK f \in [1..Len(s) -> Nat] : Numbers(e, f)
  BY <1>1, <1>2 DEF LineNumbered
<1>7. /\ \A i \in 1..k : f[i] = n
      /\ (read.pos > 0 => Sound(FirstImage(read))) => Clean(e, k)
  BY <1>1, <1>6, ReadIsNumbered
<1>8. /\ z # <<>> => f[k + 1] = IF k > 0 /\ z[1].unit.at = 1 THEN n + 1 ELSE n
      /\ z = <<>> => LastNumber(e, f) = IF k = 0 /\ m.pos = 0 THEN Len(delivered[e]) ELSE n
  <2>1. \A i \in 1..k : f[i] = Expected(e)
    BY <1>1, <1>7
  <2>2. k \in Nat /\ k <= Len(stream[e]) /\ IsRestAfter(z, stream[e], k) /\ IsSeq(stream[e])
    BY <1>1, <1>2, <1>4
  <2>3. Numbers(e, f)
    BY <1>6
  <2>4. /\ z # <<>> => f[k + 1] = IF k > 0 /\ z[1].unit.at = 1 THEN Expected(e) + 1
                                                                ELSE Expected(e)
        /\ z = <<>> => LastNumber(e, f) =
              IF k = 0 /\ in[e].pos = 0 THEN Len(delivered[e]) ELSE Expected(e)
    BY <2>1, <2>2, <2>3, NextNumber
  <2> QED
    BY <1>1, <1>3, <2>4
<1>9. z # <<>> => Resumes(in'[e], z[1].unit)
  BY <1>1, <1>2 DEF LineOK
<1>10. /\ z # <<>> => f[k + 1] = Expected(e)'
       /\ CleanIn(e)' => Clean(e, k)
       /\ z = <<>> => LastNumber(e, f)
                         = IF in'[e].pos = 0 THEN Len(delivered'[e]) ELSE Expected(e)'
  <2>1. CASE /\ in'[e].pos = 0 /\ Len(delivered'[e]) = Len(delivered[e]) + 1
             /\ k > 0 /\ Sound(FirstImage(read))
    <3>1. Expected(e)' = n + 1 /\ n = Len(delivered'[e])
      BY <1>1, <1>4, <2>1 DEF Expected
    <3>2. z # <<>> => z[1].unit.at = 1
      BY <1>9, <2>1 DEF Resumes
    <3> QED
      BY <1>7, <1>8, <2>1, <3>1, <3>2
  <2>2. CASE /\ in'[e].pos = read.pos /\ delivered'[e] = delivered[e]
             /\ FirstImage(in'[e]) = FirstImage(read)
    <3>1. Expected(e)' = n /\ in'[e].pos = m.pos + k
      BY <1>1, <1>3, <2>2 DEF Expected
    <3>2. z # <<>> /\ k > 0 => z[1].unit.at # 1
      <4>1. z # <<>> /\ k > 0 => in'[e].pos > 0 /\ in'[e].pos + 1 # 1
        BY <1>4, <3>1
      <4> QED
        BY <1>9, <4>1 DEF Resumes
    <3>3. in'[e].pos = 0 <=> k = 0 /\ m.pos = 0
      BY <1>4, <3>1
    <3>4. CleanIn(e)' => Clean(e, k)
      BY <1>7, <2>2 DEF CleanIn
    <3> QED
      BY <1>8, <2>2, <3>1, <3>2, <3>3, <3>4
  <2> QED
    BY <1>1, <2>1, <2>2
<1> QED
  <2>1. k <= Len(stream[e]) /\ IsRestAfter(z, stream[e], k) /\ IsSeq(stream[e])
        /\ stream'[e] = z
    BY <1>1, <1>2, <1>4
  <2>2. /\ SenderOK(Peer(e)) /\ SenderOK(Peer(e))' /\ SentKept(Peer(e))
        /\ Committed(Peer(e))' = Committed(Peer(e))
        /\ transport'[Peer(e)].open => transport[Peer(e)].open
    BY <1>1, <1>2, <1>5 DEF SentStays
  <2>3. f \in [1..Len(stream[e]) -> Nat]
    BY <1>1, <1>6
  <2>4. \E g \in [1..Len(z) -> Nat] : Numbers(e, g)'
    BY <1>4, <1>6, <1>10, <2>1, <2>2, <2>3, ShorterNumbers
  <2> QED
    BY <2>1, <2>4

\* What is handed over is what the peer sent.
LEMMA CompletedMatches ==
  ASSUME Inv, DeliveryInv, NEW e \in End, NEW m, NEW r, NEW read, NEW next,
         HasRead(e, m, r, read, next), transport[e].open, HeadersOk(m, read),
         IsComplete(next), NEW x, x = WithBody(next, next.args.fds)
  PROVE  /\ Sound(FirstImage(read)) /\ Len(r.units) > 0 /\ x.type # "Invalid"
         /\ ArgsOK(x.args) /\ x.error = NoError
         /\ Expected(e) \in 1..Committed(Peer(e))
         /\ Matches(sent[Peer(e)][Expected(e)], x)
<1>1. PICK p, k, n, image, owed, fds :
           /\ p = Peer(e) /\ k = Len(r.units) /\ n = Expected(e) /\ image = FirstImage(read)
           /\ owed = sent[p][n] /\ fds = next.args.fds
  OBVIOUS
<1>2. /\ m = in[e] /\ IsRead(read) /\ ContinuesWith(m, r.units, read)
      /\ TakesUnits(r, transport[e], stream[e], Wanted(m)) /\ read.pos = m.pos + k
      /\ next = WithHeaders(m, read) /\ IsNext(read, next)
  BY <1>1 DEF HasRead
<1>3. IsArriving(m) /\ LineNumbered(e) /\ IsMessage(read) /\ HoldsUnits(read)
  BY <1>2 DEF Inv, LineInv, DeliveryInv, ReceiverOK, IsRead
<1>4. IsToBeParsed(m, read)
  BY ReadIsToBeParsed
<1>5. /\ Parsed(next) /\ FirstImage(next) = image /\ fds = read.args.fds
      /\ next.pos = read.pos
  BY <1>1, <1>2, <1>3, <1>4, NextIsParsed
<1>6. /\ IsMessage(next) /\ next.bodyLength \in Nat /\ next.pos > 0
      /\ next.pos = Total(image) /\ next.buffer = read.buffer
      /\ next.headerLength # 0
      /\ next.headerLength = image.headerLength /\ next.bodyLength = image.bodyLength
      /\ Total(image) <= MaxMessageLength
  <2>1. next.headerLength # 0
    BY DEF IsComplete
  <2>2. next.buffer[1].image = image
    BY <1>5 DEF FirstImage
  <2> QED
    BY <1>2, <2>1, <2>2 DEF IsNext
<1>7. IsImage(image)
  BY <1>1, <1>3, <1>5, <1>6 DEF HoldsUnits, FirstImage
<1>8. HeadersDone(next) /\ image.headerLength \in Nat /\ image.headerLength > 0
  <2>1. /\ image.headerLength \in Nat /\ image.bodyLength \in Nat
        /\ image.headerLength >= 2
    BY <1>7 DEF IsImage, FixedLength
  <2>2. next.pos = image.headerLength + image.bodyLength
    BY <1>6 DEF Total
  <2> QED
    BY <1>6, <2>1, <2>2 DEF HeadersDone
<1>9. /\ Sound(image) /\ next.headers = image.headers /\ next.type = image.type
      /\ next.flags = image.flags /\ next.serial = image.serial
  BY <1>5, <1>6, <1>7, <1>8, CompleteIsSound
<1>10. PICK f \in [1..Len(stream[e]) -> Nat] : Numbers(e, f)
  BY <1>3 DEF LineNumbered
<1>11. IsNth(e, image, n) /\ read.args.fds = sent[Peer(e)][n].fds
  <2>1. f \in [1..Len(stream[e]) -> Nat] /\ Numbers(e, f)
    BY <1>10
  <2>2. read.pos > 0 /\ Sound(FirstImage(read)) =>
           /\ IsNth(e, FirstImage(read), Expected(e))
           /\ read.args.fds = sent[Peer(e)][Expected(e)].fds
    BY <2>1, ReadIsNumbered
  <2>3. read.pos > 0 /\ Sound(FirstImage(read))
    BY <1>1, <1>5, <1>6, <1>9
  <2> QED
    BY <1>1, <2>2, <2>3
<1>12. n \in 1..Committed(p) /\ IsCopy(image, owed) /\ fds = owed.fds
  BY <1>1, <1>5, <1>11 DEF IsNth
<1>13. IsSeq(fds) /\ next.error = NoError
  BY <1>1, <1>5 DEF Parsed, ArgsOK
<1>14. /\ ArgsOK(x.args) /\ x.args.fds = fds /\ x.type = next.type /\ x.flags = next.flags
       /\ x.serial = next.serial /\ x.headers = next.headers /\ x.error = next.error
       /\ next.bodyLength = 0 => x.args.content = "none"
       /\ next.bodyLength # 0 =>
             x.args.content = next.buffer[next.headerLength + 1].image.content
  <2>1. x = WithBody(next, fds)
    BY <1>1
  <2> QED
    BY <1>6, <1>13, <2>1, WithBodyOK
<1>15. x.args.content = ContentOf(image)
  <2>1. CASE next.bodyLength = 0
    BY <1>6, <1>14, <2>1 DEF ContentOf
  <2>2. CASE next.bodyLength # 0
    <3>1. PICK i : i = next.headerLength + 1
      OBVIOUS
    <3>2. i \in 1..read.pos
      <4>1. read.pos = image.headerLength + image.bodyLength
        BY <1>5, <1>6 DEF Total
      <4> QED
        BY <1>6, <1>8, <2>2, <3>1, <4>1
    <3>3. read.buffer[i].image = image
      BY <1>1, <1>3, <3>2 DEF HoldsUnits, FirstImage
    <3> QED
      BY <1>6, <1>14, <2>2, <3>1, <3>3 DEF ContentOf
  <2> QED
    BY <2>1, <2>2
<1>16. Matches(owed, x)
  BY <1>9, <1>12, <1>14, <1>15 DEF IsCopy, Matches
<1>17. k > 0
  <2>1. PICK w, total : w = Wanted(m) /\ total = Total(image)
    OBVIOUS
  <2>2. w \in Nat \ {0} /\ m.pos \in Nat
        /\ (m.pos > 0 => m.pos + w <= Total(m.buffer[1].image))
    BY <1>3, <2>1, WantedIsRest
  <2>3. m.pos > 0 => m.buffer[1].image = image
    BY <1>1, <1>2 DEF ContinuesWith, FirstImage
  <2>4. m.pos > 0 => m.pos + w <= total
    BY <2>1, <2>2, <2>3
  <2>5. k \in Nat /\ m.pos + k = total /\ total > 0
    BY <1>1, <1>2, <1>5, <1>6, <2>1, LengthIsNat DEF TakesUnits
  <2> QED
    BY <2>2, <2>4, <2>5
<1> QED
  <2>1. n = Expected(e) /\ image = FirstImage(read) /\ k = Len(r.units) /\ p = Peer(e)
    BY <1>1
  <2>2. x.type # "Invalid" /\ ArgsOK(x.args) /\ x.error = NoError
    BY <1>9, <1>12, <1>13, <1>14 DEF IsCopy
  <2>3. Matches(sent[Peer(e)][Expected(e)], x)
    BY <1>1, <1>16
  <2> QED
    BY <1>9, <1>12, <1>17, <2>1, <2>2, <2>3

LEMMA CompletedDelivery ==
  ASSUME Inv, Inv', DeliveryInv, NEW e \in End, NEW m, NEW r, NEW read, NEW next,
         HasRead(e, m, r, read, next), transport[e].open, HeadersOk(m, read),
         IsComplete(next), HandOver(e, WithBody(next, next.args.fds)),
         transport' = [transport EXCEPT ![e] = r.t], stream' = [stream EXCEPT ![e] = r.stream],
         UNCHANGED <<out, sent>>
  PROVE  DeliveryInv'
<1>1. PICK x, n, t, o, z, b, p, k, d :
           /\ x = WithBody(next, next.args.fds) /\ n = Receiving /\ t = r.t /\ o = out[e]
           /\ z = r.stream /\ b = "no" /\ p = Peer(e) /\ k = Len(r.units)
           /\ d = Append(delivered[e], x)
  OBVIOUS
<1>2. /\ Sound(FirstImage(read)) /\ k > 0 /\ x.type # "Invalid" /\ ArgsOK(x.args)
      /\ x.error = NoError /\ Expected(e) \in 1..Committed(Peer(e))
      /\ Matches(sent[Peer(e)][Expected(e)], x)
  BY <1>1, CompletedMatches
<1>3. /\ p \in End /\ p # e /\ IsSeq(delivered[e]) /\ IsSeq(stream[e])
      /\ SenderOK(p) /\ ReceiverOK(e) /\ Parsed(n) /\ n.pos = 0
  BY <1>1, Ends, ReceivingIsParsed, ReceivingIsArriving
     DEF Inv, WatchInv, DeliveredOK, LineInv, StreamOK, DeliveryInv
<1>4. /\ in' = [in EXCEPT ![e] = n] /\ busy' = [busy EXCEPT ![e] = b]
      /\ delivered' = [delivered EXCEPT ![e] = Append(@, x)]
  BY <1>1, <1>2 DEF HandOver
<1>5. /\ delivered' = [delivered EXCEPT ![e] = d] /\ delivered'[e] = d /\ in'[e] = n
      /\ transport' = [transport EXCEPT ![e] = t] /\ transport'[e] = t
      /\ stream' = [stream EXCEPT ![e] = z] /\ stream'[e] = z /\ stream'[e] = r.stream
      /\ out' = [out EXCEPT ![e] = o] /\ OthersKept(e) /\ sent' = sent
  BY <1>1, <1>4 DEF Inv, Tables, DeliveryInv, SentTables, OthersKept
<1>6. TakesUnits(r, transport[e], stream[e], Wanted(m))
  BY DEF HasRead
<1>7. k \in Nat /\ k <= Len(stream[e]) /\ IsRestAfter(z, stream[e], k)
  BY <1>1, <1>6, LengthIsNat DEF TakesUnits, IsRestAfter
<1>8. t.kind = transport[e].kind
  BY <1>1, <1>6 DEF TakesUnits, Inv, WatchInv, TransportOK, CloseTransport
<1>9. SenderOK(p)' /\ SentStays(p) /\ Committed(p)' = Committed(p)
  <2>1. Committed(p)' = Committed(p)
    BY <1>3, <1>5 DEF OthersKept, Committed, NotBegun
  <2> QED
    BY <1>3, <1>5, <2>1, OthersSentStays
<1>10. UnitsOK(e)'
  BY <1>3, <1>5, <1>7, <1>8, ShorterUnitsOK DEF ReceiverOK
<1>11. Arrived(e)'
  <2>1. Arrived(e) /\ delivered'[e] = Append(delivered[e], x)
    BY <1>1, <1>3, <1>5 DEF ReceiverOK
  <2>2. SenderOK(Peer(e)) /\ SenderOK(Peer(e))' /\ SentStays(Peer(e))
    BY <1>1, <1>3, <1>9
  <2>3. /\ Len(delivered[e]) + 1 <= Committed(Peer(e))'
        /\ Matches(sent'[Peer(e)][Len(delivered[e]) + 1], x)
    <3>1. Committed(p) \in Nat
      BY <1>3, CommittedIsNat
    <3>2. Expected(e) <= Committed(p)
      BY <1>1, <1>2, <3>1
    <3> QED
      BY <1>1, <1>2, <1>5, <1>9, <3>2 DEF Expected
  <2> QED
    BY <1>2, <1>3, <2>1, <2>2, <2>3, ArrivedMore
<1>12. LineNumbered(e)'
  <2>1. SUFFICES ASSUME transport'[e].open
                 PROVE  InNumbered(e)' /\ \E g \in [1..Len(stream'[e]) -> Nat] : Numbers(e, g)'
    BY DEF LineNumbered
  <2>2. InNumbered(e)'
    BY <1>3, <1>5 DEF InNumbered
  <2>3. in'[e].pos = 0 /\ Len(delivered'[e]) = Len(delivered[e]) + 1
        /\ Len(r.units) > 0 /\ Sound(FirstImage(read))
    BY <1>1, <1>2, <1>3, <1>5, Appended
  <2>4. \E g \in [1..Len(stream'[e]) -> Nat] : Numbers(e, g)'
    BY <1>5, <2>1, <2>3, TakenNumbers
  <2> QED
    BY <2>2, <2>4
<1>13. (b = "reading" => t.open) /\ (t.open => transport[e].open)
  BY <1>1
<1> QED
  <2>1. Parsed(n) /\ (o = out[e] \/ (o.state = "none" /\ ~t.open))
    BY <1>1, <1>3
  <2>2. Receives(e, n, t, o, z, d, b)
    BY <1>4, <1>5 DEF Receives
  <2> QED
    BY <1>8, <1>10, <1>11, <1>12, <1>13, <2>1, <2>2, ReceiverDelivery

\* The message is not complete; what has been read of it stays with the receiver.
LEMMA GoesOnDelivery ==
  ASSUME Inv, Inv', DeliveryInv, NEW e \in End, NEW m, NEW r, NEW read, NEW next,
         HasRead(e, m, r, read, next), transport[e].open, HeadersOk(m, read), r.t.open,
         in' = [in EXCEPT ![e] = next], NEW b, busy' = [busy EXCEPT ![e] = b],
         transport' = [transport EXCEPT ![e] = r.t], stream' = [stream EXCEPT ![e] = r.stream],
         UNCHANGED <<out, delivered, sent>>
  PROVE  DeliveryInv'
<1>1. PICK t, o, z, p, k, d, n, image :
           /\ t = r.t /\ o = out[e] /\ z = r.stream /\ p = Peer(e) /\ k = Len(r.units)
           /\ d = delivered[e] /\ n = Expected(e) /\ image = FirstImage(read)
  OBVIOUS
<1>2. /\ p \in End /\ p # e /\ IsSeq(stream[e]) /\ SenderOK(p) /\ ReceiverOK(e)
  BY <1>1, Ends DEF Inv, LineInv, StreamOK, DeliveryInv
<1>3. /\ delivered' = [delivered EXCEPT ![e] = d] /\ delivered'[e] = delivered[e]
      /\ in'[e] = next
      /\ transport' = [transport EXCEPT ![e] = t] /\ transport'[e] = t
      /\ stream' = [stream EXCEPT ![e] = z] /\ stream'[e] = z /\ stream'[e] = r.stream
      /\ out' = [out EXCEPT ![e] = o] /\ OthersKept(e) /\ sent' = sent
  BY <1>1 DEF Inv, Tables, DeliveryInv, SentTables, OthersKept
<1>4. /\ TakesUnits(r, transport[e], stream[e], Wanted(m)) /\ next = WithHeaders(m, read)
      /\ IsMessage(read)
  BY DEF HasRead, IsRead
<1>5. k \in Nat /\ k <= Len(stream[e]) /\ IsRestAfter(z, stream[e], k)
  BY <1>1, <1>2, <1>4, LengthIsNat DEF TakesUnits, IsRestAfter
<1>6. t.kind = transport[e].kind
  BY <1>1, <1>4 DEF TakesUnits, Inv, WatchInv, TransportOK, CloseTransport
<1>7. IsToBeParsed(m, read)
  BY ReadIsToBeParsed
<1>8. /\ Parsed(next) /\ FirstImage(next) = image /\ next.args.fds = read.args.fds
      /\ next.pos = read.pos
  BY <1>1, <1>4, <1>7, NextIsParsed
<1>9. SenderOK(p)' /\ SentStays(p)
  BY <1>2, <1>3, OthersSentStays
<1>10. UnitsOK(e)'
  BY <1>2, <1>3, <1>5, <1>6, ShorterUnitsOK DEF ReceiverOK
<1>11. Arrived(e)'
  BY <1>1, <1>2, <1>3, <1>9, ArrivedKept DEF ReceiverOK, SentStays
<1>12. InNumbered(e)'
  <2>1. SUFFICES ASSUME next.pos > 0, Sound(image)
                 PROVE  IsNth(e, image, n)' /\ next.args.fds = sent'[Peer(e)][n].fds
    <3>1. Expected(e)' = n
      BY <1>1, <1>3 DEF Expected
    <3> QED
      BY <1>3, <1>8, <3>1 DEF InNumbered, IsNth
  <2>2. PICK f \in [1..Len(stream[e]) -> Nat] : Numbers(e, f)
    BY <1>2 DEF ReceiverOK, LineNumbered
  <2>3. f \in [1..Len(stream[e]) -> Nat] /\ Numbers(e, f)
    BY <2>2
  <2>4. read.pos > 0 /\ Sound(FirstImage(read)) =>
           /\ IsNth(e, FirstImage(read), Expected(e))
           /\ read.args.fds = sent[Peer(e)][Expected(e)].fds
    BY <2>3, ReadIsNumbered
  <2>5. IsNth(e, image, n) /\ read.args.fds = sent[Peer(e)][n].fds
    BY <1>1, <1>8, <2>1, <2>4
  <2>6. IsNth(e, image, n)'
    BY <1>1, <1>2, <1>9, <2>5, NthKept DEF SentStays
  <2> QED
    BY <1>3, <1>8, <2>5, <2>6
<1>13. LineNumbered(e)'
  <2>1. in'[e].pos = read.pos /\ FirstImage(in'[e]) = FirstImage(read)
    BY <1>1, <1>3, <1>8
  <2>2. transport'[e].open
    BY <1>1, <1>3
  <2>3. \E g \in [1..Len(stream'[e]) -> Nat] : Numbers(e, g)'
    BY <1>3, <2>1, <2>2, TakenNumbers
  <2> QED
    BY <1>12, <2>3 DEF LineNumbered
<1>14. (b = "reading" => t.open) /\ (t.open => transport[e].open)
  BY <1>1
<1> QED
  <2>1. o = out[e] \/ (o.state = "none" /\ ~t.open)
    BY <1>1
  <2>2. Parsed(next)
    BY <1>8
  <2>3. Receives(e, next, t, o, z, d, b)
    BY <1>3 DEF Receives
  <2> QED
    BY <1>6, <1>10, <1>11, <1>13, <1>14, <2>1, <2>2, <2>3, ReceiverDelivery

LEMMA ReadStepDelivery ==
  ASSUME Inv, Inv', DeliveryInv, NEW e \in End, ReadStep(e) PROVE DeliveryInv'
<1>1. PICK m, r, read, next : HasRead(e, m, r, read, next) /\ Iteration(e, m, r, read, next)
  BY ReadStepReads
<1>2. /\ transport[e].open /\ sent' = sent
      /\ stream' = [stream EXCEPT ![e] = r.stream]
  <2>1. ReadsOpen(e)
    BY DEF DeliveryInv, ReceiverOK
  <2> QED
    BY <1>1, <2>1 DEF Iteration, ReadsOpen, Readable
<1>3. \/ ~HeadersOk(m, read) /\ Abandon(e, read, "MalformedReply")
      \/ /\ HeadersOk(m, read) /\ IsComplete(next)
         /\ HandOver(e, WithBody(next, next.args.fds))
         /\ transport' = [transport EXCEPT ![e] = r.t] /\ UNCHANGED out
      \/ /\ HeadersOk(m, read) /\ ~IsComplete(next) /\ Abandon(e, next, "RemoteDisconnect")
      \/ /\ HeadersOk(m, read) /\ r.t.open
         /\ in' = [in EXCEPT ![e] = next] /\ transport' = [transport EXCEPT ![e] = r.t]
         /\ busy' = [busy EXCEPT ![e] = IF r.status = "OK" THEN "reading" ELSE "no"]
         /\ UNCHANGED <<out, delivered>>
  BY <1>1, Zenon DEF Iteration
<1>4. PICK k, z : k = Len(r.units) /\ z = r.stream
  OBVIOUS
<1>5. /\ k \in Nat /\ k <= Len(stream[e]) /\ IsRestAfter(z, stream[e], k)
      /\ stream' = [stream EXCEPT ![e] = z] /\ IsMessage(read)
      /\ HeadersOk(m, read) => IsMessage(next)
  <2>1. /\ TakesUnits(r, transport[e], stream[e], Wanted(m)) /\ IsRead(read)
        /\ HeadersOk(m, read) => IsNext(read, next)
    BY <1>1 DEF HasRead
  <2>2. IsSeq(stream[e])
    BY DEF Inv, LineInv, StreamOK
  <2> QED
    BY <1>2, <1>4, <2>1, <2>2, LengthIsNat DEF TakesUnits, IsRestAfter, IsRead, IsNext
<1>6. ASSUME NEW x, NEW error, IsMessage(x), error # NoError, Abandon(e, x, error)
      PROVE  DeliveryInv'
  BY <1>2, <1>5, <1>6, AbandonDelivery
<1>7. CASE ~HeadersOk(m, read) /\ Abandon(e, read, "MalformedReply")
  BY <1>5, <1>6, <1>7 DEF NoError
<1>8. CASE /\ HeadersOk(m, read) /\ IsComplete(next)
           /\ HandOver(e, WithBody(next, next.args.fds))
           /\ transport' = [transport EXCEPT ![e] = r.t] /\ UNCHANGED out
  BY <1>1, <1>2, <1>8, CompletedDelivery
<1>9. CASE HeadersOk(m, read) /\ ~IsComplete(next) /\ Abandon(e, next, "RemoteDisconnect")
  BY <1>5, <1>6, <1>9 DEF NoError
<1>10. CASE /\ HeadersOk(m, read) /\ r.t.open
            /\ in' = [in EXCEPT ![e] = next] /\ transport' = [transport EXCEPT ![e] = r.t]
            /\ busy' = [busy EXCEPT ![e] = IF r.status = "OK" THEN "reading" ELSE "no"]
            /\ UNCHANGED <<out, delivered>>
  <2>1. PICK b : busy' = [busy EXCEPT ![e] = b]
    BY <1>10
  <2> QED
    BY <1>1, <1>2, <1>10, <2>1, GoesOnDelivery
<1> QED
  BY <1>3, <1>7, <1>8, <1>9, <1>10

-----------------------------------------------------------------------------
(* The theorems.                                                           *)

LEMMA InitDelivery == Init => DeliveryInv
<1> SUFFICES ASSUME Init PROVE DeliveryInv
  OBVIOUS
<1>1. PICK kind \in Kinds : transport = [e \in End |-> SetReadListener(NewTransport(kind), "in")]
  BY DEF Init
<1>2. PICK t : t = SetReadListener(NewTransport(kind), "in")
  OBVIOUS
<1>3. /\ busy = [e \in End |-> "no"] /\ sent = [e \in End |-> <<>>]
      /\ out = [e \in End |-> NoMessage] /\ in = [e \in End |-> Receiving]
      /\ stream = [e \in End |-> <<>>] /\ delivered = [e \in End |-> <<>>]
  BY DEF Init
<1>4. \A e \in End : /\ transport[e] = t /\ out[e] = NoMessage /\ in[e] = Receiving
                     /\ stream[e] = <<>> /\ delivered[e] = <<>> /\ sent[e] = <<>>
                     /\ busy[e] = "no" /\ Peer(e) \in End
  BY <1>1, <1>2, <1>3, Ends
<1>5. /\ IsSeq(<<>>) /\ Len(<<>>) = 0 /\ NoMessage.state = "none" /\ Receiving.pos = 0
      /\ Parsed(Receiving)
  BY EmptySeq, ReceivingIsArriving, ReceivingIsParsed DEF IsSeq, NoMessage
<1>6. SentTables /\ OneKind
  BY <1>3, <1>4 DEF SentTables, OneKind
<1>7. ASSUME NEW e \in End PROVE SenderOK(e) /\ Committed(e) = 0
  BY <1>4, <1>5 DEF SenderOK, Committed, NotBegun
<1>8. ASSUME NEW e \in End PROVE ReceiverOK(e)
  <2>1. UnitsOK(e) /\ Arrived(e) /\ ReadsOpen(e) /\ Parsed(in[e])
    BY <1>4, <1>5 DEF UnitsOK, Arrived, ReadsOpen
  <2>2. InNumbered(e)
    BY <1>4, <1>5 DEF InNumbered
  <2>3. PICK f : f \in [1..0 -> Nat]
    <3>1. [i \in 1..0 |-> 0] \in [1..0 -> Nat]
      OBVIOUS
    <3> QED
      BY <3>1
  <2>4. Numbers(e, f)
    <3>1. stream[e] = <<>> /\ Len(stream[e]) = 0 /\ LastNumber(e, f) = 0
      BY <1>4, <1>5 DEF LastNumber
    <3>2. Committed(Peer(e)) = 0
      BY <1>4, <1>7
    <3> QED
      BY <3>1, <3>2 DEF Numbers
  <2>5. f \in [1..Len(stream[e]) -> Nat]
    BY <1>4, <1>5, <2>3
  <2>6. LineNumbered(e)
    BY <2>2, <2>4, <2>5 DEF LineNumbered
  <2> QED
    BY <2>1, <2>6 DEF ReceiverOK
<1> QED
  BY <1>6, <1>7, <1>8 DEF DeliveryInv

LEMMA StutterDelivery == ASSUME DeliveryInv, UNCHANGED vars PROVE DeliveryInv'
<1>1. /\ transport' = transport /\ out' = out /\ in' = in /\ stream' = stream /\ busy' = busy
      /\ sent' = sent /\ delivered' = delivered
  BY DEF vars
<1>2. SentTables' /\ OneKind'
  BY <1>1 DEF DeliveryInv, SentTables, OneKind
<1>3. ASSUME NEW e \in End
      PROVE  SenderOK(e)' /\ SenderOK(e) /\ SentStays(e)
  <2>1. SenderOK(e)
    BY DEF DeliveryInv
  <2>2. SenderOK(e)' /\ Committed(e)' = Committed(e)
    BY <1>1, <2>1 DEF SenderOK, Carried, LastSent, Committed, NotBegun
  <2>3. Committed(e) \in Nat
    BY <2>1, CommittedIsNat
  <2> QED
    BY <1>1, <2>1, <2>2, <2>3 DEF SentStays, SentKept
<1>4. ASSUME NEW e \in End PROVE ReceiverOK(e)'
  <2>1. ReceiverOK(e) /\ Peer(e) \in End
    BY Ends DEF DeliveryInv
  <2>2. SenderOK(Peer(e)) /\ SenderOK(Peer(e))' /\ SentStays(Peer(e))
    BY <1>3, <2>1
  <2>3. LineNumbered(e)'
    BY <1>1, <2>1, <2>2, NumbersKept DEF ReceiverOK
  <2>4. Arrived(e)'
    BY <1>1, <2>1, <2>2, ArrivedKept DEF ReceiverOK, SentStays
  <2>5. UnitsOK(e)' /\ Parsed(in[e])' /\ ReadsOpen(e)'
    BY <1>1, <2>1, UnitsKept DEF ReceiverOK, ReadsOpen
  <2> QED
    BY <2>3, <2>4, <2>5 DEF ReceiverOK
<1> QED
  BY <1>2, <1>3, <1>4 DEF DeliveryInv

LEMMA StepDelivery == Inv /\ Inv' /\ DeliveryInv /\ [Next]_vars => DeliveryInv'
<1> SUFFICES ASSUME Inv, Inv', DeliveryInv, [Next]_vars PROVE DeliveryInv'
  OBVIOUS
<1>1. CASE UNCHANGED vars
  BY <1>1, StutterDelivery
<1>2. ASSUME NEW e \in End,
             \/ Compose(e) \/ ComposeReply(e) \/ Forward(e) \/ LoadMessage(e) \/ Save(e)
             \/ EditSerial(e) \/ EditHeader(e) \/ EditArguments(e)
      PROVE  DeliveryInv'
  BY <1>2, PreparingDelivery
<1>3. ASSUME NEW e \in End, Send(e) PROVE DeliveryInv'
  BY <1>3, SendDelivery
<1>4. ASSUME NEW e \in End, WriteStep(e) PROVE DeliveryInv'
  BY <1>4, WriteStepDelivery
<1>5. ASSUME NEW e \in End, ReadStep(e) PROVE DeliveryInv'
  BY <1>5, ReadStepDelivery
<1>6. ASSUME NEW e \in End, Close(e) PROVE DeliveryInv'
  BY <1>6, CloseDelivery
<1>7. ASSUME NEW e \in End, SendForeign(e) PROVE DeliveryInv'
  BY <1>7, SendForeignDelivery
<1> QED
  BY <1>1, <1>2, <1>3, <1>4, <1>5, <1>6, <1>7 DEF Next

\* The units of each line can be numbered so that the number says which message of the peer
\* a unit belongs to, from the message the receiver is in up to the last that counts as sent;
\* a flaw of a message is found before the message is complete, and the receiver closes.
THEOREM LineIsNumbered == Spec => []DeliveryInv
<1> QED
  BY LineIsOfWholeMessages, InitDelivery, StepDelivery, PTL DEF Spec

\* ConnectionPrivate::handleCompletion passes on the messages of the peer in the order in
\* which the peer called send(), none left out, none twice and none mixed with another, each
\* with the fields, the descriptors and the body it had then, wherever the reads and the
\* writes were cut, and whichever messages were taken back or failed before; the only one
\* that comes with an error is the last.
THEOREM MessagesArriveAsSent == Spec => []DeliveredAsSent
<1>1. Inv /\ DeliveryInv => DeliveredAsSent
  <2> SUFFICES ASSUME Inv, DeliveryInv, NEW e \in End, NEW i \in DOMAIN delivered[e]
               PROVE  IF delivered[e][i].error # NoError THEN i = Len(delivered[e])
                      ELSE /\ i <= Len(sent[Peer(e)])
                           /\ Matches(sent[Peer(e)][i], delivered[e][i])
    BY DEF DeliveredAsSent
  <2>1. PICK p, d : p = Peer(e) /\ d = delivered[e]
    OBVIOUS
  <2>2. IsSeq(d) /\ Arrived(e) /\ SenderOK(p)
    BY <2>1, Ends DEF Inv, WatchInv, DeliveredOK, DeliveryInv, ReceiverOK
  <2>3. i \in 1..Len(d) /\ i \in Nat
    BY <2>1, <2>2, LengthIsNat
  <2>4. Committed(p) \in Nat /\ Committed(p) <= Len(sent[p]) /\ Len(sent[p]) \in Nat
    BY <2>2, CommittedIsNat
  <2>5. IF d[i].error # NoError THEN i = Len(d) /\ ~transport[e].open
        ELSE i <= Committed(p) /\ Matches(sent[p][i], d[i])
    BY <2>1, <2>2, <2>3 DEF Arrived
  <2> QED
    BY <2>1, <2>3, <2>4, <2>5
<1> QED
  BY <1>1, LineIsOfWholeMessages, LineIsNumbered, PTL
=============================================================================
