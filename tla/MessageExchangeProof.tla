------------------------ MODULE MessageExchangeProof ------------------------
(***************************************************************************)
(* Proofs about MessageExchange, for any messages, any lengths and any     *)
(* capacity of the stream.                                                 *)
(*                                                                         *)
(* BufferHoldsOneMessage is about one receiver, but what the receiver      *)
(* takes is a matter of the whole line: what it has received, the stream   *)
(* toward it and what the sender has still to write.  On that line each    *)
(* unit follows the one before it (LineOK, TailOK), until an end closes;   *)
(* and the receiver never asks for more than the message it is in still    *)
(* has (InOK).                                                             *)
(***************************************************************************)
EXTENDS MessageExchange, SequenceTheorems, WellFoundedInduction, TLAPS

-----------------------------------------------------------------------------
(* The inductive invariant.                                                *)

Values(q) == {q[i] : i \in DOMAIN q}
IsSeq(q) == q \in Seq(Values(q))

\* Nothing else is assumed of the contents of images, arguments and messages.
IsImage(image) ==
  /\ {"headerLength", "bodyLength"} \subseteq DOMAIN image
  /\ image.headerLength \in Nat /\ image.headerLength >= FixedLength
  /\ image.bodyLength \in Nat

Total(image) == image.headerLength + image.bodyLength

IsUnit(u) == IsImage(u.image) /\ u.at \in 1..Total(u.image)

IsMessage(m) ==
  /\ DOMAIN m = DOMAIN NewMessage /\ DOMAIN m.args = DOMAIN NoArguments
  /\ m.args.length \in Nat

\* All the units of one message, in their order.
IsWhole(q) ==
  /\ IsSeq(q) /\ Len(q) >= FixedLength /\ Len(q) = Total(q[1].image)
  /\ \A i \in 1..Len(q) : /\ "image" \in DOMAIN q[i] /\ "at" \in DOMAIN q[i]
                          /\ q[i].image = q[1].image /\ q[i].at = i
  /\ IsImage(q[1].image)

TransportOK(e) ==
  /\ DOMAIN transport[e] = {"kind", "open", "read", "write", "fdsPerMessage"}
  /\ transport[e].open \in BOOLEAN

\* What can be sent, or composed anew.
IsReady(m) ==
  /\ IsMessage(m) /\ m.state \in {"Empty", "Serialized"}
  /\ m.state = "Serialized" /\ ~m.dirty => m.pos = 0 /\ IsWhole(m.buffer)

IsOnItsWay(m) ==
  m.state = "Sending" /\ IsMessage(m) /\ IsWhole(m.buffer) /\ m.pos \in 0..Len(m.buffer)

OutOK(e) == out[e].state = "none" \/ IsReady(out[e]) \/ IsOnItsWay(out[e])

DeliveredOK(e) ==
  /\ IsSeq(delivered[e])
  /\ \A i \in 1..Len(delivered[e]) : IsReady(delivered[e][i]) /\ delivered[e][i].dirty

\* A message that has not arrived completely, and knows its length once it has its fixed
\* headers.
IsArriving(m) ==
  /\ IsMessage(m) /\ m.state = "Receiving" /\ m.dirty = TRUE
  /\ IsSeq(m.buffer) /\ m.pos = Len(m.buffer) /\ m.room \in Nat /\ m.pos <= m.room
  /\ \A i \in 1..m.pos : /\ IsUnit(m.buffer[i]) /\ m.buffer[i].at = i
                         /\ m.buffer[i].image = m.buffer[1].image
  /\ m.headerLength = 0 => m.pos < FixedLength
  /\ m.headerLength # 0 => /\ m.pos >= FixedLength /\ m.pos < Total(m.buffer[1].image)
                           /\ m.headerLength = m.buffer[1].image.headerLength
                           /\ m.bodyLength = m.buffer[1].image.bodyLength
                           /\ Total(m.buffer[1].image) <= MaxMessageLength

\* v may come right after u.
Follows(u, v) ==
  /\ u.at < Total(u.image) => v.image = u.image /\ v.at = u.at + 1
  /\ u.at = Total(u.image) => v.at = 1

\* v may come right after what has been received of m.
Resumes(m, v) ==
  /\ m.pos = 0 => v.at = 1
  /\ m.pos > 0 => v.image = m.buffer[1].image /\ v.at = m.pos + 1

StreamOK(e) ==
  /\ IsSeq(stream[e]) /\ Len(stream[e]) <= Capacity
  /\ \A i \in 1..Len(stream[e]) : IsUnit(stream[e][i].unit)

LineOK(e) ==
  transport[e].open =>
    /\ stream[e] # <<>> => Resumes(in[e], stream[e][1].unit)
    /\ \A i \in 1..Len(stream[e]) - 1 : Follows(stream[e][i].unit, stream[e][i + 1].unit)

\* v may come right after everything on the line to e.
Continues(e, v) ==
  IF stream[e] = <<>> THEN Resumes(in[e], v)
                      ELSE Follows(stream[e][Len(stream[e])].unit, v)

Boundary(e) ==
  IF stream[e] = <<>> THEN in[e].pos = 0
  ELSE stream[e][Len(stream[e])].unit.at = Total(stream[e][Len(stream[e])].unit.image)

\* The sender goes on where the line ends, and begins nothing before the message is out.
TailOK(e) ==
  transport[e].open /\ transport[Peer(e)].open =>
    IF out[Peer(e)].state = "Sending" /\ out[Peer(e)].pos < Len(out[Peer(e)].buffer)
    THEN Continues(e, out[Peer(e)].buffer[out[Peer(e)].pos + 1])
    ELSE Boundary(e)

Tables ==
  /\ transport = [e \in End |-> transport[e]] /\ out = [e \in End |-> out[e]]
  /\ in = [e \in End |-> in[e]] /\ stream = [e \in End |-> stream[e]]
  /\ delivered = [e \in End |-> delivered[e]]

WatchInv == /\ \A e \in End : TransportOK(e) /\ OutOK(e) /\ DeliveredOK(e)
            /\ SendingIsWatched

LineInv(e) == IsArriving(in[e]) /\ StreamOK(e) /\ LineOK(e) /\ TailOK(e)

Inv == Tables /\ WatchInv /\ \A e \in End : LineInv(e)

-----------------------------------------------------------------------------
(* Sequences.                                                              *)

LEMMA SeqIsSeq ==
  ASSUME NEW S, NEW q \in Seq(S) PROVE IsSeq(q)
<1>1. q \in [1..Len(q) -> S] /\ Len(q) \in Nat
  BY LenProperties
<1>2. q \in [1..Len(q) -> Values(q)]
  BY <1>1 DEF Values
<1> QED
  BY <1>1, <1>2, SeqDef DEF IsSeq

LEMMA FunctionIsSeq ==
  ASSUME NEW n \in Nat, NEW q, q = [i \in 1..n |-> q[i]]
  PROVE  IsSeq(q) /\ Len(q) = n
<1>1. q \in [1..n -> Values(q)]
  BY DEF Values
<1>2. q \in Seq(Values(q))
  BY <1>1, SeqDef
<1> QED
  BY <1>1, <1>2, LenProperties DEF IsSeq

LEMMA LengthIsNat ==
  ASSUME NEW q, IsSeq(q) PROVE Len(q) \in Nat /\ DOMAIN q = 1..Len(q) /\ (q = <<>> <=> Len(q) = 0)
BY LenProperties, EmptySeq DEF IsSeq

LEMMA Joined ==
  ASSUME NEW q, NEW r, IsSeq(q), IsSeq(r)
  PROVE  /\ IsSeq(q \o r) /\ Len(q \o r) = Len(q) + Len(r)
         /\ \A i \in 1..Len(q) : (q \o r)[i] = q[i]
         /\ \A i \in 1..Len(r) : (q \o r)[Len(q) + i] = r[i]
         /\ \A i \in Len(q) + 1..Len(q) + Len(r) : (q \o r)[i] = r[i - Len(q)]
<1> DEFINE S == Values(q) \cup Values(r)
<1>1. q \in Seq(S) /\ r \in Seq(S)
  BY LenProperties, SeqDef DEF IsSeq
<1> HIDE DEF S
<1>2. /\ q \o r \in Seq(S) /\ Len(q \o r) = Len(q) + Len(r)
      /\ \A i \in 1..Len(q) + Len(r) :
            (q \o r)[i] = IF i <= Len(q) THEN q[i] ELSE r[i - Len(q)]
  BY <1>1, ConcatProperties
<1>3. Len(q) \in Nat /\ Len(r) \in Nat
  BY LengthIsNat
<1>4. IsSeq(q \o r)
  BY <1>2, SeqIsSeq
<1> QED
  BY <1>2, <1>3, <1>4

LEMMA Cut ==
  ASSUME NEW q, IsSeq(q), NEW m \in Nat \ {0}, NEW n \in 0..Len(q), m <= n + 1
  PROVE  /\ IsSeq(SubSeq(q, m, n)) /\ Len(SubSeq(q, m, n)) = n - m + 1
         /\ \A i \in 1..n - m + 1 : SubSeq(q, m, n)[i] = q[m + i - 1]
<1>1. Len(q) \in Nat /\ DOMAIN q = 1..Len(q)
  BY LengthIsNat
<1>2. SubSeq(q, m, n) = [i \in 1..(n - m + 1) |-> q[i + m - 1]]
  BY <1>1
<1>3. n - m + 1 \in Nat
  BY <1>1
<1>4. SubSeq(q, m, n) = [i \in 1..(n - m + 1) |-> SubSeq(q, m, n)[i]]
  BY <1>2
<1>5. \A i \in 1..n - m + 1 : SubSeq(q, m, n)[i] = q[m + i - 1]
  BY <1>1, <1>2, <1>3
<1> QED
  BY <1>3, <1>4, <1>5, FunctionIsSeq

LEMMA Appended ==
  ASSUME NEW q, IsSeq(q), NEW x
  PROVE  /\ IsSeq(Append(q, x)) /\ Len(Append(q, x)) = Len(q) + 1
         /\ \A i \in 1..Len(q) : Append(q, x)[i] = q[i]
         /\ Append(q, x)[Len(q) + 1] = x
<1> DEFINE S == Values(q) \cup {x}
<1>1. q \in Seq(S) /\ x \in S
  BY LenProperties, SeqDef DEF IsSeq
<1> HIDE DEF S
<1>2. Append(q, x) \in Seq(S) /\ Len(q) \in Nat
  BY <1>1, LengthIsNat, AppendProperties
<1>3. IsSeq(Append(q, x))
  BY <1>2, SeqIsSeq
<1> QED
  BY <1>1, <1>2, <1>3, AppendProperties
-----------------------------------------------------------------------------
(* Messages: what their operations do to the bytes.                        *)

LEMMA Fields ==
  /\ DOMAIN NewMessage = {"state", "type", "flags", "serial", "headers", "args", "error",
                          "dirty", "swapped", "buffer", "room", "pos", "headerLength",
                          "bodyLength"}
  /\ DOMAIN NoArguments = {"signature", "length", "content", "fds", "error", "borrowed"}
BY DEF NewMessage, NoArguments

LEMMA NewIsReady == IsReady(NewMessage)
BY Fields DEF IsReady, IsMessage, NewMessage, NoArguments

LEMMA SetExpectsReplyReady ==
  ASSUME NEW m, IsReady(m), NEW expects PROVE IsReady(SetExpectsReply(m, expects))
<1> DEFINE r == SetExpectsReply(m, expects)
<1>1. /\ DOMAIN r = DOMAIN m /\ r.args = m.args /\ r.state = m.state /\ r.dirty = m.dirty
      /\ r.pos = m.pos /\ r.buffer = m.buffer
  BY Fields DEF IsReady, IsMessage, SetExpectsReply
<1> QED
  BY <1>1 DEF IsReady, IsMessage

LEMMA SetTypeReady ==
  ASSUME NEW m, IsReady(m), NEW type PROVE IsReady(SetType(m, type))
<1> DEFINE r == [m EXCEPT !.dirty = TRUE, !.type = type]
<1>1. DOMAIN r = DOMAIN m /\ r.args = m.args /\ r.state = m.state /\ r.dirty = TRUE
  BY Fields DEF IsReady, IsMessage
<1>2. IsReady(r)
  BY <1>1 DEF IsReady, IsMessage
<1> QED
  BY <1>2, SetExpectsReplyReady DEF SetType

LEMMA SetHeaderReady ==
  ASSUME NEW m, IsReady(m), NEW h, NEW v PROVE IsReady(SetHeader(m, h, v))
<1> DEFINE r == [m EXCEPT !.dirty = TRUE, !.headers = WithHeader(@, h, v)]
<1>1. DOMAIN r = DOMAIN m /\ r.args = m.args /\ r.state = m.state /\ r.dirty = TRUE
  BY Fields DEF IsReady, IsMessage
<1>2. IsReady(r)
  BY <1>1 DEF IsReady, IsMessage
<1> QED
  BY <1>2 DEF SetHeader

LEMMA SetArgumentsReady ==
  ASSUME NEW m, IsReady(m), NEW args \in Arguments_ PROVE IsReady(SetArguments(m, args))
<1> DEFINE r == SetArguments(m, args)
<1>1. DOMAIN r = DOMAIN m /\ r.args = args /\ r.state = m.state /\ r.dirty = TRUE
  BY Fields DEF IsReady, IsMessage, SetArguments
<1> QED
  BY <1>1, ArgumentsAssumption DEF IsReady, IsMessage, AreFinished

LEMMA PatchedIsWhole ==
  ASSUME NEW q, IsWhole(q), NEW s PROVE IsWhole(PatchSerial(q, s))
<1> DEFINE r == PatchSerial(q, s)
           patched(image) ==
             [image EXCEPT !.serial = IF image.swapped THEN "garbled" ELSE s]
<1>1. Len(q) \in Nat /\ DOMAIN q = 1..Len(q)
  BY LengthIsNat DEF IsWhole
<1>2. r = [i \in 1..Len(q) |-> r[i]]
  BY <1>1 DEF PatchSerial
<1>3. IsSeq(r) /\ Len(r) = Len(q)
  BY <1>1, <1>2, FunctionIsSeq
<1>4. ASSUME NEW i \in 1..Len(q)
      PROVE  /\ "image" \in DOMAIN r[i] /\ "at" \in DOMAIN r[i] /\ r[i].at = q[i].at
             /\ r[i].image = patched(q[i].image)
  BY <1>1 DEF PatchSerial, IsWhole
<1>5. 1 \in 1..Len(q)
  BY <1>1 DEF IsWhole, FixedLength
<1>6. ASSUME NEW i \in 1..Len(q) PROVE r[i].image = r[1].image /\ r[i].at = i
  <2>1. q[i].image = q[1].image /\ q[i].at = i
    BY DEF IsWhole
  <2> HIDE DEF r, patched
  <2> QED
    BY <1>4, <1>5, <2>1
<1>7. /\ DOMAIN r[1].image = DOMAIN q[1].image
      /\ r[1].image.headerLength = q[1].image.headerLength
      /\ r[1].image.bodyLength = q[1].image.bodyLength
  BY <1>4, <1>5 DEF IsWhole, IsImage
<1> HIDE DEF r
<1>8. IsImage(r[1].image) /\ Total(r[1].image) = Total(q[1].image)
  BY <1>7 DEF IsWhole, IsImage, Total
<1>9. IsWhole(r)
  BY <1>3, <1>4, <1>6, <1>8 DEF IsWhole
<1> QED
  BY <1>9 DEF r

LEMMA SetSerialReady ==
  ASSUME NEW m, IsReady(m), NEW s PROVE IsReady(SetSerial(m, s))
<1>1. CASE m.state = "Serialized" /\ ~m.dirty
  <2> DEFINE r == [m EXCEPT !.serial = s, !.buffer = PatchSerial(@, s)]
  <2>1. /\ DOMAIN r = DOMAIN m /\ r.args = m.args /\ r.state = m.state /\ r.pos = m.pos
        /\ r.buffer = PatchSerial(m.buffer, s)
    BY Fields DEF IsReady, IsMessage
  <2>2. IsWhole(PatchSerial(m.buffer, s))
    BY <1>1, PatchedIsWhole DEF IsReady
  <2> QED
    BY <1>1, <2>1, <2>2 DEF IsReady, IsMessage, SetSerial
<1>2. CASE ~(m.state = "Serialized" /\ ~m.dirty)
  <2> DEFINE r == [m EXCEPT !.serial = s, !.dirty = TRUE]
  <2>1. DOMAIN r = DOMAIN m /\ r.args = m.args /\ r.state = m.state /\ r.dirty = TRUE
    BY Fields DEF IsReady, IsMessage
  <2> QED
    BY <1>2, <2>1 DEF IsReady, IsMessage, SetSerial
<1> QED
  BY <1>1, <1>2

LEMMA RepliesAreReady ==
  ASSUME NEW call, NEW name
  PROVE  IsReady(SetReplyTo(NewMessage, call)) /\ IsReady(SetErrorReplyTo(NewMessage, call, name))
<1>1. \A type : IsReady(SetType(NewMessage, type))
  BY NewIsReady, SetTypeReady
<1> QED
  BY <1>1, SetHeaderReady DEF SetReplyTo, SetErrorReplyTo

-----------------------------------------------------------------------------
(* Serializing and deserializing.                                          *)

LEMMA UnitsAreWhole ==
  ASSUME NEW image, IsImage(image) PROVE IsWhole(Units(image))
<1> DEFINE q == Units(image)
           n == image.headerLength + image.bodyLength
<1>1. n \in Nat /\ n >= FixedLength /\ 1 \in 1..n /\ n = Total(image)
  BY DEF IsImage, FixedLength, Total
<1>2. q = [i \in 1..n |-> [image |-> image, at |-> i]]
  BY DEF Units
<1> HIDE DEF q, n
<1>3. q = [i \in 1..n |-> q[i]]
  BY <1>2
<1>4. IsSeq(q) /\ Len(q) = n
  BY <1>1, <1>3, FunctionIsSeq
<1>5. \A i \in 1..n : q[i] = [image |-> image, at |-> i]
  BY <1>2
<1>6. ASSUME NEW i \in 1..n
      PROVE  /\ "image" \in DOMAIN q[i] /\ "at" \in DOMAIN q[i]
             /\ q[i].image = image /\ q[i].at = i
  <2>1. PICK u : u = [image |-> image, at |-> i]
    OBVIOUS
  <2>2. q[i] = u
    BY <1>5, <2>1
  <2>3. "image" \in DOMAIN u /\ "at" \in DOMAIN u /\ u.image = image /\ u.at = i
    BY <2>1
  <2> QED
    BY <2>2, <2>3
<1>7. q[1].image = image
  BY <1>1, <1>6
<1>8. IsWhole(q)
  BY <1>1, <1>4, <1>6, <1>7 DEF IsWhole
<1> QED
  BY <1>8 DEF q

LEMMA ClearBufferDoes ==
  ASSUME NEW m, IsMessage(m)
  PROVE  /\ IsMessage(ClearBuffer(m)) /\ ClearBuffer(m).pos = 0
         /\ ClearBuffer(m).state = m.state /\ ClearBuffer(m).dirty = m.dirty
<1> DEFINE args == IF m.args.borrowed THEN [m.args EXCEPT !.content = "freed"] ELSE m.args
           r == [m EXCEPT !.buffer = <<>>, !.room = 0, !.pos = 0, !.args = args]
<1>1. DOMAIN args = DOMAIN m.args /\ args.length = m.args.length
  BY Fields DEF IsMessage
<1> HIDE DEF args
<1>2. DOMAIN r = DOMAIN m /\ r.args = args /\ r.state = m.state /\ r.dirty = m.dirty /\ r.pos = 0
  BY Fields DEF IsMessage
<1>3. r = ClearBuffer(m)
  BY DEF ClearBuffer, args
<1> HIDE DEF r
<1>4. IsMessage(r)
  BY <1>1, <1>2 DEF IsMessage
<1> QED
  BY <1>2, <1>3, <1>4

LEMMA ClearDoes ==
  ASSUME NEW m, IsMessage(m), NEW error
  PROVE  /\ IsMessage(Clear(m)) /\ Clear(m).state = "Empty" /\ Clear(m).dirty = m.dirty
         /\ IsMessage(FailedRead(m, error)) /\ FailedRead(m, error).state = "Empty"
         /\ FailedRead(m, error).dirty = m.dirty
<1>1. PICK c : c = ClearBuffer(m)
  OBVIOUS
<1>2. IsMessage(c) /\ c.dirty = m.dirty
  BY <1>1, ClearBufferDoes
<1> DEFINE r == [c EXCEPT !.state = "Empty", !.args = NoArguments, !.headers = <<>>]
<1>3. DOMAIN r = DOMAIN c /\ r.args = NoArguments /\ r.state = "Empty" /\ r.dirty = m.dirty
  BY <1>2, Fields DEF IsMessage
<1>4. NoArguments.length \in Nat
  BY DEF NoArguments
<1>5. Clear(m) = r
  BY <1>1 DEF Clear
<1> HIDE DEF r
<1>6. IsMessage(r)
  BY <1>2, <1>3, <1>4 DEF IsMessage
<1> DEFINE f == [r EXCEPT !.error = error]
<1>7. DOMAIN f = DOMAIN r /\ f.args = r.args /\ f.state = r.state /\ f.dirty = r.dirty
  BY <1>6, Fields DEF IsMessage
<1>8. FailedRead(m, error) = f
  BY <1>5 DEF FailedRead
<1> HIDE DEF f
<1>9. IsMessage(f)
  BY <1>6, <1>7 DEF IsMessage
<1> QED
  BY <1>3, <1>5, <1>6, <1>7, <1>8, <1>9

\* Bytes that are made anew are those of one message; what is refused stays dirty.
LEMMA SerializedAnewDoes ==
  ASSUME NEW c, IsMessage(c), c.pos = 0, c.state \in {"Empty", "Serialized"},
         c.state = "Serialized" => c.dirty
  PROVE  LET s == SerializedAnew(c)
         IN  IsReady(s.m) /\ (s.ok => s.m.state = "Serialized" /\ ~s.m.dirty)
<1> DEFINE image == Image(c)
           made == [c EXCEPT !.headerLength = FixedLength + VariableLength,
                             !.bodyLength = c.args.length,
                             !.buffer = Units(image),
                             !.room = FixedLength + VariableLength + c.args.length,
                             !.dirty = FALSE, !.state = "Serialized"]
           refused(error) == [c EXCEPT !.error = error]
<1>1. \/ SerializedAnew(c) = [ok |-> TRUE, m |-> made]
      \/ \E error : SerializedAnew(c) = [ok |-> FALSE, m |-> refused(error)]
  BY DEF SerializedAnew, Refused
<1>2. ASSUME NEW error PROVE IsReady(refused(error))
  <2> DEFINE r == refused(error)
  <2>1. DOMAIN r = DOMAIN c /\ r.args = c.args /\ r.state = c.state /\ r.dirty = c.dirty
    BY Fields DEF IsMessage
  <2> HIDE DEF r
  <2>2. IsReady(r)
    BY <2>1 DEF IsReady, IsMessage
  <2> QED
    BY <2>2 DEF r
<1>3. IsReady(made) /\ made.state = "Serialized" /\ made.dirty = FALSE
  <2>1. IsImage(image)
    BY DEF Image, IsImage, IsMessage, FixedLength, VariableLength
  <2>2. IsWhole(Units(image))
    BY <2>1, UnitsAreWhole
  <2> HIDE DEF image
  <2>3. /\ DOMAIN made = DOMAIN c /\ made.args = c.args /\ made.state = "Serialized"
        /\ made.dirty = FALSE /\ made.pos = c.pos /\ made.buffer = Units(image)
    BY Fields DEF IsMessage
  <2> HIDE DEF made
  <2> QED
    BY <2>2, <2>3 DEF IsReady, IsMessage
<1> HIDE DEF made, refused
<1> QED
  BY <1>1, <1>2, <1>3

LEMMA SerializeDoes ==
  ASSUME NEW m, IsReady(m)
  PROVE  LET s == Serialize(m)
         IN  IsReady(s.m) /\ (s.ok => s.m.state = "Serialized" /\ ~s.m.dirty)
<1>1. CASE IsInSync(m)
  BY <1>1 DEF Serialize, IsInSync, IsReady
<1>2. CASE ~IsInSync(m)
  <2>1. PICK c : c = ClearBuffer(m)
    OBVIOUS
  <2>2. /\ IsMessage(c) /\ c.pos = 0 /\ c.state \in {"Empty", "Serialized"}
        /\ c.state = "Serialized" => c.dirty
    BY <1>2, <2>1, ClearBufferDoes DEF IsReady, IsInSync
  <2>3. Serialize(m) = SerializedAnew(c)
    BY <1>2, <2>1 DEF Serialize, IsReady
  <2> QED
    BY <2>2, <2>3, SerializedAnewDoes
<1> QED
  BY <1>1, <1>2

LEMMA WithFixedHeadersDoes ==
  ASSUME NEW m, IsMessage(m)
  PROVE  LET r == WithFixedHeaders(m)
         IN  /\ IsMessage(r) /\ r.state = m.state /\ r.dirty = m.dirty
             /\ r.buffer = m.buffer /\ r.pos = m.pos /\ r.room = m.room
             /\ \/ /\ r.headerLength = FirstImage(m).headerLength
                   /\ r.bodyLength = FirstImage(m).bodyLength
                \/ FirstImage(m).flaw = "endianness" /\ r = m
<1>1. CASE FirstImage(m).flaw = "endianness"
  BY <1>1 DEF WithFixedHeaders
<1>2. CASE FirstImage(m).flaw # "endianness"
  <2>1. PICK image : image = FirstImage(m)
    OBVIOUS
  <2> DEFINE r == [m EXCEPT !.swapped = image.swapped, !.type = image.type,
                            !.flags = image.flags, !.serial = image.serial,
                            !.headerLength = image.headerLength,
                            !.bodyLength = image.bodyLength]
  <2>2. /\ DOMAIN r = DOMAIN m /\ r.args = m.args /\ r.state = m.state /\ r.dirty = m.dirty
        /\ r.buffer = m.buffer /\ r.pos = m.pos /\ r.room = m.room
        /\ r.headerLength = image.headerLength /\ r.bodyLength = image.bodyLength
    BY Fields DEF IsMessage
  <2>3. WithFixedHeaders(m) = r
    BY <1>2, <2>1 DEF WithFixedHeaders
  <2> HIDE DEF r
  <2> QED
    BY <2>1, <2>2, <2>3 DEF IsMessage
<1> QED
  BY <1>1, <1>2

LEMMA WithVariableHeadersDoes ==
  ASSUME NEW m, IsMessage(m)
  PROVE  LET r == WithVariableHeaders(m)
         IN  /\ IsMessage(r) /\ r.state = m.state /\ r.dirty = m.dirty
             /\ r.buffer = m.buffer /\ r.pos = m.pos /\ r.room = m.room
             /\ r.headerLength = m.headerLength /\ r.bodyLength = m.bodyLength
BY Fields DEF IsMessage, WithVariableHeaders

LEMMA WithBodyDoes ==
  ASSUME NEW m, IsMessage(m), m.dirty = TRUE, m.bodyLength \in Nat, NEW fds
  PROVE  IsReady(WithBody(m, fds)) /\ WithBody(m, fds).dirty
<1> DEFINE args == [signature |-> IF HasHeader(m, "Signature")
                                  THEN m.headers["Signature"] ELSE "",
                    length |-> m.bodyLength,
                    content |-> IF m.bodyLength = 0 THEN "none"
                                ELSE m.buffer[m.headerLength + 1].image.content,
                    fds |-> fds, error |-> NoError, borrowed |-> TRUE]
           r == [m EXCEPT !.state = "Serialized", !.args = args]
<1>1. DOMAIN args = DOMAIN NoArguments /\ args.length = m.bodyLength
  BY Fields
<1> HIDE DEF args
<1>2. DOMAIN r = DOMAIN m /\ r.args = args /\ r.state = "Serialized" /\ r.dirty = TRUE
  BY Fields DEF IsMessage
<1>3. WithBody(m, fds) = r
  BY DEF WithBody, args
<1> HIDE DEF r
<1> QED
  BY <1>1, <1>2, <1>3 DEF IsReady, IsMessage

\* What is loaded is either complete or cleared.
LEMMA LoadedFrom ==
  ASSUME NEW image, IsImage(image)
  PROVE  \E m : /\ IsMessage(m) /\ m.dirty = TRUE
                /\ \/ m.bodyLength \in Nat /\ Load(NewMessage, Units(image)) = WithBody(m, <<>>)
                   \/ Load(NewMessage, Units(image)) = Clear(m)
<1>1. PICK units : units = Units(image)
  OBVIOUS
<1>2. IsWhole(units) /\ units[1].image = image
  <2>1. units[1] = [image |-> image, at |-> 1]
    BY <1>1 DEF Units, IsImage, FixedLength
  <2> QED
    BY <1>1, <2>1, UnitsAreWhole
<1>3. PICK c : c = ClearBuffer(NewMessage)
  OBVIOUS
<1>4. IsMessage(NewMessage) /\ NewMessage.dirty = TRUE /\ NewMessage.state = "Empty"
  BY NewIsReady DEF IsReady, NewMessage
<1>5. IsMessage(c) /\ c.dirty = TRUE
  BY <1>3, <1>4, ClearBufferDoes
<1>6. PICK taken : taken = [c EXCEPT !.buffer = units, !.room = Len(units),
                                     !.pos = Len(units), !.headerLength = 0,
                                     !.bodyLength = 0]
  OBVIOUS
<1>7. /\ DOMAIN taken = DOMAIN c /\ taken.args = c.args /\ taken.dirty = TRUE
      /\ taken.buffer = units /\ taken.bodyLength = 0
  BY <1>5, <1>6, Fields DEF IsMessage
<1>8. IsMessage(taken) /\ FirstImage(taken) = image
  BY <1>2, <1>5, <1>7 DEF IsMessage, FirstImage
<1>9. PICK fixed : fixed = IF Len(units) < FixedLength THEN taken ELSE WithFixedHeaders(taken)
  OBVIOUS
<1>10. IsMessage(fixed) /\ fixed.dirty = TRUE /\ fixed.bodyLength \in Nat
  BY <1>2, <1>7, <1>8, <1>9, WithFixedHeadersDoes DEF IsImage
<1>11. PICK full : full = WithVariableHeaders(fixed)
  OBVIOUS
<1>12. IsMessage(full) /\ full.dirty = TRUE /\ full.bodyLength \in Nat
  BY <1>10, <1>11, WithVariableHeadersDoes
<1> DEFINE failed == [fixed EXCEPT !.error = IF @ = NoError THEN "MalformedReply" ELSE @]
<1>13. IsMessage(failed) /\ failed.dirty = TRUE
  <2>1. /\ DOMAIN failed = DOMAIN fixed /\ failed.args = fixed.args /\ failed.dirty = TRUE
    BY <1>10, Fields DEF IsMessage
  <2> HIDE DEF failed
  <2> QED
    BY <1>10, <2>1 DEF IsMessage
<1>14. Load(NewMessage, units) \in {WithBody(full, <<>>), Clear(failed)}
  BY <1>3, <1>4, <1>6, <1>9, <1>11 DEF Load
<1> HIDE DEF failed
<1> QED
  BY <1>1, <1>12, <1>13, <1>14

LEMMA LoadedIsReady ==
  ASSUME NEW image, IsImage(image) PROVE IsReady(Load(NewMessage, Units(image)))
<1>1. PICK x : x = Load(NewMessage, Units(image))
  OBVIOUS
<1>2. PICK m : /\ IsMessage(m) /\ m.dirty = TRUE
               /\ \/ m.bodyLength \in Nat /\ x = WithBody(m, <<>>)
                  \/ x = Clear(m)
  BY <1>1, LoadedFrom
<1>3. IsReady(Clear(m))
  BY <1>2, ClearDoes DEF IsReady
<1>4. m.bodyLength \in Nat => IsReady(WithBody(m, <<>>))
  BY <1>2, WithBodyDoes
<1> QED
  BY <1>1, <1>2, <1>3, <1>4

-----------------------------------------------------------------------------
(* The initial states, and the steps that only prepare a message.          *)

LEMMA Ends == ASSUME NEW e \in End PROVE Peer(e) \in End /\ Peer(Peer(e)) = e /\ Peer(e) # e
BY DEF End, Peer

LEMMA ReceivingIsArriving == IsArriving(Receiving) /\ Receiving.pos = 0
<1> DEFINE r == [NewMessage EXCEPT !.state = "Receiving"]
<1>1. /\ DOMAIN r = DOMAIN NewMessage /\ r.args = NoArguments /\ r.state = "Receiving"
      /\ r.dirty = TRUE /\ r.buffer = <<>> /\ r.pos = 0 /\ r.room = 0 /\ r.headerLength = 0
  BY Fields DEF NewMessage
<1>2. Receiving = r
  BY DEF Receiving
<1> HIDE DEF r
<1>3. /\ DOMAIN r.args = DOMAIN NoArguments /\ r.args.length \in Nat
  <2>1. NoArguments.length \in Nat
    BY DEF NoArguments
  <2> QED
    BY <1>1, <2>1
<1>4. IsSeq(r.buffer) /\ Len(r.buffer) = 0
  BY <1>1, EmptySeq DEF IsSeq
<1> QED
  BY <1>1, <1>2, <1>3, <1>4 DEF IsArriving, IsMessage, FixedLength

LEMMA InitInv == Init => Inv
<1> SUFFICES ASSUME Init PROVE Inv
  OBVIOUS
<1>1. PICK kind \in Kinds : transport = [e \in End |-> SetReadListener(NewTransport(kind), "in")]
  BY DEF Init
<1>2. /\ out = [e \in End |-> NoMessage] /\ in = [e \in End |-> Receiving]
      /\ stream = [e \in End |-> <<>>] /\ delivered = [e \in End |-> <<>>]
  BY DEF Init
<1>3. PICK t : t = SetReadListener(NewTransport(kind), "in")
  OBVIOUS
<1>4. /\ DOMAIN t = {"kind", "open", "read", "write", "fdsPerMessage"}
      /\ t.open = TRUE /\ t.write = None
  BY <1>3 DEF SetReadListener, NewTransport
<1>5. NoMessage.state = "none"
  BY DEF NoMessage
<1>6. IsSeq(<<>>) /\ Len(<<>>) = 0
  BY EmptySeq DEF IsSeq
<1>7. \A e \in End : /\ transport[e] = t /\ out[e] = NoMessage /\ in[e] = Receiving
                     /\ stream[e] = <<>> /\ delivered[e] = <<>>
  BY <1>1, <1>2, <1>3
<1>8. Tables
  BY <1>1, <1>2 DEF Tables
<1>9. WatchInv
  <2>1. \A e \in End : TransportOK(e)
    BY <1>4, <1>7 DEF TransportOK
  <2>2. \A e \in End : OutOK(e)
    BY <1>5, <1>7 DEF OutOK
  <2>3. \A e \in End : DeliveredOK(e)
    BY <1>6, <1>7 DEF DeliveredOK
  <2>4. SendingIsWatched
    BY <1>4, <1>5, <1>7 DEF SendingIsWatched
  <2> QED
    BY <2>1, <2>2, <2>3, <2>4 DEF WatchInv
<1>10. ASSUME NEW e \in End PROVE LineInv(e)
  <2>1. StreamOK(e)
    BY <1>6, <1>7, CapacityAssumption DEF StreamOK
  <2>2. LineOK(e)
    BY <1>6, <1>7 DEF LineOK
  <2>3. TailOK(e)
    BY <1>5, <1>7, Ends, ReceivingIsArriving DEF TailOK, Boundary
  <2> QED
    BY <1>7, <2>1, <2>2, <2>3, ReceivingIsArriving DEF LineInv
<1> QED
  BY <1>8, <1>9, <1>10 DEF Inv

\* What is received only depends on these.
LEMMA LineKept ==
  ASSUME NEW e \in End, IsArriving(in[e]), StreamOK(e), LineOK(e),
         in'[e] = in[e], stream'[e] = stream[e], transport'[e].open => transport[e].open
  PROVE  IsArriving(in[e])' /\ StreamOK(e)' /\ LineOK(e)'
BY DEF StreamOK, LineOK

LEMMA BoundaryContinues ==
  ASSUME NEW l \in End, StreamOK(l), Boundary(l), NEW v, v.at = 1 PROVE Continues(l, v)
BY LengthIsNat DEF Boundary, Continues, Resumes, Follows, StreamOK, IsUnit

LEMMA ContinuesBoundary ==
  ASSUME NEW l \in End, IsArriving(in[l]), StreamOK(l), NEW v, v.at = 1, Continues(l, v)
  PROVE  Boundary(l)
<1>1. CASE stream[l] = <<>>
  <2>1. in[l].pos \in Nat
    BY LengthIsNat DEF IsArriving
  <2> QED
    BY <1>1, <2>1 DEF Boundary, Continues, Resumes
<1>2. CASE stream[l] # <<>>
  <2>1. PICK u : u = stream[l][Len(stream[l])].unit
    OBVIOUS
  <2>2. IsUnit(u) /\ Follows(u, v)
    BY <1>2, <2>1, LengthIsNat DEF StreamOK, Continues
  <2>3. u.at = Total(u.image)
    BY <2>2 DEF IsUnit, Follows, IsImage, Total
  <2> QED
    BY <1>2, <2>1, <2>3 DEF Boundary
<1> QED
  BY <1>1, <1>2

LEMMA TailKept ==
  ASSUME NEW l \in End, TailOK(l), in'[l] = in[l], stream'[l] = stream[l],
         transport'[l].open => transport[l].open,
         transport'[Peer(l)].open => transport[Peer(l)].open,
         out'[Peer(l)] = out[Peer(l)]
  PROVE  TailOK(l)'
<1>1. Boundary(l)' <=> Boundary(l)
  BY DEF Boundary
<1>2. \A v : Continues(l, v)' <=> Continues(l, v)
  BY DEF Continues
<1>3. PICK p : p = Peer(l)
  OBVIOUS
<1> SUFFICES ASSUME transport'[l].open, transport'[p].open
             PROVE  IF out[p].state = "Sending" /\ out[p].pos < Len(out[p].buffer)
                    THEN Continues(l, out[p].buffer[out[p].pos + 1])'
                    ELSE Boundary(l)'
  BY <1>3 DEF TailOK
<1> QED
  BY <1>1, <1>2, <1>3 DEF TailOK

\* The message an end sends and its transport change, and what is on the line to the other
\* end may.
LEMMA SenderInv ==
  ASSUME Inv, NEW e \in End, NEW m, NEW t,
         out' = [out EXCEPT ![e] = m], transport' = [transport EXCEPT ![e] = t],
         UNCHANGED <<in, delivered>>, stream' = [l \in End |-> stream'[l]], stream'[e] = stream[e],
         m.state = "none" \/ IsReady(m) \/ IsOnItsWay(m),
         DOMAIN t = DOMAIN transport[e], t.open \in BOOLEAN, t.open => transport[e].open,
         t.write # None <=> m.state = "Sending",
         StreamOK(Peer(e))', LineOK(Peer(e))',
         t.open /\ transport[Peer(e)].open =>
             IF m.state = "Sending" /\ m.pos < Len(m.buffer)
             THEN Continues(Peer(e), m.buffer[m.pos + 1])' ELSE Boundary(Peer(e))'
  PROVE  Inv'
<1>1. /\ DOMAIN out' = End /\ out'[e] = m /\ \A l \in End : l # e => out'[l] = out[l]
      /\ DOMAIN transport' = End /\ transport'[e] = t
      /\ \A l \in End : l # e => transport'[l] = transport[l]
  BY DEF Inv, Tables
<1>2. Tables'
  BY <1>1 DEF Inv, Tables
<1>3. WatchInv'
  <2>1. \A l \in End : TransportOK(l)'
    BY <1>1 DEF Inv, WatchInv, TransportOK
  <2>2. \A l \in End : OutOK(l)'
    BY <1>1 DEF Inv, WatchInv, OutOK
  <2>3. \A l \in End : DeliveredOK(l)'
    BY DEF Inv, WatchInv, DeliveredOK
  <2>4. SendingIsWatched'
    BY <1>1 DEF Inv, WatchInv, SendingIsWatched
  <2> QED
    BY <2>1, <2>2, <2>3, <2>4 DEF WatchInv
<1>4. \A l \in End : LineInv(l)
  BY DEF Inv
<1>5. LineInv(e)'
  <2>1. IsArriving(in[e])' /\ StreamOK(e)' /\ LineOK(e)'
    BY <1>1, <1>4, LineKept DEF LineInv
  <2>2. TailOK(e)'
    BY <1>1, <1>4, Ends, TailKept DEF LineInv
  <2> QED
    BY <2>1, <2>2 DEF LineInv
<1>6. LineInv(Peer(e))'
  <2>1. IsArriving(in[Peer(e)])'
    BY <1>4, Ends DEF LineInv
  <2>2. PICK p : p = Peer(e)
    OBVIOUS
  <2>3. /\ p \in End /\ Peer(p) = e /\ transport'[p] = transport[p]
        /\ transport'[e] = t /\ out'[e] = m
    BY <1>1, <2>2, Ends
  <2>4. TailOK(p)'
    BY <2>2, <2>3 DEF TailOK, Continues
  <2> QED
    BY <2>1, <2>2, <2>4 DEF LineInv
<1>7. \A l \in End : l = e \/ l = Peer(e)
  BY DEF End, Peer
<1> QED
  BY <1>2, <1>3, <1>5, <1>6, <1>7 DEF Inv

LEMMA OutInv ==
  ASSUME Inv, NEW e \in End, NEW m, NEW t,
         out' = [out EXCEPT ![e] = m], transport' = [transport EXCEPT ![e] = t],
         UNCHANGED <<in, stream, delivered>>,
         m.state = "none" \/ IsReady(m) \/ IsOnItsWay(m),
         DOMAIN t = DOMAIN transport[e], t.open \in BOOLEAN, t.open => transport[e].open,
         t.write # None <=> m.state = "Sending",
         t.open /\ transport[Peer(e)].open =>
             /\ Boundary(Peer(e))
             /\ m.state = "Sending" /\ m.pos < Len(m.buffer) => m.buffer[m.pos + 1].at = 1
  PROVE  Inv'
<1>1. PICK p : p = Peer(e)
  OBVIOUS
<1>2. /\ p \in End /\ p # e /\ in'[p] = in[p] /\ stream'[p] = stream[p]
      /\ transport'[p] = transport[p]
  BY <1>1, Ends DEF Inv, Tables
<1>3. LineInv(p)
  BY <1>2 DEF Inv
<1>4. StreamOK(p)' /\ LineOK(p)'
  BY <1>2, <1>3, LineKept DEF LineInv
<1>5. Boundary(p)' <=> Boundary(p)
  BY <1>2 DEF Boundary
<1>6. \A v : Continues(p, v)' <=> Continues(p, v)
  BY <1>2 DEF Continues
<1>7. stream' = [l \in End |-> stream'[l]] /\ stream'[e] = stream[e]
  BY DEF Inv, Tables
<1>8. t.open /\ transport[p].open =>
         IF m.state = "Sending" /\ m.pos < Len(m.buffer)
         THEN Continues(p, m.buffer[m.pos + 1])' ELSE Boundary(p)'
  BY <1>1, <1>2, <1>3, <1>5, <1>6, BoundaryContinues DEF LineInv
<1> QED
  BY <1>1, <1>4, <1>7, <1>8, SenderInv

\* A message that is not being sent is replaced by another that is not, or by none.
LEMMA PreparedInv ==
  ASSUME Inv, NEW e \in End, out[e].state # "Sending",
         NEW m, m.state = "none" \/ IsReady(m), out' = [out EXCEPT ![e] = m],
         UNCHANGED <<transport, in, stream, delivered>>
  PROVE  Inv'
<1>1. m.state # "Sending"
  BY DEF IsReady
<1>2. PICK t : t = transport[e]
  OBVIOUS
<1>3. /\ transport' = [transport EXCEPT ![e] = t]
      /\ t.open \in BOOLEAN /\ ~(t.write # None)
  BY <1>2 DEF Inv, Tables, WatchInv, TransportOK, SendingIsWatched
<1>4. t.open /\ transport[Peer(e)].open => Boundary(Peer(e))
  <2>1. Peer(e) \in End /\ Peer(Peer(e)) = e
    BY Ends
  <2>2. TailOK(Peer(e))
    BY <2>1 DEF Inv, LineInv
  <2> QED
    BY <1>2, <2>1, <2>2 DEF TailOK
<1> QED
  BY <1>1, <1>2, <1>3, <1>4, OutInv

LEMMA PreparingInv ==
  ASSUME Inv, NEW e \in End,
         \/ Compose(e) \/ ComposeReply(e) \/ Forward(e) \/ LoadMessage(e) \/ Save(e)
         \/ EditSerial(e) \/ EditHeader(e) \/ EditArguments(e)
  PROVE  Inv'
<1>1. ASSUME NEW m, NEW changes, Begin(e, m, changes), IsReady(m) PROVE Inv'
  BY <1>1, PreparedInv DEF Begin
<1>2. ASSUME NEW m, Edit(e, m), IsReady(m) PROVE Inv'
  BY <1>2, PreparedInv DEF Edit, IsPrepared
<1>3. IsPrepared(e) => IsReady(out[e])
  BY DEF Inv, WatchInv, OutOK, IsPrepared, IsOnItsWay
<1>4. delivered[e] # <<>> => IsReady(LastReceived(e))
  BY LengthIsNat DEF Inv, WatchInv, DeliveredOK, LastReceived
<1>5. CASE Compose(e)
  <2>1. PICK m \in Template[e] : Begin(e, m, MaxEdits)
    BY <1>5 DEF Compose
  <2>2. IsReady(m)
    BY TemplateAssumption DEF IsReady, IsMessage, AreFinished, End
  <2> QED
    BY <1>1, <2>1, <2>2
<1>6. CASE ComposeReply(e)
  BY <1>1, <1>6, RepliesAreReady DEF ComposeReply
<1>7. CASE Forward(e)
  BY <1>1, <1>4, <1>7 DEF Forward
<1>8. CASE LoadMessage(e)
  <2>1. PICK image \in Saved[e] : Begin(e, Load(NewMessage, Units(image)), MaxEdits)
    BY <1>8 DEF LoadMessage
  <2>2. IsImage(image)
    BY ImageAssumption DEF IsImage, End
  <2> QED
    BY <1>1, <2>1, <2>2, LoadedIsReady
<1>9. CASE Save(e)
  BY <1>2, <1>3, <1>9, SerializeDoes DEF Save
<1>10. CASE EditSerial(e)
  BY <1>2, <1>3, <1>10, SetSerialReady DEF EditSerial
<1>11. CASE EditHeader(e)
  BY <1>2, <1>3, <1>11, SetHeaderReady DEF EditHeader
<1>12. CASE EditArguments(e)
  BY <1>2, <1>3, <1>12, SetArgumentsReady DEF EditArguments
<1> QED
  BY <1>5, <1>6, <1>7, <1>8, <1>9, <1>10, <1>11, <1>12

-----------------------------------------------------------------------------
(* The steps that send, and those that close.                              *)

\* Nothing can be said of a line one end of which is closed.
LEMMA ClosedInv ==
  ASSUME Inv, NEW e \in End, NEW t, t = transport[e] \/ t = CloseTransport(transport[e]),
         transport' = [transport EXCEPT ![e] = Closed(t)],
         out' = [out EXCEPT ![e] = NoMessage], UNCHANGED <<in, stream, delivered>>
  PROVE  Inv'
<1>1. DOMAIN t = DOMAIN transport[e]
  BY DEF CloseTransport
<1>2. PICK c : c = Closed(t)
  OBVIOUS
<1>3. DOMAIN c = DOMAIN transport[e] /\ c.open = FALSE /\ c.write = None
  BY <1>1, <1>2 DEF Inv, WatchInv, TransportOK, Closed, CloseTransport, SetWriteListener
<1>4. PICK m : m = NoMessage
  OBVIOUS
<1>5. m.state = "none"
  BY <1>4 DEF NoMessage
<1> QED
  BY <1>2, <1>3, <1>4, <1>5, OutInv

LEMMA CloseInv == ASSUME Inv, NEW e \in End, Close(e) PROVE Inv'
<1>1. PICK t : t = transport[e]
  OBVIOUS
<1>2. transport' = [transport EXCEPT ![e] = Closed(t)]
  BY <1>1 DEF Close
<1> QED
  BY <1>1, <1>2, ClosedInv DEF Close

LEMMA SendInv ==
  ASSUME Inv, NEW e \in End, Send(e) PROVE Inv'
<1>1. PICK s : s = Serialize(Numbered(e))
  OBVIOUS
<1>2. /\ IsPrepared(e) /\ UNCHANGED <<in, stream, delivered>>
      /\ s.ok => /\ out' = [out EXCEPT ![e] = [s.m EXCEPT !.state = "Sending"]]
                 /\ transport' = [transport EXCEPT ![e] = SetWriteListener(@, "out")]
      /\ ~s.ok => out' = [out EXCEPT ![e] = NoMessage] /\ transport' = transport
  BY <1>1 DEF Send
<1>3. out[e].state # "Sending" /\ IsReady(out[e])
  BY <1>2 DEF IsPrepared, Inv, WatchInv, OutOK, IsOnItsWay
<1>4. CASE ~s.ok
  <2>1. PICK m : m = NoMessage
    OBVIOUS
  <2>2. m.state = "none"
    BY <2>1 DEF NoMessage
  <2> QED
    BY <1>2, <1>3, <1>4, <2>1, <2>2, PreparedInv
<1>5. CASE s.ok
  <2>1. IsReady(s.m) /\ s.m.state = "Serialized" /\ ~s.m.dirty
    BY <1>1, <1>3, <1>5, SetSerialReady, SerializeDoes DEF Numbered
  <2>2. PICK m : m = [s.m EXCEPT !.state = "Sending"]
    OBVIOUS
  <2>3. /\ DOMAIN m = DOMAIN s.m /\ m.args = s.m.args /\ m.state = "Sending"
        /\ m.pos = s.m.pos /\ m.buffer = s.m.buffer
    BY <2>1, <2>2, Fields DEF IsReady, IsMessage
  <2>4. IsOnItsWay(m) /\ m.buffer[m.pos + 1].at = 1
    <3>1. /\ IsOnItsWay(m) /\ m.pos = 0 /\ 0 + 1 = 1 /\ m.buffer[1].at = 1
      BY <2>1, <2>3, LengthIsNat DEF IsReady, IsMessage, IsOnItsWay, IsWhole, FixedLength
    <3> QED
      BY <3>1
  <2>5. PICK t : t = SetWriteListener(transport[e], "out")
    OBVIOUS
  <2>6. /\ DOMAIN t = DOMAIN transport[e] /\ t.open = transport[e].open
        /\ t.open \in BOOLEAN /\ t.write # None
    BY <2>5 DEF Inv, WatchInv, TransportOK, SetWriteListener, None
  <2>7. transport[e].open /\ transport[Peer(e)].open => Boundary(Peer(e))
    <3>1. Peer(e) \in End /\ Peer(Peer(e)) = e
      BY Ends
    <3>2. TailOK(Peer(e))
      BY <3>1 DEF Inv, LineInv
    <3> QED
      BY <1>3, <3>1, <3>2 DEF TailOK
  <2>8. out' = [out EXCEPT ![e] = m] /\ transport' = [transport EXCEPT ![e] = t]
    BY <1>2, <1>5, <2>2, <2>5
  <2> QED
    BY <1>2, <2>3, <2>4, <2>6, <2>7, <2>8, OutInv
<1> QED
  BY <1>4, <1>5

-----------------------------------------------------------------------------
(* The steps that add to a stream.                                         *)

LEMMA WholeIsOfUnits ==
  ASSUME NEW q, IsWhole(q), NEW i \in 1..Len(q) PROVE IsUnit(q[i])
BY DEF IsWhole, IsUnit

\* The next n units of a message are put on a line that ends where they go on.
LEMMA ExtendedLine ==
  ASSUME NEW l \in End, IsArriving(in[l]), StreamOK(l), LineOK(l),
         NEW q, IsWhole(q), NEW k \in 0..Len(q), NEW a, IsSeq(a), k + Len(a) <= Len(q),
         \A i \in 1..Len(a) : a[i].unit = q[k + i],
         stream'[l] = stream[l] \o a, Len(stream[l]) + Len(a) <= Capacity,
         in'[l] = in[l], transport'[l].open => transport[l].open,
         transport[l].open => Len(a) = 0 \/ Continues(l, q[k + 1])
  PROVE  /\ StreamOK(l)' /\ LineOK(l)'
         /\ transport[l].open /\ Len(a) > 0 =>
               IF k + Len(a) < Len(q) THEN Continues(l, q[k + Len(a) + 1])' ELSE Boundary(l)'
<1> DEFINE s == stream[l]
           z == stream'[l]
<1>1. /\ Len(s) \in Nat /\ Len(a) \in Nat /\ Len(q) \in Nat /\ (s = <<>> <=> Len(s) = 0)
      /\ IsSeq(s) /\ Len(s) <= Capacity /\ \A i \in 1..Len(s) : IsUnit(s[i].unit)
  BY LengthIsNat DEF StreamOK, IsWhole
<1>2. /\ IsSeq(z) /\ Len(z) = Len(s) + Len(a)
      /\ \A i \in 1..Len(s) : z[i] = s[i]
      /\ \A i \in 1..Len(a) : z[Len(s) + i] = a[i]
  BY <1>1, Joined
<1>3. z = <<>> <=> Len(z) = 0
  BY <1>2, LengthIsNat
<1> HIDE DEF s, z
<1>4. /\ Len(s) \in Nat /\ Len(a) \in Nat /\ Len(q) \in Nat /\ Len(z) = Len(s) + Len(a)
      /\ k \in Nat /\ k + Len(a) <= Len(q)
  BY <1>1, <1>2
<1>5. ASSUME NEW i \in Len(s) + 1..Len(z), NEW j \in Nat, j + Len(s) = k + i
      PROVE  z[i].unit = q[j]
  <2>1. PICK d : d = i - Len(s)
    OBVIOUS
  <2>2. d \in 1..Len(a) /\ Len(s) + d = i /\ k + d = j
    BY <1>4, <1>5, <2>1
  <2>3. z[Len(s) + d] = a[d] /\ a[d].unit = q[k + d]
    BY <1>2, <2>2
  <2> QED
    BY <2>2, <2>3
<1>6. StreamOK(l)'
  <2>1. ASSUME NEW i \in 1..Len(z) PROVE IsUnit(z[i].unit)
    <3>1. CASE i <= Len(s)
      <4>1. i \in 1..Len(s) /\ z[i] = s[i]
        BY <1>1, <1>2, <3>1
      <4>2. IsUnit(s[i].unit)
        BY <1>1, <4>1
      <4> QED
        BY <4>1, <4>2
    <3>2. CASE i > Len(s)
      <4>1. PICK j : j = k + (i - Len(s))
        OBVIOUS
      <4>2. j \in 1..Len(q) /\ i \in Len(s) + 1..Len(z) /\ j + Len(s) = k + i
        BY <1>4, <3>2, <4>1
      <4>3. z[i].unit = q[j]
        BY <1>5, <4>1, <4>2
      <4>4. IsUnit(q[j])
        BY <4>2, WholeIsOfUnits
      <4> QED
        BY <4>3, <4>4
    <3> QED
      BY <1>1, <3>1, <3>2
  <2> QED
    BY <1>2, <2>1 DEF StreamOK, s, z
<1>7. \A j \in 1..Len(q) - 1 : Follows(q[j], q[j + 1])
  <2> TAKE j \in 1..Len(q) - 1
  <2>1. /\ q[j].image = q[1].image /\ q[j].at = j /\ Total(q[1].image) = Len(q)
        /\ q[j + 1].image = q[1].image /\ q[j + 1].at = j + 1
    BY <1>1 DEF IsWhole
  <2> QED
    BY <1>1, <2>1 DEF Follows
<1>8. LineOK(l)'
  <2> SUFFICES ASSUME transport[l].open
               PROVE  /\ z # <<>> => Resumes(in[l], z[1].unit)
                      /\ \A i \in 1..Len(z) - 1 : Follows(z[i].unit, z[i + 1].unit)
    BY DEF LineOK, s, z
  <2>1. z # <<>> => Resumes(in[l], z[1].unit)
    <3>1. CASE Len(s) > 0
      BY <1>1, <1>2, <3>1 DEF LineOK, s
    <3>2. CASE Len(s) = 0
      <4>1. Len(a) > 0 => z[1].unit = q[k + 1] /\ Resumes(in[l], q[k + 1])
        BY <1>1, <1>2, <1>5, <3>2 DEF Continues, s
      <4>2. ASSUME z # <<>> PROVE Len(a) > 0
        <5>1. PICK n, d : n = Len(z) /\ d = Len(a)
          OBVIOUS
        <5>2. n # 0 /\ d \in Nat /\ n = d
          BY <1>3, <1>4, <3>2, <4>2, <5>1
        <5>3. d > 0
          BY <5>2
        <5> QED
          BY <5>1, <5>3
      <4> QED
        BY <4>1, <4>2
    <3> QED
      BY <1>1, <3>1, <3>2
  <2>2. ASSUME NEW i \in 1..Len(z) - 1 PROVE Follows(z[i].unit, z[i + 1].unit)
    <3>1. CASE i < Len(s)
      <4>1. PICK i1 : i1 = i + 1
        OBVIOUS
      <4>2. i \in 1..Len(s) /\ i1 \in 1..Len(s) /\ i \in 1..Len(s) - 1
        BY <1>4, <3>1, <4>1
      <4>3. z[i] = s[i] /\ z[i1] = s[i1]
        BY <1>2, <4>2
      <4>4. Follows(s[i].unit, s[i + 1].unit)
        BY <4>2 DEF LineOK, s
      <4> QED
        BY <4>1, <4>3, <4>4
    <3>2. CASE i = Len(s)
      <4>1. z[i] = s[Len(s)] /\ z[i + 1].unit = q[k + 1] /\ Len(a) > 0 /\ s # <<>>
        <5>1. PICK j, i1 : j = k + 1 /\ i1 = i + 1
          OBVIOUS
        <5>2. j \in Nat /\ i1 \in Len(s) + 1..Len(z) /\ j + Len(s) = k + i1 /\ Len(a) > 0
          BY <1>4, <3>2, <5>1
        <5>3. z[i1].unit = q[j]
          BY <1>5, <5>2
        <5> QED
          BY <1>1, <1>2, <3>2, <5>1, <5>2, <5>3
      <4> QED
        BY <4>1 DEF Continues, s
    <3>3. CASE i > Len(s)
      <4>1. PICK j, j1, i1 : j = k + (i - Len(s)) /\ j1 = j + 1 /\ i1 = i + 1
        OBVIOUS
      <4>2. /\ j \in 1..Len(q) - 1 /\ i \in Len(s) + 1..Len(z) /\ j + Len(s) = k + i
            /\ j1 \in Nat /\ i1 \in Len(s) + 1..Len(z) /\ j1 + Len(s) = k + i1
        BY <1>4, <3>3, <4>1
      <4>3. z[i].unit = q[j] /\ z[i1].unit = q[j1]
        BY <1>5, <4>2
      <4>4. Follows(q[j], q[j1])
        BY <1>7, <4>1, <4>2
      <4> QED
        BY <4>1, <4>3, <4>4
    <3> QED
      BY <1>1, <3>1, <3>2, <3>3
  <2> QED
    BY <2>1, <2>2
<1>9. ASSUME Len(a) > 0
      PROVE  IF k + Len(a) < Len(q) THEN Continues(l, q[k + Len(a) + 1])' ELSE Boundary(l)'
  <2>1. PICK j : j = k + Len(a)
    OBVIOUS
  <2>2. j \in 1..Len(q) /\ z # <<>> /\ z[Len(z)].unit = q[j]
    <3>1. PICK i : i = Len(z)
      OBVIOUS
    <3>2. /\ j \in 1..Len(q) /\ j \in Nat
          /\ i \in Len(s) + 1..Len(z) /\ j + Len(s) = k + i
      BY <1>4, <1>9, <2>1, <3>1
    <3>3. z[i].unit = q[j]
      BY <1>5, <3>2
    <3> QED
      BY <1>4, <1>3, <1>9, <3>1, <3>2, <3>3
  <2>3. CASE j < Len(q)
    <3>1. Follows(q[j], q[j + 1])
      BY <1>1, <1>7, <2>2, <2>3
    <3>2. Continues(l, q[j + 1])'
      BY <2>2, <3>1 DEF Continues, z
    <3> QED
      BY <2>1, <2>3, <3>2
  <2>4. CASE ~(j < Len(q))
    <3>1. q[j].at = Total(q[j].image)
      BY <1>1, <2>2, <2>4 DEF IsWhole
    <3>2. Boundary(l)'
      BY <2>2, <3>1 DEF Boundary, z
    <3> QED
      BY <2>1, <2>4, <3>2
  <2> QED
    BY <2>3, <2>4
<1> QED
  BY <1>6, <1>8, <1>9

\* A sender that has written the units of q up to k, and now n more, may stay as it is.
LEMMA ExtendedInv ==
  ASSUME Inv, NEW e \in End, NEW m, NEW a, NEW k \in Nat, NEW q, IsWhole(q), IsSeq(a),
         k + Len(a) <= Len(q), \A i \in 1..Len(a) : a[i].unit = q[k + i],
         out' = [out EXCEPT ![e] = m], stream' = [stream EXCEPT ![Peer(e)] = @ \o a],
         Len(stream[Peer(e)]) + Len(a) <= Capacity, UNCHANGED <<transport, in, delivered>>,
         \/ /\ m.state = "none" /\ out[e].state # "Sending"
            /\ k = 0 /\ Len(a) = Len(q)
         \/ /\ out[e].state = "Sending" /\ out[e].pos = k /\ out[e].buffer = q
            /\ IsOnItsWay(m) /\ m.pos = k + Len(a) /\ m.buffer = q /\ k < Len(q),
         transport[e].open
  PROVE  Inv'
<1>1. PICK p, t : p = Peer(e) /\ t = transport[e]
  OBVIOUS
<1>2. p \in End /\ p # e /\ Peer(p) = e
  BY <1>1, Ends
<1>3. Len(a) \in Nat /\ Len(q) \in Nat /\ Len(q) > 0 /\ k \in 0..Len(q)
  BY LengthIsNat DEF IsWhole, FixedLength
<1>4. LineInv(p)
  BY <1>2 DEF Inv
<1>5. /\ stream' = [l \in End |-> stream'[l]] /\ stream'[e] = stream[e]
      /\ stream'[p] = stream[p] \o a /\ in'[p] = in[p] /\ transport'[p] = transport[p]
  BY <1>1, <1>2 DEF Inv, Tables
<1>6. transport[p].open => Len(a) = 0 \/ Continues(p, q[k + 1])
  <2> SUFFICES ASSUME transport[p].open PROVE Continues(p, q[k + 1])
    OBVIOUS
  <2>1. CASE out[e].state # "Sending"
    <3>1. Boundary(p)
      BY <1>2, <1>4, <2>1 DEF LineInv, TailOK
    <3>2. k + 1 = 1 /\ q[1].at = 1
      BY <1>3, <2>1 DEF IsWhole
    <3> QED
      BY <1>2, <1>4, <3>1, <3>2, BoundaryContinues DEF LineInv
  <2>2. CASE out[e].state = "Sending"
    <3>1. out[e].pos = k /\ out[e].buffer = q /\ k < Len(q)
      BY <2>2
    <3> QED
      BY <1>2, <1>4, <2>2, <3>1 DEF LineInv, TailOK
  <2> QED
    BY <2>1, <2>2
<1>7. /\ StreamOK(p)' /\ LineOK(p)'
      /\ transport[p].open /\ Len(a) > 0 =>
            IF k + Len(a) < Len(q) THEN Continues(p, q[k + Len(a) + 1])' ELSE Boundary(p)'
  <2>1. IsArriving(in[p]) /\ StreamOK(p) /\ LineOK(p)
    BY <1>4 DEF LineInv
  <2>2. Len(stream[p]) + Len(a) <= Capacity
    BY <1>1
  <2> QED
    BY <1>2, <1>3, <1>5, <1>6, <2>1, <2>2, ExtendedLine
<1>8. ASSUME transport[p].open
      PROVE  IF m.state = "Sending" /\ m.pos < Len(m.buffer)
             THEN Continues(p, m.buffer[m.pos + 1])' ELSE Boundary(p)'
  <2>1. CASE Len(a) > 0
    <3>1. CASE m.state = "none"
      <4>1. k = 0 /\ Len(a) = Len(q)
        BY <3>1 DEF IsOnItsWay
      <4> QED
        BY <1>3, <1>7, <1>8, <2>1, <3>1, <4>1
    <3>2. CASE m.state # "none"
      <4>1. m.state = "Sending" /\ m.pos = k + Len(a) /\ m.buffer = q
        BY <3>2 DEF IsOnItsWay
      <4> QED
        BY <1>7, <1>8, <2>1, <4>1
    <3> QED
      BY <3>1, <3>2
  <2>2. CASE ~(Len(a) > 0)
    <3>1. m.state = "Sending" /\ m.pos = k /\ m.buffer = q /\ k < Len(q)
      BY <1>3, <2>2 DEF IsOnItsWay
    <3>2. Continues(p, q[k + 1])
      <4>1. out[e].state = "Sending" /\ out[e].pos = k /\ out[e].buffer = q
        BY <3>1
      <4> QED
        BY <1>2, <1>4, <1>8, <3>1, <4>1 DEF LineInv, TailOK
    <3>3. stream'[p] = stream[p]
      <4>1. IsSeq(stream[p]) /\ Len(a) = 0
        BY <1>3, <1>4, <2>2 DEF LineInv, StreamOK
      <4>2. a = <<>>
        BY <4>1, LengthIsNat
      <4> QED
        BY <1>5, <4>1, <4>2, ConcatEmptySeq DEF IsSeq
    <3>4. Continues(p, q[k + 1])'
      BY <1>5, <3>2, <3>3 DEF Continues
    <3> QED
      BY <3>1, <3>4
  <2> QED
    BY <2>1, <2>2
<1>9. /\ transport' = [transport EXCEPT ![e] = t] /\ t.open \in BOOLEAN
      /\ t.write # None <=> m.state = "Sending"
  <2>1. m.state = "Sending" <=> out[e].state = "Sending"
    BY DEF IsOnItsWay
  <2> QED
    BY <1>1, <2>1 DEF Inv, Tables, WatchInv, TransportOK, SendingIsWatched
<1>10. m.state = "none" \/ IsReady(m) \/ IsOnItsWay(m)
  OBVIOUS
<1> QED
  BY <1>1, <1>5, <1>7, <1>8, <1>9, <1>10, SenderInv

LEMMA SendForeignInv ==
  ASSUME Inv, NEW e \in End, SendForeign(e) PROVE Inv'
<1>1. PICK image \in Foreign[e] :
         /\ out[e].state = "none" /\ transport[e].open
         /\ Len(stream[Peer(e)]) + Len(Units(image)) <= Capacity
         /\ stream' = [stream EXCEPT ![Peer(e)] =
                          @ \o [i \in DOMAIN Units(image) |->
                                   [unit |-> Units(image)[i], fds |-> <<>>]]]
         /\ UNCHANGED <<transport, out, in, busy, delivered, edits>>
  BY DEF SendForeign
<1>2. IsImage(image)
  BY ImageAssumption DEF IsImage, End
<1>3. PICK q : q = Units(image)
  OBVIOUS
<1>4. IsWhole(q) /\ Len(q) \in Nat /\ DOMAIN q = 1..Len(q)
  BY <1>2, <1>3, UnitsAreWhole, LengthIsNat DEF IsWhole
<1>5. PICK a : a = [i \in 1..Len(q) |-> [unit |-> q[i], fds |-> <<>>]]
  OBVIOUS
<1>6. IsSeq(a) /\ Len(a) = Len(q) /\ \A i \in 1..Len(q) : a[i].unit = q[i]
  <2>1. a = [i \in 1..Len(q) |-> a[i]]
    BY <1>5
  <2> QED
    BY <1>4, <1>5, <2>1, FunctionIsSeq
<1>7. PICK m : m = out[e]
  OBVIOUS
<1>8. out' = [out EXCEPT ![e] = m] /\ stream' = [stream EXCEPT ![Peer(e)] = @ \o a]
  BY <1>1, <1>3, <1>4, <1>5, <1>7 DEF Inv, Tables
<1>9. \A i \in 1..Len(a) : a[i].unit = q[0 + i]
  BY <1>4, <1>6
<1>10. 0 + Len(a) <= Len(q) /\ Len(stream[Peer(e)]) + Len(a) <= Capacity /\ m.state = "none"
  BY <1>1, <1>3, <1>4, <1>6, <1>7
<1>11. UNCHANGED <<transport, in, delivered>> /\ out[e].state # "Sending"
  BY <1>1
<1> QED
  BY <1>1, <1>4, <1>6, <1>8, <1>9, <1>10, <1>11, ExtendedInv

\* What a write puts on the stream.
Added(n, data, fds) == [i \in 1..n |-> [unit |-> data[i], fds |-> Attached(i, fds)]]
Longer(s, n, data, fds) == s \o Added(n, data, fds)

\* The line s with more units at its end.
Lengthened(s, a) == s \o a

LEMMA AddedIsSeq ==
  ASSUME NEW n \in Nat, NEW data, NEW fds, NEW a, a = Added(n, data, fds)
  PROVE  /\ IsSeq(a) /\ Len(a) = n
         /\ \A i \in 1..n : a[i].unit = data[i] /\ a[i].fds = Attached(i, fds)
<1>1. a = [i \in 1..n |-> a[i]]
  BY DEF Added
<1> QED
  BY <1>1, FunctionIsSeq DEF Added

LEMMA WriteUnitsDoes ==
  ASSUME NEW t, NEW s, NEW peerOpen, NEW data, NEW fds, NEW r,
         r = WriteUnits(t, s, peerOpen, data, fds),
         IsSeq(s), Len(s) <= Capacity, IsSeq(data)
  PROVE  /\ r.status = "OK" =>
               /\ t.open /\ r.stream = Longer(s, r.units, data, fds)
               /\ r.units \in Nat /\ r.units <= Len(data) /\ Len(s) + r.units <= Capacity
               /\ fds # <<>> => t.kind # "ip"
         /\ r.status # "OK" => r.stream = s /\ (r.t = t \/ r.t = CloseTransport(t))
<1>1. PICK n : n = Fewer(Len(data), Capacity - Len(s))
  OBVIOUS
<1>2. n \in Nat /\ n <= Len(data) /\ Len(s) + n <= Capacity
  BY <1>1, LengthIsNat, CapacityAssumption DEF Fewer
<1>3. PICK a : a = Added(n, data, fds)
  OBVIOUS
<1>4. \/ r = Result("OK", t, s \o a, n, <<>>) /\ t.open /\ (fds # <<>> => t.kind # "ip")
      \/ \E status, u : /\ r = Result(status, u, s, 0, <<>>)
                        /\ status # "OK" /\ (u = t \/ u = CloseTransport(t))
  BY <1>1, <1>3 DEF WriteUnits, Lost, Added
<1>5. CASE r = Result("OK", t, s \o a, n, <<>>) /\ t.open /\ (fds # <<>> => t.kind # "ip")
  <2>1. r.status = "OK" /\ r.stream = s \o a /\ r.units = n
    BY <1>5 DEF Result
  <2> QED
    BY <1>2, <1>3, <1>5, <2>1 DEF Longer
<1>6. ASSUME NEW status, NEW u, r = Result(status, u, s, 0, <<>>), status # "OK",
             u = t \/ u = CloseTransport(t)
      PROVE  r.status # "OK" /\ r.stream = s /\ (r.t = t \/ r.t = CloseTransport(t))
  BY <1>6 DEF Result
<1> QED
  BY <1>4, <1>5, <1>6

\* The units a come next of the message m, its descriptors with the first of them, if the
\* transport passes any.
IsWritten(m, a, t) ==
  /\ IsSeq(a) /\ m.pos + Len(a) <= Len(m.buffer)
  /\ \A i \in 1..Len(a) : a[i].unit = m.buffer[m.pos + i]
  /\ \A i \in 1..Len(a) : a[i].fds = IF m.pos = 0 /\ i = 1 THEN m.args.fds ELSE <<>>
  /\ m.pos = 0 /\ m.args.fds # <<>> => Len(a) = 0 \/ t.kind # "ip"

LEMMA WrittenUnits ==
  ASSUME Inv, NEW e \in End, out[e].state = "Sending", out[e].pos < Len(out[e].buffer),
         NEW r, r = Written(e)
  PROVE  /\ r.status = "OK" =>
               /\ transport[e].open
               /\ \E a : /\ IsWritten(out[e], a, transport[e]) /\ r.units = Len(a)
                         /\ r.stream = Lengthened(stream[Peer(e)], a)
                         /\ Len(stream[Peer(e)]) + Len(a) <= Capacity
         /\ r.status # "OK" =>
               /\ r.stream = stream[Peer(e)]
               /\ r.t = transport[e] \/ r.t = CloseTransport(transport[e])
<1>1. PICK m, p, tr, s, open : /\ m = out[e] /\ p = Peer(e) /\ tr = transport[e]
                               /\ s = stream[p] /\ open = transport[p].open
  OBVIOUS
<1>2. /\ IsWhole(m.buffer) /\ m.pos \in Nat /\ Len(m.buffer) \in Nat /\ IsSeq(m.buffer)
      /\ m.pos < Len(m.buffer)
  BY <1>1, LengthIsNat DEF Inv, WatchInv, OutOK, IsReady, IsOnItsWay, IsWhole
<1>3. IsSeq(s) /\ Len(s) <= Capacity
  BY <1>1, Ends DEF Inv, LineInv, StreamOK
<1>4. PICK data, fds : /\ data = SubSeq(m.buffer, m.pos + 1, Len(m.buffer))
                       /\ fds = IF m.pos = 0 THEN m.args.fds ELSE <<>>
  OBVIOUS
<1>5. r = WriteUnits(tr, s, open, data, fds)
  BY <1>1, <1>4 DEF Written
<1>6. /\ IsSeq(data) /\ Len(data) = Len(m.buffer) - m.pos
      /\ \A i \in 1..Len(data) : data[i] = m.buffer[m.pos + i]
  <2>1. PICK q, from, to : q = m.buffer /\ from = m.pos + 1 /\ to = Len(m.buffer)
    OBVIOUS
  <2>2. IsSeq(q) /\ from \in Nat \ {0} /\ to \in 0..Len(q) /\ from <= to + 1
    BY <1>2, <2>1
  <2>3. data = SubSeq(q, from, to)
    BY <1>4, <2>1
  <2>4. /\ IsSeq(data) /\ Len(data) = to - from + 1
        /\ \A i \in 1..to - from + 1 : data[i] = q[from + i - 1]
    BY <2>2, <2>3, Cut
  <2>5. Len(data) = Len(m.buffer) - m.pos
    BY <1>2, <2>1, <2>4
  <2>6. ASSUME NEW i \in 1..Len(data) PROVE data[i] = m.buffer[m.pos + i]
    <3>1. data[i] = q[from + i - 1]
      BY <2>4
    <3>2. from + i - 1 = m.pos + i
      BY <1>2, <2>1
    <3> QED
      BY <2>1, <3>1, <3>2
  <2> QED
    BY <2>4, <2>5, <2>6
<1>7. /\ r.status = "OK" =>
            /\ tr.open /\ r.stream = Longer(s, r.units, data, fds)
            /\ r.units \in Nat /\ r.units <= Len(data) /\ Len(s) + r.units <= Capacity
            /\ fds # <<>> => tr.kind # "ip"
      /\ r.status # "OK" => r.stream = s /\ (r.t = tr \/ r.t = CloseTransport(tr))
  <2>1. IsSeq(data)
    BY <1>6
  <2> QED
    BY <1>3, <1>5, <2>1, WriteUnitsDoes
<1>8. ASSUME r.status = "OK"
      PROVE  /\ tr.open
             /\ \E a : /\ IsWritten(m, a, tr) /\ r.units = Len(a)
                       /\ r.stream = Lengthened(s, a) /\ Len(s) + Len(a) <= Capacity
  <2>1. PICK n : n = r.units
    OBVIOUS
  <2>2. PICK a : a = Added(n, data, fds)
    OBVIOUS
  <2>3. n \in Nat /\ n <= Len(data) /\ Len(s) + n <= Capacity /\ (fds # <<>> => tr.kind # "ip")
    BY <1>7, <1>8, <2>1
  <2>4. /\ IsSeq(a) /\ Len(a) = n
        /\ \A i \in 1..n : a[i].unit = data[i] /\ a[i].fds = Attached(i, fds)
    BY <2>2, <2>3, AddedIsSeq
  <2>5. r.stream = Lengthened(s, a)
    BY <1>7, <1>8, <2>1, <2>2 DEF Longer, Lengthened
  <2>6. \A i \in 1..n : i \in 1..Len(data)
    BY <1>2, <1>6, <2>3
  <2>7. IsWritten(m, a, tr)
    <3>1. m.pos + n <= Len(m.buffer)
      BY <1>2, <1>6, <2>3
    <3>2. \A i \in 1..n : a[i].unit = m.buffer[m.pos + i]
      BY <1>6, <2>4, <2>6
    <3>3. ASSUME NEW i \in 1..n
          PROVE  a[i].fds = IF m.pos = 0 /\ i = 1 THEN m.args.fds ELSE <<>>
      BY <1>4, <2>4 DEF Attached
    <3>4. m.pos = 0 /\ m.args.fds # <<>> => tr.kind # "ip"
      BY <1>4, <2>3
    <3> QED
      BY <2>4, <3>1, <3>2, <3>3, <3>4 DEF IsWritten
  <2> QED
    BY <1>7, <1>8, <2>1, <2>3, <2>4, <2>5, <2>7
<1> QED
  BY <1>1, <1>7, <1>8

LEMMA WriteStepInv ==
  ASSUME Inv, NEW e \in End, WriteStep(e) PROVE Inv'
<1>1. PICK m : m = out[e]
  OBVIOUS
<1>2. /\ m.state = "Sending" /\ UNCHANGED <<in, delivered>>
      /\ \/ /\ m.pos = Len(m.buffer) /\ UNCHANGED stream
            /\ EndWrite(e, SetWriteListener(transport[e], None))
         \/ /\ m.pos < Len(m.buffer) /\ TooManyFds(e) /\ UNCHANGED stream
            /\ EndWrite(e, Unwatched(transport[e]))
         \/ /\ m.pos < Len(m.buffer)
            /\ stream' = [stream EXCEPT ![Peer(e)] = Written(e).stream]
            /\ IF Written(e).status = "OK"
               THEN /\ out' = [out EXCEPT ![e].pos = @ + Written(e).units]
                    /\ UNCHANGED transport
               ELSE EndWrite(e, Closed(Written(e).t))
  BY <1>1 DEF WriteStep
<1>3. IsOnItsWay(m) /\ Len(m.buffer) \in Nat /\ IsSeq(m.buffer)
  BY <1>1, <1>2, LengthIsNat DEF Inv, WatchInv, OutOK, IsReady, IsOnItsWay, IsWhole
<1>4. PICK p : p = Peer(e)
  OBVIOUS
<1>5. p \in End /\ Peer(p) = e /\ LineInv(p)
  BY <1>4, Ends DEF Inv
<1>6. PICK t : t = SetWriteListener(transport[e], None)
  OBVIOUS
<1>7. /\ DOMAIN t = DOMAIN transport[e] /\ t.open = transport[e].open
      /\ t.open \in BOOLEAN /\ t.write = None
  BY <1>6 DEF Inv, WatchInv, TransportOK, SetWriteListener
<1>8. ASSUME EndWrite(e, t), UNCHANGED stream,
             transport[e].open /\ transport[p].open => Boundary(p)
      PROVE  Inv'
  <2>1. PICK none : none = NoMessage
    OBVIOUS
  <2>2. none.state = "none"
    BY <2>1 DEF NoMessage
  <2>3. out' = [out EXCEPT ![e] = none] /\ transport' = [transport EXCEPT ![e] = t]
    BY <1>8, <2>1 DEF EndWrite
  <2> QED
    BY <1>2, <1>4, <1>7, <1>8, <2>2, <2>3, OutInv
<1>9. CASE /\ m.pos = Len(m.buffer) /\ UNCHANGED stream
           /\ EndWrite(e, SetWriteListener(transport[e], None))
  <2>1. transport[e].open /\ transport[p].open => Boundary(p)
    BY <1>1, <1>3, <1>5, <1>9 DEF LineInv, TailOK
  <2> QED
    BY <1>6, <1>8, <1>9, <2>1
<1>10. CASE /\ m.pos < Len(m.buffer) /\ TooManyFds(e) /\ UNCHANGED stream
            /\ EndWrite(e, Unwatched(transport[e]))
  <2>1. m.pos = 0 /\ 0 + 1 = 1 /\ m.buffer[1].at = 1
    BY <1>1, <1>3, <1>10 DEF TooManyFds, IsOnItsWay, IsWhole
  <2>2. ASSUME transport[e].open, transport[p].open PROVE Boundary(p)
    <3>1. Continues(p, m.buffer[1])
      BY <1>1, <1>2, <1>5, <1>10, <2>1, <2>2 DEF LineInv, TailOK
    <3> QED
      BY <1>5, <2>1, <3>1, ContinuesBoundary DEF LineInv
  <2> QED
    BY <1>6, <1>8, <1>10, <2>2 DEF Unwatched
<1>11. CASE /\ m.pos < Len(m.buffer)
            /\ stream' = [stream EXCEPT ![Peer(e)] = Written(e).stream]
            /\ IF Written(e).status = "OK"
               THEN /\ out' = [out EXCEPT ![e].pos = @ + Written(e).units]
                    /\ UNCHANGED transport
               ELSE EndWrite(e, Closed(Written(e).t))
  <2>3. PICK r : r = Written(e)
    OBVIOUS
  <2>4. m.pos \in Nat
    BY <1>3 DEF IsOnItsWay
  <2>7. /\ r.status = "OK" =>
              /\ transport[e].open
              /\ \E a : /\ IsWritten(m, a, transport[e]) /\ r.units = Len(a)
                        /\ r.stream = Lengthened(stream[p], a)
                        /\ Len(stream[p]) + Len(a) <= Capacity
        /\ r.status # "OK" =>
              /\ r.stream = stream[p]
              /\ r.t = transport[e] \/ r.t = CloseTransport(transport[e])
    BY <1>1, <1>2, <1>4, <1>11, <2>3, WrittenUnits
  <2>8. CASE r.status # "OK"
    <3>1. PICK u : u = r.t
      OBVIOUS
    <3>2. /\ u = transport[e] \/ u = CloseTransport(transport[e])
          /\ transport' = [transport EXCEPT ![e] = Closed(u)]
          /\ out' = [out EXCEPT ![e] = NoMessage]
      BY <1>11, <2>3, <2>7, <2>8, <3>1 DEF EndWrite
    <3>3. stream' = stream
      BY <1>4, <1>5, <1>11, <2>3, <2>7, <2>8 DEF Inv, Tables
    <3> QED
      BY <1>2, <3>2, <3>3, ClosedInv
  <2>9. CASE r.status = "OK"
    <3>1. PICK a : /\ IsWritten(m, a, transport[e]) /\ r.units = Len(a)
                   /\ r.stream = Lengthened(stream[p], a)
                   /\ Len(stream[p]) + Len(a) <= Capacity
      BY <2>7, <2>9
    <3>2. /\ IsSeq(a) /\ Len(a) = r.units
          /\ \A i \in 1..Len(a) : a[i].unit = m.buffer[m.pos + i]
          /\ r.stream = stream[p] \o a /\ Len(stream[p]) + Len(a) <= Capacity
      BY <3>1 DEF IsWritten, Lengthened
    <3>3. PICK q, k : q = m.buffer /\ k = m.pos
      OBVIOUS
    <3>4. /\ IsWhole(q) /\ k \in Nat /\ k < Len(q) /\ Len(a) \in Nat /\ Len(q) \in Nat
          /\ k + Len(a) <= Len(q)
      BY <1>3, <1>11, <2>4, <3>1, <3>2, <3>3, LengthIsNat DEF IsOnItsWay, IsWritten
    <3>5. \A i \in 1..Len(a) : a[i].unit = q[k + i]
      BY <3>2, <3>3
    <3>6. PICK n : n = [m EXCEPT !.pos = @ + Len(a)]
      OBVIOUS
    <3>7. /\ DOMAIN n = DOMAIN m /\ n.args = m.args /\ n.state = "Sending" /\ n.buffer = q
          /\ n.pos = k + Len(a)
      BY <1>2, <1>3, <3>3, <3>6, Fields DEF IsOnItsWay, IsMessage
    <3>8. IsOnItsWay(n)
      BY <1>3, <3>3, <3>4, <3>7 DEF IsOnItsWay, IsMessage
    <3>9. out' = [out EXCEPT ![e] = n]
      BY <1>1, <1>11, <2>3, <2>9, <3>2, <3>6 DEF Inv, Tables
    <3>10. /\ stream' = [stream EXCEPT ![Peer(e)] = @ \o a] /\ UNCHANGED transport
          /\ transport[e].open /\ Len(stream[Peer(e)]) + Len(a) <= Capacity
      BY <1>4, <1>11, <2>3, <2>7, <2>9, <3>2
    <3>a0. out[e].state = "Sending" /\ out[e].pos = k /\ out[e].buffer = q
      BY <1>1, <1>2, <3>3
    <3> QED
      BY <1>2, <3>2, <3>4, <3>5, <3>7, <3>8, <3>9, <3>10, <3>a0, ExtendedInv
  <2> QED
    BY <2>8, <2>9
<1> QED
  BY <1>2, <1>9, <1>10, <1>11

-----------------------------------------------------------------------------
(* Receiving.                                                              *)

LEMMA Least ==
  ASSUME NEW S \in SUBSET Nat, S # {} PROVE \E x \in S : \A y \in S : x <= y
<1> DEFINE R == {ss \in Nat \X Nat : ss[1] < ss[2]}
<1>1. IsWellFoundedOn(R, Nat)
  BY NatLessThanWellFounded DEF OpToRel
<1>2. \A x, y \in Nat : y < x => <<y, x>> \in R
  OBVIOUS
<1> HIDE DEF R
<1>3. PICK x \in S : \A y \in S : ~ (<<y, x>> \in R)
  BY <1>1, WFMin
<1>4. \A y \in S : ~(y < x)
  BY <1>2, <1>3
<1> QED
  BY <1>4

\* Units that follow one another are of one message as long as it has that many.
Chained(u, n) == \A i \in 1..n - 1 : Follows(u[i], u[i + 1])

LEMMA FollowersAreOfOneMessage ==
  ASSUME NEW u, NEW n \in Nat, NEW image, NEW k \in Nat, Chained(u, n), IsImage(image),
         n > 0 => u[1].image = image /\ u[1].at = k + 1, k + n <= Total(image)
  PROVE  \A i \in 1..n : u[i].image = image /\ u[i].at = k + i
<1> DEFINE S == {i \in 1..n : ~(u[i].image = image /\ u[i].at = k + i)}
<1> SUFFICES ASSUME S # {} PROVE FALSE
  OBVIOUS
<1>0. PICK T : T = S
  OBVIOUS
<1>a. T \in SUBSET Nat /\ T # {} /\ \A i : i \in T <=> i \in 1..n /\ ~(u[i].image = image /\ u[i].at = k + i)
  BY <1>0
<1> HIDE DEF S
<1>1. PICK x \in T : \A y \in T : x <= y
  BY <1>a, Least
<1>2. x \in 1..n /\ ~(u[x].image = image /\ u[x].at = k + x)
  BY <1>1, <1>a
<1>3. x # 1
  BY <1>2
<1>4. PICK y : y = x - 1
  OBVIOUS
<1>5. y \in 1..n - 1 /\ y + 1 = x /\ y \in 1..n /\ y < x
  BY <1>2, <1>3, <1>4
<1>6. u[y].image = image /\ u[y].at = k + y
  BY <1>1, <1>5, <1>a
<1>7. Follows(u[y], u[x])
  BY <1>5 DEF Chained
<1>8. Total(image) \in Nat /\ k + y < Total(image)
  BY <1>5 DEF IsImage, Total
<1>9. u[x].image = image /\ u[x].at = k + y + 1
  BY <1>6, <1>7, <1>8 DEF Follows
<1>10. k + y + 1 = k + x
  BY <1>4, <1>5
<1> QED
  BY <1>2, <1>9, <1>10

LEMMA NextPowerOf2IsEnough ==
  ASSUME NEW n \in Nat, n > 0, n <= LargestBuffer
  PROVE  NextPowerOf2(n) \in Nat /\ NextPowerOf2(n) >= n
<1>1. \E p \in PowersOf2 : p >= n /\ p < 2 * n
  BY SMT DEF PowersOf2, LargestBuffer
<1>2. NextPowerOf2(n) \in PowersOf2 /\ NextPowerOf2(n) >= n
  BY <1>1 DEF NextPowerOf2
<1> QED
  BY <1>2, SMT DEF PowersOf2, LargestBuffer

LEMMA ReservedIsEnough ==
  ASSUME NEW room \in Nat, NEW n \in Nat, n <= LargestBuffer
  PROVE  Reserved(room, n) \in Nat /\ Reserved(room, n) >= n
<1>1. Block \in Nat
  BY LengthsAssumption, SMT DEF PowersOf2, LargestBuffer
<1>2. CASE n <= room
  BY <1>2 DEF Reserved
<1>3. CASE n > room /\ n <= Block
  BY <1>1, <1>3 DEF Reserved
<1>4. CASE n > room /\ n > Block
  BY <1>1, <1>4, NextPowerOf2IsEnough DEF Reserved
<1> QED
  BY <1>1, <1>2, <1>3, <1>4

LEMMA LargestIsNat == LargestBuffer \in Nat /\ LargestBuffer > FixedLength
BY SMT DEF LargestBuffer, FixedLength

LEMMA WantedIsRest ==
  ASSUME NEW m, IsArriving(m)
  PROVE  /\ Wanted(m) \in Nat \ {0} /\ m.pos \in Nat /\ m.pos + Wanted(m) <= LargestBuffer
         /\ m.pos > 0 => IsImage(m.buffer[1].image) /\ m.pos + Wanted(m) <= Total(m.buffer[1].image)
         /\ m.pos = 0 => Wanted(m) = FixedLength
<1>1. m.pos \in Nat
  BY LengthIsNat DEF IsArriving
<1>2. m.pos > 0 => IsImage(m.buffer[1].image)
  BY <1>1 DEF IsArriving, IsUnit
<1>3. CASE m.headerLength = 0
  <2>1. m.pos < FixedLength /\ Wanted(m) = FixedLength - m.pos
    BY <1>3 DEF IsArriving, Wanted
  <2>2. PICK image : image = m.buffer[1].image
    OBVIOUS
  <2>3. m.pos > 0 => Total(image) \in Nat /\ Total(image) >= FixedLength
    BY <1>2, <2>2 DEF IsImage, Total, FixedLength
  <2>4. FixedLength \in Nat
    BY DEF FixedLength
  <2> QED
    BY <1>1, <1>2, <2>1, <2>2, <2>3, <2>4, LargestIsNat
<1>4. CASE m.headerLength # 0
  <2>1. PICK image : image = m.buffer[1].image
    OBVIOUS
  <2>2. /\ m.pos >= FixedLength /\ m.pos < Total(image)
        /\ m.headerLength = image.headerLength /\ m.bodyLength = image.bodyLength
        /\ Total(image) <= MaxMessageLength
    BY <1>4, <2>1 DEF IsArriving
  <2>3. IsImage(image) /\ Total(image) \in Nat
    BY <1>1, <1>2, <2>1, <2>2 DEF FixedLength, IsImage, Total
  <2>4. PICK h, b : h = m.headerLength /\ b = m.bodyLength
    OBVIOUS
  <2>5. Wanted(m) = h + b - m.pos
    BY <1>4, <2>4 DEF Wanted
  <2>6. Total(image) = h + b
    BY <2>2, <2>4 DEF Total
  <2>7. Wanted(m) = Total(image) - m.pos
    <3>1. h \in Nat /\ b \in Nat
      BY <2>2, <2>3, <2>4 DEF IsImage
    <3>2. PICK w, n, p : w = Wanted(m) /\ n = Total(image) /\ p = m.pos
      OBVIOUS
    <3>3. w = h + b - p /\ n = h + b /\ p \in Nat
      BY <1>1, <2>5, <2>6, <3>2
    <3>4. w = n - p
      BY <3>1, <3>3
    <3> QED
      BY <3>2, <3>4
  <2> QED
    BY <1>1, <2>1, <2>2, <2>3, <2>7, LengthsAssumption, LargestIsNat DEF FixedLength
<1> QED
  BY <1>3, <1>4

\* A read takes the first units of the stream, at most max; it may find it ended.
TakesUnits(r, t, s, max) ==
  /\ IsSeq(r.units) /\ Len(r.units) <= max /\ Len(r.units) <= Len(s)
  /\ \A i \in 1..Len(r.units) : r.units[i] = s[i].unit
  /\ IsSeq(r.stream) /\ Len(r.stream) = Len(s) - Len(r.units)
  /\ \A i \in 1..Len(r.stream) : r.stream[i] = s[Len(r.units) + i]
  /\ r.t = t \/ r.t = CloseTransport(t)
  /\ ~t.open => Len(r.units) = 0

LEMMA ReadUnitsDoes ==
  ASSUME NEW t, NEW s, NEW ended, NEW max, NEW withFds, NEW r,
         r = ReadUnits(t, s, ended, max, withFds), IsSeq(s), max \in Nat \ {0}
  PROVE  /\ TakesUnits(r, t, s, max)
         /\ ~withFds => r.fds = <<>>
         /\ withFds => r.fds = IF t.kind # "ip" /\ Len(r.units) > 0 THEN s[1].fds ELSE <<>>
<1>1. Len(s) \in Nat
  BY LengthIsNat
<1>2. PICK n : n = Fewer(max, Len(s))
  OBVIOUS
<1>3. n \in Nat /\ n <= max /\ n <= Len(s) /\ n \in 0..Len(s)
  BY <1>1, <1>2 DEF Fewer
<1>4. PICK taken : taken = SubSeq(s, 1, n)
  OBVIOUS
<1>5. IsSeq(taken) /\ Len(taken) = n /\ \A i \in 1..n : taken[i] = s[i]
  <2>1. PICK from : from = 1
    OBVIOUS
  <2>2. /\ IsSeq(taken) /\ Len(taken) = n - from + 1
        /\ \A i \in 1..n - from + 1 : taken[i] = s[from + i - 1]
    BY <1>3, <1>4, <2>1, Cut
  <2> QED
    BY <1>3, <2>1, <2>2
<1>6. PICK rest : rest = SubSeq(s, n + 1, Len(s))
  OBVIOUS
<1>7. IsSeq(rest) /\ Len(rest) = Len(s) - n /\ \A i \in 1..Len(rest) : rest[i] = s[n + i]
  <2>1. PICK from, to : from = n + 1 /\ to = Len(s)
    OBVIOUS
  <2>2. from \in Nat \ {0} /\ to \in 0..Len(s) /\ from <= to + 1 /\ rest = SubSeq(s, from, to)
    BY <1>1, <1>3, <1>6, <2>1
  <2>3. /\ IsSeq(rest) /\ Len(rest) = to - from + 1
        /\ \A i \in 1..to - from + 1 : rest[i] = s[from + i - 1]
    BY <2>2, Cut
  <2>4. to - from + 1 = Len(s) - n /\ Len(rest) = Len(s) - n
    BY <1>1, <1>3, <2>1, <2>3
  <2>5. ASSUME NEW i \in 1..Len(rest) PROVE rest[i] = s[n + i]
    <3>1. rest[i] = s[from + i - 1]
      BY <2>3, <2>4
    <3>2. from + i - 1 = n + i
      BY <1>3, <2>1
    <3> QED
      BY <3>1, <3>2
  <2> QED
    BY <2>3, <2>4, <2>5
<1>8. PICK units : units = [i \in 1..n |-> taken[i].unit]
  OBVIOUS
<1>9. IsSeq(units) /\ Len(units) = n /\ \A i \in 1..n : units[i] = s[i].unit
  <2>1. units = [i \in 1..n |-> units[i]]
    BY <1>8
  <2> QED
    BY <1>3, <1>5, <1>8, <2>1, FunctionIsSeq
<1>10. DOMAIN taken = 1..n
  BY <1>5, LengthIsNat
<1>11. PICK fds : fds = FdsRead(t, taken, withFds)
  OBVIOUS
<1>12. \/ \E status : r = Result(status, t, s, <<>>, <<>>)
       \/ t.open /\ \E status : \/ r = Result(status, t, rest, units, fds)
                                \/ r = Result(status, CloseTransport(t), rest, units, fds)
  BY <1>2, <1>4, <1>5, <1>6, <1>8, <1>10, <1>11 DEF ReadUnits, InvalidRead
<1>13. ASSUME NEW status, r = Result(status, t, s, <<>>, <<>>)
       PROVE  r.units = <<>> /\ r.stream = s /\ r.t = t /\ r.fds = <<>>
  BY <1>13 DEF Result
<1>14. ASSUME NEW status, NEW u, r = Result(status, u, rest, units, fds)
       PROVE  r.units = units /\ r.stream = rest /\ r.t = u /\ r.fds = fds
  BY <1>14 DEF Result
<1>15. CASE r.units = <<>> /\ r.stream = s /\ r.t = t /\ r.fds = <<>>
  <2>1. IsSeq(<<>>) /\ Len(<<>>) = 0
    BY EmptySeq DEF IsSeq
  <2> QED
    BY <1>1, <1>15, <2>1 DEF TakesUnits
<1>16. CASE /\ t.open /\ r.units = units /\ r.stream = rest /\ r.fds = fds
            /\ r.t = t \/ r.t = CloseTransport(t)
  <2>1. TakesUnits(r, t, s, max)
    BY <1>3, <1>7, <1>9, <1>16 DEF TakesUnits
  <2>2. /\ ~withFds => fds = <<>>
        /\ withFds => fds = IF t.kind # "ip" /\ n > 0 THEN s[1].fds ELSE <<>>
    <3>1. taken # <<>> <=> n > 0
      BY <1>3, <1>5, LengthIsNat
    <3>2. n > 0 => taken[1] = s[1]
      BY <1>3, <1>5
    <3> QED
      BY <1>11, <3>1, <3>2 DEF FdsRead
  <2> QED
    BY <1>9, <1>16, <2>1, <2>2
<1> QED
  BY <1>12, <1>13, <1>14, <1>15, <1>16

\* What has been received of a message: some of its units, from the first on.
HoldsUnits(m) ==
  /\ IsSeq(m.buffer) /\ m.pos = Len(m.buffer)
  /\ \A i \in 1..m.pos : /\ IsUnit(m.buffer[i]) /\ m.buffer[i].at = i
                         /\ m.buffer[i].image = m.buffer[1].image
  /\ m.pos > 0 => IsImage(m.buffer[1].image) /\ m.pos <= Total(m.buffer[1].image)

Received(m, u) == m.buffer \o u

\* Units that are taken from a line as it should be, for the message that is received.
ContinuesWith(m, u, n) ==
  /\ HoldsUnits(n) /\ (m.pos > 0 => n.buffer[1].image = m.buffer[1].image)
  /\ \A i \in 1..Len(u) : u[i].at = m.pos + i /\ u[i].image = n.buffer[1].image

IsTakenFor(m, u) ==
  /\ Len(u) <= Wanted(m) /\ Chained(u, Len(u))
  /\ \A i \in 1..Len(u) : IsUnit(u[i])
  /\ Len(u) > 0 => Resumes(m, u[1])

LEMMA ReceivedUnits ==
  ASSUME NEW m, NEW u, NEW n, IsArriving(m), IsSeq(u), IsTakenFor(m, u),
         n.buffer = Received(m, u), n.pos = m.pos + Len(u)
  PROVE  ContinuesWith(m, u, n)
<1> SUFFICES /\ HoldsUnits(n) /\ (m.pos > 0 => n.buffer[1].image = m.buffer[1].image)
             /\ \A i \in 1..Len(u) : u[i].at = m.pos + i /\ u[i].image = n.buffer[1].image
  BY DEF ContinuesWith
<1>0. /\ Len(u) <= Wanted(m) /\ Chained(u, Len(u))
      /\ \A i \in 1..Len(u) : IsUnit(u[i])
      /\ Len(u) > 0 => Resumes(m, u[1])
  BY DEF IsTakenFor
<1>1. PICK b, k, l : b = n.buffer /\ k = m.pos /\ l = Len(u)
  OBVIOUS
<1>2. /\ k \in Nat /\ l \in Nat /\ Len(m.buffer) = k /\ n.pos = k + l
      /\ \A i \in 1..k : /\ IsUnit(m.buffer[i]) /\ m.buffer[i].at = i
                         /\ m.buffer[i].image = m.buffer[1].image
  BY <1>0, <1>1, LengthIsNat DEF IsArriving
<1>3. /\ IsSeq(b) /\ Len(b) = k + l /\ \A i \in 1..k : b[i] = m.buffer[i]
      /\ \A i \in 1..l : b[k + i] = u[i]
  <2>1. PICK q : q = m.buffer
    OBVIOUS
  <2>2. IsSeq(q) /\ b = q \o u
    BY <1>0, <1>1, <2>1 DEF IsArriving, Received
  <2>3. /\ IsSeq(b) /\ Len(b) = Len(q) + Len(u) /\ \A i \in 1..Len(q) : b[i] = q[i]
        /\ \A i \in 1..Len(u) : b[Len(q) + i] = u[i]
    BY <2>2, Joined
  <2> QED
    BY <1>0, <1>1, <1>2, <2>1, <2>3
<1>4. ASSUME k + l = 0 PROVE HoldsUnits(n) /\ k = 0 /\ l = 0
  <2>1. k = 0 /\ l = 0
    BY <1>2, <1>4
  <2> QED
    BY <1>0, <1>1, <1>2, <1>3, <2>1 DEF HoldsUnits
<1>5. ASSUME k + l > 0
      PROVE  /\ HoldsUnits(n) /\ (k > 0 => b[1].image = m.buffer[1].image)
             /\ \A i \in 1..l : u[i].at = k + i /\ u[i].image = b[1].image
  <2>1. PICK image : image = IF k = 0 THEN u[1].image ELSE m.buffer[1].image
    OBVIOUS
  <2>2. /\ IsImage(image) /\ k + l <= Total(image)
        /\ l > 0 => u[1].image = image /\ u[1].at = k + 1
    <3>1. CASE k = 0
      <4>1. l > 0 /\ l <= FixedLength /\ image = u[1].image /\ 1 \in 1..l
        <5>1. l <= FixedLength
          BY <1>0, <1>1, <3>1, WantedIsRest
        <5> QED
          BY <1>2, <1>5, <2>1, <3>1, <5>1
      <4>2. IsUnit(u[1]) /\ u[1].at = 1
        BY <1>0, <1>1, <3>1, <4>1 DEF Resumes
      <4>3. IsImage(image) /\ Total(image) \in Nat /\ FixedLength <= Total(image)
        BY <4>1, <4>2 DEF IsUnit, IsImage, Total, FixedLength
      <4>4. FixedLength \in Nat /\ k + l = l /\ k + 1 = 1
        BY <1>2, <3>1 DEF FixedLength
      <4>5. l <= Total(image)
        BY <1>2, <4>1, <4>3, <4>4
      <4> QED
        BY <4>1, <4>2, <4>3, <4>4, <4>5
    <3>2. CASE k > 0
      <4>1. image = m.buffer[1].image /\ l > 0 => u[1].image = image /\ u[1].at = k + 1
        BY <1>0, <1>1, <1>2, <2>1, <3>2 DEF Resumes
      <4>2. PICK w : w = Wanted(m)
        OBVIOUS
      <4>3. w \in Nat /\ l <= w /\ IsImage(image) /\ k + w <= Total(image)
        BY <1>0, <1>1, <2>1, <3>2, <4>2, WantedIsRest
      <4>4. Total(image) \in Nat
        BY <4>3 DEF IsImage, Total
      <4>5. k + l <= Total(image)
        BY <1>2, <4>3, <4>4
      <4>6. image = m.buffer[1].image
        BY <1>2, <2>1, <3>2
      <4> QED
        BY <4>1, <4>3, <4>5, <4>6
    <3> QED
      BY <1>2, <3>1, <3>2
  <2>3. \A i \in 1..l : u[i].image = image /\ u[i].at = k + i
    <3>1. Chained(u, l)
      BY <1>0, <1>1
    <3>2. IsImage(image) /\ k + l <= Total(image) /\ (l > 0 => u[1].image = image /\ u[1].at = k + 1)
      BY <2>2
    <3> QED
      BY <1>2, <3>1, <3>2, FollowersAreOfOneMessage
  <2>4. ASSUME NEW i \in 1..k + l PROVE IsUnit(b[i]) /\ b[i].at = i /\ b[i].image = image
    <3>1. CASE i <= k
      <4>1. i \in 1..k /\ k # 0
        BY <1>2, <3>1
      <4>2. image = m.buffer[1].image
        BY <2>1, <4>1
      <4> QED
        BY <1>2, <1>3, <4>1, <4>2
    <3>2. CASE i > k
      <4>1. PICK d : d = i - k
        OBVIOUS
      <4>2. d \in 1..l /\ k + d = i
        BY <1>2, <3>2, <4>1
      <4>3. b[k + d] = u[d] /\ IsUnit(u[d]) /\ u[d].image = image /\ u[d].at = k + d
        BY <1>0, <1>1, <1>3, <2>3, <4>2
      <4> QED
        BY <4>2, <4>3
    <3> QED
      BY <1>2, <3>1, <3>2
  <2>5. 1 \in 1..k + l
    BY <1>2, <1>5
  <2>6. b[1].image = image
    BY <2>4, <2>5
  <2>7. HoldsUnits(n)
    <3>1. \A i \in 1..n.pos : IsUnit(b[i]) /\ b[i].at = i /\ b[i].image = b[1].image
      BY <1>2, <2>4, <2>6
    <3>2. n.pos = Len(b) /\ IsImage(b[1].image) /\ n.pos <= Total(b[1].image)
      BY <1>2, <1>3, <2>2, <2>6
    <3> QED
      BY <1>0, <1>1, <1>3, <3>1, <3>2 DEF HoldsUnits
  <2>8. k > 0 => b[1].image = m.buffer[1].image
    BY <2>1, <2>6
  <2> QED
    BY <2>3, <2>6, <2>7, <2>8
<1>6. \/ k + l = 0
      \/ k + l > 0
  BY <1>2
<1>7. /\ HoldsUnits(n) /\ (k > 0 => b[1].image = m.buffer[1].image)
      /\ \A i \in 1..l : u[i].at = k + i /\ u[i].image = b[1].image
  BY <1>4, <1>5, <1>6
<1> QED
  BY <1>0, <1>1, <1>7

LEMMA WithUnitsDoes ==
  ASSUME NEW m, NEW r, NEW read, IsMessage(m), read = WithUnits(m, r)
  PROVE  /\ IsMessage(read) /\ read.state = m.state /\ read.dirty = m.dirty
         /\ read.headerLength = m.headerLength /\ read.bodyLength = m.bodyLength
         /\ read.buffer = Received(m, r.units) /\ read.pos = m.pos + Len(r.units)
         /\ read.room = Reserved(m.room, m.pos + Wanted(m))
<1>1. PICK b, p, n, f : /\ b = m.buffer \o r.units /\ p = m.pos + Len(r.units)
                        /\ n = Reserved(m.room, m.pos + Wanted(m))
                        /\ f = m.args.fds \o r.fds
  OBVIOUS
<1> DEFINE args == [m.args EXCEPT !.fds = f]
           x == [m EXCEPT !.buffer = b, !.room = n, !.pos = p, !.args = args]
<1>2. DOMAIN args = DOMAIN m.args /\ args.length = m.args.length
  BY Fields DEF IsMessage
<1>3. read = x
  BY <1>1 DEF WithUnits
<1> HIDE DEF args
<1>4. /\ DOMAIN x = DOMAIN m /\ x.args = args /\ x.state = m.state /\ x.dirty = m.dirty
      /\ x.headerLength = m.headerLength /\ x.bodyLength = m.bodyLength
      /\ x.buffer = b /\ x.pos = p /\ x.room = n
  BY Fields DEF IsMessage
<1> HIDE DEF x
<1>5. IsMessage(x)
  BY <1>2, <1>4 DEF IsMessage
<1> QED
  BY <1>1, <1>3, <1>4, <1>5 DEF Received

\* A message with the units that were just read, its headers not yet looked at, and what
\* looking at them makes of it.
IsRead(read) ==
  /\ IsMessage(read) /\ read.state = "Receiving" /\ read.dirty = TRUE /\ HoldsUnits(read)
  /\ read.room \in Nat /\ read.pos <= read.room
  /\ read.headerLength = 0 => read.pos <= FixedLength
  /\ read.headerLength # 0 =>
        /\ read.pos >= FixedLength
        /\ read.headerLength = read.buffer[1].image.headerLength
        /\ read.bodyLength = read.buffer[1].image.bodyLength
        /\ Total(read.buffer[1].image) <= MaxMessageLength

IsNext(read, next) ==
  /\ IsMessage(next) /\ next.dirty = TRUE
  /\ next.buffer = read.buffer /\ next.pos = read.pos
  /\ ~IsComplete(next) =>
        IsArriving(next) /\ (next.pos > 0 => next.pos < Total(next.buffer[1].image))
  /\ IsComplete(next) => /\ next.bodyLength \in Nat /\ next.pos > 0
                         /\ next.pos = Total(next.buffer[1].image)
  /\ next.headerLength # 0 =>
        /\ next.headerLength = next.buffer[1].image.headerLength
        /\ next.bodyLength = next.buffer[1].image.bodyLength
        /\ Total(next.buffer[1].image) <= MaxMessageLength

\* What the headers say is what the message is taken to be.
LEMMA WithHeadersDoes ==
  ASSUME NEW before, NEW read, NEW next,
         IsRead(read), HeadersOk(before, read), next = WithHeaders(before, read)
  PROVE  IsNext(read, next)
<1> SUFFICES /\ IsMessage(next) /\ next.dirty = TRUE
             /\ next.buffer = read.buffer /\ next.pos = read.pos
             /\ ~IsComplete(next) =>
                   IsArriving(next) /\ (next.pos > 0 => next.pos < Total(next.buffer[1].image))
             /\ IsComplete(next) => /\ next.bodyLength \in Nat /\ next.pos > 0
                                    /\ next.pos = Total(next.buffer[1].image)
             /\ next.headerLength # 0 =>
                   /\ next.headerLength = next.buffer[1].image.headerLength
                   /\ next.bodyLength = next.buffer[1].image.bodyLength
                   /\ Total(next.buffer[1].image) <= MaxMessageLength
  BY DEF IsNext
<1>0. /\ IsMessage(read) /\ read.state = "Receiving" /\ read.dirty = TRUE /\ HoldsUnits(read)
      /\ read.room \in Nat /\ read.pos <= read.room
      /\ read.headerLength = 0 => read.pos <= FixedLength
      /\ read.headerLength # 0 =>
             /\ read.pos >= FixedLength
             /\ read.headerLength = read.buffer[1].image.headerLength
             /\ read.bodyLength = read.buffer[1].image.bodyLength
             /\ Total(read.buffer[1].image) <= MaxMessageLength
  BY DEF IsRead
<1> USE <1>0
<1>1. PICK image : image = read.buffer[1].image
  OBVIOUS
<1>2. PICK fixed : fixed = IF BeginsWithFixed(read) THEN WithFixedHeaders(read) ELSE read
  OBVIOUS
<1>3. read.pos \in Nat
  BY LengthIsNat DEF HoldsUnits
<1>4. read.pos > 0 => IsImage(image) /\ read.pos <= Total(image)
  BY <1>1 DEF HoldsUnits
<1>5. /\ IsMessage(fixed) /\ fixed.state = "Receiving" /\ fixed.dirty = TRUE
      /\ fixed.buffer = read.buffer /\ fixed.pos = read.pos /\ fixed.room = read.room
      /\ fixed.headerLength = 0 => read.pos < FixedLength
      /\ fixed.headerLength # 0 =>
             /\ read.pos >= FixedLength
             /\ fixed.headerLength = image.headerLength /\ fixed.bodyLength = image.bodyLength
             /\ Total(image) <= MaxMessageLength
  <2>1. CASE BeginsWithFixed(read)
    <3>1. image.flaw # "endianness" /\ Total(image) <= MaxMessageLength
      BY <1>1, <2>1 DEF HeadersOk, FixedHeadersOk, FirstImage, Total
    <3>2. read.pos >= FixedLength /\ IsImage(image) /\ image.headerLength # 0
      BY <1>3, <1>4, <2>1 DEF BeginsWithFixed, FixedLength, IsImage
    <3>3. fixed = WithFixedHeaders(read)
      BY <1>2, <2>1
    <3>4. image = FirstImage(read)
      BY <1>1 DEF FirstImage
    <3>5. /\ IsMessage(fixed) /\ fixed.state = read.state /\ fixed.dirty = read.dirty
          /\ fixed.buffer = read.buffer /\ fixed.pos = read.pos /\ fixed.room = read.room
          /\ fixed.headerLength = image.headerLength /\ fixed.bodyLength = image.bodyLength
      BY <3>1, <3>3, <3>4, WithFixedHeadersDoes
    <3> QED
      BY <3>1, <3>2, <3>5
  <2>2. CASE ~BeginsWithFixed(read)
    <3>1. fixed = read
      BY <1>2, <2>2
    <3>2. read.headerLength = 0 => read.pos < FixedLength
      BY <1>3, <2>2 DEF BeginsWithFixed, FixedLength
    <3> QED
      BY <1>1, <3>1, <3>2
  <2> QED
    BY <2>1, <2>2
<1>6. /\ IsMessage(next) /\ next.state = "Receiving" /\ next.dirty = TRUE
      /\ next.buffer = read.buffer /\ next.pos = read.pos /\ next.room = read.room
      /\ next.headerLength = fixed.headerLength /\ next.bodyLength = fixed.bodyLength
  <2>1. next = fixed \/ next = WithVariableHeaders(fixed)
    BY <1>2 DEF WithHeaders
  <2> QED
    BY <1>5, <2>1, WithVariableHeadersDoes
<1>7. ASSUME IsComplete(next)
      PROVE  /\ next.bodyLength \in Nat /\ next.pos > 0
             /\ next.pos = Total(next.buffer[1].image)
  <2>1. next.headerLength # 0 /\ next.pos >= next.headerLength + next.bodyLength
    BY <1>7 DEF IsComplete
  <2>2. /\ read.pos >= FixedLength /\ Total(image) <= read.pos
        /\ next.bodyLength = image.bodyLength
    BY <1>5, <1>6, <2>1 DEF Total
  <2>3. read.pos > 0
    BY <1>3, <2>2 DEF FixedLength
  <2>4. IsImage(image) /\ read.pos <= Total(image) /\ Total(image) \in Nat
    BY <1>4, <2>3 DEF IsImage, Total
  <2>5. read.pos = Total(image)
    BY <1>3, <2>2, <2>4
  <2>6. next.bodyLength \in Nat
    BY <2>2, <2>4 DEF IsImage
  <2> QED
    BY <1>1, <1>6, <2>3, <2>5, <2>6
<1>8. ASSUME ~IsComplete(next)
      PROVE  IsArriving(next) /\ (next.pos > 0 => next.pos < Total(next.buffer[1].image))
  <2>1. next.headerLength # 0 => read.pos < Total(image)
    <3> SUFFICES ASSUME next.headerLength # 0 PROVE read.pos < Total(image)
      OBVIOUS
    <3>1. /\ read.pos >= FixedLength /\ next.headerLength = image.headerLength
          /\ next.bodyLength = image.bodyLength
      BY <1>5, <1>6
    <3>2. IsImage(image) /\ Total(image) \in Nat
      BY <1>3, <1>4, <3>1 DEF IsImage, Total, FixedLength
    <3>3. next.headerLength > 0
      BY <3>1, <3>2 DEF IsImage, FixedLength
    <3>4. ~(next.pos >= next.headerLength + next.bodyLength)
      BY <1>8, <3>3 DEF IsComplete
    <3>5. next.headerLength + next.bodyLength = Total(image)
      BY <3>1 DEF Total
    <3> QED
      BY <1>3, <1>6, <3>2, <3>4, <3>5
  <2>2. next.headerLength = 0 => read.pos < FixedLength
    BY <1>5, <1>6
  <2>3. read.pos > 0 => read.pos < Total(image)
    <3>1. read.pos > 0 => Total(image) \in Nat /\ Total(image) >= FixedLength
      BY <1>4 DEF IsImage, Total, FixedLength
    <3>2. FixedLength \in Nat
      BY DEF FixedLength
    <3> QED
      BY <1>3, <2>1, <2>2, <3>1, <3>2
  <2>4. IsArriving(next)
    <3>1. next.headerLength # 0 =>
             /\ next.pos >= FixedLength /\ next.pos < Total(next.buffer[1].image)
             /\ next.headerLength = next.buffer[1].image.headerLength
             /\ next.bodyLength = next.buffer[1].image.bodyLength
             /\ Total(next.buffer[1].image) <= MaxMessageLength
      BY <1>1, <1>5, <1>6, <2>1
    <3>2. /\ IsSeq(next.buffer) /\ next.pos = Len(next.buffer)
          /\ \A i \in 1..next.pos : /\ IsUnit(next.buffer[i]) /\ next.buffer[i].at = i
                                    /\ next.buffer[i].image = next.buffer[1].image
      BY <1>6 DEF HoldsUnits
    <3> QED
      BY <1>6, <2>2, <3>1, <3>2 DEF IsArriving
  <2> QED
    BY <1>1, <1>6, <2>3, <2>4
<1>9. next.headerLength # 0 =>
         /\ next.headerLength = image.headerLength /\ next.bodyLength = image.bodyLength
         /\ Total(image) <= MaxMessageLength
  BY <1>5, <1>6
<1> QED
  BY <1>1, <1>6, <1>7, <1>8, <1>9

\* z is what is left of the line s when its first k units are taken.
IsRestAfter(z, s, k) ==
  IsSeq(z) /\ Len(z) = Len(s) - k /\ \A i \in 1..Len(z) : z[i] = s[k + i]

\* The message n, which e now receives into, goes on where the k-th unit of its line ends.
GoesOn(e, k, n) ==
  /\ \A v : (IF k = 0 THEN Resumes(in[e], v) ELSE Follows(stream[e][k].unit, v))
                => Resumes(n, v)
  /\ (IF k = 0 THEN in[e].pos = 0
      ELSE stream[e][k].unit.at = Total(stream[e][k].unit.image)) => n.pos = 0

\* A step leaves the end of a line that is still open where it was.
KeepsEnd(e) ==
  transport'[e].open => /\ \A v : Continues(e, v) => Continues(e, v)'
                        /\ Boundary(e) => Boundary(e)'

\* The first k units of a line are taken from it.
LEMMA TakenLine ==
  ASSUME NEW e \in End, NEW k \in Nat, NEW z, NEW n, StreamOK(e), LineOK(e),
         k <= Len(stream[e]), stream'[e] = z, in'[e] = n, IsRestAfter(z, stream[e], k),
         transport'[e].open => transport[e].open,
         transport'[e].open => GoesOn(e, k, n)
  PROVE  StreamOK(e)' /\ LineOK(e)' /\ KeepsEnd(e)
<1> DEFINE s == stream[e]
<1>0. /\ IsSeq(z) /\ Len(z) = Len(s) - k /\ \A i \in 1..Len(z) : z[i] = s[k + i]
      /\ transport'[e].open =>
            /\ \A v : (IF k = 0 THEN Resumes(in[e], v) ELSE Follows(s[k].unit, v))
                          => Resumes(n, v)
            /\ (IF k = 0 THEN in[e].pos = 0 ELSE s[k].unit.at = Total(s[k].unit.image))
                  => n.pos = 0
  BY DEF IsRestAfter, GoesOn
<1>1. /\ Len(s) \in Nat /\ Len(z) \in Nat /\ (s = <<>> <=> Len(s) = 0) /\ (z = <<>> <=> Len(z) = 0)
      /\ IsSeq(s) /\ Len(s) <= Capacity /\ \A i \in 1..Len(s) : IsUnit(s[i].unit)
  BY <1>0, LengthIsNat DEF StreamOK
<1>2. /\ k \in Nat /\ k <= Len(s) /\ Len(z) = Len(s) - k
      /\ \A i \in 1..Len(z) : z[i] = s[k + i]
  BY <1>0
<1> HIDE DEF s
<1>3. Len(z) <= Capacity
  BY <1>1, <1>2, CapacityAssumption
<1>4. StreamOK(e)'
  <2>1. ASSUME NEW i \in 1..Len(z) PROVE IsUnit(z[i].unit)
    <3>1. PICK j : j = k + i
      OBVIOUS
    <3>2. j \in 1..Len(s) /\ z[i] = s[j]
      BY <1>1, <1>2, <3>1
    <3> QED
      BY <1>1, <3>2
  <2> QED
    BY <1>0, <1>3, <2>1 DEF StreamOK
<1>5. z # <<>> => z[Len(z)] = s[Len(s)] /\ s # <<>>
  <2> SUFFICES ASSUME z # <<>> PROVE z[Len(z)] = s[Len(s)] /\ s # <<>>
    OBVIOUS
  <2>1. PICK i : i = Len(z)
    OBVIOUS
  <2>2. i \in 1..Len(z) /\ k + i = Len(s)
    BY <1>1, <1>2, <2>1
  <2> QED
    BY <1>1, <1>2, <2>1, <2>2
<1>6. z = <<>> => k = Len(s)
  BY <1>1, <1>2
<1>7. LineOK(e)'
  <2> SUFFICES ASSUME transport'[e].open
               PROVE  /\ z # <<>> => Resumes(n, z[1].unit)
                      /\ \A i \in 1..Len(z) - 1 : Follows(z[i].unit, z[i + 1].unit)
    BY DEF LineOK
  <2>1. /\ s # <<>> => Resumes(in[e], s[1].unit)
        /\ \A i \in 1..Len(s) - 1 : Follows(s[i].unit, s[i + 1].unit)
    BY DEF LineOK, s
  <2>2. ASSUME z # <<>> PROVE Resumes(n, z[1].unit)
    <3>1. PICK j : j = k + 1
      OBVIOUS
    <3>2. 1 \in 1..Len(z) /\ j \in 1..Len(s) /\ s # <<>>
      BY <1>1, <1>2, <2>2, <3>1
    <3>3. z[1] = s[j]
      BY <1>2, <3>1, <3>2
    <3>4. PICK v : v = z[1].unit
      OBVIOUS
    <3>5. CASE k = 0
      <4>1. j = 1 /\ Resumes(in[e], v)
        BY <2>1, <3>1, <3>2, <3>3, <3>4, <3>5
      <4> QED
        BY <1>0, <3>4, <3>5, <4>1
    <3>6. CASE k # 0
      <4>1. k \in 1..Len(s) - 1
        BY <1>1, <1>2, <3>1, <3>2, <3>6
      <4>2. Follows(s[k].unit, v)
        BY <2>1, <3>1, <3>3, <3>4, <4>1
      <4> QED
        BY <1>0, <3>4, <3>6, <4>2
    <3> QED
      BY <3>5, <3>6
  <2>3. ASSUME NEW i \in 1..Len(z) - 1 PROVE Follows(z[i].unit, z[i + 1].unit)
    <3>1. PICK j, i1, j1 : j = k + i /\ i1 = i + 1 /\ j1 = j + 1
      OBVIOUS
    <3>0. PICK ls, lz : ls = Len(s) /\ lz = Len(z)
      OBVIOUS
    <3>n. ls \in Nat /\ lz \in Nat /\ lz = ls - k /\ i \in 1..lz - 1
      BY <1>1, <1>2, <3>0
    <3>m. j \in 1..ls - 1 /\ i \in 1..lz /\ i1 \in 1..lz /\ k + i1 = j1
      BY <3>1, <3>n
    <3>2. /\ j \in 1..Len(s) - 1 /\ i \in 1..Len(z) /\ i1 \in 1..Len(z) /\ k + i1 = j1
      BY <3>0, <3>m
    <3>3. z[i] = s[j] /\ z[i1] = s[j1]
      BY <1>2, <3>1, <3>2
    <3>4. Follows(s[j].unit, s[j1].unit)
      BY <2>1, <3>1, <3>2
    <3> QED
      BY <3>1, <3>3, <3>4
  <2> QED
    BY <2>2, <2>3
<1>8. ASSUME transport'[e].open, NEW v, Continues(e, v) PROVE Continues(e, v)'
  <2>1. CASE z # <<>>
    <3>1. Follows(s[Len(s)].unit, v)
      BY <1>5, <1>8, <2>1 DEF Continues, s
    <3> QED
      BY <1>5, <2>1, <3>1 DEF Continues
  <2>2. CASE z = <<>>
    <3>1. IF k = 0 THEN Resumes(in[e], v) ELSE Follows(s[k].unit, v)
      BY <1>1, <1>6, <1>8, <2>2 DEF Continues, s
    <3>2. Resumes(n, v)
      BY <1>0, <1>8, <3>1
    <3> QED
      BY <2>2, <3>2 DEF Continues
  <2> QED
    BY <2>1, <2>2
<1>9. ASSUME transport'[e].open, Boundary(e) PROVE Boundary(e)'
  <2>1. CASE z # <<>>
    <3>1. s[Len(s)].unit.at = Total(s[Len(s)].unit.image)
      BY <1>5, <1>9, <2>1 DEF Boundary, s
    <3> QED
      BY <1>5, <2>1, <3>1 DEF Boundary
  <2>2. CASE z = <<>>
    <3>1. IF k = 0 THEN in[e].pos = 0 ELSE s[k].unit.at = Total(s[k].unit.image)
      BY <1>1, <1>6, <1>9, <2>2 DEF Boundary, s
    <3>2. n.pos = 0
      BY <1>0, <1>9, <3>1
    <3> QED
      BY <2>2, <3>2 DEF Boundary
  <2> QED
    BY <2>1, <2>2
<1> QED
  BY <1>4, <1>7, <1>8, <1>9 DEF KeepsEnd

\* The message an end receives and the stream toward it change, and what it sends or its
\* transport when it closes.
LEMMA ReceiverInv ==
  ASSUME Inv, NEW e \in End, NEW n, NEW t, NEW m, NEW z, NEW d,
         in' = [in EXCEPT ![e] = n], transport' = [transport EXCEPT ![e] = t],
         out' = [out EXCEPT ![e] = m], stream' = [stream EXCEPT ![e] = z],
         delivered' = [delivered EXCEPT ![e] = d], DeliveredOK(e)',
         IsArriving(n), StreamOK(e)', LineOK(e)',
         DOMAIN t = DOMAIN transport[e], t.open \in BOOLEAN, t.open => transport[e].open,
         \/ m = out[e] /\ t.write = transport[e].write
         \/ m.state = "none" /\ t.write = None /\ ~t.open,
         KeepsEnd(e)
  PROVE  Inv'
<1>1. PICK p : p = Peer(e)
  OBVIOUS
<1>2. p \in End /\ p # e /\ Peer(p) = e /\ \A l \in End : l = e \/ l = p
  BY <1>1 DEF End, Peer
<1>3. /\ in'[e] = n /\ transport'[e] = t /\ out'[e] = m /\ stream'[e] = z
      /\ in'[p] = in[p] /\ transport'[p] = transport[p] /\ out'[p] = out[p]
      /\ stream'[p] = stream[p] /\ delivered'[p] = delivered[p]
  BY <1>2 DEF Inv, Tables
<1>4. Tables'
  BY DEF Inv, Tables
<1>5. WatchInv'
  <2>1. \A l \in End : TransportOK(l)'
    BY <1>2, <1>3 DEF Inv, WatchInv, TransportOK
  <2>2. \A l \in End : OutOK(l)'
    BY <1>2, <1>3 DEF Inv, WatchInv, OutOK
  <2>3. \A l \in End : DeliveredOK(l)'
    <3>1. DeliveredOK(p)'
      BY <1>2, <1>3 DEF Inv, WatchInv, DeliveredOK
    <3> QED
      BY <1>2, <3>1
  <2>4. SendingIsWatched'
    BY <1>2, <1>3 DEF Inv, WatchInv, SendingIsWatched
  <2> QED
    BY <2>1, <2>2, <2>3, <2>4 DEF WatchInv
<1>6. LineInv(e) /\ LineInv(p)
  BY <1>2 DEF Inv
<1>7. LineInv(e)'
  <2>1. TailOK(e)'
    <3> SUFFICES ASSUME t.open, transport[p].open
                 PROVE  IF out[p].state = "Sending" /\ out[p].pos < Len(out[p].buffer)
                        THEN Continues(e, out[p].buffer[out[p].pos + 1])'
                        ELSE Boundary(e)'
      BY <1>1, <1>3 DEF TailOK, Continues
    <3>1. IF out[p].state = "Sending" /\ out[p].pos < Len(out[p].buffer)
          THEN Continues(e, out[p].buffer[out[p].pos + 1])
          ELSE Boundary(e)
      BY <1>1, <1>6 DEF LineInv, TailOK
    <3>2. /\ \A v : Continues(e, v) => Continues(e, v)'
          /\ Boundary(e) => Boundary(e)'
      BY <1>3 DEF KeepsEnd
    <3> QED
      BY <3>1, <3>2
  <2> QED
    BY <1>3, <2>1 DEF LineInv
<1>8. LineInv(p)'
  <2>1. IsArriving(in[p])' /\ StreamOK(p)' /\ LineOK(p)'
    BY <1>2, <1>3, <1>6, LineKept DEF LineInv
  <2>2. TailOK(p)'
    <3>1. CASE out'[e] = out[e]
      BY <1>2, <1>3, <1>6, <3>1, TailKept DEF LineInv
    <3>2. CASE ~t.open
      BY <1>2, <1>3, <3>2 DEF TailOK
    <3> QED
      BY <1>3, <3>1, <3>2
  <2> QED
    BY <2>1, <2>2 DEF LineInv
<1> QED
  BY <1>2, <1>4, <1>5, <1>7, <1>8 DEF Inv

LEMMA HandOverDoes ==
  ASSUME Inv, NEW e \in End, NEW x, HandOver(e, x), IsReady(x), x.dirty
  PROVE  /\ DeliveredOK(e)' /\ in' = [in EXCEPT ![e] = Receiving]
         /\ \E d : delivered' = [delivered EXCEPT ![e] = d]
<1>1. PICK q : q = delivered[e]
  OBVIOUS
<1>2. IsSeq(q) /\ Len(q) \in Nat /\ \A i \in 1..Len(q) : IsReady(q[i]) /\ q[i].dirty
  BY <1>1, LengthIsNat DEF Inv, WatchInv, DeliveredOK
<1>3. /\ in' = [in EXCEPT ![e] = Receiving]
      /\ \/ delivered' = delivered
         \/ delivered' = [delivered EXCEPT ![e] = Append(@, x)]
  BY DEF HandOver
<1>4. CASE delivered' = delivered
  <2>1. delivered' = [delivered EXCEPT ![e] = q]
    BY <1>1, <1>4 DEF Inv, Tables
  <2>2. DeliveredOK(e)'
    BY <1>1, <1>2, <1>4 DEF DeliveredOK
  <2> QED
    BY <1>3, <2>1, <2>2
<1>5. CASE delivered' = [delivered EXCEPT ![e] = Append(@, x)]
  <2>1. PICK d : d = Append(q, x)
    OBVIOUS
  <2>2. /\ IsSeq(d) /\ Len(d) = Len(q) + 1 /\ \A i \in 1..Len(q) : d[i] = q[i]
        /\ d[Len(q) + 1] = x
    BY <1>2, <2>1, Appended
  <2>3. ASSUME NEW i \in 1..Len(d) PROVE IsReady(d[i]) /\ d[i].dirty
    <3>1. CASE i = Len(q) + 1
      BY <2>2, <3>1
    <3>2. CASE i # Len(q) + 1
      <4>1. i \in 1..Len(q)
        BY <1>2, <2>2, <3>2
      <4>2. d[i] = q[i]
        BY <2>2, <4>1
      <4> QED
        BY <1>2, <4>1, <4>2
    <3> QED
      BY <3>1, <3>2
  <2>4. delivered' = [delivered EXCEPT ![e] = d] /\ delivered'[e] = d
    BY <1>1, <1>5, <2>1 DEF Inv, Tables
  <2>5. DeliveredOK(e)'
    BY <2>2, <2>3, <2>4 DEF DeliveredOK
  <2> QED
    BY <1>3, <2>4, <2>5
<1> QED
  BY <1>3, <1>4, <1>5

\* What an iteration does once it has read.
Iteration(e, m, r, read, next) ==
  /\ busy[e] = "reading" \/ (Idle(e) /\ Readable(e))
  /\ m.state = "Receiving"
  /\ stream' = [stream EXCEPT ![e] = r.stream]
  /\ \/ /\ ~HeadersOk(m, read)
        /\ Abandon(e, read, "MalformedReply")
     \/ /\ HeadersOk(m, read) /\ IsComplete(next)
        /\ HandOver(e, WithBody(next, next.args.fds))
        /\ transport' = [transport EXCEPT ![e] = r.t]
        /\ UNCHANGED out
     \/ /\ HeadersOk(m, read) /\ ~IsComplete(next) /\ ~r.t.open
        /\ Abandon(e, next, "RemoteDisconnect")
     \/ /\ HeadersOk(m, read) /\ ~IsComplete(next) /\ r.t.open
        /\ in' = [in EXCEPT ![e] = next]
        /\ busy' = [busy EXCEPT ![e] = IF r.status = "OK" THEN "reading" ELSE "no"]
        /\ transport' = [transport EXCEPT ![e] = r.t]
        /\ UNCHANGED <<out, delivered>>
  /\ UNCHANGED <<sent, begun, edits>>

\* What is known of an iteration once it has read: the units r.units of the line, for the
\* message m, are now in read, and next is what their headers make of it.
HasRead(e, m, r, read, next) ==
  /\ m = in[e] /\ read = WithUnits(m, r)
  /\ next = IF HeadersOk(m, read) THEN WithHeaders(m, read) ELSE read
  /\ TakesUnits(r, transport[e], stream[e], Wanted(m))
  /\ r.fds = IF m.pos = 0 /\ transport[e].kind # "ip" /\ Len(r.units) > 0
             THEN stream[e][1].fds ELSE <<>>
  /\ IsRead(read) /\ ContinuesWith(m, r.units, read) /\ read.pos = m.pos + Len(r.units)
  /\ HeadersOk(m, read) => IsNext(read, next)

LEMMA ReadStepReads ==
  ASSUME Inv, NEW e \in End, ReadStep(e)
  PROVE  \E m, r, read, next : HasRead(e, m, r, read, next) /\ Iteration(e, m, r, read, next)
<1>a. \E m \in {in[e]} :
      \E r \in {ReadUnits(transport[e], stream[e], ~transport[Peer(e)].open, Wanted(m),
                         m.pos = 0)} :
      \E read \in {WithUnits(m, r)} :
      \E next \in {IF HeadersOk(m, read) THEN WithHeaders(m, read) ELSE read} :
          Iteration(e, m, r, read, next)
  BY DEF ReadStep, Iteration
<1>b. PICK m : /\ m = in[e]
               /\ \E r \in {ReadUnits(transport[e], stream[e], ~transport[Peer(e)].open,
                                      Wanted(m), m.pos = 0)} :
                  \E read \in {WithUnits(m, r)} :
                  \E next \in {IF HeadersOk(m, read) THEN WithHeaders(m, read) ELSE read} :
                      Iteration(e, m, r, read, next)
  BY <1>a, Zenon
<1>c. PICK ended, first : ended = (~transport[Peer(e)].open) /\ first = (m.pos = 0)
  BY Zenon
<1>d. PICK r : /\ r = ReadUnits(transport[e], stream[e], ended, Wanted(m), first)
               /\ \E read \in {WithUnits(m, r)} :
                  \E next \in {IF HeadersOk(m, read) THEN WithHeaders(m, read) ELSE read} :
                      Iteration(e, m, r, read, next)
  BY <1>b, <1>c, Zenon
<1>1. PICK read, next : /\ m = in[e] /\ read = WithUnits(m, r)
                        /\ r = ReadUnits(transport[e], stream[e], ended, Wanted(m), first)
                        /\ next = IF HeadersOk(m, read) THEN WithHeaders(m, read) ELSE read
                        /\ Iteration(e, m, r, read, next)
  BY <1>b, <1>d, Zenon
<1>3. PICK s, tr, w, u, k, z : /\ s = stream[e] /\ tr = transport[e] /\ w = Wanted(m)
                               /\ u = r.units /\ k = Len(u) /\ z = r.stream
  OBVIOUS
<1>4. /\ IsArriving(m) /\ StreamOK(e) /\ LineOK(e) /\ IsSeq(s) /\ Len(s) \in Nat
      /\ \A i \in 1..Len(s) : IsUnit(s[i].unit)
  BY <1>1, <1>3, LengthIsNat DEF Inv, LineInv, StreamOK
<1>5. /\ w \in Nat \ {0} /\ m.pos \in Nat /\ m.pos + w <= LargestBuffer
      /\ m.pos = 0 => w = FixedLength
  BY <1>3, <1>4, WantedIsRest
<1>6. /\ TakesUnits(r, tr, s, w)
      /\ r.fds = IF m.pos = 0 /\ tr.kind # "ip" /\ Len(r.units) > 0 THEN s[1].fds ELSE <<>>
  <2>1. r = ReadUnits(tr, s, ended, w, first)
    BY <1>1, <1>3
  <2>2. IsSeq(s) /\ w \in Nat \ {0}
    BY <1>4, <1>5
  <2>3. /\ TakesUnits(r, tr, s, w)
        /\ ~first => r.fds = <<>>
        /\ first => r.fds = IF tr.kind # "ip" /\ Len(r.units) > 0 THEN s[1].fds ELSE <<>>
    BY <2>1, <2>2, ReadUnitsDoes
  <2>4. first <=> m.pos = 0
    BY <1>c, <1>1, Zenon
  <2> QED
    BY <2>3, <2>4
<1>7. /\ IsSeq(u) /\ k \in Nat /\ k <= w /\ k <= Len(s)
      /\ \A i \in 1..k : u[i] = s[i].unit
      /\ ~tr.open => k = 0
  BY <1>3, <1>6, LengthIsNat DEF TakesUnits
<1>8. /\ \A i \in 1..k : IsUnit(u[i])
      /\ k > 0 => Resumes(m, u[1])
      /\ Chained(u, k)
  <2>1. \A i \in 1..k : IsUnit(u[i])
    <3> TAKE i \in 1..k
    <3>1. i \in 1..Len(s)
      BY <1>4, <1>7
    <3> QED
      BY <1>4, <1>7, <3>1
  <2>2. ASSUME k > 0 PROVE Resumes(m, u[1])
    <3>1. s # <<>> /\ tr.open
      BY <1>4, <1>7, <2>2, LengthIsNat, Inv DEF Inv, WatchInv, TransportOK
    <3>2. Resumes(m, s[1].unit)
      BY <1>1, <1>3, <1>4, <3>1 DEF LineOK
    <3>3. 1 \in 1..k
      BY <1>7, <2>2
    <3> QED
      BY <1>7, <3>2, <3>3
  <2>3. ASSUME NEW i \in 1..k - 1 PROVE Follows(u[i], u[i + 1])
    <3>1. PICK j : j = i + 1
      OBVIOUS
    <3>2. i \in 1..k /\ j \in 1..k /\ i \in 1..Len(s) - 1 /\ k # 0
      BY <1>4, <1>7, <3>1
    <3>3. Follows(s[i].unit, s[j].unit)
      BY <1>3, <1>4, <1>7, <3>1, <3>2 DEF LineOK
    <3> QED
      BY <1>7, <3>1, <3>2, <3>3
  <2> QED
    BY <2>1, <2>2, <2>3 DEF Chained
<1>9. /\ IsMessage(read) /\ read.state = "Receiving" /\ read.dirty = TRUE
      /\ read.headerLength = m.headerLength /\ read.bodyLength = m.bodyLength
      /\ read.buffer = Received(m, u) /\ read.pos = m.pos + k
      /\ read.room = Reserved(m.room, m.pos + w)
  <2>1. IsMessage(m) /\ m.state = "Receiving" /\ m.dirty = TRUE
    BY <1>4 DEF IsArriving
  <2>2. read = WithUnits(m, r)
    BY <1>1
  <2>3. /\ IsMessage(read) /\ read.state = m.state /\ read.dirty = m.dirty
        /\ read.headerLength = m.headerLength /\ read.bodyLength = m.bodyLength
        /\ read.buffer = Received(m, r.units) /\ read.pos = m.pos + Len(r.units)
        /\ read.room = Reserved(m.room, m.pos + Wanted(m))
    BY <2>1, <2>2, WithUnitsDoes
  <2> QED
    BY <1>3, <2>1, <2>3, Zenon
<1>10. /\ ContinuesWith(m, u, read)
       /\ HoldsUnits(read) /\ (m.pos > 0 => read.buffer[1].image = m.buffer[1].image)
  <2>1. Len(u) <= Wanted(m) /\ read.pos = m.pos + Len(u) /\ Chained(u, Len(u))
    BY <1>3, <1>7, <1>8, <1>9
  <2>2. (\A i \in 1..Len(u) : IsUnit(u[i])) /\ (Len(u) > 0 => Resumes(m, u[1]))
    BY <1>3, <1>8
  <2>3. IsArriving(m) /\ IsSeq(u) /\ read.buffer = Received(m, u)
    BY <1>4, <1>7, <1>9
  <2>4. IsTakenFor(m, u)
    BY <2>1, <2>2 DEF IsTakenFor
  <2>5. read.pos = m.pos + Len(u)
    BY <2>1
  <2>6. ContinuesWith(m, u, read)
    BY <2>3, <2>4, <2>5, ReceivedUnits
  <2> QED
    BY <1>3, <2>6 DEF ContinuesWith
<1>11. read.room \in Nat /\ read.pos <= read.room
  <2>1. PICK n, room : n = m.pos + w /\ room = m.room
    OBVIOUS
  <2>2. n \in Nat /\ room \in Nat /\ n <= LargestBuffer
    BY <1>4, <1>5, <2>1 DEF IsArriving
  <2>3. Reserved(room, n) \in Nat /\ Reserved(room, n) >= n
    BY <2>2, ReservedIsEnough
  <2> QED
    BY <1>5, <1>7, <1>9, <2>1, <2>3
<1>12. read.headerLength = 0 => read.pos <= FixedLength
  <2> SUFFICES ASSUME read.headerLength = 0 PROVE read.pos <= FixedLength
    OBVIOUS
  <2>1. w = FixedLength - m.pos
    BY <1>3, <1>9 DEF Wanted
  <2> QED
    BY <1>5, <1>7, <1>9, <2>1 DEF FixedLength
<1>13. read.headerLength # 0 =>
             /\ read.pos >= FixedLength
             /\ read.headerLength = read.buffer[1].image.headerLength
             /\ read.bodyLength = read.buffer[1].image.bodyLength
             /\ Total(read.buffer[1].image) <= MaxMessageLength
  <2> SUFFICES ASSUME m.headerLength # 0
               PROVE  /\ read.pos >= FixedLength
                      /\ read.headerLength = read.buffer[1].image.headerLength
                      /\ read.bodyLength = read.buffer[1].image.bodyLength
                      /\ Total(read.buffer[1].image) <= MaxMessageLength
    BY <1>9
  <2>1. /\ m.pos >= FixedLength /\ m.headerLength = m.buffer[1].image.headerLength
        /\ m.bodyLength = m.buffer[1].image.bodyLength
        /\ Total(m.buffer[1].image) <= MaxMessageLength
    BY <1>4 DEF IsArriving
  <2>2. m.pos > 0 /\ read.pos >= FixedLength
    BY <1>5, <1>7, <1>9, <2>1 DEF FixedLength
  <2> QED
    BY <1>9, <1>10, <2>1, <2>2
<1>14. IsRead(read)
  BY <1>9, <1>10, <1>11, <1>12, <1>13 DEF IsRead
<1>15. HeadersOk(m, read) => IsNext(read, next)
  <2> SUFFICES ASSUME HeadersOk(m, read) PROVE IsNext(read, next)
    OBVIOUS
  <2>1. next = WithHeaders(m, read)
    BY <1>1
  <2> QED
    BY <1>14, <2>1, WithHeadersDoes
<1>16. HasRead(e, m, r, read, next)
  BY <1>1, <1>3, <1>6, <1>9, <1>10, <1>14, <1>15 DEF HasRead
<1> QED
  BY <1>1, <1>16

LEMMA ReadStepInv ==
  ASSUME Inv, NEW e \in End, ReadStep(e) PROVE Inv'
<1>1. PICK m, r, read, next : HasRead(e, m, r, read, next) /\ Iteration(e, m, r, read, next)
  BY ReadStepReads
<1>2. /\ stream' = [stream EXCEPT ![e] = r.stream]
      /\ \/ ~HeadersOk(m, read) /\ Abandon(e, read, "MalformedReply")
         \/ /\ HeadersOk(m, read) /\ IsComplete(next)
            /\ HandOver(e, WithBody(next, next.args.fds))
            /\ transport' = [transport EXCEPT ![e] = r.t] /\ UNCHANGED out
         \/ /\ HeadersOk(m, read) /\ ~IsComplete(next) /\ Abandon(e, next, "RemoteDisconnect")
         \/ /\ HeadersOk(m, read) /\ ~IsComplete(next)
            /\ in' = [in EXCEPT ![e] = next] /\ transport' = [transport EXCEPT ![e] = r.t]
            /\ UNCHANGED <<out, delivered>>
  BY <1>1, Zenon DEF Iteration
<1>3. PICK s, tr, w, u, k, z : /\ s = stream[e] /\ tr = transport[e] /\ w = Wanted(m)
                               /\ u = r.units /\ k = Len(u) /\ z = r.stream
  OBVIOUS
<1>a. /\ m = in[e] /\ TakesUnits(r, tr, s, w) /\ IsRead(read) /\ ContinuesWith(m, u, read)
      /\ read.pos = m.pos + k
      /\ HeadersOk(m, read) => IsNext(read, next)
  BY <1>1, <1>3 DEF HasRead
<1>4. IsArriving(m) /\ StreamOK(e) /\ LineOK(e) /\ IsSeq(s) /\ Len(s) \in Nat
  BY <1>3, <1>a, LengthIsNat DEF Inv, LineInv, StreamOK
<1>5. w \in Nat \ {0} /\ m.pos \in Nat
  BY <1>3, <1>4, WantedIsRest
<1>6. /\ IsSeq(u) /\ k \in Nat /\ k <= w /\ k <= Len(s)
      /\ \A i \in 1..k : u[i] = s[i].unit
      /\ IsRestAfter(z, s, k)
      /\ r.t = tr \/ r.t = CloseTransport(tr)
  BY <1>3, <1>a, LengthIsNat DEF TakesUnits, IsRestAfter
<1>7. /\ DOMAIN r.t = DOMAIN tr /\ r.t.open \in BOOLEAN /\ (r.t.open => tr.open)
      /\ r.t.write = tr.write
  <2>1. DOMAIN tr = {"kind", "open", "read", "write", "fdsPerMessage"} /\ tr.open \in BOOLEAN
    BY <1>3 DEF Inv, WatchInv, TransportOK
  <2> QED
    BY <1>6, <2>1 DEF CloseTransport
<1>9. IsMessage(read) /\ read.dirty = TRUE /\ read.pos = m.pos + k
  BY <1>a DEF IsRead
<1>10. /\ HoldsUnits(read) /\ (m.pos > 0 => read.buffer[1].image = m.buffer[1].image)
       /\ \A i \in 1..k : u[i].at = m.pos + i /\ u[i].image = read.buffer[1].image
  BY <1>3, <1>a DEF ContinuesWith
<1>14. ASSUME HeadersOk(m, read)
       PROVE  /\ IsMessage(next) /\ next.dirty = TRUE
              /\ next.buffer = read.buffer /\ next.pos = read.pos
              /\ ~IsComplete(next) =>
                    /\ IsArriving(next)
                    /\ next.pos > 0 => next.pos < Total(next.buffer[1].image)
              /\ IsComplete(next) => /\ next.bodyLength \in Nat /\ next.pos > 0
                                     /\ next.pos = Total(next.buffer[1].image)
  BY <1>14, <1>a DEF IsNext
<1>15. stream'[e] = z /\ stream' = [stream EXCEPT ![e] = z]
  BY <1>2, <1>3 DEF Inv, Tables
<1>16. ASSUME NEW x, NEW error, IsMessage(x), x.dirty = TRUE, Abandon(e, x, error)
       PROVE  Inv'
  <2>1. PICK f : f = FailedRead(x, error)
    OBVIOUS
  <2>2. IsReady(f) /\ f.dirty
    BY <1>16, <2>1, ClearDoes DEF IsReady
  <2>3. HandOver(e, f)
    BY <1>16, <2>1 DEF Abandon
  <2>4. PICK d : /\ delivered' = [delivered EXCEPT ![e] = d] /\ DeliveredOK(e)'
                 /\ in' = [in EXCEPT ![e] = Receiving]
    BY <2>2, <2>3, HandOverDoes
  <2>5. PICK t, n, o : t = Closed(tr) /\ n = Receiving /\ o = NoMessage
    OBVIOUS
  <2>6. /\ DOMAIN t = DOMAIN tr /\ t.open = FALSE /\ t.write = None /\ o.state = "none"
    BY <1>3, <2>5
       DEF Inv, WatchInv, TransportOK, Closed, CloseTransport, SetWriteListener, NoMessage
  <2>7. /\ in' = [in EXCEPT ![e] = n] /\ in'[e] = n /\ IsArriving(n)
        /\ transport' = [transport EXCEPT ![e] = t] /\ transport'[e] = t
        /\ out' = [out EXCEPT ![e] = o]
    BY <1>3, <1>16, <2>4, <2>5, ReceivingIsArriving DEF Abandon, Inv, Tables
  <2>8. StreamOK(e)' /\ LineOK(e)' /\ KeepsEnd(e)
    BY <1>3, <1>4, <1>6, <1>15, <2>6, <2>7, TakenLine
  <2> QED
    BY <1>3, <1>15, <2>4, <2>6, <2>7, <2>8, ReceiverInv
<1>17. CASE ~HeadersOk(m, read) /\ Abandon(e, read, "MalformedReply")
  BY <1>9, <1>16, <1>17
<1>18. CASE HeadersOk(m, read) /\ ~IsComplete(next) /\ Abandon(e, next, "RemoteDisconnect")
  BY <1>14, <1>16, <1>18
<1>19. ASSUME HeadersOk(m, read), NEW n, NEW d,
              in' = [in EXCEPT ![e] = n], transport' = [transport EXCEPT ![e] = r.t],
              UNCHANGED out, delivered' = [delivered EXCEPT ![e] = d], DeliveredOK(e)',
              IsArriving(n),
              IF IsComplete(next) THEN n.pos = 0 ELSE n = next
       PROVE  Inv'
  <2>1. PICK t, o, image, pos :
           t = r.t /\ o = out[e] /\ image = read.buffer[1].image /\ pos = read.pos
    OBVIOUS
  <2>2. /\ transport' = [transport EXCEPT ![e] = t] /\ transport'[e] = t /\ in'[e] = n
        /\ out' = [out EXCEPT ![e] = o]
    BY <1>19, <2>1 DEF Inv, Tables
  <2>3. pos = m.pos + k /\ pos \in Nat /\ k > 0 => u[k].at = pos /\ u[k].image = image /\ u[k] = s[k].unit
    <3> SUFFICES ASSUME k > 0 PROVE u[k].at = m.pos + k /\ u[k].image = image /\ u[k] = s[k].unit
      BY <1>9, <2>1
    <3>1. k \in 1..k
      BY <1>6
    <3> QED
      BY <1>6, <1>10, <2>1, <3>1
  <2>4. pos = m.pos + k /\ pos \in Nat
    BY <1>5, <1>6, <1>9, <2>1
  <2>5. pos > 0 => IsImage(image) /\ Total(image) \in Nat
    BY <1>10, <2>1 DEF HoldsUnits, IsImage, Total
  <2>6. CASE IsComplete(next)
    <3>1. n.pos = 0 /\ pos > 0 /\ pos = Total(image)
      BY <1>14, <1>19, <2>1, <2>6
    <3>2. k > 0
      <4>1. m.pos > 0 => m.pos < Total(m.buffer[1].image)
        <5>1. FixedLength \in Nat
          BY DEF FixedLength
        <5>2. m.pos + w <= Total(m.buffer[1].image) \/ m.pos = 0
          BY <1>3, <1>4, <1>5, WantedIsRest
        <5>3. m.pos > 0 => Total(m.buffer[1].image) = Total(image)
          BY <1>10, <2>1
        <5> QED
          BY <1>5, <2>5, <3>1, <5>2, <5>3
      <4>2. m.pos > 0 => m.pos < Total(image)
        BY <1>10, <2>1, <4>1
      <4> QED
        BY <1>5, <1>6, <2>4, <2>5, <3>1, <4>2
    <3>3. u[k].at = Total(u[k].image) /\ u[k] = s[k].unit
      BY <2>3, <2>4, <3>1, <3>2
    <3>4. \A v : Follows(s[k].unit, v) => Resumes(n, v)
      BY <3>1, <3>3 DEF Follows, Resumes
    <3>5. GoesOn(e, k, n)
      BY <1>3, <3>1, <3>2, <3>4 DEF GoesOn
    <3>6. StreamOK(e)' /\ LineOK(e)' /\ KeepsEnd(e)
      BY <1>3, <1>4, <1>6, <1>7, <1>15, <2>1, <2>2, <3>5, TakenLine
    <3> QED
      BY <1>3, <1>7, <1>15, <1>19, <2>1, <2>2, <3>6, ReceiverInv
  <2>7. CASE ~IsComplete(next)
    <3>1. n = next /\ n.pos = pos /\ n.buffer[1].image = image /\ (pos > 0 => pos < Total(image))
      BY <1>14, <1>19, <2>1, <2>7
    <3>2. ASSUME k = 0 PROVE (\A v : Resumes(m, v) => Resumes(n, v)) /\ (m.pos = 0 => n.pos = 0)
      <4>1. n.pos = m.pos
        BY <1>5, <2>4, <3>1, <3>2
      <4>2. m.pos > 0 => n.buffer[1].image = m.buffer[1].image
        BY <1>10, <2>1, <3>1
      <4> QED
        BY <4>1, <4>2 DEF Resumes
    <3>3. ASSUME k # 0
          PROVE  /\ \A v : Follows(s[k].unit, v) => Resumes(n, v)
                 /\ s[k].unit.at # Total(s[k].unit.image)
      <4>1. /\ pos > 0 /\ pos < Total(image) /\ pos # Total(image)
            /\ s[k].unit.at = pos /\ s[k].unit.image = image
        BY <1>5, <1>6, <2>3, <2>4, <2>5, <3>1, <3>3
      <4> QED
        BY <2>4, <3>1, <4>1 DEF Follows, Resumes
    <3>5. GoesOn(e, k, n)
      BY <1>a, <1>3, <3>2, <3>3 DEF GoesOn
    <3>6. StreamOK(e)' /\ LineOK(e)' /\ KeepsEnd(e)
      BY <1>3, <1>4, <1>6, <1>7, <1>15, <2>1, <2>2, <3>5, TakenLine
    <3> QED
      BY <1>3, <1>7, <1>15, <1>19, <2>1, <2>2, <3>6, ReceiverInv
  <2> QED
    BY <2>6, <2>7
<1>20. CASE /\ HeadersOk(m, read) /\ IsComplete(next)
            /\ HandOver(e, WithBody(next, next.args.fds))
            /\ transport' = [transport EXCEPT ![e] = r.t] /\ UNCHANGED out
  <2>1. PICK fds, x, n : fds = next.args.fds /\ x = WithBody(next, fds) /\ n = Receiving
    OBVIOUS
  <2>2. IsReady(x) /\ x.dirty /\ HandOver(e, x)
    BY <1>14, <1>20, <2>1, WithBodyDoes
  <2>3. PICK d : /\ delivered' = [delivered EXCEPT ![e] = d] /\ DeliveredOK(e)'
                 /\ in' = [in EXCEPT ![e] = n]
    BY <2>1, <2>2, HandOverDoes
  <2>4. IsArriving(n) /\ n.pos = 0
    BY <2>1, ReceivingIsArriving
  <2> QED
    BY <1>19, <1>20, <2>3, <2>4
<1>21. CASE /\ HeadersOk(m, read) /\ ~IsComplete(next)
            /\ in' = [in EXCEPT ![e] = next] /\ transport' = [transport EXCEPT ![e] = r.t]
            /\ UNCHANGED <<out, delivered>>
  <2>1. PICK d : d = delivered[e]
    OBVIOUS
  <2>2. delivered' = [delivered EXCEPT ![e] = d] /\ DeliveredOK(e)'
    BY <1>21, <2>1 DEF Inv, Tables, WatchInv, DeliveredOK
  <2> QED
    BY <1>14, <1>19, <1>21, <2>2
<1> QED
  BY <1>2, <1>17, <1>18, <1>20, <1>21

-----------------------------------------------------------------------------
(* The theorems.                                                           *)

LEMMA StepInv == Inv /\ [Next]_vars => Inv'
<1> SUFFICES ASSUME Inv, [Next]_vars PROVE Inv'
  OBVIOUS
<1>1. CASE UNCHANGED vars
  BY <1>1 DEF vars, Inv, Tables, WatchInv, TransportOK, OutOK, DeliveredOK, SendingIsWatched,
              LineInv, StreamOK, LineOK, TailOK, Continues, Boundary
<1>2. ASSUME NEW e \in End,
             \/ Compose(e) \/ ComposeReply(e) \/ Forward(e) \/ LoadMessage(e) \/ Save(e)
             \/ EditSerial(e) \/ EditHeader(e) \/ EditArguments(e)
      PROVE  Inv'
  BY <1>2, PreparingInv
<1>3. ASSUME NEW e \in End, Send(e) PROVE Inv'
  BY <1>3, SendInv
<1>4. ASSUME NEW e \in End, WriteStep(e) PROVE Inv'
  BY <1>4, WriteStepInv
<1>5. ASSUME NEW e \in End, ReadStep(e) PROVE Inv'
  BY <1>5, ReadStepInv
<1>6. ASSUME NEW e \in End, Close(e) PROVE Inv'
  BY <1>6, CloseInv
<1>7. ASSUME NEW e \in End, SendForeign(e) PROVE Inv'
  BY <1>7, SendForeignInv
<1> QED
  BY <1>1, <1>2, <1>3, <1>4, <1>5, <1>6, <1>7 DEF Next

\* The two programs keep the invariant: what an end has received, what is on the stream
\* toward it and what the peer has still to write are, together, whole messages in a row,
\* as long as both ends are open; and every message object can be sent, composed anew or
\* received into.
THEOREM LineIsOfWholeMessages == Spec => []Inv
<1> QED
  BY InitInv, StepInv, PTL DEF Spec

\* Whatever is composed, answered, forwarded, loaded, changed, sent or refused, and however
\* an end closes: the event loop is asked to watch for room (ITransport::setWriteListener)
\* exactly while the message of that end is in the state Sending.
THEOREM SendersAreWatched == Spec => []SendingIsWatched
<1>1. Inv => SendingIsWatched
  BY DEF Inv, WatchInv
<1> QED
  BY <1>1, LineIsOfWholeMessages, PTL

\* handleTransportCanRead never takes a byte of the next message, for any lengths, any
\* capacity of the stream and any cuts of the reads and the writes: what lies in the buffer
\* of the message that is being received fits in it, and is the beginning of one message.
THEOREM ReceiversHoldOneMessage == Spec => []BufferHoldsOneMessage
<1>1. Inv => BufferHoldsOneMessage
  <2> SUFFICES ASSUME Inv, NEW e \in End
               PROVE  /\ in[e].pos <= in[e].room
                      /\ \A i \in DOMAIN in[e].buffer :
                            /\ in[e].buffer[i].at = i
                            /\ in[e].buffer[i].image = FirstImage(in[e])
    BY DEF BufferHoldsOneMessage
  <2>1. PICK m : m = in[e]
    OBVIOUS
  <2>2. IsArriving(m)
    BY <2>1 DEF Inv, LineInv
  <2>3. DOMAIN m.buffer = 1..m.pos
    BY <2>2, LengthIsNat DEF IsArriving
  <2> QED
    BY <2>1, <2>2, <2>3 DEF IsArriving, FirstImage
<1> QED
  BY <1>1, LineIsOfWholeMessages, PTL
=============================================================================
