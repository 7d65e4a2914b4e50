--------------------------- MODULE MessageExchange ---------------------------
(***************************************************************************)
(* Two programs, each with one connected transport, send messages to each  *)
(* other: MessagePrivate::send and receive, the handlers the event loop    *)
(* calls when the socket is ready, and around them what ConnectionPrivate  *)
(* does: it sends one message at a time and receives into a fresh message, *)
(* and a handler that reports an error closes the transport.               *)
(*                                                                         *)
(* The handlers loop.  One iteration, with its one call of read() or       *)
(* write(), is one step, so the peer runs between two iterations; while it *)
(* loops (busy) a program does nothing else.                               *)
(***************************************************************************)
EXTENDS Message, Transport

CONSTANTS Kinds,     \* of the transports: "local", "ip"
          Template,  \* for each end, the messages it may compose
          Arguments_, \* arguments that may replace those of a message
          Foreign,   \* for each end, messages (images) only another program would send
          Saved,     \* for each end, messages (images) it may load
          MaxSend,   \* how many messages each end begins
          MaxEdits   \* how often a composed message is changed before it is sent

\* Arguments as Arguments::Writer finishes them: what is empty has no content.
AreFinished(args) ==
    /\ DOMAIN args = DOMAIN NoArguments /\ args.borrowed = FALSE /\ args.length \in Nat
    /\ args.length = 0 => args.content = "none"
    /\ args.fds \in Seq({args.fds[i] : i \in DOMAIN args.fds})

\* A foreign message has a type and, when it is empty, no content, or else a flaw which is
\* one of those that are looked for.
IsRefused(image) ==
    \/ image.flaw \in {"endianness", "variable headers"}
    \/ image.headerLength + image.bodyLength > MaxMessageLength
    \/ "UnixFds" \in DOMAIN image.headers /\ image.headers["UnixFds"] # 0

\* Messages are composed with the setters, from NewMessage; an image has at least its fixed
\* header.
ASSUME TemplateAssumption ==
    \A m \in UNION {Template[e] : e \in {"a", "b"}} :
        DOMAIN m = DOMAIN NewMessage /\ m.state = "Empty" /\ AreFinished(m.args)

ASSUME ImageAssumption ==
    \A image \in UNION {Foreign[e] \cup Saved[e] : e \in {"a", "b"}} :
        /\ {"headerLength", "bodyLength"} \subseteq DOMAIN image
        /\ image.headerLength \in Nat /\ image.bodyLength \in Nat
        /\ image.headerLength >= FixedLength

ASSUME ForeignAssumption ==
    \A image \in UNION {Foreign[e] : e \in {"a", "b"}} :
        IF image.flaw # "none" THEN IsRefused(image)
        ELSE image.type # "Invalid" /\ (image.bodyLength = 0 => image.content = "none")

ASSUME ArgumentsAssumption == \A args \in Arguments_ : AreFinished(args)

End == {"a", "b"}
Peer(e) == IF e = "a" THEN "b" ELSE "a"

VARIABLES transport, out, in, stream, busy, sent, delivered, begun, edits

vars == <<transport, out, in, stream, busy, sent, delivered, begun, edits>>

NoMessage == [state |-> "none"]

Receiving == [NewMessage EXCEPT !.state = "Receiving"]

Init ==
    /\ \E kind \in Kinds :
          transport = [e \in End |-> SetReadListener(NewTransport(kind), "in")]
    /\ out = [e \in End |-> NoMessage]
    /\ in = [e \in End |-> Receiving]
    /\ stream = [e \in End |-> <<>>]
    /\ busy = [e \in End |-> "no"]
    /\ sent = [e \in End |-> <<>>]
    /\ delivered = [e \in End |-> <<>>]
    /\ begun = [e \in End |-> 0]
    /\ edits = [e \in End |-> 0]

-----------------------------------------------------------------------------
(* The application prepares a message. *)

Idle(e) == busy[e] = "no"

IsPrepared(e) == Idle(e) /\ out[e].state \in {"Empty", "Serialized"}

Begin(e, m, changes) ==
    /\ Idle(e) /\ out[e].state = "none" /\ begun[e] < MaxSend[e]
    /\ out' = [out EXCEPT ![e] = m]
    /\ begun' = [begun EXCEPT ![e] = @ + 1]
    /\ edits' = [edits EXCEPT ![e] = changes]
    /\ UNCHANGED <<transport, in, stream, busy, sent, delivered>>

Compose(e) == \E m \in Template[e] : Begin(e, m, MaxEdits)

LastReceived(e) == delivered[e][Len(delivered[e])]

\* createReplyTo and createErrorReplyTo a call that was received
ComposeReply(e) ==
    /\ delivered[e] # <<>> /\ LastReceived(e).type = "MethodCall"
    /\ \/ Begin(e, SetReplyTo(NewMessage, LastReceived(e)), 0)
       \/ Begin(e, SetErrorReplyTo(NewMessage, LastReceived(e), "failed"), 0)

\* A message that was received is sent again as it is.
Forward(e) == /\ delivered[e] # <<>> /\ LastReceived(e).error = NoError
              /\ Begin(e, LastReceived(e), 0)

\* The bytes of a message are loaded from where they were saved, and sent on.
LoadMessage(e) ==
    \E image \in Saved[e] : Begin(e, Load(NewMessage, Units(image)), MaxEdits)

Edit(e, m) ==
    /\ IsPrepared(e) /\ edits[e] > 0
    /\ out' = [out EXCEPT ![e] = m]
    /\ edits' = [edits EXCEPT ![e] = @ - 1]
    /\ UNCHANGED <<transport, in, stream, busy, sent, delivered, begun>>

\* save and serializeAndView
Save(e)         == IsPrepared(e) /\ Edit(e, Serialize(out[e]).m)
EditSerial(e)   == IsPrepared(e) /\ Edit(e, SetSerial(out[e], 9))
EditHeader(e)   == IsPrepared(e) /\ Edit(e, SetHeader(out[e], "Path", "bad"))
EditArguments(e) == IsPrepared(e) /\ \E args \in Arguments_ : Edit(e, SetArguments(out[e], args))

-----------------------------------------------------------------------------
(* Sending *)

\* ConnectionPrivate::close closes the transport and clears the queue of messages; a
\* message that is destroyed takes itself off the transport.
Closed(t) == SetWriteListener(CloseTransport(t), None)

\* What the receiver is owed.
Owed(m) == [type |-> m.type, flags |-> m.flags, serial |-> m.serial, headers |-> m.headers,
            fds |-> m.args.fds, content |-> m.args.content, whole |-> ~m.args.borrowed]

\* Connection::prepareSend takes a serial for a message that has none, then
\* MessagePrivate::send: a message that cannot be serialized never gets to the transport.
Numbered(e) == IF out[e].serial = 0 THEN SetSerial(out[e], begun[e]) ELSE out[e]

Send(e) ==
    LET s == Serialize(Numbered(e))
    IN  /\ IsPrepared(e) /\ transport[e].open
        /\ IF s.ok
           THEN /\ out' = [out EXCEPT ![e] = [s.m EXCEPT !.state = "Sending"]]
                /\ transport' = [transport EXCEPT ![e] = SetWriteListener(@, "out")]
                /\ sent' = [sent EXCEPT ![e] = Append(@, Owed(Numbered(e)))]
           ELSE /\ out' = [out EXCEPT ![e] = NoMessage]
                /\ UNCHANGED <<transport, sent>>
        /\ UNCHANGED <<in, stream, busy, delivered, begun, edits>>

\* the mutant leaves the listener of a message that cannot be sent
Unwatched_Not(t) == t

Unwatched(t) == SetWriteListener(t, None)

EndWrite(e, t) ==
    /\ out' = [out EXCEPT ![e] = NoMessage]
    /\ transport' = [transport EXCEPT ![e] = t]
    /\ busy' = [busy EXCEPT ![e] = "no"]

TooManyFds(e) == /\ out[e].pos = 0
                 /\ Len(out[e].args.fds) > transport[e].fdsPerMessage

Writable(e) == /\ transport[e].open /\ "Write" \in Interest(transport[e])
               /\ (Len(stream[Peer(e)]) < Capacity \/ ~transport[Peer(e)].open)

\* The rest of the message goes to the transport, the descriptors with its first unit.
Written(e) ==
    WriteUnits(transport[e], stream[Peer(e)], transport[Peer(e)].open,
               SubSeq(out[e].buffer, out[e].pos + 1, Len(out[e].buffer)),
               IF out[e].pos = 0 THEN out[e].args.fds ELSE <<>>)

\* One iteration of handleTransportCanWrite.
WriteStep(e) ==
    LET m == out[e]
    IN  /\ busy[e] = "writing" \/ (Idle(e) /\ Writable(e))
        /\ UNCHANGED <<in, delivered, begun, edits>>
        /\ m.state = "Sending"
        /\ \/ /\ m.pos = Len(m.buffer)
              /\ EndWrite(e, SetWriteListener(transport[e], None))
              /\ UNCHANGED <<stream, sent>>
           \/ /\ m.pos < Len(m.buffer) /\ TooManyFds(e)
              /\ EndWrite(e, Unwatched(transport[e])) \* PayloadError
              /\ sent' = [sent EXCEPT ![e] = Front(@)]
              /\ UNCHANGED stream
           \/ /\ m.pos < Len(m.buffer) /\ ~TooManyFds(e)
              /\ \E r \in {Written(e)} :
                    /\ stream' = [stream EXCEPT ![Peer(e)] = r.stream]
                    /\ UNCHANGED sent
                    /\ IF r.status = "OK"
                       THEN /\ out' = [out EXCEPT ![e].pos = @ + r.units]
                            /\ busy' = [busy EXCEPT ![e] = "writing"]
                            /\ UNCHANGED transport
                       ELSE EndWrite(e, Closed(r.t))

-----------------------------------------------------------------------------
(* Receiving *)

Readable(e) == /\ transport[e].open /\ "Read" \in Interest(transport[e])
               /\ (stream[e] # <<>> \/ ~transport[Peer(e)].open)

\* the mutant reads as much as its first buffer holds
Wanted_Block(m) == IF m.headerLength = 0 THEN Block - m.pos
                   ELSE m.headerLength + m.bodyLength - m.pos

\* A message may end with its header: nothing beyond what is known to belong to it is read.
Wanted(m) == IF m.headerLength = 0 THEN FixedLength - m.pos
             ELSE m.headerLength + m.bodyLength - m.pos

WithUnits(m, r) ==
    [m EXCEPT !.buffer = @ \o r.units, !.room = Reserved(@, m.pos + Wanted(m)),
              !.pos = @ + Len(r.units), !.args.fds = @ \o r.fds]

HeadersDone(m) == m.headerLength > 0 /\ m.pos >= m.headerLength

BeginsWithFixed(m) == m.headerLength = 0 /\ m.pos >= FixedLength

\* the mutant waits for a unit more
IsComplete_Beyond(m) == m.headerLength > 0 /\ m.pos > m.headerLength + m.bodyLength

IsComplete(m) == m.headerLength > 0 /\ m.pos >= m.headerLength + m.bodyLength

FdsAnnounced(m, image) ==
    Len(m.args.fds) = (IF "UnixFds" \in DOMAIN image.headers THEN image.headers["UnixFds"]
                                                             ELSE 0)

HeadersOk(before, read) ==
    /\ BeginsWithFixed(read) => FixedHeadersOk(read)
    /\ LET fixed == IF BeginsWithFixed(read) THEN WithFixedHeaders(read) ELSE read
       IN  ~HeadersDone(before) /\ HeadersDone(fixed) =>
               /\ VariableHeadersOk(fixed)
               /\ FdsAnnounced(fixed, FirstImage(fixed))

WithHeaders(before, read) ==
    LET fixed == IF BeginsWithFixed(read) THEN WithFixedHeaders(read) ELSE read
    IN  IF ~HeadersDone(before) /\ HeadersDone(fixed) THEN WithVariableHeaders(fixed)
                                                      ELSE fixed

\* ConnectionPrivate::handleCompletion: it receives the next message into a fresh object,
\* and passes this one on unless it has no type.
HandOver(e, m) ==
    /\ in' = [in EXCEPT ![e] = Receiving]
    /\ delivered' = IF m.type = "Invalid" THEN delivered
                    ELSE [delivered EXCEPT ![e] = Append(@, m)]
    /\ busy' = [busy EXCEPT ![e] = "no"]

FailedRead(m, error) == [Clear(m) EXCEPT !.error = error]

Abandon(e, m, error) ==
    /\ HandOver(e, FailedRead(m, error))
    /\ transport' = [transport EXCEPT ![e] = Closed(@)]
    /\ out' = [out EXCEPT ![e] = NoMessage]

\* One iteration of handleTransportCanRead.
ReadStep(e) ==
    \E m \in {in[e]} :
    \E r \in {ReadUnits(transport[e], stream[e], ~transport[Peer(e)].open, Wanted(m),
                       m.pos = 0)} :
    \E read \in {WithUnits(m, r)} :
    \E next \in {IF HeadersOk(m, read) THEN WithHeaders(m, read) ELSE read} :
        /\ busy[e] = "reading" \/ (Idle(e) /\ Readable(e))
        /\ m.state = "Receiving"
        /\ stream' = [stream EXCEPT ![e] = r.stream]
        /\ \/ /\ ~HeadersOk(m, read)
              /\ Abandon(e, read, "MalformedReply")
           \/ /\ HeadersOk(m, read) /\ IsComplete(next)
              /\ HandOver(e, WithBody(next, next.args.fds))
              /\ transport' = [transport EXCEPT ![e] = r.t]
              /\ UNCHANGED out
           \/ /\ HeadersOk(m, read) /\ ~IsComplete(next) /\ ~r.t.open
              /\ Abandon(e, next, "RemoteDisconnect")
           \/ /\ HeadersOk(m, read) /\ ~IsComplete(next) /\ r.t.open
              /\ in' = [in EXCEPT ![e] = next]
              /\ busy' = [busy EXCEPT ![e] = IF r.status = "OK" THEN "reading" ELSE "no"]
              /\ transport' = [transport EXCEPT ![e] = r.t]
              /\ UNCHANGED <<out, delivered>>
        /\ UNCHANGED <<sent, begun, edits>>

-----------------------------------------------------------------------------
(* Closing, and programs that are not dferry *)

\* Connection::close
Close(e) ==
    /\ Idle(e) /\ transport[e].open
    /\ transport' = [transport EXCEPT ![e] = Closed(@)]
    /\ out' = [out EXCEPT ![e] = NoMessage]
    /\ begun' = [begun EXCEPT ![e] = MaxSend[e]]
    /\ UNCHANGED <<in, stream, busy, sent, delivered, edits>>

\* The program at this end sends a message in the other byte order, or one that is flawed.
SendForeign(e) ==
    \E image \in Foreign[e] :
        /\ Idle(e) /\ out[e].state = "none" /\ begun[e] < MaxSend[e]
        /\ transport[e].open
        /\ Len(stream[Peer(e)]) + Len(Units(image)) <= Capacity
        /\ stream' = [stream EXCEPT ![Peer(e)] =
                          @ \o [i \in DOMAIN Units(image) |->
                                   [unit |-> Units(image)[i], fds |-> <<>>]]]
        /\ begun' = [begun EXCEPT ![e] = @ + 1]
        /\ sent' = IF image.flaw # "none" THEN sent
                   ELSE [sent EXCEPT ![e] =
                            Append(@, [type |-> image.type, flags |-> image.flags,
                                       serial |-> image.serial, headers |-> image.headers,
                                       fds |-> <<>>, content |-> image.content,
                                       whole |-> TRUE])]
        /\ UNCHANGED <<transport, out, in, busy, delivered, edits>>

Next ==
    \E e \in End :
        \/ Compose(e) \/ ComposeReply(e) \/ Forward(e) \/ LoadMessage(e) \/ Save(e)
        \/ EditSerial(e) \/ EditHeader(e) \/ EditArguments(e) \/ Send(e)
        \/ WriteStep(e) \/ ReadStep(e) \/ Close(e) \/ SendForeign(e)

Spec == Init /\ [][Next]_vars

\* The event loop of each program runs, and a handler that can go on does.
FairSpec == Spec /\ \A e \in End : WF_vars(WriteStep(e)) /\ WF_vars(ReadStep(e))

-----------------------------------------------------------------------------
(* What must hold *)

Matches(owed, m) ==
    /\ m.type = owed.type /\ m.flags = owed.flags /\ m.serial = owed.serial /\ m.headers = owed.headers
    /\ m.args.fds = owed.fds
    /\ owed.whole => m.args.content = owed.content

\* The n-th message that arrives is the n-th that the peer sent, with its own fields as they
\* were when send() was called, its own body and its own descriptors, wherever the reads and
\* writes were cut; only the last message delivered may be one that failed.  The body of a
\* message that is sent again as it was received is not compared (BodiesSurvive).
DeliveredAsSent ==
    \A e \in End : \A i \in DOMAIN delivered[e] :
        IF delivered[e][i].error # NoError THEN i = Len(delivered[e])
        ELSE i <= Len(sent[Peer(e)]) /\ Matches(sent[Peer(e)][i], delivered[e][i])

\* What has been received lies in the buffer, and no byte of it belongs to another message.
BufferHoldsOneMessage ==
    \A e \in End :
        /\ in[e].pos <= in[e].room
        /\ \A i \in DOMAIN in[e].buffer :
              in[e].buffer[i].at = i /\ in[e].buffer[i].image = FirstImage(in[e])

\* The event loop is asked to watch for room exactly while a message is being sent, so no
\* handler runs without a message to send, and none waits unwatched.
SendingIsWatched ==
    \A e \in End : (transport[e].write # None) <=> (out[e].state = "Sending")

\* handleTransportCanWrite goes on until the message is out, and does not return to the
\* event loop when there is no room: two ends that write and do not read wait for each other.
WriteToEachOther == \A e \in End : busy[e] = "writing" /\ Len(stream[e]) = Capacity

\* Whatever was begun comes to an end, by completion or because an end closed, unless both
\* ends write more than the kernel holds at the same time.
SendingEndsOrDeadlock ==
    \A e \in End : out[e].state = "Sending" ~>
                        (out[e].state # "Sending" \/ WriteToEachOther)

\* message_p.h: in a Serialized message the bytes and the fields are in sync, whether it
\* was serialized or deserialized; so what it is read from is still there.
BodiesSurvive == \A e \in End : \A i \in DOMAIN delivered[e] :
                    delivered[e][i].args.content # "freed"
=============================================================================
