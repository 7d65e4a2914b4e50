------------------------------ MODULE Transport ------------------------------
(***************************************************************************)
(* One end of a stream socket: ITransport and its subclasses LocalSocket   *)
(* and IpSocket, as operators on a record.  The stream toward an end is a  *)
(* sequence of units, each with the file descriptors attached to it; the   *)
(* kernel keeps their order, holds Capacity units, and is external.        *)
(*                                                                         *)
(* read() and write() loop over recv() and send() until the kernel has no  *)
(* more data, or room.  The peer can only add data, or take it away, so a  *)
(* whole call is one step.  Having nothing to do is not an error: status   *)
(* OK, zero units.                                                         *)
(***************************************************************************)
EXTENDS Integers, Sequences, FiniteSets, SequencesExt

CONSTANTS Capacity, \* units the kernel holds for one direction
          MaxFds    \* LocalSocket::MaxFds

ASSUME CapacityAssumption == Capacity \in Nat \ {0} /\ MaxFds \in Nat

None == "none"

\* A LocalSocket made for an address passes descriptors, one made from a
\* descriptor (an accepted client) or an IpSocket does not.
NewTransport(kind) == [kind |-> kind, open |-> TRUE, read |-> None, write |-> None,
                       fdsPerMessage |-> IF kind = "local" THEN MaxFds ELSE 0]

SetReadListener(t, listener)  == [t EXCEPT !.read = listener]
SetWriteListener(t, listener) == [t EXCEPT !.write = listener]

Interest(t) == (IF t.read # None THEN {"Read"} ELSE {})
                   \cup (IF t.write # None THEN {"Write"} ELSE {})

\* A closed transport is no longer watched by the event loop.
CloseTransport(t) == [t EXCEPT !.open = FALSE]

Fewer(m, n) == IF m < n THEN m ELSE n

Result(status, t, stream, units, fds) ==
    [status |-> status, t |-> t, stream |-> stream, units |-> units, fds |-> fds]

InvalidRead(t, max) == \/ ~t.open
                       \/ t.kind = "ip" /\ max = 0

\* The descriptors that come with the first unit are taken by recvmsg(); recv() and the
\* later calls of recvmsg(), which have no room for a control message, lose theirs.
FdsRead(t, taken, withFds) ==
    IF withFds /\ t.kind # "ip" /\ taken # <<>> THEN taken[1].fds ELSE <<>>

\* read and readWithFileDescriptors: up to max units; the end of the stream closes this end.
ReadUnits(t, stream, ended, max, withFds) ==
    LET taken == SubSeq(stream, 1, Fewer(max, Len(stream)))
        rest  == SubSeq(stream, Len(taken) + 1, Len(stream))
        units == [i \in DOMAIN taken |-> taken[i].unit]
        fds   == FdsRead(t, taken, withFds)
    IN  CASE max = 0 /\ ~InvalidRead(t, max) -> Result("OK", t, stream, <<>>, <<>>)
          [] InvalidRead(t, max) -> Result("InternalError", t, stream, <<>>, <<>>)
          [] OTHER ->
                IF Len(taken) < max /\ ended
                THEN Result("RemoteClosed", CloseTransport(t), rest, units, fds)
                ELSE Result("OK", t, rest, units, fds)

\* Only the first sendmsg() that sends anything carries the descriptors.
Attached(i, fds) == IF i = 1 THEN fds ELSE <<>>

\* What a write to a peer that is gone reports.
Lost(t) == IF t.kind = "ip" THEN "InternalError" ELSE "RemoteClosed"

\* write and writeWithFileDescriptors; units is the number sent.
WriteUnits(t, stream, peerOpen, data, fds) ==
    LET n     == Fewer(Len(data), Capacity - Len(stream))
        added == [i \in 1..n |-> [unit |-> data[i], fds |-> Attached(i, fds)]]
    IN  CASE t.kind = "ip" /\ fds # <<>> -> Result("LocalClosed", t, stream, 0, <<>>)
          [] ~(t.kind = "ip" /\ fds # <<>>) /\ ~t.open ->
                Result("InternalError", t, stream, 0, <<>>)
          [] OTHER ->
                CASE Len(fds) > MaxFds ->
                        Result("InternalError", CloseTransport(t), stream, 0, <<>>)
                  [] Len(fds) <= MaxFds /\ ~peerOpen ->
                        Result(Lost(t), CloseTransport(t), stream, 0, <<>>)
                  [] OTHER -> Result("OK", t, stream \o added, n, <<>>)
=============================================================================
