---------------------------- MODULE ConnectionLife ----------------------------
(***************************************************************************)
(* One Connection on one thread, from its constructor to close(): how it   *)
(* is established (by AuthClient and the hello message on a bus, at once   *)
(* to a peer, by the first client as a server), its queue of messages, its *)
(* records of the replies it waits for, and the PendingReplies of the      *)
(* application.  A message is one unit here, its bytes are the concern of  *)
(* MessageExchange; other threads are that of ThreadLinks.                 *)
(*                                                                         *)
(* A handler that ends by calling the application back is one step, and    *)
(* what the application does in the callback is the next step.  Only the   *)
(* callbacks of cancelAllPendingReplies are made in the middle of a loop:  *)
(* cancel is the state of that loop.  Where the code would use freed       *)
(* memory, or trip over an assertion, crash says so and nothing follows.   *)
(***************************************************************************)
EXTENDS Integers, Sequences, FiniteSets

CONSTANTS Reply,     \* the PendingReplies the application may ask for
          Timed,     \* those with a timeout, the others wait for ever
          Invalid,   \* those of messages that may be impossible to serialize
          WithFds,   \* those of messages with file descriptors
          MaxSerial, \* no more serials than this are taken
          None       \* no PendingReply: sendNoReply

ASSUME ReplyAssumption == /\ Timed \subseteq Reply /\ Invalid \subseteq Reply
                          /\ WithFds \subseteq Reply /\ None \notin Reply
                          /\ "hello" \notin Reply
                          /\ MaxSerial \in Nat

VARIABLES state, auth, transport, queue, pending, reply, nextSerial, closing, cancel,
          waiting, crash, peer, toPeer, stalled

vars == <<state, auth, transport, queue, pending, reply, nextSerial, closing, cancel,
          waiting, crash, peer, toPeer, stalled>>

Hello == "hello" \* the reply HelloReceiver waits for
HelloSerial == 1

NoAuth == [state |-> "none", method |-> 0, asked |-> "none"]
NotCancelling == [on |-> FALSE, at |-> 0, rest |-> {}, inCallback |-> FALSE, then |-> "return"]
NoReply == [state |-> "none", serial |-> 0, failed |-> FALSE, timer |-> FALSE, heard |-> FALSE]

Connecting == {"ServerWaitingForClient", "Authenticating", "AwaitingUniqueName"} \* userState

\* The first method is tried by the constructor of AuthClient.
AuthStarted == [state |-> "ExpectOk", method |-> 1, asked |-> "AUTH"]

Init ==
    /\ \E passesFds \in BOOLEAN :
        \/ /\ state = "Authenticating" /\ auth = AuthStarted /\ nextSerial = HelloSerial + 1
           /\ transport = [state |-> "open", passesFds |-> passesFds]
        \/ /\ state = "Connected" /\ auth = NoAuth /\ nextSerial = 1
           /\ transport = [state |-> "open", passesFds |-> passesFds]
        \/ /\ state = "ServerWaitingForClient" /\ auth = NoAuth /\ nextSerial = 1
           /\ transport = [state |-> "listening", passesFds |-> FALSE]
        \/ /\ state = "Unconnected" /\ auth = NoAuth /\ nextSerial = 1
           /\ transport = [state |-> "none", passesFds |-> FALSE]
    /\ queue = <<>> /\ pending = <<>> /\ toPeer = <<>>
    /\ reply = [r \in Reply \cup {Hello} |-> NoReply]
    /\ closing = FALSE /\ cancel = NotCancelling /\ waiting = FALSE /\ crash = "none"
    /\ peer = [open |-> TRUE, lines |-> <<>>, messages |-> <<>>, answered |-> {}]
    /\ stalled = FALSE

With(f, x, v) == [y \in DOMAIN f \cup {x} |-> IF y = x THEN v ELSE f[y]]
Without(f, x) == [y \in DOMAIN f \ {x} |-> f[y]]

\* waitForConnectionEstablished runs the handlers itself until the outcome is known.
Blocked == waiting /\ state \in {"Authenticating", "AwaitingUniqueName"}

Running == crash = "none" /\ ~cancel.on

MayCall == crash = "none" /\ IF cancel.on THEN cancel.inCallback ELSE ~Blocked

-----------------------------------------------------------------------------
(* close and cancelAllPendingReplies *)

\* The order in which an unordered_map is visited is not known.
CancelFrom(records, then) ==
    IF records = {} THEN {[NotCancelling EXCEPT !.on = TRUE, !.then = then]}
    ELSE {[NotCancelling EXCEPT !.on = TRUE, !.at = s, !.rest = records \ {s}, !.then = then] :
              s \in records}

\* Only the first call does anything.
BeginClose(records, then) ==
    IF closing THEN UNCHANGED <<closing, cancel>>
    ELSE closing' = TRUE /\ cancel' \in CancelFrom(records, then)

\* The loop has erased a record and advanced its iterator before it calls the reply's
\* handleError.  The timer of the reply is not stopped.
CancelReply ==
    LET r == pending[cancel.at]
        next == IF cancel.rest = {} THEN {0} ELSE cancel.rest
    IN  /\ crash = "none" /\ cancel.on /\ cancel.at # 0
        /\ pending' = Without(pending, cancel.at)
        /\ IF reply[r].state = "over"
           THEN crash' = "error for a freed PendingReply" /\ UNCHANGED <<reply, cancel>>
           ELSE /\ reply' = [reply EXCEPT ![r] =
                                IF r = Hello THEN NoReply \* deleted with its receiver
                                ELSE [@ EXCEPT !.state = "finished", !.failed = TRUE]]
                /\ \E s \in next :
                      cancel' = [cancel EXCEPT !.at = s, !.rest = @ \ {s},
                                               !.inCallback = r # Hello]
                /\ UNCHANGED crash
        /\ UNCHANGED <<state, auth, transport, queue, nextSerial, closing, waiting, peer,
                       toPeer, stalled>>

\* handleCompletion goes on after close() and pops the queue that was cleared.
EndClose ==
    /\ crash = "none" /\ cancel.on /\ cancel.at = 0
    /\ queue' = <<>>
    /\ transport' = [transport EXCEPT !.state = IF @ = "open" THEN "closed" ELSE @]
    /\ state' = "Unconnected"
    /\ cancel' = NotCancelling
    /\ crash' = IF cancel.then = "pop" THEN "pop from an empty queue" ELSE crash
    /\ UNCHANGED <<auth, pending, reply, nextSerial, closing, waiting, peer, toPeer, stalled>>

Close ==
    /\ MayCall
    /\ BeginClose(DOMAIN pending, "return")
    /\ UNCHANGED <<state, auth, transport, queue, pending, reply, nextSerial, waiting, crash,
                   peer, toPeer, stalled>>

-----------------------------------------------------------------------------
(* Sending *)

Started(q) == [i \in DOMAIN q |-> IF i = 1 THEN [q[i] EXCEPT !.sending = TRUE] ELSE q[i]]

SentAtOnce(q) == state = "Connected" /\ Len(q) = 1

\* sendPreparedMessage: the first in the queue is sent at once.
Enqueued(serial, fds) ==
    LET q == Append(queue, [serial |-> serial, fds |-> fds, sending |-> FALSE])
    IN  IF SentAtOnce(q) THEN Started(q) ELSE q

\* A record that is added while all are cancelled may or may not be visited.
Joined(serial) ==
    IF cancel.on
    THEN \E seen \in {{}, {serial}} :
            cancel' = [cancel EXCEPT !.rest = IF @ = {} /\ cancel.at = 0 THEN @ ELSE @ \cup seen]
    ELSE UNCHANGED cancel

\* Connection::send.  A message that cannot be sent is reported by a timeout of zero, to
\* the listener that only a PendingReply with a timeout has set on its timer.
Send(r) ==
    \E failed \in BOOLEAN :
        /\ state = "Unconnected" => failed
        /\ failed => state = "Unconnected" \/ r \in Invalid
        /\ MayCall /\ reply[r] = NoReply /\ nextSerial <= MaxSerial
        /\ nextSerial' = nextSerial + 1
        /\ pending' = With(pending, nextSerial, r)
        /\ reply' = [reply EXCEPT ![r] =
                        [state |-> "waiting", serial |-> nextSerial, failed |-> failed,
                         timer |-> failed \/ r \in Timed, heard |-> r \in Timed]]
        /\ queue' = IF failed THEN queue ELSE Enqueued(nextSerial, r \in WithFds)
        /\ Joined(nextSerial)
        /\ UNCHANGED <<state, auth, transport, closing, waiting, crash, peer, toPeer, stalled>>

SendNoReply ==
    /\ MayCall /\ state # "Unconnected" /\ nextSerial <= MaxSerial
    /\ nextSerial' = nextSerial + 1
    /\ queue' = Enqueued(nextSerial, FALSE)
    /\ UNCHANGED <<state, auth, transport, pending, reply, closing, cancel, waiting, crash,
                   peer, toPeer, stalled>>

\* the mutant does not start the message that is next
SentNext_Not(q) == q

SentNext(q) == IF q = <<>> THEN q ELSE Started(q)

FrontIsSent == /\ Running /\ queue # <<>> /\ queue[1].sending /\ transport.state = "open"
               /\ Blocked => queue[1].serial = HelloSerial

\* The front of the queue is written, handleCompletion pops it and sends the next.
WriteFront ==
    /\ FrontIsSent /\ peer.open /\ (queue[1].fds => transport.passesFds)
    /\ toPeer' = Append(toPeer, queue[1].serial)
    /\ queue' = SentNext(Tail(queue))
    /\ UNCHANGED <<state, auth, transport, pending, reply, nextSerial, closing, cancel, waiting,
                   crash, peer, stalled>>

\* handleError on a reply that has been deleted without its record
Failing(r) ==
    IF reply[r].state = "over"
    THEN crash' = "error for a freed PendingReply" /\ UNCHANGED reply
    ELSE /\ reply' = [reply EXCEPT ![r].state = "finished", ![r].failed = TRUE]
         /\ UNCHANGED crash

\* PayloadError: the message is dropped, its reply fails, and no message is sent next.
RefuseFront ==
    LET serial == queue[1].serial
    IN  /\ FrontIsSent /\ queue[1].fds /\ ~transport.passesFds
        /\ queue' = Tail(queue)
        /\ stalled' = (stalled \/ Len(queue) > 1)
        /\ IF serial \in DOMAIN pending
           THEN pending' = Without(pending, serial) /\ Failing(pending[serial])
           ELSE UNCHANGED <<pending, reply, crash>>
        /\ UNCHANGED <<state, auth, transport, nextSerial, closing, cancel, waiting, peer,
                       toPeer>>

\* The write fails.  If it was the hello message, or one that followed it before the hello
\* reply, handleHelloFailed closes at once; otherwise handleIoReady closes afterwards.
LoseFront ==
    /\ FrontIsSent /\ ~peer.open
    /\ BeginClose(DOMAIN pending, IF state = "AwaitingUniqueName" THEN "pop" ELSE "return")
    /\ queue' = IF state = "AwaitingUniqueName" THEN queue ELSE SentNext(Tail(queue))
    /\ transport' = [transport EXCEPT !.state = "closed"]
    /\ UNCHANGED <<state, auth, pending, reply, nextSerial, waiting, crash, peer, toPeer,
                   stalled>>

-----------------------------------------------------------------------------
(* Being established *)

\* the mutant forgets that all methods may have been tried
NextMethod_Waits(a) == IF a.method < 2 THEN [a EXCEPT !.method = @ + 1, !.asked = "AUTH"] ELSE a

\* sendNextAuthMethod: EXTERNAL, then ANONYMOUS, then failure
NextMethod(a) == IF a.method < 2 THEN [a EXCEPT !.method = @ + 1, !.asked = "AUTH"]
                 ELSE [a EXCEPT !.state = "Failed"]

AdvanceAuth(line) ==
    CASE auth.state = "ExpectOk" /\ line = "OK" ->
            IF transport.passesFds THEN [auth EXCEPT !.state = "ExpectFds", !.asked = "FDS"]
                                   ELSE [auth EXCEPT !.state = "Authenticated"]
      [] auth.state = "ExpectOk" /\ line = "REJECTED" -> NextMethod(auth)
      [] auth.state = "ExpectOk" /\ line \notin {"OK", "REJECTED"} ->
            [auth EXCEPT !.state = "Failed"]
      [] auth.state = "ExpectFds" -> [auth EXCEPT !.state = "Authenticated"]

\* the mutant swaps the hello message with the first one
HelloQueued_Swapped(hello) ==
    IF queue = <<>> THEN <<hello>> ELSE <<hello>> \o Tail(queue) \o <<Head(queue)>>

\* What was enqueued while the connection was authenticating comes after the hello message.
HelloQueued(hello) == <<hello>> \o queue

\* handleCompletion for an AuthClient that succeeded sends the hello message.
SayHello ==
    /\ state' = "AwaitingUniqueName"
    /\ queue' = HelloQueued([serial |-> HelloSerial, fds |-> FALSE, sending |-> TRUE])
    /\ pending' = With(pending, HelloSerial, Hello)
    /\ reply' = [reply EXCEPT ![Hello] = [state |-> "waiting", serial |-> HelloSerial,
                                          failed |-> FALSE, timer |-> TRUE, heard |-> TRUE]]
    /\ UNCHANGED <<closing, cancel>>

\* handleCompletion for one that failed
FailAuth == BeginClose(DOMAIN pending, "return") /\ UNCHANGED <<state, queue, pending, reply>>

\* AuthClient::handleTransportCanRead: a line, or the end of the stream.
ReadAuth ==
    /\ Running /\ state = "Authenticating" /\ transport.state = "open"
    /\ \/ /\ peer.lines # <<>>
          /\ peer' = [peer EXCEPT !.lines = Tail(@)]
          /\ LET a == AdvanceAuth(Head(peer.lines))
             IN  \/ /\ a.state \notin {"Failed", "Authenticated"}
                    /\ auth' = a
                    /\ UNCHANGED <<state, queue, pending, reply, closing, cancel>>
                 \/ a.state = "Authenticated" /\ auth' = NoAuth /\ SayHello
                 \/ a.state = "Failed" /\ auth' = NoAuth /\ FailAuth
          /\ UNCHANGED transport
       \/ /\ peer.lines = <<>> /\ ~peer.open
          /\ transport' = [transport EXCEPT !.state = "closed"]
          /\ auth' = NoAuth /\ FailAuth
          /\ UNCHANGED peer
    /\ UNCHANGED <<nextSerial, waiting, crash, toPeer, stalled>>

Wait ==
    /\ MayCall /\ ~cancel.on /\ state = "Authenticating" /\ ~waiting
    /\ waiting' = TRUE
    /\ UNCHANGED <<state, auth, transport, queue, pending, reply, nextSerial, closing, cancel,
                   crash, peer, toPeer, stalled>>

\* handleClientConnected: the server accepts one client and is deleted.  close() leaves it
\* listening, and handleIoReady asserts that there is a transport.
ClientConnects ==
    /\ Running /\ transport.state = "listening"
    /\ \/ /\ state = "ServerWaitingForClient"
          /\ state' = "Connected"
          /\ transport' = [transport EXCEPT !.state = "open"]
          /\ stalled' = (stalled \/ queue # <<>>)
          /\ UNCHANGED crash
       \/ /\ state = "Unconnected"
          /\ crash' = "client of a closed connection"
          /\ UNCHANGED <<state, transport, stalled>>
    /\ UNCHANGED <<auth, queue, pending, reply, nextSerial, closing, cancel, waiting, peer, toPeer>>

-----------------------------------------------------------------------------
(* Receiving *)

\* handleHelloReply: any reply that holds one string, an error as well, ends with a name.
\* Nothing in the queue is sent for that reason.
TakeHelloReply(body, records) ==
    /\ reply' = [reply EXCEPT ![Hello] = NoReply]
    /\ IF body = "string"
       THEN /\ state' = "Connected"
            /\ stalled' = (stalled \/ (queue # <<>> /\ ~queue[1].sending))
            /\ UNCHANGED <<closing, cancel>>
       ELSE BeginClose(records, "return") /\ UNCHANGED <<state, stalled>>

\* the mutant keeps the record of a reply that has come
Recorded_Still(serial) == pending

Recorded(serial) == Without(pending, serial)

\* handleCompletion and maybeDispatchToPendingReply; a reply nobody waits for is handed to
\* the spontaneous message receiver.
Receive ==
    /\ Running /\ state \in {"AwaitingUniqueName", "Connected"} /\ transport.state = "open"
    /\ peer.messages # <<>>
    /\ peer' = [peer EXCEPT !.messages = Tail(@)]
    /\ LET m == Head(peer.messages)
           r == pending[m.to]
       IN  \/ /\ m.to \notin DOMAIN pending
              /\ UNCHANGED <<state, pending, reply, closing, cancel, crash, stalled>>
           \/ /\ m.to \in DOMAIN pending
              /\ pending' = Recorded(m.to)
              /\ \/ /\ r = Hello
                    /\ TakeHelloReply(m.body, DOMAIN Recorded(m.to)) /\ UNCHANGED crash
                 \/ /\ r # Hello /\ reply[r].state = "over"
                    /\ crash' = "reply for a freed PendingReply"
                    /\ UNCHANGED <<state, reply, closing, cancel, stalled>>
                 \/ /\ r # Hello /\ reply[r].state # "over"
                    /\ reply' = [reply EXCEPT ![r].state = "finished", ![r].timer = FALSE]
                    /\ UNCHANGED <<state, closing, cancel, crash, stalled>>
    /\ UNCHANGED <<auth, transport, queue, nextSerial, waiting, toPeer>>

\* The peer is gone: the message being received fails, and handleIoReady closes.
LosePeer ==
    /\ Running /\ state \in {"AwaitingUniqueName", "Connected"} /\ transport.state = "open"
    /\ peer.messages = <<>> /\ ~peer.open
    /\ transport' = [transport EXCEPT !.state = "closed"]
    /\ BeginClose(DOMAIN pending, "return")
    /\ UNCHANGED <<state, auth, queue, pending, reply, nextSerial, waiting, crash, peer,
                   toPeer, stalled>>

-----------------------------------------------------------------------------
(* PendingReplies *)

\* PendingReplyPrivate::handleCompletion
TimesOut(r) ==
    /\ Running /\ ~Blocked /\ reply[r].timer /\ reply[r].heard
    /\ IF reply[r].state = "finished"
       THEN /\ crash' = "timeout of a finished reply"
            /\ UNCHANGED <<pending, reply, closing, cancel>>
       ELSE /\ pending' = Without(pending, reply[r].serial)
            /\ IF r = Hello
               THEN /\ reply' = [reply EXCEPT ![r] = NoReply]
                    /\ BeginClose(DOMAIN pending \ {HelloSerial}, "return")
               ELSE /\ reply' = [reply EXCEPT ![r].state = "finished", ![r].failed = TRUE,
                                              ![r].timer = FALSE]
                    /\ UNCHANGED <<closing, cancel>>
            /\ UNCHANGED crash
    /\ UNCHANGED <<state, auth, transport, queue, nextSerial, waiting, peer, toPeer, stalled>>

Gone(r, how) == [reply EXCEPT ![r].state = how, ![r].timer = FALSE]

\* ~PendingReply takes its record out of the map, which cancelAllPendingReplies may be
\* about to visit next.
Destroy(r) ==
    LET serial == reply[r].serial
    IN  /\ MayCall /\ reply[r].state \in {"waiting", "finished"}
        /\ reply' = Gone(r, "gone")
        /\ IF reply[r].state = "finished" THEN UNCHANGED <<pending, cancel, crash>>
           ELSE /\ pending' = Without(pending, serial)
                /\ cancel' = [cancel EXCEPT !.rest = @ \ {serial}]
                /\ crash' = IF cancel.on /\ cancel.at = serial
                            THEN "iterator of an erased record" ELSE crash
        /\ UNCHANGED <<state, auth, transport, queue, nextSerial, closing, waiting, peer,
                       toPeer, stalled>>

\* Another PendingReply is move-assigned to this one: the record stays.
AssignOver(r) ==
    /\ MayCall /\ reply[r].state \in {"waiting", "finished"}
    /\ reply' = Gone(r, IF reply[r].state = "waiting" THEN "over" ELSE "gone")
    /\ UNCHANGED <<state, auth, transport, queue, pending, nextSerial, closing, cancel, waiting,
                   crash, peer, toPeer, stalled>>

-----------------------------------------------------------------------------
(* The bus or peer: external *)

PeerAnswersAuth ==
    /\ crash = "none" /\ peer.open /\ auth.asked # "none" /\ peer.lines = <<>>
    /\ \E line \in (IF auth.asked = "AUTH" THEN {"OK", "REJECTED", "ERROR"}
                                           ELSE {"AGREE_UNIX_FD", "ERROR"}) :
          peer' = [peer EXCEPT !.lines = Append(@, line)]
    /\ auth' = [auth EXCEPT !.asked = "none"]
    /\ UNCHANGED <<state, transport, queue, pending, reply, nextSerial, closing, cancel, waiting,
                   crash, toPeer, stalled>>

PeerReplies(serial) ==
    /\ crash = "none" /\ peer.open /\ serial \notin peer.answered
    /\ \E i \in DOMAIN toPeer : toPeer[i] = serial
    /\ \E body \in {"string"} \cup (IF serial = HelloSerial THEN {"other"} ELSE {}) :
          peer' = [peer EXCEPT !.messages = Append(@, [to |-> serial, body |-> body]),
                               !.answered = @ \cup {serial}]
    /\ UNCHANGED <<state, auth, transport, queue, pending, reply, nextSerial, closing, cancel,
                   waiting, crash, toPeer, stalled>>

PeerCloses ==
    /\ crash = "none" /\ peer.open /\ state # "ServerWaitingForClient"
    /\ peer' = [peer EXCEPT !.open = FALSE]
    /\ UNCHANGED <<state, auth, transport, queue, pending, reply, nextSerial, closing, cancel,
                   waiting, crash, toPeer, stalled>>

-----------------------------------------------------------------------------
Handlers == WriteFront \/ RefuseFront \/ LoseFront \/ ReadAuth \/ Receive \/ LosePeer

Next ==
    \/ CancelReply \/ EndClose \/ Close \/ SendNoReply \/ Wait \/ ClientConnects
    \/ WriteFront \/ RefuseFront \/ LoseFront \/ ReadAuth \/ Receive \/ LosePeer
    \/ PeerAnswersAuth \/ PeerCloses
    \/ \E serial \in 1..MaxSerial : PeerReplies(serial)
    \/ \E r \in Reply : Send(r) \/ Destroy(r) \/ AssignOver(r)
    \/ \E r \in Reply \cup {Hello} : TimesOut(r)

Spec == Init /\ [][Next]_vars

\* The event loop calls the handlers of a transport that is ready, a loop that has begun
\* goes on, and the bus answers what it is asked or goes away.
FairSpec ==
    /\ Spec
    /\ WF_vars(CancelReply) /\ WF_vars(EndClose) /\ WF_vars(Handlers)
    /\ WF_vars(PeerAnswersAuth) /\ WF_vars(PeerReplies(HelloSerial))
    /\ WF_vars(ClientConnects)

-----------------------------------------------------------------------------
(* What must hold *)

\* What the bus sees first is the hello message, whatever the application sent before the
\* connection was established; after it, or from the beginning on a connection to a peer,
\* messages go out in the order in which they were sent.
SentInOrder ==
    \A i, j \in DOMAIN toPeer : i < j => toPeer[i] < toPeer[j]

\* Only the front of the queue is given to the transport, and on an established connection
\* it is.  There are two exceptions, stalled: a message was refused, and those behind it
\* wait; or the connection was established while messages waited that nobody had started.
FrontIsStarted ==
    /\ \A i \in DOMAIN queue : queue[i].sending => i = 1
    /\ Running /\ state = "Connected" /\ queue # <<>> => queue[1].sending \/ stalled

\* A PendingReply waits exactly as long as the connection has its record, under the serial
\* of its message: through replies, timeouts, errors, destruction, and calls made while all
\* are cancelled.  Records of a PendingReply that was assigned to are left behind.
RecordsMatchReplies ==
    crash = "none" =>
        /\ \A s \in DOMAIN pending :
              reply[pending[s]].serial = s /\ reply[pending[s]].state \in {"waiting", "over"}
        /\ \A r \in DOMAIN reply : reply[r].state = "waiting" =>
              reply[r].serial \in DOMAIN pending /\ pending[reply[r].serial] = r

\* A connection does not try to get established for ever: the bus accepts one of the
\* methods and answers the hello message, or the connection closes.
ConnectingEnds == state \in Connecting ~> (state \notin Connecting \/ crash # "none")
=============================================================================
