------------------------------ MODULE EventLoop ------------------------------
(***************************************************************************)
(* EventDispatcher::poll on one thread, and the objects it watches: the    *)
(* transports of Connections, a Server, Connections that are a server for  *)
(* their first client.  Each of them is a listener below a forwarder (the  *)
(* Connection or Server), which is a listener of the dispatcher; the       *)
(* dispatcher keys its listeners by file descriptor, and the kernel gives  *)
(* the lowest free descriptor to whatever is opened next.                  *)
(*                                                                         *)
(* A poll collects a batch of events and then handles them one by one.  A  *)
(* handler calls the application back (caller), which may open, close and  *)
(* destroy connections while the rest of the batch is waiting.  Events     *)
(* from other threads are handled after the batch.  Timers are left to     *)
(* Timers, reading and writing to MessageExchange: here a message is read  *)
(* or written at once.  What the code asserts and does not find is crash.  *)
(***************************************************************************)
EXTENDS Integers, Sequences, FiniteSets, FiniteSetsExt

CONSTANTS Conn,    \* connections that may be opened
          Clients, \* those the application opens to a peer
          Waiting, \* those it opens as a server for one client
          Fd,      \* file descriptors of the process, without the interrupt pipe
          None,
          MaxEvents \* events from other threads that wait at a time

ASSUME ConnAssumption == /\ Clients \subseteq Conn /\ Waiting \subseteq Conn
                         /\ None \notin Conn /\ MaxEvents \in Nat
                         /\ Fd \subseteq Nat \ {0} /\ Fd # {} /\ IsFiniteSet(Fd)

VARIABLES io,       \* the objects and what the dispatcher and the poller know of them
          incoming, \* IServer::m_incomingConnections
          loop,     \* how far poll() is
          caller,   \* the object whose handler has called the application
          events,   \* EventDispatcherPrivate::m_queuedEvents
          notify,   \* EventDispatcherPrivate::m_connectionToNotify
          pipe, interrupted, crash

vars == <<io, incoming, loop, caller, events, notify, pipe, interrupted, crash>>

Server == "server"
Object == Conn \cup {Server}
NoFd == 0
Pipe == 0

\* The peer may be through with sending, which ends the input, or have hung up.
Free == [kind |-> "free", waiting |-> 0, peer |-> "there"]
Stream == [Free EXCEPT !.kind = "stream"]
Listening == [Free EXCEPT !.kind = "listening"]

NotOpen == [state |-> "none", fd |-> NoFd, interest |-> {}, attached |-> FALSE, watched |-> {}]

Returned == [at |-> "application", batch |-> {}, current |-> {}, action |-> "NoInterrupt",
             aux |-> 0]

-----------------------------------------------------------------------------
(* The plumbing, as operators on io *)

With(f, x, v) == [y \in DOMAIN f \cup {x} |-> IF y = x THEN v ELSE f[y]]
Without(f, x) == [y \in DOMAIN f \ {x} |-> f[y]]

FreeFds(s) == {f \in Fd : s.sock[f].kind = "free"}
NewFd(s) == Min(FreeFds(s))

\* The dispatcher and its poller know a descriptor and what to watch it for.
Registered(s, f, o, interest) ==
    IF f \in DOMAIN s.listeners THEN s
    ELSE [s EXCEPT !.listeners = With(@, f, o), !.poller = With(@, f, interest)]

Unregistered(s, f) ==
    IF f \notin DOMAIN s.listeners THEN s
    ELSE [s EXCEPT !.listeners = Without(@, f), !.poller = Without(@, f)]

Repolled(s, f, interest) ==
    IF f \in DOMAIN s.poller THEN [s EXCEPT !.poller[f] = interest] ELSE s

\* The forwarder passes on what its one listener says.
Attached(s, o) ==
    LET object == [s.object[o] EXCEPT !.attached = TRUE, !.watched = s.object[o].interest]
    IN  Registered([s EXCEPT !.object[o] = object], object.fd, o, object.watched)

Detached(s, o) == Unregistered([s EXCEPT !.object[o].attached = FALSE], s.object[o].fd)

Forwarded(s, o) ==
    Repolled([s EXCEPT !.object[o].watched = s.object[o].interest], s.object[o].fd,
             s.object[o].interest)

Removed(s, o) == IF s.object[o].attached THEN Detached(s, o) ELSE s

\* the mutant only adds to what is watched
WithInterest_More(s, o, interest) ==
    Repolled([s EXCEPT !.object[o].interest = interest, !.object[o].watched = interest],
             s.object[o].fd, s.object[o].interest \cup interest)

\* setIoInterest
WithInterest(s, o, interest) ==
    LET a == [s EXCEPT !.object[o].interest = interest]
    IN  IF a.object[o].attached THEN Forwarded(a, o) ELSE a

\* close(2) takes the descriptor out of the epoll set as well.
PlatformClose(s, o) ==
    LET f == s.object[o].fd
    IN  [s EXCEPT !.sock[f] = Free, !.poller = Without(@, f), !.object[o].fd = NoFd]

\* the mutant closes the descriptor while the dispatcher still has it
Closed_First(s, o) == IF s.object[o].fd = NoFd THEN s ELSE Removed(PlatformClose(s, o), o)

\* ITransport::close and IServer::close
Closed(s, o) == IF s.object[o].fd = NoFd THEN s ELSE PlatformClose(Removed(s, o), o)

\* A transport is added without interest and asks to be read by receiveNextMessage.
Connected(s, c, f) ==
    WithInterest(Attached([s EXCEPT !.object[c] = [@ EXCEPT !.state = "open", !.fd = f,
                                                         !.interest = {}]], c), c, {"Read"})

Listens(s, o, state) ==
    LET f == NewFd(s)
    IN  Attached([s EXCEPT !.sock[f] = Listening,
                        !.object[o] = [NotOpen EXCEPT !.state = state, !.fd = f,
                                                      !.interest = {"Read"}]], o)

-----------------------------------------------------------------------------
Init ==
    /\ io = Listens([object |-> [o \in Object |-> NotOpen], listeners |-> <<>>, poller |-> <<>>,
                     sock |-> [f \in Fd |-> Free]], Server, "listening")
    /\ incoming = <<>> /\ loop = Returned /\ caller = None /\ events = 0 /\ notify = None
    /\ pipe = {} /\ interrupted = FALSE /\ crash = "none"

\* The application runs between two polls and in callbacks.
MayCall == crash = "none" /\ (loop.at = "application" \/ caller # None)

-----------------------------------------------------------------------------
(* What the application does *)

State(o) == io.object[o].state

OpenClient(c) ==
    /\ MayCall /\ c \in Clients /\ State(c) = "none" /\ FreeFds(io) # {}
    /\ io' = LET f == NewFd(io) IN Connected([io EXCEPT !.sock[f] = Stream], c, f)
    /\ notify' = c
    /\ UNCHANGED <<incoming, loop, caller, events, pipe, interrupted, crash>>

\* As a server it only listens, until the first client is there.
OpenWaiting(c) ==
    /\ MayCall /\ c \in Waiting /\ State(c) = "none" /\ FreeFds(io) # {}
    /\ io' = Listens(io, c, "waiting")
    /\ notify' = c
    /\ UNCHANGED <<incoming, loop, caller, events, pipe, interrupted, crash>>

\* Server::takeNextClient
TakeNextClient(c) ==
    /\ MayCall /\ State(c) = "none" /\ incoming # <<>>
    /\ io' = Connected(io, c, Head(incoming))
    /\ incoming' = Tail(incoming)
    /\ notify' = c
    /\ UNCHANGED <<loop, caller, events, pipe, interrupted, crash>>

\* A message is sent when the event loop finds room for it.
Send(c) ==
    /\ MayCall /\ State(c) = "open" /\ "Write" \notin io.object[c].interest
    /\ io' = WithInterest(io, c, {"Read", "Write"})
    /\ UNCHANGED <<incoming, loop, caller, events, notify, pipe, interrupted, crash>>

\* ConnectionPrivate::close closes the transport; the server that waits for a client stays.
ConnectionClosed(s, c) ==
    [(IF s.object[c].state = "open" THEN Closed(s, c) ELSE s) EXCEPT !.object[c].state = "closed"]

IsOpen(c) == State(c) \in {"open", "waiting"}

Close(c) ==
    /\ MayCall /\ IsOpen(c)
    /\ io' = ConnectionClosed(io, c)
    /\ notify' = None
    /\ UNCHANGED <<incoming, loop, caller, events, pipe, interrupted, crash>>

\* ~IIoEventListener checks that nobody watches the forwarder any more.
Destroy(c) ==
    /\ MayCall /\ c # caller /\ (IsOpen(c) \/ State(c) = "closed")
    /\ LET s == IF IsOpen(c) THEN ConnectionClosed(io, c) ELSE io
       IN  /\ io' = [s EXCEPT !.object[c].state = "gone"]
           /\ crash' = IF s.object[c].attached THEN "destroyed while watched" ELSE crash
    /\ notify' = IF IsOpen(c) THEN None ELSE notify
    /\ UNCHANGED <<incoming, loop, caller, events, pipe, interrupted>>

\* The clients nobody has taken go with their Server.
DestroyServer ==
    /\ MayCall /\ caller # Server /\ State(Server) = "listening"
    /\ io' = LET s == Closed(io, Server)
             IN  [s EXCEPT !.object[Server].state = "gone",
                           !.sock = [f \in Fd |-> IF \E i \in DOMAIN incoming : incoming[i] = f
                                                  THEN Free ELSE s.sock[f]]]
    /\ incoming' = <<>>
    /\ UNCHANGED <<loop, caller, events, notify, pipe, interrupted, crash>>

Return ==
    /\ crash = "none" /\ caller # None
    /\ caller' = None
    /\ UNCHANGED <<io, incoming, loop, events, notify, pipe, interrupted, crash>>

-----------------------------------------------------------------------------
(* Other threads *)

QueueEvent ==
    /\ crash = "none" /\ events < MaxEvents /\ notify # None
    /\ events' = events + 1
    /\ pipe' = pipe \cup {"N"}
    /\ UNCHANGED <<io, incoming, loop, caller, notify, interrupted, crash>>

\* EventDispatcher::interrupt
Interrupt ==
    /\ crash = "none" /\ ~interrupted
    /\ interrupted' = TRUE
    /\ pipe' = pipe \cup {"S"}
    /\ UNCHANGED <<io, incoming, loop, caller, events, notify, crash>>

-----------------------------------------------------------------------------
(* poll: external, what the kernel says *)

HasInput(f) == io.sock[f].waiting > 0 \/ io.sock[f].peer # "there"

\* A hangup is reported whether it was asked for or not.
Happens(f, room) ==
    (IF "Read" \in io.poller[f] /\ HasInput(f) THEN {"Read"} ELSE {})
        \cup (IF "Write" \in io.poller[f] /\ f \in room THEN {"Write"} ELSE {})
        \cup (IF io.sock[f].peer = "gone" THEN {"HangUp"} ELSE {})

PeerConnects(f) ==
    /\ crash = "none" /\ io.sock[f].kind = "listening" /\ io.sock[f].waiting = 0
    /\ io' = [io EXCEPT !.sock[f].waiting = 1]
    /\ UNCHANGED <<incoming, loop, caller, events, notify, pipe, interrupted, crash>>

PeerSends(f) ==
    /\ crash = "none" /\ io.sock[f].kind = "stream" /\ io.sock[f].peer = "there"
    /\ io.sock[f].waiting = 0
    /\ io' = [io EXCEPT !.sock[f].waiting = 1]
    /\ UNCHANGED <<incoming, loop, caller, events, notify, pipe, interrupted, crash>>

\* shutdown() by the peer, or close() over TCP: the socket may still be written to.
PeerShutsDown(f) ==
    /\ crash = "none" /\ io.sock[f].kind = "stream" /\ io.sock[f].peer = "there"
    /\ io' = [io EXCEPT !.sock[f].peer = "done"]
    /\ UNCHANGED <<incoming, loop, caller, events, notify, pipe, interrupted, crash>>

\* close() by the peer of a local socket, or a TCP reset.
PeerCloses(f) ==
    /\ crash = "none" /\ io.sock[f].kind = "stream" /\ io.sock[f].peer # "gone"
    /\ io' = [io EXCEPT !.sock[f].peer = "gone"]
    /\ UNCHANGED <<incoming, loop, caller, events, notify, pipe, interrupted, crash>>

-----------------------------------------------------------------------------
(* poll: collecting and handling a batch *)

Entries(room) ==
    {[fd |-> f, events |-> Happens(f, room), of |-> io.listeners[f]] :
        f \in {g \in DOMAIN io.poller : Happens(g, room) # {}}}
    \cup (IF pipe = {} THEN {} ELSE {[fd |-> Pipe, events |-> {"Read"}, of |-> None]})

Poll ==
    /\ crash = "none" /\ loop.at = "application" /\ caller = None
    /\ \E room \in SUBSET {f \in DOMAIN io.poller : "Write" \in io.poller[f]} :
          /\ Entries(room) # {}
          /\ loop' = [Returned EXCEPT !.at = "batch", !.batch = Entries(room)]
    /\ UNCHANGED <<io, incoming, caller, events, notify, pipe, interrupted, crash>>

\* An accepted socket takes the first client off the backlog.
Accepted(s, o, f) == [s EXCEPT !.sock[s.object[o].fd].waiting = @ - 1, !.sock[f] = Stream]

\* handleIoReady for reading, of the object the dispatcher finds for the descriptor
ServerReads ==
    IF FreeFds(io) = {} THEN UNCHANGED <<io, incoming, caller>>
    ELSE /\ io' = Accepted(io, Server, NewFd(io))
         /\ incoming' = Append(incoming, NewFd(io))
         /\ caller' = Server

\* accept() fails: a LocalServer goes on listening, an IpServer reports it to its Connection.
AcceptFails(c) ==
    /\ FreeFds(io) = {}
    /\ \/ UNCHANGED <<io, caller, notify>>
       \/ io' = ConnectionClosed(io, c) /\ caller' = c /\ notify' = None

\* ConnectionPrivate::handleClientConnected
ClientIsThere(c) ==
    /\ FreeFds(io) # {}
    /\ io' = LET f == NewFd(io) IN Connected(Closed(Accepted(io, c, f), c), c, f)
    /\ caller' = c
    /\ UNCHANGED notify

ConnectionReads(c) ==
    LET f == io.object[c].fd
    IN  \/ /\ io.sock[f].waiting > 0
           /\ io' = [io EXCEPT !.sock[f].waiting = @ - 1]
           /\ caller' = c
           /\ UNCHANGED notify
        \/ /\ io.sock[f].waiting = 0
           /\ io' = ConnectionClosed(io, c)
           /\ caller' = c
           /\ notify' = None

\* the mutant does not tell the wakeup from a timeout
Drained_Unnoticed == IF "S" \in pipe THEN "Stop" ELSE "NoInterrupt"

Drained == IF "S" \in pipe THEN "Stop" ELSE "ProcessAuxEvents"

\* The object that has the descriptor of e now reads.
Handles(e) ==
    LET o == io.listeners[e.fd]
    IN  \/ State(o) = "listening" /\ ServerReads /\ UNCHANGED <<notify, crash>>
        \/ State(o) = "waiting" /\ (ClientIsThere(o) \/ AcceptFails(o))
               /\ UNCHANGED <<incoming, crash>>
        \/ State(o) = "open" /\ ConnectionReads(o) /\ UNCHANGED <<incoming, crash>>
        \/ /\ State(o) = "closed" \* a server that waits for a client
           /\ crash' = "client of a closed connection"
           /\ UNCHANGED <<io, incoming, caller, notify>>

ToRead(e) == {"Read", "HangUp"} \cap e.events # {} /\ e.fd \in DOMAIN io.listeners

\* There is nothing to read: accept() blocks, and the loop of handleTransportCanRead
\* (message.cpp) reads 0 bytes again and again.
InVain(e) ==
    LET o == io.listeners[e.fd]
    IN  ~HasInput(e.fd) /\ (State(o) = "open" \/ (State(o) = "waiting" /\ FreeFds(io) # {}))

\* The batch goes on with one of its events, unless it is the request to stop.
Reads(e) ==
    /\ loop' = [loop EXCEPT !.current = {e}, !.batch = @ \ {e},
                            !.at = IF ToRead(e) /\ InVain(e) THEN "reading" ELSE @]
    /\ IF ToRead(e) /\ ~InVain(e) THEN Handles(e)
       ELSE UNCHANGED <<io, incoming, caller, notify, crash>>
    /\ UNCHANGED <<events, pipe, interrupted>>

\* The handler that is held up gets its input after all.
Resume ==
    /\ crash = "none" /\ loop.at = "reading"
    /\ \E e \in loop.current : ToRead(e) /\ ~InVain(e) /\ Handles(e)
    /\ loop' = [loop EXCEPT !.at = "batch"]
    /\ UNCHANGED <<events, pipe, interrupted>>

ReadPipe ==
    /\ loop' = [loop EXCEPT !.action = Drained,
                            !.batch = IF Drained = "Stop" THEN {} ELSE {x \in @ : x.fd # Pipe}]
    /\ pipe' = {}
    /\ UNCHANGED <<io, incoming, caller, events, notify, interrupted, crash>>

BeginEntry ==
    /\ crash = "none" /\ loop.at = "batch" /\ loop.current = {} /\ caller = None
    /\ \E e \in loop.batch : IF e.fd = Pipe THEN ReadPipe ELSE Reads(e)

\* An open connection writes its message, or finds that nobody reads it any more.
ConnectionWrites(c) ==
    \/ /\ io.sock[io.object[c].fd].peer # "gone"
       /\ io' = WithInterest(io, c, {"Read"})
       /\ UNCHANGED <<caller, notify>>
    \/ /\ io.sock[io.object[c].fd].peer = "gone"
       /\ io' = ConnectionClosed(io, c)
       /\ caller' = c
       /\ notify' = None

EndEntry ==
    /\ crash = "none" /\ loop.at = "batch" /\ loop.current # {} /\ caller = None
    /\ \A e \in loop.current :
          \/ /\ {"Write", "HangUp"} \cap e.events = {} \/ e.fd \notin DOMAIN io.listeners
             /\ loop' = [loop EXCEPT !.current = {}]
             /\ UNCHANGED <<io, caller, notify, crash>>
          \/ /\ {"Write", "HangUp"} \cap e.events # {} /\ e.fd \in DOMAIN io.listeners
             /\ LET o == io.listeners[e.fd]
                IN  \/ /\ "Write" \in io.object[o].interest
                       /\ loop' = [loop EXCEPT !.current = {}]
                       /\ ConnectionWrites(o) /\ UNCHANGED crash
                    \/ /\ "Write" \notin io.object[o].interest
                       /\ crash' = "not asked for"
                       /\ UNCHANGED <<io, loop, caller, notify>>
    /\ UNCHANGED <<incoming, events, pipe, interrupted>>

EndBatch ==
    /\ crash = "none" /\ loop.at = "batch" /\ loop.batch = {} /\ loop.current = {}
    /\ caller = None
    /\ IF loop.action = "ProcessAuxEvents" /\ notify # None
       THEN loop' = [loop EXCEPT !.at = "aux", !.aux = events] /\ events' = 0
       ELSE loop' = Returned /\ UNCHANGED events
    /\ UNCHANGED <<io, incoming, caller, notify, pipe, interrupted, crash>>

\* processAuxEvents looks at m_connectionToNotify only before the first event.
ProcessAuxEvent ==
    /\ crash = "none" /\ loop.at = "aux" /\ caller = None
    /\ \/ loop.aux = 0 /\ loop' = Returned /\ UNCHANGED <<caller, crash>>
       \/ /\ loop.aux > 0
          /\ loop' = [loop EXCEPT !.aux = @ - 1]
          /\ caller' = notify
          /\ crash' = IF notify = None THEN "no connection to notify" ELSE crash
    /\ UNCHANGED <<io, incoming, events, notify, pipe, interrupted>>

-----------------------------------------------------------------------------
Next ==
    \/ Poll \/ BeginEntry \/ Resume \/ EndEntry \/ EndBatch \/ ProcessAuxEvent \/ Return
    \/ DestroyServer \/ QueueEvent \/ Interrupt
    \/ \E c \in Conn : \/ OpenClient(c) \/ OpenWaiting(c) \/ TakeNextClient(c) \/ Send(c)
                       \/ Close(c) \/ Destroy(c)
    \/ \E f \in Fd : PeerConnects(f) \/ PeerSends(f) \/ PeerShutsDown(f) \/ PeerCloses(f)

Spec == Init /\ [][Next]_vars

\* The application polls again and again, and returns from its callbacks.
FairSpec == Spec /\ WF_vars(Poll) /\ WF_vars(BeginEntry) /\ WF_vars(Resume)
                 /\ WF_vars(EndEntry) /\ WF_vars(EndBatch) /\ WF_vars(ProcessAuxEvent) /\ WF_vars(Return)

-----------------------------------------------------------------------------
(* What must hold *)

\* The kernel watches every transport and server for what it asked for last, under the
\* descriptor it has now, and nothing else: after any order of closing and opening, though
\* descriptors are used again at once.
WatchedAsAsked ==
    /\ \A o \in Object : io.object[o].attached =>
          /\ io.object[o].fd \in DOMAIN io.listeners
          /\ io.listeners[io.object[o].fd] = o
          /\ io.object[o].watched = io.object[o].interest
          /\ io.poller[io.object[o].fd] = io.object[o].interest
    /\ \A f \in DOMAIN io.listeners : io.object[io.listeners[f]].attached
    /\ DOMAIN io.listeners = DOMAIN io.poller
    /\ \A c \in Conn : State(c) = "open" => io.object[c].attached

IsStale(e) == e.fd \in DOMAIN io.listeners /\ io.listeners[e.fd] # e.of

\* A batch breaks the promise below in two cases only: the peer has hung up after its last
\* message, or the descriptor of an event was closed and given to another object by a
\* callback of the same batch.  Only the second holds up the event loop.
NotifiedAsRequested ==
    /\ crash = "not asked for" =>
          \A e \in loop.current : IsStale(e) \/ "HangUp" \in e.events
    /\ loop.at = "reading" => \A e \in loop.current : IsStale(e)

\* Whatever handlers and callbacks do, a message that waits at an open connection is read,
\* and events queued by other threads are taken out while their connection is there; a stop
\* request may discard their wakeup, and a handler without input hold up everybody.
EveryoneIsServed ==
    /\ \A c \in Conn :
          State(c) = "open" /\ io.sock[io.object[c].fd].waiting > 0
              ~> \/ State(c) # "open" \/ io.sock[io.object[c].fd].waiting = 0
                 \/ loop.at = "reading" \/ crash # "none"
    /\ \A c \in Conn :
          notify = c /\ events > 0 /\ "N" \in pipe
              ~> \/ notify # c \/ events = 0 \/ interrupted
                 \/ loop.at = "reading" \/ crash # "none"
=============================================================================
