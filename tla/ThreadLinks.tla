----------------------------- MODULE ThreadLinks -----------------------------
(***************************************************************************)
(* A main Connection and the secondary Connections that other threads make *)
(* from its CommRefs (src/connection/connection.cpp).  Each thread has an  *)
(* EventDispatcher with a queue that the others append to; a link joins    *)
(* each secondary to the main one.                                         *)
(*                                                                         *)
(* A section of code under a CommutexLocker or CommutexUnlinker is one     *)
(* step that needs the link to be Free, which is what CallGate, refined by *)
(* Commutex, promises; a thread that waits for the lock takes no step.     *)
(* The main connection starts out authenticated, waiting for the reply to  *)
(* its hello message.  A message a secondary sends is the PendingReply it  *)
(* is sent with: serials are unique, so only "not numbered" (serial 0) is  *)
(* kept apart.  The main connection's own replies, the send queue and the  *)
(* application's calls from inside callbacks are left out; the application *)
(* does not send() on a Connection it has closed itself.                   *)
(***************************************************************************)
EXTENDS Naturals, Sequences

CONSTANTS Sec,            \* the secondary connections, one per CommRef
          Reply,          \* the PendingReplies that send() returns
          Owner,          \* the secondary on which each of them is sent
          Timed,          \* those sent with a timeout (not NoTimeout)
          MainHasClient,  \* the main connection has a m_client
          MaxSpontaneous  \* bound: spontaneous messages received

ASSUME OwnerAssumption == Owner \in [Reply -> Sec]
ASSUME TimedAssumption == Timed \subseteq Reply
ASSUME ClientAssumption == MainHasClient \in BOOLEAN
ASSUME BoundAssumption == MaxSpontaneous \in Nat

VARIABLES
  \* the main connection, and the environment behind its transport
  mainPhase,   \* "open", in close(), closed, or destroyed
  mainNamed,   \* m_uniqueName has arrived: the state is Connected
  unredeemed,  \* m_unredeemedCommRefs
  links,       \* keys of m_secondaryThreadLinks
  mainPending, \* m_pendingReplies: the records for secondary threads
  onWire,      \* messages handed to the transport that may be answered
  mainQueue,   \* m_queuedEvents of its dispatcher
  mainBatch,   \* events of the queue that processAuxEvents has taken out
  spontaneous, \* spontaneous messages received so far
  \* the Commutex of each CommRef
  link,
  \* each secondary connection
  phase,       \* does not exist yet, open, closed, or destroyed
  state,       \* m_state
  hasMain,     \* m_mainThreadConnection is not null
  named,       \* m_uniqueName is not empty
  pending,     \* m_pendingReplies
  queue,       \* m_queuedEvents of its dispatcher
  batch,       \* events of the queue that processAuxEvents has taken out
  sending,     \* the replies for which send() is between its two locks
  \* each PendingReply
  status,      \* "unsent", "waiting", "finished", "destroyed"
  numbered,    \* its message has got a serial other than 0
  error,       \* m_error
  timer,       \* m_replyTimeout: "off", "running", or "zero" (start(0))
  \* the process
  crash        \* where the code has followed a null pointer, or "none"

mainVars  == <<mainPhase, mainNamed, unredeemed, links, mainPending, onWire,
               spontaneous>>
secVars   == <<phase, state, hasMain, named, pending, sending>>
replyVars == <<status, numbered, error, timer>>
queueVars == <<mainQueue, mainBatch, queue, batch>>
vars == <<mainVars, link, secVars, replyVars, queueVars, crash>>

-----------------------------------------------------------------------------
(* The events of event.h that cross threads.                               *)

Connect(s)    == [type |-> "SecondaryConnectionConnect", connection |-> s]
Disconnect(s) == [type |-> "SecondaryConnectionDisconnect", connection |-> s]
SendWith(p)   == [type |-> "SendMessageWithPendingReply", reply |-> p]
Cancel(p)     == [type |-> "PendingReplyCancel", reply |-> p]

UniqueName(n) == [type |-> "UniqueNameReceived", name |-> n]
Success(p)    == [type |-> "PendingReplySuccess", reply |-> p]
Failure(p)    == [type |-> "PendingReplyFailure", reply |-> p]
MainGone      == [type |-> "MainConnectionDisconnect"]
Message(i)    == [type |-> "SpontaneousMessageReceived", intact |-> i]

MainEvents == {Connect(s) : s \in Sec} \cup {Disconnect(s) : s \in Sec}
              \cup {SendWith(p) : p \in Reply} \cup {Cancel(p) : p \in Reply}
SecEvents  == {UniqueName(n) : n \in BOOLEAN} \cup {Message(i) : i \in BOOLEAN}
              \cup {Success(p) : p \in Reply} \cup {Failure(p) : p \in Reply}
              \cup {MainGone}

MainOK ==
  /\ mainPhase \in {"open", "closing", "closed", "destroyed"}
  /\ mainNamed \in BOOLEAN
  /\ unredeemed \subseteq Sec /\ links \subseteq Sec
  /\ mainPending \subseteq Reply /\ onWire \subseteq Reply
  /\ spontaneous \in Nat
  /\ link \in [Sec -> {"none", "Free", "Broken"}]

SecOK ==
  /\ phase \in [Sec -> {"none", "open", "closed", "destroyed"}]
  /\ state \in [Sec -> {"Unconnected", "AwaitingUniqueName", "Connected"}]
  /\ hasMain \in [Sec -> BOOLEAN] /\ named \in [Sec -> BOOLEAN]
  /\ pending \in [Sec -> SUBSET Reply] /\ sending \in [Sec -> SUBSET Reply]

ReplyOK ==
  /\ status \in [Reply -> {"unsent", "waiting", "finished", "destroyed"}]
  /\ numbered \in [Reply -> BOOLEAN]
  /\ error \in [Reply -> {"NoError", "LocalDisconnect", "Timeout", "SendError"}]
  /\ timer \in [Reply -> {"off", "running", "zero"}]

QueuesOK ==
  /\ mainQueue \in Seq(MainEvents) /\ mainBatch \in 0..Len(mainQueue)
  /\ queue \in [Sec -> Seq(SecEvents)] /\ batch \in [Sec -> Nat]
  /\ \A s \in Sec : batch[s] <= Len(queue[s])

StateOK == MainOK /\ SecOK /\ ReplyOK /\ QueuesOK
TypeOK == StateOK /\ crash \in {"none", "null transport"}

Init ==
  /\ mainPhase = "open" /\ mainNamed = FALSE
  /\ unredeemed = {} /\ links = {}
  /\ mainPending = {} /\ onWire = {}
  /\ mainQueue = <<>> /\ mainBatch = 0
  /\ spontaneous = 0
  /\ link = [s \in Sec |-> "none"]
  /\ phase = [s \in Sec |-> "none"]
  /\ state = [s \in Sec |-> "Unconnected"]
  /\ hasMain = [s \in Sec |-> FALSE] /\ named = [s \in Sec |-> FALSE]
  /\ pending = [s \in Sec |-> {}] /\ sending = [s \in Sec |-> {}]
  /\ queue = [s \in Sec |-> <<>>] /\ batch = [s \in Sec |-> 0]
  /\ status = [p \in Reply |-> "unsent"]
  /\ numbered = [p \in Reply |-> FALSE]
  /\ error = [p \in Reply |-> "NoError"]
  /\ timer = [p \in Reply |-> "off"]
  /\ crash = "none"

-----------------------------------------------------------------------------
(* Event queues: queueEvent appends, poll() takes the whole queue out and  *)
(* processes it in order, if the dispatcher has a connection to notify.    *)

Tell(s, e)  == queue' = [queue EXCEPT ![s] = Append(@, e)]
TellMain(e) == mainQueue' = Append(mainQueue, e) /\ UNCHANGED mainBatch
SecQueuesSame  == UNCHANGED <<queue, batch>>
MainQueueSame  == UNCHANGED <<mainQueue, mainBatch>>

\* The thread of s is between two events and two calls; with an open
\* connection it is Idle.
Between(s) == phase[s] \in {"open", "closed"} /\ batch[s] = 0 /\ sending[s] = {}
Idle(s)  == phase[s] = "open" /\ Between(s)
MainIdle == mainBatch = 0 /\ mainPhase = "open"

\* std::swap in processAuxEvents; the mutant counts one event too many.
TakenOut_OneMore(q) == Len(q) + 1
TakenOut(q) == Len(q)

Poll(s) ==
  /\ Idle(s) /\ queue[s] # <<>>
  /\ batch' = [batch EXCEPT ![s] = TakenOut(queue[s])]
  /\ UNCHANGED <<mainVars, link, secVars, replyVars, mainQueue, mainBatch, queue>>

MainPoll ==
  /\ MainIdle /\ mainQueue # <<>>
  /\ mainBatch' = TakenOut(mainQueue)
  /\ UNCHANGED <<mainVars, link, secVars, replyVars, mainQueue, queue, batch>>

Takes(s, e) ==
  /\ batch[s] > 0 /\ Head(queue[s]) = e
  /\ queue' = [queue EXCEPT ![s] = Tail(@)]
  /\ batch' = [batch EXCEPT ![s] = @ - 1]
  /\ MainQueueSame

MainTakes(e) ==
  /\ mainBatch > 0 /\ Head(mainQueue) = e
  /\ mainQueue' = Tail(mainQueue)
  /\ mainBatch' = mainBatch - 1

\* A section of s under its lock: CommutexLocker on m_mainThreadLink.
LockHeld(s) == link[s] = "Free"
LockFails(s) == link[s] # "Free"

Mine(s) == {p \in Reply : Owner[p] = s}

\* The records of m_pendingReplies that have the key (serial) of p.
SameKey(s, p) == IF numbered[p] THEN {p} \cap pending[s]
                                ELSE {q \in pending[s] : ~numbered[q]}

\* handleError on every reply of the set P.
FailAll(P, e) ==
  /\ status' = [p \in Reply |-> IF p \in P THEN "finished" ELSE status[p]]
  /\ error' = [p \in Reply |-> IF p \in P /\ error[p] = "NoError"
                                 THEN e ELSE error[p]]

-----------------------------------------------------------------------------
(* Making the link.                                                        *)

CreateCommRef(s) ==
  /\ mainBatch = 0 /\ mainPhase \in {"open", "closed"} /\ link[s] = "none"
  /\ link' = [link EXCEPT ![s] = "Free"]
  /\ unredeemed' = unredeemed \cup {s}
  /\ UNCHANGED <<mainPhase, mainNamed, links, mainPending, onWire, spontaneous,
                 secVars, replyVars, queueVars>>

\* A CommRef that is never used: its peer unlinks, the main one stays.
DropCommRef(s) ==
  /\ phase[s] = "none" /\ link[s] # "none"
  /\ phase' = [phase EXCEPT ![s] = "destroyed"]
  /\ link' = [link EXCEPT ![s] = "Broken"]
  /\ UNCHANGED <<mainVars, state, hasMain, named, pending, sending, replyVars,
                 queueVars>>

\* The constructor from a CommRef.  If the main connection is destroyed, a
\* build with assertions aborts; the others leave the Connection Unconnected.
Construct(s) ==
  /\ phase[s] = "none" /\ link[s] # "none"
  /\ phase' = [phase EXCEPT ![s] = "open"]
  /\ IF LockHeld(s)
       THEN /\ hasMain' = [hasMain EXCEPT ![s] = TRUE]
            /\ state' = [state EXCEPT ![s] = "AwaitingUniqueName"]
            /\ TellMain(Connect(s))
       ELSE UNCHANGED <<hasMain, state, mainQueue, mainBatch>>
  /\ UNCHANGED <<mainVars, link, named, pending, sending, replyVars>>
  /\ SecQueuesSame

\* The "welcome package" (l. 917); the mutant leaves it out.
Welcome_None(s) == UNCHANGED queue
Welcome(s) == IF LockHeld(s) THEN Tell(s, UniqueName(mainNamed))
                             ELSE UNCHANGED queue

MainTakesConnect(s) ==
  /\ MainTakes(Connect(s))
  /\ unredeemed' = unredeemed \ {s}
  /\ links' = links \cup {s}
  /\ Welcome(s)
  /\ UNCHANGED <<mainPhase, mainNamed, mainPending, onWire, spontaneous,
                 link, secVars, replyVars, batch>>

\* handleHelloReply with a good reply.
MainGetsName ==
  /\ MainIdle /\ ~mainNamed
  /\ mainNamed' = TRUE
  /\ queue' = [s \in Sec |-> IF s \in links /\ LockHeld(s)
                               THEN Append(queue[s], UniqueName(TRUE))
                               ELSE queue[s]]
  /\ UNCHANGED <<mainPhase, unredeemed, links, mainPending, onWire, spontaneous,
                 link, secVars, replyVars, mainQueue, mainBatch, batch>>

TakesUniqueName(s, n) ==
  /\ Takes(s, UniqueName(n))
  /\ named' = [named EXCEPT ![s] = n]
  /\ state' = [state EXCEPT ![s] = IF @ = "AwaitingUniqueName"
                                     THEN "Connected" ELSE @]
  /\ UNCHANGED <<mainVars, link, phase, hasMain, pending, sending, replyVars>>

-----------------------------------------------------------------------------
(* send() on a secondary connection: prepareSend takes a serial from the   *)
(* main connection under the lock; after that the PendingReply exists and  *)
(* its message is handed over under the lock, taken a second time.         *)

SendPrepare(s, p) ==
  /\ Idle(s) /\ Owner[p] = s /\ status[p] = "unsent"
  /\ sending' = [sending EXCEPT ![s] = {p}]
  /\ IF hasMain[s] /\ LockFails(s)
       THEN /\ error' = [error EXCEPT ![p] = "LocalDisconnect"]
            /\ UNCHANGED numbered
       ELSE /\ numbered' = [numbered EXCEPT ![p] = TRUE]
            /\ UNCHANGED error
  /\ UNCHANGED <<mainVars, link, phase, state, hasMain, named, pending,
                 status, timer, queueVars>>

\* The constructor of PendingReplyPrivate starts the timer of a reply with a
\* timeout.
Started(p, t) == IF p \in Timed THEN t ELSE "off"

\* Common to all outcomes: the reply is made and, if its key is not taken,
\* recorded; its timer is started at t.
Register(s, p, t) ==
  /\ p \in sending[s]
  /\ sending' = [sending EXCEPT ![s] = {}]
  /\ status' = [status EXCEPT ![p] = "waiting"]
  /\ pending' = [pending EXCEPT ![s] = IF SameKey(s, p) = {}
                                         THEN @ \cup {p} ELSE @]
  /\ timer' = [timer EXCEPT ![p] = Started(p, t)]
  /\ UNCHANGED <<mainVars, link, phase, state, hasMain, named, numbered>>

\* An error so far, or no connection: the error is signalled by the timer.
SendRefused(s, p) ==
  /\ error[p] # "NoError" \/ state[s] = "Unconnected"
  /\ Register(s, p, "zero")
  /\ error' = [error EXCEPT ![p] = "LocalDisconnect"]
  /\ UNCHANGED queueVars

\* sendPreparedMessage of a connection that has lost its main connection: the
\* message goes into its own queue, and if the name has not arrived by then it
\* stays there (l. 489-493).
SendLocally(s, p) ==
  /\ error[p] = "NoError" /\ state[s] = "AwaitingUniqueName"
  /\ ~hasMain[s]
  /\ Register(s, p, "running")
  /\ UNCHANGED <<error, queueVars>>

\* In the Connected state the first message in that queue is given to m_transport,
\* which a secondary connection does not have.
SendToNothing(s, p) ==
  /\ p \in sending[s] /\ error[p] = "NoError" /\ state[s] = "Connected"
  /\ ~hasMain[s]
  /\ crash = "none" /\ crash' = "null transport"
  /\ UNCHANGED <<mainVars, link, secVars, replyVars, queueVars>>

SendHandsOver(s, p) ==
  /\ error[p] = "NoError" /\ state[s] # "Unconnected"
  /\ hasMain[s] /\ LockHeld(s)
  /\ Register(s, p, "running")
  /\ TellMain(SendWith(p))
  /\ UNCHANGED error /\ SecQueuesSame

\* The main connection has gone between the two locks.
SendFindsBroken(s, p) ==
  /\ error[p] = "NoError" /\ state[s] # "Unconnected"
  /\ hasMain[s] /\ LockFails(s)
  /\ Register(s, p, "running")
  /\ error' = [error EXCEPT ![p] = "LocalDisconnect"]
  /\ UNCHANGED queueVars

MainTakesSend(p) ==
  /\ MainTakes(SendWith(p))
  /\ mainPending' = mainPending \cup {p}
  /\ onWire' = onWire \cup {p}
  /\ UNCHANGED <<mainPhase, mainNamed, unredeemed, links, spontaneous,
                 link, secVars, replyVars>>
  /\ SecQueuesSame

-----------------------------------------------------------------------------
(* Answers, and what the secondary does with them.                         *)

\* Events for a connection that has been destroyed are lost at best.
TellOwner(p, e) == IF phase[Owner[p]] # "destroyed"
                     THEN Tell(Owner[p], e) ELSE UNCHANGED queue

\* maybeDispatchToPendingReply: without taking the lock of the link.
MainForwards(p, e) ==
  /\ MainIdle /\ p \in onWire /\ p \in mainPending
  /\ onWire' = onWire \ {p}
  /\ mainPending' = mainPending \ {p}
  /\ TellOwner(p, e)
  /\ UNCHANGED <<mainPhase, mainNamed, unredeemed, links, spontaneous,
                 link, secVars, replyVars, mainQueue, mainBatch, batch>>

\* A reply comes in, or (PayloadError) its message cannot be sent.
MainForwardsReply(p)   == MainForwards(p, Success(p))
MainForwardsFailure(p) == MainForwards(p, Failure(p))

\* The message went wrong when nobody waits for its reply any more.
MainDropsFailure(p) ==
  /\ MainIdle /\ p \in onWire \ mainPending
  /\ onWire' = onWire \ {p}
  /\ UNCHANGED <<mainPhase, mainNamed, unredeemed, links, mainPending,
                 spontaneous, link, secVars, replyVars, queueVars>>

\* The links found broken; the mutant takes every link for broken.
DeadLinks_All == links
DeadLinks == {s \in links : LockFails(s)}

\* A message that is not a reply somebody waits for goes to m_client and to
\* every secondary; m_client has got it by move, so nothing is left for the
\* others.  Links found broken are dropped, with the records behind them.
Broadcast ==
  /\ links' = links \ DeadLinks
  /\ mainPending' = {p \in mainPending : Owner[p] \notin DeadLinks}
  /\ queue' = [s \in Sec |-> IF s \in links \ DeadLinks
                               THEN Append(queue[s], Message(~MainHasClient))
                               ELSE queue[s]]
  /\ UNCHANGED <<mainPhase, mainNamed, unredeemed, link, secVars, replyVars,
                 mainQueue, mainBatch, batch>>

MainReceivesSpontaneous ==
  /\ MainIdle /\ spontaneous < MaxSpontaneous
  /\ spontaneous' = spontaneous + 1
  /\ Broadcast /\ UNCHANGED onWire

MainReceivesLateReply(p) ==
  /\ MainIdle /\ p \in onWire \ mainPending
  /\ onWire' = onWire \ {p}
  /\ Broadcast /\ UNCHANGED spontaneous

TakesMessage(s, i) ==
  /\ Takes(s, Message(i))
  /\ UNCHANGED <<mainVars, link, secVars, replyVars>>

\* handleReceived if the reply is still recorded; if not, it is too late.
TakesSuccess(s, p) ==
  /\ Takes(s, Success(p))
  /\ IF p \in pending[s]
       THEN /\ pending' = [pending EXCEPT ![s] = @ \ {p}]
            /\ status' = [status EXCEPT ![p] = "finished"]
            /\ timer' = [timer EXCEPT ![p] = "off"]
       ELSE UNCHANGED <<pending, status, timer>>
  /\ UNCHANGED <<mainVars, link, phase, state, hasMain, named, sending,
                 numbered, error>>

\* handleError; a reply that is no longer recorded fails an assertion.
TakesFailure(s, p) ==
  /\ Takes(s, Failure(p))
  /\ LET P == {p} \cap pending[s] IN
     /\ pending' = [pending EXCEPT ![s] = @ \ P]
     /\ FailAll(P, "SendError")
  /\ UNCHANGED <<mainVars, link, phase, state, hasMain, named, sending,
                 numbered, timer>>

-----------------------------------------------------------------------------
(* Timeouts, and PendingReplies the application drops.                     *)

\* The main connection is told to drop its record; the mutant forgets that.
CancelInMain_Not(s, p) == MainQueueSame
CancelInMain(s, p) ==
  IF hasMain[s] /\ LockHeld(s) THEN TellMain(Cancel(p)) ELSE MainQueueSame

\* unregisterPendingReply
Unregister(s, p) ==
  /\ pending' = [pending EXCEPT ![s] = @ \ SameKey(s, p)]
  /\ CancelInMain(s, p)
  /\ SecQueuesSame
  /\ UNCHANGED <<mainVars, link, phase, state, hasMain, named, sending, numbered>>

\* handleCompletion of the timer unregisters the reply; the mutant does not.
TimedOutFrom_Still(s, p) == UNCHANGED <<mainVars, link, secVars, numbered, queueVars>>
TimedOutFrom(s, p) == Unregister(s, p)

TimerFires(s, p) ==
  /\ Between(s) /\ Owner[p] = s
  /\ status[p] = "waiting" /\ timer[p] # "off"
  /\ timer' = [timer EXCEPT ![p] = "off"]
  /\ TimedOutFrom(s, p)
  /\ FailAll({p}, "Timeout")

DropWaiting(s, p) ==
  /\ Between(s) /\ Owner[p] = s /\ status[p] = "waiting"
  /\ status' = [status EXCEPT ![p] = "destroyed"]
  /\ timer' = [timer EXCEPT ![p] = "off"]
  /\ Unregister(s, p)
  /\ UNCHANGED error

MainTakesCancel(p) ==
  /\ MainTakes(Cancel(p))
  /\ mainPending' = mainPending \ {p}
  /\ UNCHANGED <<mainPhase, mainNamed, unredeemed, links, onWire, spontaneous,
                 link, secVars, replyVars>>
  /\ SecQueuesSame

-----------------------------------------------------------------------------
(* close() and the destructor of a secondary connection.                   *)

Close(s) ==
  /\ Idle(s)
  /\ IF hasMain[s] /\ LockHeld(s)
       THEN /\ link' = [link EXCEPT ![s] = "Broken"]
            /\ TellMain(Disconnect(s))
       ELSE MainQueueSame /\ UNCHANGED link
  /\ FailAll(pending[s], "LocalDisconnect")
  /\ pending' = [pending EXCEPT ![s] = {}]
  /\ phase' = [phase EXCEPT ![s] = "closed"]
  /\ state' = [state EXCEPT ![s] = "Unconnected"]
  /\ UNCHANGED <<mainVars, hasMain, named, sending, numbered, timer>>
  /\ SecQueuesSame

\* ~Connection after close(): the peer of the link unlinks.
Destroy(s) ==
  /\ phase[s] = "closed"
  /\ phase' = [phase EXCEPT ![s] = "destroyed"]
  /\ link' = [link EXCEPT ![s] = "Broken"]
  /\ UNCHANGED <<mainVars, state, hasMain, named, pending, sending, replyVars,
                 queueVars>>

MainTakesDisconnect(s) ==
  /\ MainTakes(Disconnect(s))
  /\ links' = links \ {s}
  /\ mainPending' = IF s \in links THEN mainPending \ Mine(s) ELSE mainPending
  /\ UNCHANGED <<mainPhase, mainNamed, unredeemed, onWire, spontaneous,
                 link, secVars, replyVars>>
  /\ SecQueuesSame

-----------------------------------------------------------------------------
(* close() and the destructor of the main connection: the application      *)
(* closes it, or its transport fails.                                      *)

MainClose ==
  /\ MainIdle
  /\ mainPhase' = "closing"
  /\ UNCHANGED <<mainNamed, unredeemed, links, mainPending, onWire, spontaneous,
                 link, secVars, replyVars, queueVars>>

\* The Unlinker's willSucceed() once nobody else is in the link, also when
\* it is broken already; the mutant asks for hasLock() instead.
WillSucceed_IfLocked(s) == s \in links /\ LockHeld(s)
WillSucceed(s) == s \in links

\* MainConnectionDisconnect, if the lock was got; the mutant tells nobody.
TellLoss_None(s) == UNCHANGED queue
TellLoss(s) == IF LockHeld(s) THEN Tell(s, MainGone) ELSE UNCHANGED queue

\* One element of m_secondaryThreadLinks, in any order.
MainCloseLink(s) ==
  /\ mainPhase = "closing" /\ WillSucceed(s)
  /\ links' = links \ {s}
  /\ link' = [link EXCEPT ![s] = "Broken"]
  /\ TellLoss(s)
  /\ UNCHANGED <<mainPhase, mainNamed, unredeemed, mainPending, onWire,
                 spontaneous, secVars, replyVars, mainQueue, mainBatch, batch>>

MainCloseEnd ==
  /\ mainPhase = "closing" /\ links = {}
  /\ mainPhase' = "closed"
  /\ mainPending' = {} /\ onWire' = {}
  /\ UNCHANGED <<mainNamed, unredeemed, links, spontaneous, link, secVars,
                 replyVars, queueVars>>

\* ~CommutexPeer unlinks; the mutant destroys the peers without that.
RefsUnlinked_Not == link
RefsUnlinked == [s \in Sec |-> IF s \in unredeemed THEN "Broken" ELSE link[s]]

\* The peers of m_unredeemedCommRefs are destroyed.
MainDestroy ==
  /\ mainPhase = "closed"
  /\ mainPhase' = "destroyed"
  /\ link' = RefsUnlinked
  /\ UNCHANGED <<mainNamed, unredeemed, links, mainPending, onWire, spontaneous,
                 secVars, replyVars, queueVars>>

\* cancelAllPendingReplies; the mutant leaves out what was never handed over.
Cancelled_Sent(s) == {p \in pending[s] : error[p] = "NoError"}
Cancelled(s) == pending[s]

\* The secondary learns that the main connection has gone; its m_state is
\* left as it is.
TakesMainGone(s) ==
  /\ Takes(s, MainGone)
  /\ hasMain' = [hasMain EXCEPT ![s] = FALSE]
  /\ FailAll(Cancelled(s), "LocalDisconnect")
  /\ pending' = [pending EXCEPT ![s] = {}]
  /\ UNCHANGED <<mainVars, link, phase, state, named, sending, numbered, timer>>

-----------------------------------------------------------------------------
\* What the event loop and the running calls of a secondary's thread do.
SecWork(s) ==
  \/ Poll(s)
  \/ \E n \in BOOLEAN : TakesUniqueName(s, n) \/ TakesMessage(s, n)
  \/ \E p \in Reply : TakesSuccess(s, p) \/ TakesFailure(s, p)
  \/ TakesMainGone(s)
  \/ \E p \in Reply : \/ SendRefused(s, p) \/ SendLocally(s, p)
                      \/ SendHandsOver(s, p) \/ SendFindsBroken(s, p)

\* What the application does with it.
SecCalls(s) ==
  \/ Construct(s) \/ DropCommRef(s) \/ Close(s) \/ Destroy(s)
  \/ \E p \in Reply : SendPrepare(s, p) \/ DropWaiting(s, p)

\* What the event loop and close() of the main thread do.
MainWork ==
  \/ MainPoll
  \/ \E s \in Sec : MainTakesConnect(s) \/ MainTakesDisconnect(s)
                    \/ MainCloseLink(s)
  \/ \E p \in Reply : MainTakesSend(p) \/ MainTakesCancel(p)
  \/ MainCloseEnd

\* What comes from the transport and from the application.
MainInput ==
  \/ MainGetsName \/ MainReceivesSpontaneous
  \/ \E p \in Reply : MainForwardsReply(p) \/ MainForwardsFailure(p)
                      \/ MainReceivesLateReply(p) \/ MainDropsFailure(p)
  \/ \E s \in Sec : CreateCommRef(s)
  \/ MainClose \/ MainDestroy

Step ==
  \/ MainWork \/ MainInput
  \/ \E s \in Sec : SecWork(s) \/ SecCalls(s)
  \/ \E s \in Sec, p \in Reply : TimerFires(s, p)

\* A process that has crashed takes no more steps.
Runs == crash = "none" /\ UNCHANGED crash

Next ==
  \/ Runs /\ Step
  \/ \E s \in Sec, p \in Reply : SendToNothing(s, p)

\* Every thread keeps polling and finishes what it has begun; timers whose
\* time has come fire.  Nothing is assumed of the application or the bus.
Fairness ==
  /\ WF_vars(Runs /\ MainWork)
  /\ \A s \in Sec : WF_vars(\/ Runs /\ SecWork(s)
                            \/ \E p \in Reply : SendToNothing(s, p))
  /\ \A s \in Sec, p \in Reply : SF_vars(Runs /\ TimerFires(s, p))

Spec == Init /\ [][Next]_vars
FairSpec == Spec /\ Fairness

-----------------------------------------------------------------------------
(* Properties.                                                             *)

InQueue(e, q) == \E i \in 1..Len(q) : q[i] = e

\* The main connection has processed the Connect event of s, or never will
\* because there was none.
Redeemed(s) == s \notin unredeemed

\* Whoever gets the lock of a link finds both connections in memory: the
\* pointers that send() (l. 531), unregisterPendingReply (l. 814), close()
\* (l. 335, 349) and the main thread's loops (l. 409, 726) follow under it
\* are valid ("making sure that other threads stop calling us",
\* connection_p.h l. 51).
LinksReachLiving ==
  \A s \in Sec : link[s] = "Free" => /\ mainPhase # "destroyed"
                                     /\ phase[s] # "destroyed"

\* Whichever side breaks the link, the other one is told by an event: a
\* broken link that the main connection still keeps has a Disconnect event
\* coming, and a secondary that still believes in the main connection it was
\* registered with has a MainConnectionDisconnect event coming (l. 334-360).
BreakIsAnnounced ==
  /\ \A s \in links : link[s] = "Broken" => InQueue(Disconnect(s), mainQueue)
  /\ \A s \in Sec : phase[s] = "open" /\ hasMain[s] /\ link[s] = "Broken"
                    /\ Redeemed(s)
                    => InQueue(MainGone, queue[s])

\* A reply that waits on a secondary linked to a live main connection has
\* not been forgotten: the message is on its way to the main connection, or
\* recorded there and on the wire, or the answer is on its way back, or the
\* failure is (l. 518-542, 749-801, 872).
SomebodyKnows(p) ==
  LET s == Owner[p] IN
  \/ InQueue(SendWith(p), mainQueue)
  \/ p \in mainPending /\ p \in onWire
  \/ InQueue(Success(p), queue[s]) \/ InQueue(Failure(p), queue[s])
  \/ InQueue(MainGone, queue[s])
  \/ timer[p] = "zero"
WaitingIsNotForgotten ==
  \A p \in Reply :
     /\ status[p] = "waiting" /\ phase[Owner[p]] = "open" /\ hasMain[Owner[p]]
     /\ mainPhase = "open" \/ (Redeemed(Owner[p]) /\ Owner[p] \notin links)
     => SomebodyKnows(p)

\* The records of the main connection do not pile up: while the secondary is
\* linked, a record there belongs to a reply that still waits on the other
\* side, or its cancellation is on its way (l. 811-831, 903).
RecordsAreNeeded ==
  \A p \in mainPending :
     LET s == Owner[p] IN
     link[s] = "Free" => \/ status[p] = "waiting" /\ p \in pending[s]
                         \/ InQueue(Cancel(p), mainQueue)

\* What a secondary keeps a record of waits: the answer that comes for a record,
\* or the end of a connection, never finishes a PendingReply that has timed out
\* or been dropped, nor finishes one twice (l. 516, 758, 824-831, 841).
RecordsWait ==
  \A s \in Sec : \A p \in pending[s] : Owner[p] = s /\ status[p] = "waiting"

\* A reply with a timeout does not wait forever, whatever happens to its
\* message and to both connections, unless its connection is destroyed.
TimedRepliesEnd ==
  \A p \in Timed : status[p] = "waiting" ~>
                   \/ status[p] # "waiting" \/ phase[Owner[p]] = "destroyed"
                   \/ crash # "none"

\* A reply that was recorded while its secondary was linked ends when the main
\* connection closes, with or without a timeout: also one that was sent between
\* the break of the link and the news of it, whose message was never handed over
\* ("any pending replies that cannot finish successfully anymore will finish",
\* connection_p.h l. 75; connection.cpp l. 516, 531, 941).  It has a serial: the
\* records of those that got none take each other's place.
RepliesEndWithMain ==
  \A p \in Reply :
     LET s == Owner[p] IN
     mainPhase = "closed" /\ Redeemed(s) /\ hasMain[s] /\ numbered[p] /\ p \in pending[s]
     ~> status[p] # "waiting" \/ phase[s] # "open" \/ crash # "none"

\* No reply is left waiting that a timer or the loss of the main connection ends.
RepliesEnd == TimedRepliesEnd /\ RepliesEndWithMain

\* The unique name reaches every registered secondary, whether it was linked
\* before the name arrived (l. 405-414) or after (l. 917-924).
NameArrives ==
  \A s \in Sec : s \in links /\ mainNamed ~>
                 \/ named[s] /\ state[s] = "Connected"
                 \/ phase[s] # "open" \/ mainPhase # "open" \/ crash # "none"

\* Every secondary that was registered learns that the main connection has
\* closed and lets go of it (l. 941).
LossIsNoticed ==
  \A s \in Sec : mainPhase = "closed" /\ Redeemed(s) /\ hasMain[s] ~>
                 ~hasMain[s] \/ phase[s] # "open" \/ crash # "none"

\* close() of the main connection does not wait for its secondaries forever.
MainCloses == mainPhase = "closing" ~> mainPhase # "closing" \/ crash # "none"

-----------------------------------------------------------------------------
(* What a comment says, and the code does not keep.                        *)

\* "When a master and a secondary connection try to communicate in any way,
\* and the other party has been destroyed, communication will fail gracefully"
\* (connection_p.h l. 73): an answer is forwarded to a living secondary only.
ForwardsToLiving ==
  [][\A p \in Reply : MainForwardsReply(p) \/ MainForwardsFailure(p)
                      => phase[Owner[p]] # "destroyed"]_vars

\* The same sentence goes on "and there will be no crash or undefined behavior"
\* (connection_p.h l. 74): a secondary may send when the main connection is gone.
SendsSurviveLoss == crash = "none"
=============================================================================
