-------------------------- MODULE ThreadLinksProof --------------------------
(***************************************************************************)
(* Proofs about ThreadLinks, for any number of secondaries and replies.    *)
(*                                                                         *)
(* LinksReachLiving is not inductive: that the destructor of the main      *)
(* connection leaves no free link behind depends on every free link being  *)
(* held by one of its two containers, which in turn depends on Disconnect  *)
(* events being queued for broken links only.                              *)
(***************************************************************************)
EXTENDS ThreadLinks, SequenceTheorems, TLAPS

\* Everything but the crash, which only a step that does nothing else changes.
seen == <<mainVars, link, secVars, replyVars, queueVars>>

\* The process takes a step of its connections, or nothing of them changes.
LEMMA StepsOnly == [Next]_vars => [Step]_seen
BY DEF Next, SendToNothing, vars, seen

\* Appending to a queue and taking its head off keep it a queue.
LEMMA AppendType ==
  ASSUME NEW S, NEW q \in Seq(S), NEW e \in S
  PROVE  /\ Append(q, e) \in Seq(S)
         /\ Len(Append(q, e)) = Len(q) + 1
         /\ \A i \in 1..Len(q) + 1 :
               Append(q, e)[i] = IF i = Len(q) + 1 THEN e ELSE q[i]
OBVIOUS

\* Taking the head off a queue that is not empty.
LEMMA TailType ==
  ASSUME NEW S, NEW q \in Seq(S), Len(q) > 0
  PROVE  /\ Tail(q) \in Seq(S)
         /\ Len(Tail(q)) = Len(q) - 1
         /\ \A i \in 1..Len(q) - 1 : Tail(q)[i] = q[i + 1]
         /\ Head(q) = q[1] /\ 1 \in 1..Len(q)
OBVIOUS

\* Every event that is queued is an event of the right kind.
LEMMA EventTypes ==
  /\ \A s \in Sec : Connect(s) \in MainEvents /\ Disconnect(s) \in MainEvents
  /\ \A p \in Reply : SendWith(p) \in MainEvents /\ Cancel(p) \in MainEvents
  /\ \A n \in BOOLEAN : UniqueName(n) \in SecEvents /\ Message(n) \in SecEvents
  /\ \A p \in Reply : Success(p) \in SecEvents /\ Failure(p) \in SecEvents
  /\ MainGone \in SecEvents
BY DEF MainEvents, SecEvents

\* queueEvent on the dispatcher of a secondary.
LEMMA TellOK ==
  ASSUME QueuesOK, NEW s \in Sec, NEW e \in SecEvents, Tell(s, e),
         UNCHANGED <<mainQueue, mainBatch, batch>>
  PROVE  QueuesOK'
<1>1. /\ Append(queue[s], e) \in Seq(SecEvents)
      /\ Len(Append(queue[s], e)) = Len(queue[s]) + 1
  BY AppendType DEF QueuesOK
<1> QED
  BY <1>1 DEF QueuesOK, Tell

\* queueEvent on the dispatcher of the main connection.
LEMMA TellMainOK ==
  ASSUME QueuesOK, NEW e \in MainEvents, TellMain(e), UNCHANGED <<queue, batch>>
  PROVE  QueuesOK'
<1>1. /\ Append(mainQueue, e) \in Seq(MainEvents)
      /\ Len(Append(mainQueue, e)) = Len(mainQueue) + 1
  BY AppendType DEF QueuesOK
<1> QED
  BY <1>1 DEF QueuesOK, TellMain

\* Taking an event out of the queue of a secondary.
LEMMA TakesOK ==
  ASSUME QueuesOK, NEW s \in Sec, NEW e, Takes(s, e)
  PROVE  QueuesOK'
<1>1. Len(queue[s]) > 0 /\ queue[s] \in Seq(SecEvents)
  BY DEF QueuesOK, Takes
<1>2. Tail(queue[s]) \in Seq(SecEvents) /\ Len(Tail(queue[s])) = Len(queue[s]) - 1
  BY <1>1, TailType
<1> QED
  BY <1>1, <1>2 DEF QueuesOK, Takes, MainQueueSame

\* Taking an event out of the queue of the main connection.
LEMMA MainTakesOK ==
  ASSUME QueuesOK, NEW e, MainTakes(e), UNCHANGED <<queue, batch>>
  PROVE  QueuesOK'
<1>1. Len(mainQueue) > 0 /\ mainQueue \in Seq(MainEvents)
  BY DEF QueuesOK, MainTakes
<1>2. Tail(mainQueue) \in Seq(MainEvents) /\ Len(Tail(mainQueue)) = Len(mainQueue) - 1
  BY <1>1, TailType
<1> QED
  BY <1>1, <1>2 DEF QueuesOK, MainTakes

\* The same event may be put into several queues at once.
LEMMA TellSomeOK ==
  ASSUME QueuesOK, NEW T, NEW e \in SecEvents,
         queue' = [s \in Sec |-> IF s \in T THEN Append(queue[s], e) ELSE queue[s]],
         UNCHANGED <<mainQueue, mainBatch, batch>>
  PROVE  QueuesOK'
<1>1. \A s \in Sec : /\ Append(queue[s], e) \in Seq(SecEvents)
                     /\ Len(Append(queue[s], e)) = Len(queue[s]) + 1
  BY AppendType DEF QueuesOK
<1> QED
  BY <1>1 DEF QueuesOK

\* MainTakesConnect is the one step that takes an event and queues another.
LEMMA TakeAndTellOK ==
  ASSUME QueuesOK, NEW e, MainTakes(e), NEW s \in Sec, NEW f \in SecEvents,
         Tell(s, f), batch' = batch
  PROVE  QueuesOK'
<1>1. Len(mainQueue) > 0 /\ mainQueue \in Seq(MainEvents)
  BY DEF QueuesOK, MainTakes
<1>2. Tail(mainQueue) \in Seq(MainEvents) /\ Len(Tail(mainQueue)) = Len(mainQueue) - 1
  BY <1>1, TailType
<1>3. /\ Append(queue[s], f) \in Seq(SecEvents)
      /\ Len(Append(queue[s], f)) = Len(queue[s]) + 1
  BY AppendType DEF QueuesOK
<1> QED
  BY <1>1, <1>2, <1>3 DEF QueuesOK, MainTakes, Tell

\* handleError leaves a finished reply and one of the errors it may carry.
LEMMA FailAllType ==
  ASSUME ReplyOK, NEW P, NEW e \in {"LocalDisconnect", "Timeout", "SendError"},
         FailAll(P, e), UNCHANGED <<numbered, timer>>
  PROVE  ReplyOK'
BY DEF FailAll, ReplyOK

\* Initially all queues are empty and nothing is linked.
LEMMA InitType == Init => StateOK
<1> SUFFICES ASSUME Init PROVE StateOK
  OBVIOUS
<1>1. MainOK
  BY DEF Init, MainOK
<1>2. SecOK
  BY DEF Init, SecOK
<1>3. ReplyOK
  BY DEF Init, ReplyOK
<1>4. QueuesOK
  <2>1. /\ mainQueue = <<>> /\ mainBatch = 0
        /\ queue = [s \in Sec |-> <<>>] /\ batch = [s \in Sec |-> 0]
    BY DEF Init
  <2>2. <<>> \in Seq(MainEvents) /\ <<>> \in Seq(SecEvents) /\ Len(<<>>) = 0
    OBVIOUS
  <2> QED
    BY <2>1, <2>2 DEF QueuesOK
<1> QED
  BY <1>1, <1>2, <1>3, <1>4 DEF StateOK

-----------------------------------------------------------------------------
\* The steps of the main connection that come from outside keep the types.
LEMMA MainInputType == StateOK /\ MainInput => StateOK'
<1> SUFFICES ASSUME StateOK, MainInput PROVE StateOK'
  OBVIOUS
<1> USE DEF StateOK, seen, mainVars, secVars, replyVars, queueVars
<1>1. CASE MainGetsName
  <2> DEFINE T == {s \in Sec : s \in links /\ LockHeld(s)}
  <2>1. queue' = [s \in Sec |-> IF s \in T THEN Append(queue[s], UniqueName(TRUE))
                                           ELSE queue[s]]
    BY <1>1 DEF MainGetsName
  <2>2. QueuesOK'
    <3> HIDE DEF T
    <3> QED
      BY <1>1, <2>1, EventTypes, TellSomeOK DEF MainGetsName
  <2> QED
    BY <1>1, <2>2 DEF MainGetsName, MainOK, SecOK, ReplyOK
<1>2. ASSUME Broadcast, spontaneous' \in Nat, onWire' \subseteq Reply PROVE StateOK'
  <2> DEFINE T == links \ DeadLinks
  <2>1. queue' = [s \in Sec |-> IF s \in T
                                  THEN Append(queue[s], Message(~MainHasClient))
                                  ELSE queue[s]]
    BY <1>2 DEF Broadcast
  <2>2. QueuesOK'
    <3> HIDE DEF T
    <3>1. Message(~MainHasClient) \in SecEvents
      BY ClientAssumption, EventTypes
    <3> QED
      BY <1>2, <2>1, <3>1, TellSomeOK DEF Broadcast
  <2>3. links' \subseteq Sec /\ mainPending' \subseteq Reply
    BY <1>2 DEF Broadcast, MainOK
  <2> QED
    BY <1>2, <2>2, <2>3 DEF Broadcast, MainOK, SecOK, ReplyOK
<1>3. CASE MainReceivesSpontaneous
  BY <1>2, <1>3 DEF MainReceivesSpontaneous, MainOK
<1>4. ASSUME NEW p \in Reply, MainReceivesLateReply(p) PROVE StateOK'
  BY <1>2, <1>4 DEF MainReceivesLateReply, MainOK
<1>5. ASSUME NEW p \in Reply, NEW e \in SecEvents, MainForwards(p, e) PROVE StateOK'
  <2>1. Owner[p] \in Sec
    BY OwnerAssumption
  <2>2. CASE UNCHANGED queue
    BY <1>5, <2>2 DEF MainForwards, MainOK, SecOK, ReplyOK, QueuesOK
  <2>3. CASE Tell(Owner[p], e)
    <3>1. QueuesOK'
      BY <1>5, <2>1, <2>3, TellOK DEF MainForwards
    <3> QED
      BY <1>5, <3>1 DEF MainForwards, MainOK, SecOK, ReplyOK
  <2> QED
    BY <1>5, <2>2, <2>3 DEF MainForwards, TellOwner
<1>6. ASSUME NEW p \in Reply, MainForwardsReply(p) \/ MainForwardsFailure(p)
      PROVE  StateOK'
  BY <1>5, <1>6, EventTypes DEF MainForwardsReply, MainForwardsFailure
<1>7. ASSUME NEW p \in Reply, MainDropsFailure(p) PROVE StateOK'
  BY <1>7 DEF MainDropsFailure, MainOK, SecOK, ReplyOK, QueuesOK
<1>8. ASSUME NEW s \in Sec, CreateCommRef(s) PROVE StateOK'
  BY <1>8 DEF CreateCommRef, MainOK, SecOK, ReplyOK, QueuesOK
<1>9. CASE MainClose
  BY <1>9 DEF MainClose, MainOK, SecOK, ReplyOK, QueuesOK
<1>10. CASE MainDestroy
  BY <1>10 DEF MainDestroy, RefsUnlinked, MainOK, SecOK, ReplyOK, QueuesOK
<1> QED
  BY <1>1, <1>3, <1>4, <1>6, <1>7, <1>8, <1>9, <1>10 DEF MainInput

\* The steps of the main thread's event loop and close() keep the types.
LEMMA MainWorkType == StateOK /\ MainWork => StateOK'
<1> SUFFICES ASSUME StateOK, MainWork PROVE StateOK'
  OBVIOUS
<1> USE DEF StateOK, seen, mainVars, secVars, replyVars, queueVars
<1>1. CASE MainPoll
  BY <1>1 DEF MainPoll, TakenOut, MainOK, SecOK, ReplyOK, QueuesOK
<1>2. ASSUME NEW s \in Sec, MainTakesConnect(s) PROVE StateOK'
  <2>1. QueuesOK'
    <3>1. CASE UNCHANGED queue
      BY <1>2, <3>1, MainTakesOK DEF MainTakesConnect
    <3>2. CASE Tell(s, UniqueName(mainNamed))
      <4>1. UniqueName(mainNamed) \in SecEvents
        BY EventTypes DEF MainOK
      <4> QED
        BY <1>2, <3>2, <4>1, TakeAndTellOK DEF MainTakesConnect
    <3> QED
      BY <1>2, <3>1, <3>2 DEF MainTakesConnect, Welcome
  <2> QED
    BY <1>2, <2>1 DEF MainTakesConnect, MainOK, SecOK, ReplyOK
<1>3. ASSUME NEW s \in Sec, MainTakesDisconnect(s) PROVE StateOK'
  <2>1. QueuesOK'
    BY <1>3, MainTakesOK DEF MainTakesDisconnect, SecQueuesSame
  <2> QED
    BY <1>3, <2>1 DEF MainTakesDisconnect, MainOK, SecOK, ReplyOK
<1>4. ASSUME NEW s \in Sec, MainCloseLink(s) PROVE StateOK'
  <2>1. QueuesOK'
    <3>1. CASE UNCHANGED queue
      BY <1>4, <3>1 DEF MainCloseLink, QueuesOK
    <3>2. CASE Tell(s, MainGone)
      BY <1>4, <3>2, EventTypes, TellOK DEF MainCloseLink
    <3> QED
      BY <1>4, <3>1, <3>2 DEF MainCloseLink, TellLoss
  <2> QED
    BY <1>4, <2>1 DEF MainCloseLink, MainOK, SecOK, ReplyOK
<1>5. ASSUME NEW p \in Reply, MainTakesSend(p) PROVE StateOK'
  <2>1. QueuesOK'
    BY <1>5, MainTakesOK DEF MainTakesSend, SecQueuesSame
  <2> QED
    BY <1>5, <2>1 DEF MainTakesSend, MainOK, SecOK, ReplyOK
<1>6. ASSUME NEW p \in Reply, MainTakesCancel(p) PROVE StateOK'
  <2>1. QueuesOK'
    BY <1>6, MainTakesOK DEF MainTakesCancel, SecQueuesSame
  <2> QED
    BY <1>6, <2>1 DEF MainTakesCancel, MainOK, SecOK, ReplyOK
<1>7. CASE MainCloseEnd
  BY <1>7 DEF MainCloseEnd, MainOK, SecOK, ReplyOK, QueuesOK
<1> QED
  BY <1>1, <1>2, <1>3, <1>4, <1>5, <1>6, <1>7 DEF MainWork

\* What the thread of a secondary does by itself keeps the types.
LEMMA SecWorkType == ASSUME NEW s \in Sec, StateOK, SecWork(s) PROVE StateOK'
<1> USE DEF StateOK, seen, mainVars, secVars, replyVars, queueVars
<1>1. CASE Poll(s)
  BY <1>1 DEF Poll, TakenOut, MainOK, SecOK, ReplyOK, QueuesOK
<1>2. ASSUME NEW n \in BOOLEAN, TakesUniqueName(s, n) PROVE StateOK'
  <2>1. QueuesOK'
    BY <1>2, TakesOK DEF TakesUniqueName
  <2> QED
    BY <1>2, <2>1 DEF TakesUniqueName, MainOK, SecOK, ReplyOK
<1>3. ASSUME NEW n \in BOOLEAN, TakesMessage(s, n) PROVE StateOK'
  <2>1. QueuesOK'
    BY <1>3, TakesOK DEF TakesMessage
  <2> QED
    BY <1>3, <2>1 DEF TakesMessage, MainOK, SecOK, ReplyOK
<1>4. ASSUME NEW p \in Reply, TakesSuccess(s, p) PROVE StateOK'
  <2>1. QueuesOK'
    BY <1>4, TakesOK DEF TakesSuccess
  <2>2. CASE p \in pending[s]
    BY <1>4, <2>1, <2>2 DEF TakesSuccess, MainOK, SecOK, ReplyOK
  <2>3. CASE p \notin pending[s]
    BY <1>4, <2>1, <2>3 DEF TakesSuccess, MainOK, SecOK, ReplyOK
  <2> QED
    BY <2>2, <2>3
<1>5. ASSUME NEW p \in Reply, TakesFailure(s, p) PROVE StateOK'
  <2>1. QueuesOK'
    BY <1>5, TakesOK DEF TakesFailure
  <2>2. ReplyOK'
    BY <1>5, FailAllType DEF TakesFailure
  <2> QED
    BY <1>5, <2>1, <2>2 DEF TakesFailure, MainOK, SecOK
<1>6. CASE TakesMainGone(s)
  <2>1. QueuesOK'
    BY <1>6, TakesOK DEF TakesMainGone
  <2>2. ReplyOK'
    BY <1>6, FailAllType DEF TakesMainGone
  <2> QED
    BY <1>6, <2>1, <2>2 DEF TakesMainGone, MainOK, SecOK
<1>7. ASSUME NEW p \in Reply, NEW t \in {"running", "zero"}, Register(s, p, t),
             error' = [error EXCEPT ![p] = "LocalDisconnect"] \/ UNCHANGED error,
             QueuesOK'
      PROVE  StateOK'
  <2>1. Started(p, t) \in {"off", "running", "zero"}
    BY DEF Started
  <2>2. ReplyOK'
    BY <1>7, <2>1 DEF Register, ReplyOK
  <2>3. SecOK'
    BY <1>7 DEF Register, SecOK
  <2> QED
    BY <1>7, <2>2, <2>3 DEF Register, MainOK
<1>8. ASSUME NEW p \in Reply,
             \/ SendRefused(s, p) \/ SendLocally(s, p) \/ SendFindsBroken(s, p)
      PROVE  StateOK'
  <2>1. QueuesOK'
    BY <1>8 DEF SendRefused, SendLocally, SendFindsBroken, QueuesOK
  <2> QED
    BY <1>7, <1>8, <2>1 DEF SendRefused, SendLocally, SendFindsBroken
<1>9. ASSUME NEW p \in Reply, SendHandsOver(s, p) PROVE StateOK'
  <2>1. QueuesOK'
    BY <1>9, EventTypes, TellMainOK DEF SendHandsOver, SecQueuesSame
  <2> QED
    BY <1>7, <1>9, <2>1 DEF SendHandsOver
<1> QED
  BY <1>1, <1>2, <1>3, <1>4, <1>5, <1>6, <1>8, <1>9 DEF SecWork

\* unregisterPendingReply keeps the types of everything it touches.
LEMMA UnregisterType ==
  ASSUME NEW s \in Sec, NEW p \in Reply, StateOK, Unregister(s, p)
  PROVE  MainOK' /\ SecOK' /\ QueuesOK'
<1> USE DEF StateOK, mainVars
<1>1. CASE TellMain(Cancel(p))
  BY <1>1, EventTypes, TellMainOK DEF Unregister, SecQueuesSame, MainOK, SecOK
<1>2. CASE MainQueueSame
  BY <1>2 DEF Unregister, MainQueueSame, SecQueuesSame, MainOK, SecOK, QueuesOK
<1> QED
  BY <1>1, <1>2 DEF Unregister, CancelInMain

\* What the application does with a secondary keeps the types.
LEMMA SecCallsType == ASSUME NEW s \in Sec, StateOK, SecCalls(s) PROVE StateOK'
<1> USE DEF StateOK, seen, mainVars, secVars, replyVars, queueVars
<1>1. CASE Construct(s)
  <2>1. QueuesOK'
    <3>1. CASE TellMain(Connect(s))
      BY <1>1, <3>1, EventTypes, TellMainOK DEF Construct, SecQueuesSame
    <3>2. CASE UNCHANGED <<mainQueue, mainBatch>>
      BY <1>1, <3>2 DEF Construct, SecQueuesSame, QueuesOK
    <3> QED
      BY <1>1, <3>1, <3>2 DEF Construct
  <2>2. SecOK'
    BY <1>1 DEF Construct, SecOK
  <2> QED
    BY <1>1, <2>1, <2>2 DEF Construct, MainOK, ReplyOK
<1>2. CASE DropCommRef(s)
  BY <1>2 DEF DropCommRef, MainOK, SecOK, ReplyOK, QueuesOK
<1>3. CASE Close(s)
  <2>1. QueuesOK'
    <3>1. CASE TellMain(Disconnect(s))
      BY <1>3, <3>1, EventTypes, TellMainOK DEF Close, SecQueuesSame
    <3>2. CASE MainQueueSame
      BY <1>3, <3>2 DEF Close, SecQueuesSame, MainQueueSame, QueuesOK
    <3> QED
      BY <1>3, <3>1, <3>2 DEF Close
  <2>2. ReplyOK'
    BY <1>3, FailAllType DEF Close
  <2>3. MainOK' /\ SecOK'
    BY <1>3 DEF Close, MainOK, SecOK
  <2> QED
    BY <2>1, <2>2, <2>3
<1>4. CASE Destroy(s)
  BY <1>4 DEF Destroy, MainOK, SecOK, ReplyOK, QueuesOK
<1>5. ASSUME NEW p \in Reply, SendPrepare(s, p) PROVE StateOK'
  <2>1. ReplyOK'
    BY <1>5 DEF SendPrepare, ReplyOK
  <2> QED
    BY <1>5, <2>1 DEF SendPrepare, MainOK, SecOK, QueuesOK
<1>6. ASSUME NEW p \in Reply, DropWaiting(s, p) PROVE StateOK'
  <2>1. MainOK' /\ SecOK' /\ QueuesOK'
    BY <1>6, UnregisterType DEF DropWaiting
  <2> QED
    BY <1>6, <2>1 DEF DropWaiting, Unregister, ReplyOK
<1> QED
  BY <1>1, <1>2, <1>3, <1>4, <1>5, <1>6 DEF SecCalls

\* A timer that fires keeps the types.
LEMMA TimerType ==
  ASSUME NEW s \in Sec, NEW p \in Reply, StateOK, TimerFires(s, p)
  PROVE  StateOK'
<1> USE DEF StateOK
<1>1. MainOK' /\ SecOK' /\ QueuesOK'
  BY UnregisterType DEF TimerFires, TimedOutFrom
<1>2. /\ status' \in [Reply -> {"unsent", "waiting", "finished", "destroyed"}]
      /\ error' \in [Reply -> {"NoError", "LocalDisconnect", "Timeout", "SendError"}]
  BY DEF TimerFires, TimedOutFrom, FailAll, ReplyOK
<1> QED
  BY <1>1, <1>2 DEF TimerFires, TimedOutFrom, Unregister, ReplyOK

\* Every step keeps the types.
LEMMA StateStep == StateOK /\ [Step]_seen => StateOK'
<1> SUFFICES ASSUME StateOK, [Step]_seen PROVE StateOK'
  OBVIOUS
<1>1. CASE UNCHANGED seen
  BY <1>1 DEF seen, mainVars, secVars, replyVars, queueVars, StateOK, MainOK,
              SecOK, ReplyOK, QueuesOK
<1> QED
  BY <1>1, MainWorkType, MainInputType, SecWorkType, SecCallsType, TimerType
  DEF Step

\* It has them in every state.
LEMMA StateKept == Spec => []StateOK
BY InitType, StateStep, StepsOnly, PTL DEF Spec

\* The state of the connections, links, replies and queues has the types that
\* connection_p.h and event.h give it, and a batch that processAuxEvents has
\* taken out is never longer than the queue it was taken from.
THEOREM TypeCorrect == Spec => []TypeOK
<1> DEFINE C == crash \in {"none", "null transport"}
<1>1. Init => C
  BY DEF Init
<1>2. C /\ [Next]_vars => C'
  BY DEF Next, Runs, SendToNothing, vars
<1>3. StateOK /\ C => TypeOK
  BY DEF TypeOK
<1> QED
  BY <1>1, <1>2, <1>3, StateKept, PTL DEF Spec

-----------------------------------------------------------------------------
(* The strengthening of LinksReachLiving.                                  *)

\* A link that is Free is held by one of the containers of the main connection,
\* until the Connect event has moved it from the first to the second.
FreeIsHeld == \A s \in Sec : link[s] = "Free" => s \in unredeemed \cup links

\* A main connection that has been closed keeps no links and takes no events.
ClosedKeepsNothing ==
  /\ mainPhase \in {"closed", "destroyed"} => links = {}
  /\ mainBatch > 0 => mainPhase = "open"

\* A secondary announces that it is gone only after breaking the link.
DisconnectIsTrue ==
  \A s \in Sec, i \in 1..Len(mainQueue) :
     mainQueue[i] = Disconnect(s) => link[s] = "Broken"

\* There are no secondaries without a CommRef.
NoRefNoSecondary == \A s \in Sec : link[s] = "none" => phase[s] = "none"

LinkInv == /\ FreeIsHeld /\ ClosedKeepsNothing /\ DisconnectIsTrue
           /\ NoRefNoSecondary /\ LinksReachLiving

\* A broken link is never mended.
LEMMA BrokenStays ==
  ASSUME StateOK, [Step]_seen, NEW s \in Sec, link[s] = "Broken"
  PROVE  link'[s] = "Broken"
<1> USE DEF StateOK, seen, mainVars, secVars, replyVars, queueVars
<1>1. CASE UNCHANGED seen
  BY <1>1
<1>2. CASE MainWork
  BY <1>2 DEF MainWork, MainPoll, MainTakesConnect, MainTakesDisconnect,
     MainCloseLink, MainTakesSend, MainTakesCancel, MainCloseEnd, MainOK
<1>3. CASE MainInput
  BY <1>3 DEF MainInput, MainGetsName, MainReceivesSpontaneous, MainForwardsReply,
     MainForwardsFailure, MainForwards, MainReceivesLateReply, MainDropsFailure,
     Broadcast, CreateCommRef, MainClose, MainDestroy, RefsUnlinked, MainOK
<1>4. ASSUME NEW r \in Sec, SecWork(r) PROVE link'[s] = "Broken"
  BY <1>4 DEF SecWork, Poll, TakesUniqueName, TakesMessage, TakesSuccess,
     TakesFailure, TakesMainGone, SendRefused, SendLocally, SendHandsOver,
     SendFindsBroken, Register
<1>5. ASSUME NEW r \in Sec, SecCalls(r) PROVE link'[s] = "Broken"
  BY <1>5 DEF SecCalls, Construct, DropCommRef, Close, Destroy, SendPrepare,
     DropWaiting, Unregister, MainOK
<1>6. ASSUME NEW r \in Sec, NEW p \in Reply, TimerFires(r, p)
      PROVE  link'[s] = "Broken"
  BY <1>6 DEF TimerFires, TimedOutFrom, Unregister
<1> QED
  BY <1>1, <1>2, <1>3, <1>4, <1>5, <1>6 DEF Step

\* The main queue may be left alone, be taken from, or get an event that, if
\* it is a Disconnect, is true: then all its Disconnect events are.
LEMMA DisconnectStaysTrue ==
  ASSUME StateOK, [Step]_seen, DisconnectIsTrue,
         \/ UNCHANGED mainQueue
         \/ \E e \in MainEvents : MainTakes(e)
         \/ \E e \in MainEvents :
               /\ TellMain(e)
               /\ \A s \in Sec : e = Disconnect(s) => link'[s] = "Broken"
  PROVE  DisconnectIsTrue'
<1> SUFFICES ASSUME NEW s \in Sec, NEW i \in 1..Len(mainQueue'),
                    mainQueue'[i] = Disconnect(s)
             PROVE  link'[s] = "Broken"
  BY DEF DisconnectIsTrue
<1>1. CASE UNCHANGED mainQueue
  BY <1>1, BrokenStays DEF DisconnectIsTrue
<1>2. ASSUME NEW e \in MainEvents, MainTakes(e) PROVE link'[s] = "Broken"
  <2>1. mainQueue \in Seq(MainEvents) /\ Len(mainQueue) > 0
    BY <1>2 DEF MainTakes, StateOK, QueuesOK
  <2>2. /\ mainQueue' = Tail(mainQueue) /\ i \in 1..Len(mainQueue) - 1
        /\ mainQueue'[i] = mainQueue[i + 1]
    BY <1>2, <2>1, TailType DEF MainTakes
  <2>3. i + 1 \in 1..Len(mainQueue)
    BY <2>1, <2>2
  <2> QED
    BY <2>2, <2>3, BrokenStays DEF DisconnectIsTrue
<1>3. ASSUME NEW e \in MainEvents, TellMain(e),
             e = Disconnect(s) => link'[s] = "Broken"
      PROVE  link'[s] = "Broken"
  <2>1. mainQueue \in Seq(MainEvents)
    BY DEF StateOK, QueuesOK
  <2>2. /\ mainQueue' = Append(mainQueue, e) /\ i \in 1..Len(mainQueue) + 1
        /\ mainQueue'[i] = IF i = Len(mainQueue) + 1 THEN e ELSE mainQueue[i]
    BY <1>3, <2>1, AppendType DEF TellMain
  <2>3. i \in 1..Len(mainQueue) \/ i = Len(mainQueue) + 1
    BY <2>1, <2>2
  <2> QED
    BY <1>3, <2>1, <2>2, <2>3, BrokenStays DEF DisconnectIsTrue
<1> QED
  BY <1>1, <1>2, <1>3

\* A step that leaves the queue, the links and the phases alone.
LEMMA LinkFrame ==
  ASSUME LinkInv, UNCHANGED <<mainPhase, unredeemed, links, mainQueue, mainBatch,
                              link, phase>>
  PROVE  LinkInv'
BY DEF LinkInv, FreeIsHeld, ClosedKeepsNothing, DisconnectIsTrue,
       NoRefNoSecondary, LinksReachLiving

\* Only Disconnect events are Disconnect events.
LEMMA OtherEvents ==
  /\ \A r, s \in Sec : Connect(r) # Disconnect(s)
  /\ \A r, s \in Sec : Disconnect(r) = Disconnect(s) => r = s
  /\ \A p \in Reply, s \in Sec : SendWith(p) # Disconnect(s)
  /\ \A p \in Reply, s \in Sec : Cancel(p) # Disconnect(s)
BY DEF Connect, Disconnect, SendWith, Cancel

\* The steps of the main thread keep the strengthened invariant.
LEMMA LinkMainWork == StateOK /\ LinkInv /\ MainWork => LinkInv'
<1> SUFFICES ASSUME StateOK, LinkInv, MainWork PROVE LinkInv'
  OBVIOUS
<1> [Step]_seen
  BY DEF Step
<1> USE DEF seen, mainVars, secVars, replyVars, queueVars
<1> DEFINE Rest == /\ FreeIsHeld' /\ ClosedKeepsNothing'
                   /\ NoRefNoSecondary' /\ LinksReachLiving'
<1> USE EventTypes, DisconnectStaysTrue
<1>1. CASE MainPoll
  <2>1. Rest
    BY <1>1 DEF MainPoll, MainIdle, LinkInv, FreeIsHeld, ClosedKeepsNothing,
       NoRefNoSecondary, LinksReachLiving
  <2> QED
    BY <1>1, <2>1 DEF MainPoll, LinkInv
<1>2. ASSUME NEW s \in Sec, MainTakesConnect(s) PROVE LinkInv'
  <2>1. mainPhase = "open" /\ mainBatch' \in Nat
    BY <1>2 DEF MainTakesConnect, MainTakes, LinkInv, ClosedKeepsNothing,
       StateOK, QueuesOK
  <2>2. Rest
    BY <1>2, <2>1 DEF MainTakesConnect, LinkInv, FreeIsHeld, ClosedKeepsNothing,
       NoRefNoSecondary, LinksReachLiving
  <2> QED
    BY <1>2, <2>2 DEF MainTakesConnect, LinkInv
<1>3. ASSUME NEW s \in Sec, MainTakesDisconnect(s) PROVE LinkInv'
  <2>1. mainPhase = "open" /\ mainBatch' \in Nat
    BY <1>3 DEF MainTakesDisconnect, MainTakes, LinkInv, ClosedKeepsNothing,
       StateOK, QueuesOK
  <2>2. link[s] = "Broken"
    <3>1. mainQueue \in Seq(MainEvents) /\ Len(mainQueue) > 0
          /\ Head(mainQueue) = Disconnect(s)
      BY <1>3 DEF MainTakesDisconnect, MainTakes, StateOK, QueuesOK
    <3>2. mainQueue[1] = Disconnect(s) /\ 1 \in 1..Len(mainQueue)
      BY <3>1, TailType
    <3> QED
      BY <3>2 DEF LinkInv, DisconnectIsTrue
  <2>3. Rest
    BY <1>3, <2>1, <2>2 DEF MainTakesDisconnect, LinkInv, FreeIsHeld,
       ClosedKeepsNothing, NoRefNoSecondary, LinksReachLiving
  <2> QED
    BY <1>3, <2>3 DEF MainTakesDisconnect, LinkInv
<1>4. ASSUME NEW s \in Sec, MainCloseLink(s) PROVE LinkInv'
  <2>1. Rest
    BY <1>4 DEF MainCloseLink, LinkInv, FreeIsHeld, ClosedKeepsNothing,
       NoRefNoSecondary, LinksReachLiving, StateOK, MainOK
  <2> QED
    BY <1>4, <2>1 DEF MainCloseLink, LinkInv
<1>5. ASSUME NEW p \in Reply, MainTakesSend(p) \/ MainTakesCancel(p) PROVE LinkInv'
  <2>1. mainPhase = "open" /\ mainBatch' \in Nat
    BY <1>5 DEF MainTakesSend, MainTakesCancel, MainTakes, LinkInv,
       ClosedKeepsNothing, StateOK, QueuesOK
  <2>2. Rest
    BY <1>5, <2>1 DEF MainTakesSend, MainTakesCancel, LinkInv, FreeIsHeld,
       ClosedKeepsNothing, NoRefNoSecondary, LinksReachLiving
  <2> QED
    BY <1>5, <2>2 DEF MainTakesSend, MainTakesCancel, LinkInv
<1>6. CASE MainCloseEnd
  <2>1. Rest
    BY <1>6 DEF MainCloseEnd, LinkInv, FreeIsHeld, ClosedKeepsNothing,
       NoRefNoSecondary, LinksReachLiving
  <2> QED
    BY <1>6, <2>1 DEF MainCloseEnd, LinkInv
<1> QED
  BY <1>1, <1>2, <1>3, <1>4, <1>5, <1>6 DEF MainWork

\* What reaches the main connection from outside keeps it too.
LEMMA LinkMainInput == StateOK /\ LinkInv /\ MainInput => LinkInv'
<1> SUFFICES ASSUME StateOK, LinkInv, MainInput PROVE LinkInv'
  OBVIOUS
<1> [Step]_seen
  BY DEF Step
<1> USE DEF seen, mainVars, secVars, replyVars, queueVars
<1>1. CASE MainGetsName
  BY <1>1, LinkFrame DEF MainGetsName
<1>2. ASSUME NEW p \in Reply, \/ MainForwardsReply(p) \/ MainForwardsFailure(p)
                              \/ MainDropsFailure(p)
      PROVE  LinkInv'
  BY <1>2, LinkFrame DEF MainForwardsReply, MainForwardsFailure, MainForwards,
     MainDropsFailure
<1>3. ASSUME Broadcast PROVE LinkInv'
  <2>1. DisconnectIsTrue'
    BY <1>3, DisconnectStaysTrue DEF Broadcast, LinkInv
  <2> QED
    BY <1>3, <2>1 DEF Broadcast, DeadLinks, LockFails, LinkInv, FreeIsHeld,
       ClosedKeepsNothing, NoRefNoSecondary, LinksReachLiving
<1>4. CASE MainReceivesSpontaneous
  BY <1>3, <1>4 DEF MainReceivesSpontaneous
<1>5. ASSUME NEW p \in Reply, MainReceivesLateReply(p) PROVE LinkInv'
  BY <1>3, <1>5 DEF MainReceivesLateReply
<1>6. ASSUME NEW s \in Sec, CreateCommRef(s) PROVE LinkInv'
  <2>1. DisconnectIsTrue'
    BY <1>6, DisconnectStaysTrue DEF CreateCommRef, LinkInv
  <2> QED
    BY <1>6, <2>1 DEF CreateCommRef, LinkInv, FreeIsHeld, ClosedKeepsNothing,
       NoRefNoSecondary, LinksReachLiving, StateOK, MainOK
<1>7. CASE MainClose
  <2>1. DisconnectIsTrue'
    BY <1>7, DisconnectStaysTrue DEF MainClose, LinkInv
  <2> QED
    BY <1>7, <2>1 DEF MainClose, MainIdle, LinkInv, FreeIsHeld,
       ClosedKeepsNothing, NoRefNoSecondary, LinksReachLiving, StateOK, QueuesOK
<1>8. CASE MainDestroy
  <2>1. DisconnectIsTrue'
    BY <1>8, DisconnectStaysTrue DEF MainDestroy, LinkInv
  <2> QED
    BY <1>8, <2>1 DEF MainDestroy, RefsUnlinked, LinkInv, FreeIsHeld,
       ClosedKeepsNothing, NoRefNoSecondary, LinksReachLiving
<1> QED
  BY <1>1, <1>2, <1>4, <1>5, <1>6, <1>7, <1>8 DEF MainInput

\* The steps of a secondary, its application and its timers keep it.
LEMMA LinkSec ==
  ASSUME StateOK, LinkInv, NEW s \in Sec,
         SecWork(s) \/ SecCalls(s) \/ \E p \in Reply : TimerFires(s, p)
  PROVE  LinkInv'
<1> [Step]_seen
  BY DEF Step
<1> USE DEF seen, mainVars, secVars, replyVars, queueVars
<1> DEFINE Rest == /\ FreeIsHeld' /\ ClosedKeepsNothing'
                   /\ NoRefNoSecondary' /\ LinksReachLiving'
<1> USE EventTypes, OtherEvents
<1>1. ASSUME NEW p \in Reply, TellMain(SendWith(p)) \/ TellMain(Cancel(p)),
             UNCHANGED <<mainPhase, unredeemed, links, link, phase>>
      PROVE  LinkInv'
  <2>1. DisconnectIsTrue'
    BY <1>1, DisconnectStaysTrue DEF LinkInv
  <2> QED
    BY <1>1, <2>1 DEF TellMain, LinkInv, FreeIsHeld, ClosedKeepsNothing,
       NoRefNoSecondary, LinksReachLiving
<1>2. ASSUME NEW p \in Reply, SendHandsOver(s, p) PROVE LinkInv'
  BY <1>1, <1>2 DEF SendHandsOver, Register
<1>3. ASSUME NEW p \in Reply, Unregister(s, p) PROVE LinkInv'
  <2>1. CASE TellMain(Cancel(p))
    BY <1>1, <1>3, <2>1 DEF Unregister
  <2>2. CASE MainQueueSame
    BY <1>3, <2>2, LinkFrame DEF Unregister, MainQueueSame
  <2> QED
    BY <1>3, <2>1, <2>2 DEF Unregister, CancelInMain
<1>4. CASE SecWork(s)
  <2>1. CASE \E p \in Reply : SendHandsOver(s, p)
    BY <1>2, <2>1
  <2>2. CASE ~\E p \in Reply : SendHandsOver(s, p)
    BY <1>4, <2>2, LinkFrame DEF SecWork, Poll, TakesUniqueName, TakesMessage,
       TakesSuccess, TakesFailure, TakesMainGone, Takes, MainQueueSame,
       SendRefused, SendLocally, SendFindsBroken, Register
  <2> QED
    BY <2>1, <2>2
<1>5. CASE Construct(s)
  <2>1. DisconnectIsTrue'
    BY <1>5, DisconnectStaysTrue DEF Construct, LinkInv
  <2> QED
    BY <1>5, <2>1 DEF Construct, TellMain, LinkInv, FreeIsHeld,
       ClosedKeepsNothing, NoRefNoSecondary, LinksReachLiving, StateOK, SecOK
<1>6. CASE DropCommRef(s)
  <2>1. DisconnectIsTrue'
    BY <1>6, DisconnectStaysTrue DEF DropCommRef, LinkInv
  <2> QED
    BY <1>6, <2>1 DEF DropCommRef, LinkInv, FreeIsHeld, ClosedKeepsNothing,
       NoRefNoSecondary, LinksReachLiving, StateOK, MainOK, SecOK
<1>7. CASE Close(s)
  <2>1. CASE hasMain[s] /\ LockHeld(s)
    <3>1. link'[s] = "Broken"
      BY <1>7, <2>1 DEF Close, StateOK, MainOK
    <3>2. DisconnectIsTrue'
      BY <1>7, <2>1, <3>1, DisconnectStaysTrue DEF Close, LinkInv
    <3> QED
      BY <1>7, <2>1, <3>1, <3>2 DEF Close, Idle, TellMain, LinkInv, FreeIsHeld,
         ClosedKeepsNothing, NoRefNoSecondary, LinksReachLiving, StateOK, MainOK, SecOK
  <2>2. CASE ~(hasMain[s] /\ LockHeld(s))
    <3>1. DisconnectIsTrue'
      BY <1>7, <2>2, DisconnectStaysTrue DEF Close, MainQueueSame, LinkInv
    <3> QED
      BY <1>7, <2>2, <3>1 DEF Close, Idle, MainQueueSame, LinkInv, FreeIsHeld,
         ClosedKeepsNothing, NoRefNoSecondary, LinksReachLiving, StateOK, SecOK
  <2> QED
    BY <2>1, <2>2
<1>8. CASE Destroy(s)
  <2>1. DisconnectIsTrue'
    BY <1>8, DisconnectStaysTrue DEF Destroy, LinkInv
  <2> QED
    BY <1>8, <2>1 DEF Destroy, LinkInv, FreeIsHeld, ClosedKeepsNothing,
       NoRefNoSecondary, LinksReachLiving, StateOK, MainOK, SecOK
<1>9. ASSUME NEW p \in Reply, \/ SendPrepare(s, p) \/ DropWaiting(s, p)
                              \/ TimerFires(s, p)
      PROVE  LinkInv'
  BY <1>3, <1>9, LinkFrame DEF SendPrepare, DropWaiting, TimerFires, TimedOutFrom
<1> QED
  BY <1>4, <1>5, <1>6, <1>7, <1>8, <1>9 DEF SecCalls

\* The strengthened invariant holds in every state.
LEMMA LinksKept == Spec => []LinkInv
<1>1. Init => LinkInv
  BY DEF Init, LinkInv, FreeIsHeld, ClosedKeepsNothing, DisconnectIsTrue,
     NoRefNoSecondary, LinksReachLiving
<1>2. StateOK /\ LinkInv /\ [Step]_seen => LinkInv'
  <2> SUFFICES ASSUME StateOK, LinkInv, [Step]_seen PROVE LinkInv'
    OBVIOUS
  <2>1. CASE UNCHANGED seen
    BY <2>1, LinkFrame DEF seen, mainVars, secVars, queueVars
  <2> QED
    BY <2>1, LinkMainWork, LinkMainInput, LinkSec DEF Step
<1> QED
  BY <1>1, <1>2, StateKept, StepsOnly, PTL DEF Spec

\* Whoever gets the lock of a link finds both connections in memory, however
\* many secondaries there are and in whatever order the two sides close, lose
\* their transport and are destroyed.
THEOREM LiveLinks == Spec => []LinksReachLiving
<1>1. LinkInv => LinksReachLiving
  BY DEF LinkInv
<1> QED
  BY <1>1, LinksKept, PTL
=============================================================================
