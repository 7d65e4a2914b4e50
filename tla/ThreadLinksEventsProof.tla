------------------------ MODULE ThreadLinksEventsProof ------------------------
(***************************************************************************)
(* Proofs about the events that cross threads in ThreadLinks, for any      *)
(* number of secondaries and replies.                                      *)
(*                                                                         *)
(* That a break is announced rests on the order of the Connect event and   *)
(* the Disconnect event of a secondary in the queue of the main thread     *)
(* (BreakInv).  That no reply and no record is forgotten rests on where    *)
(* the message of a reply is (OnePlace) and on the order of its send and   *)
(* its cancellation (ReplyInv).                                            *)
(***************************************************************************)
EXTENDS ThreadLinksProof

-----------------------------------------------------------------------------
(* Facts about queues: an event comes at most once, or only before another.*)

Once(e, q) == \A i, j \in 1..Len(q) : q[i] = e /\ q[j] = e => i = j

Followed(e, f, q) ==
  \A i \in 1..Len(q) : q[i] = e => \E j \in 1..Len(q) : j > i /\ q[j] = f

\* What appending an event to a queue does to the events in it.
LEMMA QueueAppend ==
  ASSUME NEW S, NEW q \in Seq(S), NEW f \in S
  PROVE  /\ \A e \in S : InQueue(e, Append(q, f)) <=> InQueue(e, q) \/ e = f
         /\ \A e \in S : Once(e, q) /\ (e = f => ~InQueue(e, q)) => Once(e, Append(q, f))
         /\ \A e, g \in S : e # f /\ (Followed(e, g, q) \/ g = f)
                            => Followed(e, g, Append(q, f))
<1> DEFINE r == Append(q, f)
<1>1. /\ Len(q) \in Nat /\ Len(r) = Len(q) + 1
      /\ \A i \in 1..Len(q) : r[i] = q[i]
      /\ r[Len(q) + 1] = f
  BY AppendType
<1> HIDE DEF r
<1>2. \A i \in 1..Len(q) + 1 : i \in 1..Len(q) \/ i = Len(q) + 1
  BY <1>1
<1>3. \A i \in 1..Len(q) : i \in 1..Len(q) + 1 /\ Len(q) + 1 > i
  BY <1>1
<1>4. Len(q) + 1 \in 1..Len(q) + 1
  BY <1>1
<1>5. \A e \in S : InQueue(e, r) <=> InQueue(e, q) \/ e = f
  BY <1>1, <1>2, <1>3, <1>4 DEF InQueue
<1>6. \A e \in S : Once(e, q) /\ (e = f => ~InQueue(e, q)) => Once(e, r)
  BY <1>1, <1>2 DEF InQueue, Once
<1>7. ASSUME NEW e \in S, NEW g \in S, e # f, Followed(e, g, q) \/ g = f
      PROVE  Followed(e, g, r)
  <2> SUFFICES ASSUME NEW i \in 1..Len(r), r[i] = e
               PROVE  \E j \in 1..Len(r) : j > i /\ r[j] = g
    BY DEF Followed
  <2>1. i \in 1..Len(q) /\ q[i] = e
    BY <1>1, <1>2, <1>7
  <2> QED
    BY <2>1, <1>1, <1>3, <1>4, <1>7 DEF Followed
<1> QED
  BY <1>5, <1>6, <1>7 DEF r

\* What taking the first event out of a queue does to the others.
LEMMA QueueTail ==
  ASSUME NEW S, NEW q \in Seq(S), Len(q) > 0
  PROVE  /\ Head(q) \in S
         /\ \A e \in S : InQueue(e, q) <=> e = Head(q) \/ InQueue(e, Tail(q))
         /\ \A e \in S : Once(e, q) => Once(e, Tail(q)) /\ (e = Head(q) => ~InQueue(e, Tail(q)))
         /\ \A e, g \in S : Followed(e, g, q) => Followed(e, g, Tail(q))
                                                    /\ (e = Head(q) => InQueue(g, Tail(q)))
<1> DEFINE r == Tail(q)  f == Head(q)
<1>1. /\ Len(q) \in Nat /\ Len(r) = Len(q) - 1
      /\ \A i \in 1..Len(q) - 1 : r[i] = q[i + 1]
      /\ f = q[1] /\ 1 \in 1..Len(q) /\ q[1] \in S
  BY TailType
<1> HIDE DEF r, f
<1>2. \A i \in 1..Len(q) - 1 : i + 1 \in 1..Len(q) /\ i + 1 # 1
  BY <1>1
<1>3. \A i \in 1..Len(q) : i > 1 => i - 1 \in 1..Len(q) - 1 /\ r[i - 1] = q[i]
  <2> SUFFICES ASSUME NEW i \in 1..Len(q), i > 1
               PROVE  i - 1 \in 1..Len(q) - 1 /\ r[i - 1] = q[i]
    OBVIOUS
  <2>1. i - 1 \in 1..Len(q) - 1 /\ (i - 1) + 1 = i
    BY <1>1
  <2> QED
    BY <1>1, <2>1
<1>4. \A e \in S : InQueue(e, q) <=> e = f \/ InQueue(e, r)
  <2> SUFFICES ASSUME NEW e \in S PROVE InQueue(e, q) <=> e = f \/ InQueue(e, r)
    OBVIOUS
  <2>1. InQueue(e, q) => e = f \/ InQueue(e, r)
    <3> SUFFICES ASSUME NEW i \in 1..Len(q), q[i] = e PROVE e = f \/ InQueue(e, r)
      BY DEF InQueue
    <3>1. i = 1 \/ i > 1
      OBVIOUS
    <3> QED
      BY <1>1, <1>3, <3>1 DEF InQueue
  <2>2. e = f \/ InQueue(e, r) => InQueue(e, q)
    BY <1>1, <1>2 DEF InQueue
  <2> QED
    BY <2>1, <2>2
<1>5. ASSUME NEW e \in S, Once(e, q) PROVE Once(e, r) /\ (e = f => ~InQueue(e, r))
  <2>1. Once(e, r)
    <3> SUFFICES ASSUME NEW i \in 1..Len(r), NEW j \in 1..Len(r), r[i] = e, r[j] = e
                 PROVE  i = j
      BY DEF Once
    <3>1. i + 1 = j + 1
      BY <1>1, <1>2, <1>5 DEF Once
    <3> QED
      BY <1>1, <3>1
  <2>2. e = f => ~InQueue(e, r)
    BY <1>1, <1>2, <1>5 DEF Once, InQueue
  <2> QED
    BY <2>1, <2>2
<1>6. ASSUME NEW e \in S, NEW g \in S, Followed(e, g, q)
      PROVE  Followed(e, g, r) /\ (e = f => InQueue(g, r))
  <2>1. Followed(e, g, r)
    <3> SUFFICES ASSUME NEW i \in 1..Len(r), r[i] = e
                 PROVE  \E j \in 1..Len(r) : j > i /\ r[j] = g
      BY DEF Followed
    <3>1. i + 1 \in 1..Len(q) /\ q[i + 1] = e
      BY <1>1, <1>2
    <3>2. PICK k \in 1..Len(q) : k > i + 1 /\ q[k] = g
      BY <1>6, <3>1 DEF Followed
    <3>3. k - 1 \in 1..Len(r) /\ k - 1 > i /\ r[k - 1] = g
      BY <1>1, <1>3, <3>2
    <3> QED
      BY <3>3
  <2>2. e = f => InQueue(g, r)
    <3> SUFFICES ASSUME e = f PROVE InQueue(g, r)
      OBVIOUS
    <3>1. PICK k \in 1..Len(q) : k > 1 /\ q[k] = g
      BY <1>1, <1>6 DEF Followed
    <3> QED
      BY <1>1, <1>3, <3>1 DEF InQueue
  <2> QED
    BY <2>1, <2>2
<1> QED
  BY <1>1, <1>4, <1>5, <1>6 DEF r, f

\* queueEvent on the dispatcher of the main connection.
LEMMA ToldMain ==
  ASSUME QueuesOK, NEW f \in MainEvents, mainQueue' = Append(mainQueue, f)
  PROVE  /\ \A e \in MainEvents : InQueue(e, mainQueue') <=> InQueue(e, mainQueue) \/ e = f
         /\ \A e \in MainEvents :
               Once(e, mainQueue) /\ (e = f => ~InQueue(e, mainQueue)) => Once(e, mainQueue')
         /\ \A e, g \in MainEvents :
               e # f /\ (Followed(e, g, mainQueue) \/ g = f) => Followed(e, g, mainQueue')
<1>1. mainQueue \in Seq(MainEvents)
  BY DEF QueuesOK
<1> QED
  BY <1>1, QueueAppend

\* The main thread takes an event out of its queue.
LEMMA TakenMain ==
  ASSUME QueuesOK, NEW f, MainTakes(f)
  PROVE  /\ f \in MainEvents
         /\ \A e \in MainEvents : InQueue(e, mainQueue) <=> e = f \/ InQueue(e, mainQueue')
         /\ \A e \in MainEvents :
               Once(e, mainQueue) => Once(e, mainQueue') /\ (e = f => ~InQueue(e, mainQueue'))
         /\ \A e, g \in MainEvents :
               Followed(e, g, mainQueue)
               => Followed(e, g, mainQueue') /\ (e = f => InQueue(g, mainQueue'))
<1>1. /\ mainQueue \in Seq(MainEvents) /\ Len(mainQueue) > 0
      /\ mainQueue' = Tail(mainQueue) /\ f = Head(mainQueue)
  BY DEF QueuesOK, MainTakes
<1>2. \A e, g \in MainEvents :
         Followed(e, g, mainQueue)
         => Followed(e, g, Tail(mainQueue)) /\ (e = f => InQueue(g, Tail(mainQueue)))
  BY <1>1, QueueTail
<1>3. \A e \in MainEvents :
         Once(e, mainQueue)
         => Once(e, Tail(mainQueue)) /\ (e = f => ~InQueue(e, Tail(mainQueue)))
  BY <1>1, QueueTail
<1>4. \A e \in MainEvents :
         InQueue(e, mainQueue) <=> e = f \/ InQueue(e, Tail(mainQueue))
  BY <1>1, QueueTail
<1>5. f \in MainEvents
  BY <1>1, QueueTail
<1> QED
  BY <1>1, <1>2, <1>3, <1>4, <1>5

\* queueEvent on the dispatchers of a set of secondaries.
LEMMA ToldSec ==
  ASSUME QueuesOK, NEW T, NEW f \in SecEvents,
         queue' = [s \in Sec |-> IF s \in T THEN Append(queue[s], f) ELSE queue[s]]
  PROVE  \A s \in Sec, e \in SecEvents :
            InQueue(e, queue'[s]) <=> InQueue(e, queue[s]) \/ (s \in T /\ e = f)
<1> SUFFICES ASSUME NEW s \in Sec
             PROVE  \A e \in SecEvents :
                       InQueue(e, queue'[s]) <=> InQueue(e, queue[s]) \/ (s \in T /\ e = f)
  OBVIOUS
<1>1. queue[s] \in Seq(SecEvents)
  BY DEF QueuesOK
<1>2. CASE s \in T
  <2>1. queue'[s] = Append(queue[s], f)
    BY <1>2
  <2> QED
    BY <1>1, <1>2, <2>1, QueueAppend
<1>3. CASE s \notin T
  BY <1>3
<1> QED
  BY <1>2, <1>3

\* queueEvent on the dispatcher of one secondary.
LEMMA ToldOne ==
  ASSUME QueuesOK, NEW r \in Sec, NEW f \in SecEvents, Tell(r, f)
  PROVE  \A s \in Sec, e \in SecEvents :
            InQueue(e, queue'[s]) <=> InQueue(e, queue[s]) \/ (s = r /\ e = f)
<1>1. queue' = [s \in Sec |-> IF s \in {r} THEN Append(queue[s], f) ELSE queue[s]]
  BY DEF Tell, QueuesOK
<1>2. PICK T : T = {r}
  OBVIOUS
<1>3. queue' = [s \in Sec |-> IF s \in T THEN Append(queue[s], f) ELSE queue[s]]
  BY <1>1, <1>2
<1>4. \A s \in Sec, e \in SecEvents :
         InQueue(e, queue'[s]) <=> InQueue(e, queue[s]) \/ (s \in T /\ e = f)
  BY <1>3, ToldSec
<1>5. \A s : s \in T <=> s = r
  BY <1>2
<1> QED
  BY <1>4, <1>5

\* The thread of a secondary takes an event out of its queue.
LEMMA TakenSec ==
  ASSUME QueuesOK, NEW r \in Sec, NEW f, Takes(r, f)
  PROVE  /\ f \in SecEvents
         /\ \A s \in Sec, e \in SecEvents :
               InQueue(e, queue[s]) <=> (s = r /\ e = f) \/ InQueue(e, queue'[s])
<1>1. /\ queue[r] \in Seq(SecEvents) /\ Len(queue[r]) > 0
      /\ queue'[r] = Tail(queue[r]) /\ f = Head(queue[r])
      /\ \A s \in Sec : s # r => queue'[s] = queue[s]
  BY DEF QueuesOK, Takes
<1>2. /\ f \in SecEvents
      /\ \A e \in SecEvents : InQueue(e, queue[r]) <=> e = f \/ InQueue(e, queue'[r])
  BY <1>1, QueueTail
<1> QED
  BY <1>1, <1>2

\* Events of different types are different, those of one type differ in what
\* they are about.
LEMMA EventsDiffer ==
  /\ \A s, r \in Sec : /\ Connect(s) # Disconnect(r)
                       /\ Connect(s) = Connect(r) => s = r
                       /\ Disconnect(s) = Disconnect(r) => s = r
  /\ \A s \in Sec, p \in Reply :
        /\ Connect(s) # SendWith(p) /\ Connect(s) # Cancel(p)
        /\ Disconnect(s) # SendWith(p) /\ Disconnect(s) # Cancel(p)
  /\ \A p, q \in Reply : /\ SendWith(p) # Cancel(q)
                         /\ SendWith(p) = SendWith(q) => p = q
                         /\ Cancel(p) = Cancel(q) => p = q
                         /\ Success(p) # Failure(q)
                         /\ Success(p) = Success(q) => p = q
                         /\ Failure(p) = Failure(q) => p = q
  /\ \A p \in Reply : Success(p) # MainGone /\ Failure(p) # MainGone
  /\ \A n \in BOOLEAN : /\ UniqueName(n) # MainGone /\ Message(n) # MainGone
                        /\ \A p \in Reply :
                              /\ UniqueName(n) # Success(p) /\ UniqueName(n) # Failure(p)
                              /\ Message(n) # Success(p) /\ Message(n) # Failure(p)
BY DEF Connect, Disconnect, SendWith, Cancel, UniqueName, Success, Failure, MainGone,
       Message

-----------------------------------------------------------------------------
(* The strengthening of BreakIsAnnounced.                                  *)

\* The Connect event of a secondary is queued once, by its constructor, and
\* its CommRef is unredeemed until that event has been processed.
ConnectIsFresh ==
  \A s \in Sec : /\ Once(Connect(s), mainQueue)
                 /\ InQueue(Connect(s), mainQueue)
                    => s \in unredeemed /\ phase[s] # "none"

\* A secondary that closes before the main connection has processed its
\* Connect event takes that back behind it.
DisconnectFollows ==
  \A s \in Sec : link[s] = "Broken" /\ mainPhase # "destroyed"
                 => Followed(Connect(s), Disconnect(s), mainQueue)

\* The main connection keeps a link in one of its containers.
LinkedAreRedeemed == \A s \in links : s \notin unredeemed /\ phase[s] # "none"

\* A secondary is told that the main connection has gone when it has.
GoneIsTrue == \A s \in Sec : InQueue(MainGone, queue[s]) => link[s] = "Broken"

\* An open secondary keeps its pointer to the main connection while their link
\* is free; a closed one has broken the link.
BelievesWhileFree ==
  \A s \in Sec : /\ phase[s] = "none" => ~hasMain[s]
                 /\ phase[s] = "open" /\ link[s] = "Free" => hasMain[s]
                 /\ phase[s] = "closed" => link[s] = "Broken"

\* Nobody but the destructor of the main connection breaks the link of a
\* secondary that is open and not registered yet.
UnredeemedIsFree ==
  \A s \in unredeemed : phase[s] = "open" /\ hasMain[s] /\ mainPhase # "destroyed"
                        => link[s] = "Free"

BreakInv == /\ ConnectIsFresh /\ DisconnectFollows /\ LinkedAreRedeemed /\ GoneIsTrue
            /\ BelievesWhileFree /\ UnredeemedIsFree /\ BreakIsAnnounced

\* A step that leaves alone what the invariant is about.
LEMMA BreakFrame ==
  ASSUME BreakInv, UNCHANGED <<mainPhase, unredeemed, links, link, phase, hasMain,
                               mainQueue, queue>>
  PROVE  BreakInv'
BY DEF BreakInv, ConnectIsFresh, DisconnectFollows, LinkedAreRedeemed, GoneIsTrue,
       BelievesWhileFree, UnredeemedIsFree, BreakIsAnnounced, Redeemed

\* Other events in the queues make no difference.
LEMMA BreakOther ==
  ASSUME StateOK, BreakInv,
         UNCHANGED <<mainPhase, unredeemed, links, link, phase, hasMain>>,
         \A s \in Sec :
            /\ Once(Connect(s), mainQueue) => Once(Connect(s), mainQueue')
            /\ InQueue(Connect(s), mainQueue') => InQueue(Connect(s), mainQueue)
            /\ Followed(Connect(s), Disconnect(s), mainQueue)
               => Followed(Connect(s), Disconnect(s), mainQueue')
            /\ InQueue(Disconnect(s), mainQueue) => InQueue(Disconnect(s), mainQueue')
            /\ InQueue(MainGone, queue'[s]) <=> InQueue(MainGone, queue[s])
  PROVE  BreakInv'
BY DEF BreakInv, ConnectIsFresh, DisconnectFollows, LinkedAreRedeemed, GoneIsTrue,
       BelievesWhileFree, UnredeemedIsFree, BreakIsAnnounced, Redeemed, StateOK, MainOK

\* The steps of the main thread keep the invariant.
LEMMA BreakMainWork == StateOK /\ LinkInv /\ BreakInv /\ MainWork => BreakInv'
<1> SUFFICES ASSUME StateOK, LinkInv, BreakInv, MainWork PROVE BreakInv'
  OBVIOUS
<1> USE DEF mainVars, secVars
<1> USE EventTypes, EventsDiffer
<1>t. QueuesOK
  BY DEF StateOK
<1>1. CASE MainPoll
  BY <1>1, BreakFrame DEF MainPoll
<1>2. ASSUME NEW s \in Sec, MainTakesConnect(s) PROVE BreakInv'
  <2>1. mainPhase = "open"
    BY <1>2 DEF MainTakesConnect, MainTakes, LinkInv, ClosedKeepsNothing, StateOK, QueuesOK
  <2>2. /\ \A r \in Sec : /\ Once(Connect(r), mainQueue')
                          /\ InQueue(Connect(r), mainQueue') 
                             <=> r # s /\ InQueue(Connect(r), mainQueue)
                          /\ InQueue(Disconnect(r), mainQueue') 
                             <=> InQueue(Disconnect(r), mainQueue)
                          /\ Followed(Connect(r), Disconnect(r), mainQueue)
                             => Followed(Connect(r), Disconnect(r), mainQueue')
        /\ InQueue(Connect(s), mainQueue)
        /\ Followed(Connect(s), Disconnect(s), mainQueue) => InQueue(Disconnect(s), mainQueue')
    BY <1>t, <1>2, TakenMain DEF MainTakesConnect, BreakInv, ConnectIsFresh
  <2>3. \A r \in Sec : InQueue(MainGone, queue'[r]) <=> InQueue(MainGone, queue[r])
    <3>1. CASE Tell(s, UniqueName(mainNamed))
      BY <1>t, <3>1, ToldOne DEF StateOK, MainOK
    <3>2. CASE UNCHANGED queue
      BY <3>2
    <3> QED
      BY <1>2, <3>1, <3>2 DEF MainTakesConnect, Welcome
  <2>4. /\ s \in unredeemed /\ phase[s] # "none"
    BY <2>2 DEF BreakInv, ConnectIsFresh
  <2>5. ConnectIsFresh' /\ DisconnectFollows' /\ LinkedAreRedeemed' /\ GoneIsTrue'
    BY <1>2, <2>2, <2>3, <2>4 DEF MainTakesConnect, BreakInv, ConnectIsFresh, DisconnectFollows,
       LinkedAreRedeemed, GoneIsTrue
  <2>6. BelievesWhileFree' /\ UnredeemedIsFree' /\ BreakIsAnnounced'
    BY <1>2, <2>1, <2>2, <2>3, <2>4 DEF MainTakesConnect, BreakInv, BelievesWhileFree,
       UnredeemedIsFree, BreakIsAnnounced, Redeemed, DisconnectFollows, StateOK, MainOK
  <2> QED
    BY <2>5, <2>6 DEF BreakInv
<1>3. ASSUME NEW s \in Sec, MainTakesDisconnect(s) PROVE BreakInv'
  <2>2. /\ \A r \in Sec : /\ Once(Connect(r), mainQueue')
                          /\ InQueue(Connect(r), mainQueue') <=> InQueue(Connect(r), mainQueue)
                          /\ r # s /\ InQueue(Disconnect(r), mainQueue)
                             => InQueue(Disconnect(r), mainQueue')
                          /\ Followed(Connect(r), Disconnect(r), mainQueue)
                             => Followed(Connect(r), Disconnect(r), mainQueue')
    BY <1>t, <1>3, TakenMain DEF MainTakesDisconnect, BreakInv, ConnectIsFresh
  <2> QED
    BY <1>3, <2>2 DEF MainTakesDisconnect, SecQueuesSame, BreakInv, ConnectIsFresh, 
       DisconnectFollows, LinkedAreRedeemed, GoneIsTrue, BelievesWhileFree, UnredeemedIsFree,
       BreakIsAnnounced, Redeemed, StateOK, MainOK
<1>4. ASSUME NEW s \in Sec, MainCloseLink(s) PROVE BreakInv'
  <2>1. /\ link'[s] = "Broken" /\ \A r \in Sec : r # s => link'[r] = link[r]
        /\ s \in links /\ links' = links \ {s}
    BY <1>4 DEF MainCloseLink, WillSucceed, StateOK, MainOK
  <2>2. ~InQueue(Connect(s), mainQueue) /\ s \notin unredeemed
    BY <2>1 DEF BreakInv, ConnectIsFresh, LinkedAreRedeemed
  <2>3. Followed(Connect(s), Disconnect(s), mainQueue)
    BY <2>2 DEF Followed, InQueue
  <2>4. \A r \in Sec : InQueue(MainGone, queue'[r])
                       <=> InQueue(MainGone, queue[r]) \/ (r = s /\ link[s] = "Free")
    BY <1>t, <1>4, ToldOne DEF MainCloseLink, TellLoss, LockHeld
  <2>5. link[s] \in {"Free", "Broken"}
    BY <2>1 DEF BreakInv, LinkedAreRedeemed, LinkInv, NoRefNoSecondary, StateOK, MainOK
  <2> QED
    BY <1>4, <2>1, <2>2, <2>3, <2>4, <2>5 DEF MainCloseLink, BreakInv, ConnectIsFresh, 
       DisconnectFollows, LinkedAreRedeemed, GoneIsTrue, BelievesWhileFree, UnredeemedIsFree,
       BreakIsAnnounced, Redeemed
<1>5. ASSUME NEW p \in Reply, MainTakesSend(p) \/ MainTakesCancel(p) PROVE BreakInv'
  <2>1. \/ MainTakes(SendWith(p)) 
        \/ MainTakes(Cancel(p))
    BY <1>5 DEF MainTakesSend, MainTakesCancel
  <2>2. /\ \A r \in Sec : /\ Once(Connect(r), mainQueue) => Once(Connect(r), mainQueue')
                          /\ InQueue(Connect(r), mainQueue') <=> InQueue(Connect(r), mainQueue)
                          /\ InQueue(Disconnect(r), mainQueue') <=> InQueue(Disconnect(r), mainQueue)
                          /\ Followed(Connect(r), Disconnect(r), mainQueue)
                             => Followed(Connect(r), Disconnect(r), mainQueue')
    BY <1>t, <2>1, TakenMain
  <2> QED
    BY <1>5, <2>2, BreakOther DEF MainTakesSend, MainTakesCancel, SecQueuesSame
<1>6. CASE MainCloseEnd
  BY <1>6 DEF MainCloseEnd, queueVars, BreakInv, ConnectIsFresh, DisconnectFollows, LinkedAreRedeemed,
     GoneIsTrue, BelievesWhileFree, UnredeemedIsFree, BreakIsAnnounced, Redeemed
<1> QED
  BY <1>1, <1>2, <1>3, <1>4, <1>5, <1>6 DEF MainWork

\* What reaches the main connection from outside keeps it too.
LEMMA BreakMainInput == StateOK /\ LinkInv /\ BreakInv /\ MainInput => BreakInv'
<1> SUFFICES ASSUME StateOK, LinkInv, BreakInv, MainInput PROVE BreakInv'
  OBVIOUS
<1> USE DEF mainVars, secVars, queueVars
<1> USE EventTypes, EventsDiffer
<1>t. QueuesOK
  BY DEF StateOK
<1>2. CASE MainGetsName
  <2> DEFINE T == {s \in Sec : s \in links /\ LockHeld(s)}  e == UniqueName(TRUE)
  <2>1. /\ queue' = [s \in Sec |-> IF s \in T THEN Append(queue[s], e) ELSE queue[s]]
        /\ e \in SecEvents /\ e # MainGone
    BY <1>2, EventTypes DEF MainGetsName, UniqueName, MainGone
  <2> HIDE DEF T, e
  <2>2. \A s \in Sec : InQueue(MainGone, queue'[s]) <=> InQueue(MainGone, queue[s])
    BY <1>t, <2>1, ToldSec
  <2> QED
    BY <1>2, <2>2, BreakOther DEF MainGetsName
<1>3. ASSUME Broadcast, UNCHANGED mainPhase PROVE BreakInv'
  <2> DEFINE T == links \ DeadLinks  e == Message(~MainHasClient)
  <2>1. /\ queue' = [s \in Sec |-> IF s \in T THEN Append(queue[s], e) ELSE queue[s]]
        /\ e \in SecEvents /\ e # MainGone
    BY <1>3, EventTypes, ClientAssumption DEF Broadcast, Message, MainGone
  <2> HIDE DEF T, e
  <2>2. \A s \in Sec : InQueue(MainGone, queue'[s]) <=> InQueue(MainGone, queue[s])
    BY <1>t, <2>1, ToldSec
  <2> QED
    BY <1>3, <2>2 DEF Broadcast, BreakInv, ConnectIsFresh, DisconnectFollows,
       LinkedAreRedeemed, GoneIsTrue, BelievesWhileFree, UnredeemedIsFree,
       BreakIsAnnounced, Redeemed
<1>4. CASE MainReceivesSpontaneous
  BY <1>3, <1>4 DEF MainReceivesSpontaneous, Broadcast, MainIdle
<1>5. ASSUME NEW p \in Reply, MainReceivesLateReply(p) PROVE BreakInv'
  BY <1>3, <1>5 DEF MainReceivesLateReply, Broadcast, MainIdle
<1>6. ASSUME NEW p \in Reply, MainForwardsReply(p) \/ MainForwardsFailure(p)
      PROVE  BreakInv'
  <2>1. Owner[p] \in Sec
    BY OwnerAssumption
  <2>2. \A s \in Sec : InQueue(MainGone, queue'[s]) <=> InQueue(MainGone, queue[s])
    BY <1>t, <1>6, <2>1, ToldOne
    DEF MainForwardsReply, MainForwardsFailure, MainForwards, TellOwner
  <2> QED
    BY <1>6, <2>2, BreakOther DEF MainForwardsReply, MainForwardsFailure, MainForwards
<1>7. ASSUME NEW p \in Reply, MainDropsFailure(p) PROVE BreakInv'
  BY <1>7, BreakFrame DEF MainDropsFailure
<1>8. ASSUME NEW s \in Sec, CreateCommRef(s) PROVE BreakInv'
  <2>1. /\ phase[s] = "none" /\ link'[s] = "Free"
        /\ \A r \in Sec : r # s => link'[r] = link[r]
    BY <1>8 DEF CreateCommRef, LinkInv, NoRefNoSecondary, StateOK, MainOK
  <2> QED
    BY <1>8, <2>1 DEF CreateCommRef, BreakInv, ConnectIsFresh, DisconnectFollows,
       LinkedAreRedeemed, GoneIsTrue, BelievesWhileFree, UnredeemedIsFree,
       BreakIsAnnounced, Redeemed, StateOK, MainOK
<1>9. CASE MainClose
  BY <1>9 DEF MainClose, MainIdle, BreakInv, ConnectIsFresh, DisconnectFollows,
     LinkedAreRedeemed, GoneIsTrue, BelievesWhileFree, UnredeemedIsFree,
     BreakIsAnnounced, Redeemed
<1>10. CASE MainDestroy
  <2>1. links = {}
    BY <1>10 DEF MainDestroy, LinkInv, ClosedKeepsNothing
  <2> QED
    BY <1>10, <2>1 DEF MainDestroy, RefsUnlinked, BreakInv, ConnectIsFresh,
       DisconnectFollows, LinkedAreRedeemed, GoneIsTrue, BelievesWhileFree,
       UnredeemedIsFree, BreakIsAnnounced, Redeemed
<1> QED
  BY <1>2, <1>4, <1>5, <1>6, <1>7, <1>8, <1>9, <1>10 DEF MainInput

\* The steps of a secondary, its application and its timers keep it.
LEMMA BreakSec ==
  ASSUME StateOK, LinkInv, BreakInv, NEW s \in Sec,
         SecWork(s) \/ SecCalls(s) \/ \E p \in Reply : TimerFires(s, p)
  PROVE  BreakInv'
<1> USE DEF mainVars, secVars, queueVars
<1> USE EventTypes, EventsDiffer
<1>t. QueuesOK
  BY DEF StateOK
<1>1. ASSUME NEW p \in Reply, TellMain(SendWith(p)) \/ TellMain(Cancel(p)),
             UNCHANGED <<mainPhase, unredeemed, links, link, phase, hasMain, queue>>
      PROVE  BreakInv'
  <2>1. \A r \in Sec :
           /\ Once(Connect(r), mainQueue) => Once(Connect(r), mainQueue')
           /\ InQueue(Connect(r), mainQueue') <=> InQueue(Connect(r), mainQueue)
           /\ InQueue(Disconnect(r), mainQueue') <=> InQueue(Disconnect(r), mainQueue)
           /\ Followed(Connect(r), Disconnect(r), mainQueue)
              => Followed(Connect(r), Disconnect(r), mainQueue')
    BY <1>t, <1>1, ToldMain DEF TellMain
  <2> QED
    BY <1>1, <2>1, BreakOther
<1>2. ASSUME NEW p \in Reply, SendHandsOver(s, p) PROVE BreakInv'
  BY <1>1, <1>2 DEF SendHandsOver, Register, SecQueuesSame
<1>3. ASSUME NEW p \in Reply, Unregister(s, p) PROVE BreakInv'
  <2>1. CASE TellMain(Cancel(p))
    BY <1>1, <1>3, <2>1 DEF Unregister, SecQueuesSame
  <2>2. CASE MainQueueSame
    BY <1>3, <2>2, BreakFrame DEF Unregister, SecQueuesSame, MainQueueSame
  <2> QED
    BY <1>3, <2>1, <2>2 DEF Unregister, CancelInMain
<1>4. ASSUME NEW e \in SecEvents, e # MainGone, Takes(s, e),
             UNCHANGED <<mainPhase, unredeemed, links, link, phase, hasMain>>
      PROVE  BreakInv'
  <2>1. \A r \in Sec : InQueue(MainGone, queue'[r]) <=> InQueue(MainGone, queue[r])
    BY <1>t, <1>4, TakenSec
  <2> QED
    BY <1>4, <2>1, BreakOther DEF Takes, MainQueueSame
<1>5. CASE TakesMainGone(s)
  <2>1. \A r \in Sec : /\ InQueue(MainGone, queue'[r]) => InQueue(MainGone, queue[r])
                       /\ r # s => (InQueue(MainGone, queue'[r])
                                       <=> InQueue(MainGone, queue[r]))
    BY <1>t, <1>5, TakenSec DEF TakesMainGone
  <2>2. link[s] = "Broken"
    BY <1>t, <1>5, TakenSec DEF TakesMainGone, BreakInv, GoneIsTrue
  <2>3. ~hasMain'[s] /\ \A r \in Sec : r # s => hasMain'[r] = hasMain[r]
    BY <1>5 DEF TakesMainGone, StateOK, SecOK
  <2> QED
    BY <1>5, <2>1, <2>2, <2>3 DEF TakesMainGone, Takes, MainQueueSame, BreakInv,
       ConnectIsFresh, DisconnectFollows, LinkedAreRedeemed, GoneIsTrue,
       BelievesWhileFree, UnredeemedIsFree, BreakIsAnnounced, Redeemed, StateOK, MainOK
<1>6. CASE SecWork(s)
  <2>1. CASE Poll(s)
    BY <2>1, BreakFrame DEF Poll
  <2>2. ASSUME NEW n \in BOOLEAN, TakesUniqueName(s, n) \/ TakesMessage(s, n)
        PROVE  BreakInv'
    BY <1>4, <2>2 DEF TakesUniqueName, TakesMessage
  <2>3. ASSUME NEW p \in Reply, TakesSuccess(s, p) \/ TakesFailure(s, p)
        PROVE  BreakInv'
    BY <1>4, <2>3 DEF TakesSuccess, TakesFailure
  <2>4. ASSUME NEW p \in Reply, \/ SendRefused(s, p) \/ SendLocally(s, p)
                                \/ SendFindsBroken(s, p)
        PROVE  BreakInv'
    BY <2>4, BreakFrame DEF SendRefused, SendLocally, SendFindsBroken, Register
  <2> QED
    BY <1>2, <1>5, <1>6, <2>1, <2>2, <2>3, <2>4 DEF SecWork
<1>7. CASE Construct(s)
  <2>1. /\ phase[s] = "none" /\ phase'[s] = "open" /\ ~hasMain[s]
        /\ \A r \in Sec : r # s => phase'[r] = phase[r] /\ hasMain'[r] = hasMain[r]
        /\ s \notin links /\ ~InQueue(Connect(s), mainQueue)
    BY <1>7 DEF Construct, LockHeld, StateOK, SecOK, BreakInv, BelievesWhileFree,
       LinkedAreRedeemed, ConnectIsFresh
  <2>2. CASE LockHeld(s)
    <3>1. /\ hasMain'[s] /\ s \in unredeemed /\ link[s] = "Free"
      BY <1>7, <2>1, <2>2 DEF Construct, LockHeld, StateOK, SecOK, LinkInv, FreeIsHeld
    <3>2. \A r \in Sec :
             /\ Once(Connect(r), mainQueue')
             /\ InQueue(Connect(r), mainQueue')
                <=> r = s \/ InQueue(Connect(r), mainQueue)
             /\ InQueue(Disconnect(r), mainQueue') <=> InQueue(Disconnect(r), mainQueue)
             /\ r # s /\ Followed(Connect(r), Disconnect(r), mainQueue)
                => Followed(Connect(r), Disconnect(r), mainQueue')
      BY <1>t, <1>7, <2>1, <2>2, ToldMain
      DEF Construct, TellMain, BreakInv, ConnectIsFresh
    <3> QED
      BY <1>7, <2>1, <3>1, <3>2 DEF Construct, SecQueuesSame, BreakInv,
         ConnectIsFresh, DisconnectFollows, LinkedAreRedeemed, GoneIsTrue,
         BelievesWhileFree, UnredeemedIsFree, BreakIsAnnounced, Redeemed, StateOK, MainOK
  <2>3. CASE ~LockHeld(s)
    BY <1>7, <2>1, <2>3 DEF Construct, LockHeld, SecQueuesSame, BreakInv,
       ConnectIsFresh, DisconnectFollows, LinkedAreRedeemed, GoneIsTrue,
       BelievesWhileFree, UnredeemedIsFree, BreakIsAnnounced, Redeemed, StateOK, MainOK
  <2> QED
    BY <2>2, <2>3
<1>8. CASE DropCommRef(s)
  <2>1. /\ phase[s] = "none" /\ phase'[s] = "destroyed" /\ link'[s] = "Broken"
        /\ \A r \in Sec : r # s => phase'[r] = phase[r] /\ link'[r] = link[r]
        /\ s \notin links /\ ~InQueue(Connect(s), mainQueue)
    BY <1>8 DEF DropCommRef, StateOK, SecOK, MainOK, BreakInv, LinkedAreRedeemed,
       ConnectIsFresh
  <2>2. Followed(Connect(s), Disconnect(s), mainQueue)
    BY <2>1 DEF Followed, InQueue
  <2> QED
    BY <1>8, <2>1, <2>2 DEF DropCommRef, BreakInv,
       ConnectIsFresh, DisconnectFollows, LinkedAreRedeemed, GoneIsTrue,
       BelievesWhileFree, UnredeemedIsFree, BreakIsAnnounced, Redeemed, StateOK, MainOK
<1>9. CASE Close(s)
  <2>1. /\ phase[s] = "open" /\ phase'[s] = "closed"
        /\ \A r \in Sec : r # s => phase'[r] = phase[r]
    BY <1>9 DEF Close, Idle, StateOK, SecOK
  <2>2. CASE hasMain[s] /\ LockHeld(s)
    <3>1. /\ link'[s] = "Broken" /\ \A r \in Sec : r # s => link'[r] = link[r]
      BY <1>9, <2>2 DEF Close, StateOK, MainOK
    <3>2. \A r \in Sec :
             /\ Once(Connect(r), mainQueue) => Once(Connect(r), mainQueue')
             /\ InQueue(Connect(r), mainQueue') <=> InQueue(Connect(r), mainQueue)
             /\ InQueue(Disconnect(r), mainQueue')
                <=> r = s \/ InQueue(Disconnect(r), mainQueue)
             /\ r = s \/ Followed(Connect(r), Disconnect(r), mainQueue)
                => Followed(Connect(r), Disconnect(r), mainQueue')
      BY <1>t, <1>9, <2>2, ToldMain DEF Close, TellMain
    <3> QED
      BY <1>9, <2>1, <3>1, <3>2 DEF Close, SecQueuesSame, BreakInv,
         ConnectIsFresh, DisconnectFollows, LinkedAreRedeemed, GoneIsTrue,
         BelievesWhileFree, UnredeemedIsFree, BreakIsAnnounced, Redeemed, StateOK, MainOK
  <2>3. CASE ~(hasMain[s] /\ LockHeld(s))
    <3>1. link[s] = "Broken"
      BY <2>1, <2>3 DEF LockHeld, BreakInv, BelievesWhileFree, LinkInv,
         NoRefNoSecondary, StateOK, MainOK
    <3> QED
      BY <1>9, <2>1, <2>3, <3>1 DEF Close, SecQueuesSame, MainQueueSame, BreakInv,
         ConnectIsFresh, DisconnectFollows, LinkedAreRedeemed, GoneIsTrue,
         BelievesWhileFree, UnredeemedIsFree, BreakIsAnnounced, Redeemed, StateOK, MainOK
  <2> QED
    BY <2>2, <2>3
<1>10. CASE Destroy(s)
  <2>1. /\ phase[s] = "closed" /\ phase'[s] = "destroyed" /\ link[s] = "Broken"
        /\ \A r \in Sec : r # s => phase'[r] = phase[r]
        /\ link' = link
    BY <1>10 DEF Destroy, StateOK, SecOK, MainOK, BreakInv, BelievesWhileFree
  <2> QED
    BY <1>10, <2>1 DEF Destroy, BreakInv,
       ConnectIsFresh, DisconnectFollows, LinkedAreRedeemed, GoneIsTrue,
       BelievesWhileFree, UnredeemedIsFree, BreakIsAnnounced, Redeemed, StateOK, MainOK
<1>11. ASSUME NEW p \in Reply, \/ SendPrepare(s, p) \/ DropWaiting(s, p)
                               \/ TimerFires(s, p)
       PROVE  BreakInv'
  BY <1>3, <1>11, BreakFrame DEF SendPrepare, DropWaiting, TimerFires, TimedOutFrom
<1> QED
  BY <1>6, <1>7, <1>8, <1>9, <1>10, <1>11 DEF SecCalls

\* Every step keeps it.
LEMMA BreakStep == StateOK /\ LinkInv /\ BreakInv /\ [Step]_seen => BreakInv'
<1> SUFFICES ASSUME StateOK, LinkInv, BreakInv, [Step]_seen PROVE BreakInv'
  OBVIOUS
<1>1. CASE UNCHANGED seen
  BY <1>1, BreakFrame DEF seen, mainVars, secVars, queueVars
<1> QED
  BY <1>1, BreakMainWork, BreakMainInput, BreakSec DEF Step

\* The strengthened invariant holds in every state.
LEMMA BreaksKept == Spec => []BreakInv
<1>1. Init => BreakInv
  <2> SUFFICES ASSUME Init PROVE BreakInv
    OBVIOUS
  <2>1. \A e : ~InQueue(e, <<>>) /\ Once(e, <<>>)
    BY DEF InQueue, Once
  <2> QED
    BY <2>1 DEF Init, BreakInv, ConnectIsFresh, DisconnectFollows, LinkedAreRedeemed,
       GoneIsTrue, BelievesWhileFree, UnredeemedIsFree, BreakIsAnnounced
<1> QED
  BY <1>1, BreakStep, StateKept, StepsOnly, LinksKept, PTL DEF Spec

\* Whichever side breaks a link, an event for the other one is on its way, until
\* the other one has let go of the link itself.
THEOREM BreaksAnnounced == Spec => []BreakIsAnnounced
<1>1. BreakInv => BreakIsAnnounced
  BY DEF BreakInv
<1> QED
  BY <1>1, BreaksKept, PTL

-----------------------------------------------------------------------------
(* The strengthening of RecordsAreNeeded and WaitingIsNotForgotten.        *)

\* The message of p is on its way to the main connection.
Sent(p) == InQueue(SendWith(p), mainQueue)

\* An answer for p is on its way to a secondary.
Answered(p) ==
  \E s \in Sec : InQueue(Success(p), queue[s]) \/ InQueue(Failure(p), queue[s])

\* The reply waits, and its connection knows.
Recorded(p) == status[p] = "waiting" /\ p \in pending[Owner[p]]

\* A message is in one place at a time: on its way to the main connection,
\* recorded there and on the wire, or answered.
OnePlace ==
  \A p \in Reply :
     /\ Once(SendWith(p), mainQueue)
     /\ status[p] = "unsent" => ~Sent(p) /\ p \notin onWire /\ ~Answered(p)
     /\ Sent(p) => p \notin onWire /\ p \notin mainPending
     /\ Answered(p) => ~Sent(p) /\ p \notin mainPending
     /\ p \in mainPending => p \in onWire

\* What send() has between its two locks is one message that has not been sent;
\* if it has no serial, that is because the link was found broken.
SendingIsUnsent ==
  \A s \in Sec : \A p \in sending[s] :
     /\ sending[s] = {p} /\ Owner[p] = s /\ status[p] = "unsent" /\ phase[s] # "none"
     /\ error[p] = "NoError" => numbered[p]
     /\ error[p] # "NoError" => link[s] = "Broken"

\* Before send() a reply has no error, and is one of an existing connection.
UnsentIsClean ==
  \A p \in Reply :
     /\ status[p] = "unsent" /\ p \notin sending[Owner[p]] => error[p] = "NoError"
     /\ phase[Owner[p]] = "none" => status[p] = "unsent"

\* What reaches the main connection has a serial.
KnownAreNumbered == \A p \in Reply : Sent(p) \/ p \in mainPending => numbered[p]

\* While the two are linked, a reply that no longer waits has its cancellation
\* behind its message.
CancelFollows ==
  \A p \in Reply : link[Owner[p]] = "Free" /\ ~Recorded(p)
                   => Followed(SendWith(p), Cancel(p), mainQueue)

\* What is cancelled does not wait.
CancelIsTrue ==
  \A p \in Reply : InQueue(Cancel(p), mainQueue) => status[p] \in {"finished", "destroyed"}

\* An open secondary that has its main connection is not Unconnected.
ConnectedToMain ==
  \A s \in Sec : phase[s] = "open" /\ hasMain[s] => state[s] # "Unconnected"

\* A reply that waits while its connection is linked is recorded there, and the
\* main connection, if it is open, has it or will have it or has answered it.
FreeIsKnown ==
  \A p \in Reply :
     status[p] = "waiting" /\ phase[Owner[p]] = "open" /\ link[Owner[p]] = "Free"
     => /\ p \in pending[Owner[p]] /\ numbered[p]
        /\ mainPhase = "open" => \/ Sent(p) \/ p \in mainPending
                                 \/ InQueue(Success(p), queue[Owner[p]])
                                 \/ InQueue(Failure(p), queue[Owner[p]])

ReplyInv == /\ OnePlace /\ SendingIsUnsent /\ UnsentIsClean /\ RecordsWait
            /\ KnownAreNumbered /\ CancelFollows /\ CancelIsTrue /\ ConnectedToMain
            /\ FreeIsKnown /\ RecordsAreNeeded

\* A step leaves the events about replies in the main queue as they are.
SameRequests ==
  \A p \in Reply :
     /\ InQueue(SendWith(p), mainQueue') <=> InQueue(SendWith(p), mainQueue)
     /\ InQueue(Cancel(p), mainQueue') <=> InQueue(Cancel(p), mainQueue)
     /\ Once(SendWith(p), mainQueue) => Once(SendWith(p), mainQueue')
     /\ Followed(SendWith(p), Cancel(p), mainQueue)
        => Followed(SendWith(p), Cancel(p), mainQueue')

\* A step leaves the answers in the queues of the secondaries as they are.
SameAnswers ==
  \A p \in Reply, s \in Sec :
     /\ InQueue(Success(p), queue'[s]) <=> InQueue(Success(p), queue[s])
     /\ InQueue(Failure(p), queue'[s]) <=> InQueue(Failure(p), queue[s])

\* Links break and connections close, and nothing else happens to the replies.
LEMMA ReplyFrame ==
  ASSUME StateOK, LinkInv, ReplyInv, SameRequests, SameAnswers, ConnectedToMain',
         UNCHANGED <<sending, pending, status, numbered, error>>,
         mainPending' \subseteq mainPending, mainPending' \subseteq onWire',
         onWire' \subseteq onWire, mainPhase' = "open" => mainPhase = "open",
         \A p \in mainPending \ mainPending' :
            link'[Owner[p]] # "Free" \/ mainPhase' # "open",
         \A s \in Sec : /\ link'[s] = "Free" => link[s] = "Free" \/ phase[s] = "none"
                        /\ link[s] = "Broken" => link'[s] = "Broken"
                        /\ phase'[s] = "none" => phase[s] = "none"
                        /\ phase'[s] = "open" => phase[s] \in {"open", "none"}
  PROVE  ReplyInv'
<1> USE DEF ReplyInv, Sent, Answered, Recorded
<1>o. \A p \in Reply : Owner[p] \in Sec
  BY OwnerAssumption
<1>1. OnePlace'
  BY DEF OnePlace, SameRequests, SameAnswers
<1>2. SendingIsUnsent'
  BY DEF SendingIsUnsent
<1>3. UnsentIsClean' /\ RecordsWait' /\ KnownAreNumbered' /\ CancelIsTrue'
  BY <1>o DEF UnsentIsClean, RecordsWait, KnownAreNumbered, CancelIsTrue, SameRequests
<1>4. CancelFollows'
  <2> SUFFICES ASSUME NEW p \in Reply, link'[Owner[p]] = "Free", ~Recorded(p)
               PROVE  Followed(SendWith(p), Cancel(p), mainQueue')
    BY DEF CancelFollows
  <2>1. CASE link[Owner[p]] = "Free"
    BY <2>1 DEF CancelFollows, SameRequests
  <2>2. CASE phase[Owner[p]] = "none"
    <3>1. ~InQueue(SendWith(p), mainQueue')
      BY <2>2 DEF UnsentIsClean, OnePlace, SameRequests
    <3> QED
      BY <3>1 DEF InQueue, Followed
  <2> QED
    BY <1>o, <2>1, <2>2
<1>5. FreeIsKnown'
  <2> SUFFICES ASSUME NEW p \in Reply, status[p] = "waiting",
                      phase'[Owner[p]] = "open", link'[Owner[p]] = "Free"
               PROVE  /\ p \in pending[Owner[p]] /\ numbered[p]
                      /\ mainPhase' = "open" => \/ Sent(p)' \/ p \in mainPending'
                               \/ InQueue(Success(p), queue'[Owner[p]])
                               \/ InQueue(Failure(p), queue'[Owner[p]])
    BY DEF FreeIsKnown
  <2> QED
    BY <1>o DEF FreeIsKnown, UnsentIsClean, SameRequests, SameAnswers
<1>6. RecordsAreNeeded'
  BY <1>o DEF RecordsAreNeeded, UnsentIsClean, OnePlace, SameRequests, StateOK, MainOK
<1> QED
  BY <1>1, <1>2, <1>3, <1>4, <1>5, <1>6

\* The steps of the main thread keep the invariant.
LEMMA ReplyMainWork == StateOK /\ LinkInv /\ BreakInv /\ ReplyInv /\ MainWork => ReplyInv'
<1> SUFFICES ASSUME StateOK, LinkInv, BreakInv, ReplyInv, MainWork PROVE ReplyInv'
  OBVIOUS
<1> USE DEF mainVars, secVars, replyVars
<1> USE EventTypes, EventsDiffer
<1>t. QueuesOK /\ \A p \in Reply : Owner[p] \in Sec
  BY OwnerAssumption DEF StateOK
<1>f. mainPending \subseteq onWire /\ mainPending \subseteq Reply
  BY DEF ReplyInv, OnePlace, StateOK, MainOK
<1>1. CASE MainPoll
  BY <1>1, <1>f, ReplyFrame DEF MainPoll, SameRequests, SameAnswers, ReplyInv, ConnectedToMain
<1>2. ASSUME NEW s \in Sec, MainTakesConnect(s) PROVE ReplyInv'
  <2>1. SameRequests
    BY <1>t, <1>2, TakenMain DEF MainTakesConnect, SameRequests
  <2>2. SameAnswers
    <3> DEFINE e == UniqueName(mainNamed)
    <3>1. /\ UNCHANGED queue \/ Tell(s, e)
          /\ e \in SecEvents /\ \A p \in Reply : Success(p) # e /\ Failure(p) # e
      BY <1>2, EventTypes
      DEF MainTakesConnect, Welcome, UniqueName, Success, Failure, StateOK, MainOK
    <3> HIDE DEF e
    <3> QED
      BY <1>t, <3>1, ToldOne DEF SameAnswers
  <2> QED
    BY <1>2, <1>f, <2>1, <2>2, ReplyFrame DEF MainTakesConnect, ReplyInv, ConnectedToMain
<1>3. ASSUME NEW s \in Sec, MainTakesDisconnect(s) PROVE ReplyInv'
  <2>1. SameRequests
    BY <1>t, <1>3, TakenMain DEF MainTakesDisconnect, SameRequests
  <2>2. link[s] = "Broken"
    <3>1. InQueue(Disconnect(s), mainQueue)
      BY <1>t, <1>3, TakenMain DEF MainTakesDisconnect
    <3> QED
      BY <3>1 DEF InQueue, LinkInv, DisconnectIsTrue
  <2> QED
    BY <1>3, <1>f, <2>1, <2>2, ReplyFrame
    DEF MainTakesDisconnect, SecQueuesSame, Mine, SameAnswers, ReplyInv, ConnectedToMain
<1>4. ASSUME NEW s \in Sec, MainCloseLink(s) PROVE ReplyInv'
  <2>1. SameAnswers
    BY <1>t, <1>4, ToldOne DEF MainCloseLink, TellLoss, SameAnswers
  <2>2. link'[s] = "Broken" /\ \A r \in Sec : r # s => link'[r] = link[r]
    BY <1>4 DEF MainCloseLink, StateOK, MainOK
  <2> QED
    BY <1>4, <1>f, <2>1, <2>2, ReplyFrame DEF MainCloseLink, SameRequests, ReplyInv, ConnectedToMain
<1>5. ASSUME NEW p \in Reply, MainTakesSend(p) PROVE ReplyInv'
  <2> USE DEF ReplyInv, MainTakesSend, SecQueuesSame, Sent, Answered, Recorded
  <2>1. /\ Sent(p) /\ ~Sent(p)'
        /\ \A q \in Reply : /\ Once(SendWith(q), mainQueue')
                            /\ q # p => (Sent(q)' <=> Sent(q))
                            /\ InQueue(Cancel(q), mainQueue') <=> InQueue(Cancel(q), mainQueue)
                            /\ Followed(SendWith(q), Cancel(q), mainQueue)
                               => Followed(SendWith(q), Cancel(q), mainQueue')
        /\ Followed(SendWith(p), Cancel(p), mainQueue) => InQueue(Cancel(p), mainQueue')
    BY <1>t, <1>5, TakenMain DEF OnePlace
  <2>2. OnePlace'
    BY <1>5, <2>1 DEF OnePlace
  <2>3. /\ SendingIsUnsent' /\ UnsentIsClean' /\ RecordsWait' /\ KnownAreNumbered'
        /\ CancelFollows' /\ CancelIsTrue' /\ ConnectedToMain'
    BY <1>5, <2>1 DEF SendingIsUnsent, UnsentIsClean, RecordsWait, KnownAreNumbered,
       CancelFollows, CancelIsTrue, ConnectedToMain
  <2>4. FreeIsKnown' /\ RecordsAreNeeded'
    BY <1>5, <1>f, <2>1 DEF FreeIsKnown, RecordsAreNeeded, CancelFollows
  <2> QED
    BY <2>2, <2>3, <2>4
<1>6. ASSUME NEW p \in Reply, MainTakesCancel(p) PROVE ReplyInv'
  <2> USE DEF ReplyInv, MainTakesCancel, SecQueuesSame, Sent, Answered, Recorded
  <2>1. /\ InQueue(Cancel(p), mainQueue)
        /\ \A q \in Reply : /\ Once(SendWith(q), mainQueue')
                            /\ Sent(q)' <=> Sent(q)
                            /\ InQueue(Cancel(q), mainQueue') => InQueue(Cancel(q), mainQueue)
                            /\ q # p => (InQueue(Cancel(q), mainQueue')
                                            <=> InQueue(Cancel(q), mainQueue))
                            /\ Followed(SendWith(q), Cancel(q), mainQueue)
                               => Followed(SendWith(q), Cancel(q), mainQueue')
    BY <1>t, <1>6, TakenMain DEF OnePlace
  <2>2. OnePlace'
    BY <1>6, <2>1 DEF OnePlace
  <2>3. /\ SendingIsUnsent' /\ UnsentIsClean' /\ RecordsWait' /\ KnownAreNumbered'
        /\ CancelFollows' /\ CancelIsTrue' /\ ConnectedToMain'
    BY <1>6, <2>1 DEF SendingIsUnsent, UnsentIsClean, RecordsWait, KnownAreNumbered,
       CancelFollows, CancelIsTrue, ConnectedToMain
  <2>4. FreeIsKnown' /\ RecordsAreNeeded'
    BY <1>6, <1>f, <2>1 DEF FreeIsKnown, RecordsAreNeeded, CancelIsTrue
  <2> QED
    BY <2>2, <2>3, <2>4
<1>7. CASE MainCloseEnd
  BY <1>7, ReplyFrame DEF MainCloseEnd, queueVars, SameRequests, SameAnswers, ReplyInv,
     ConnectedToMain
<1> QED
  BY <1>1, <1>2, <1>3, <1>4, <1>5, <1>6, <1>7 DEF MainWork

\* What reaches the main connection from outside keeps it too.
LEMMA ReplyMainInput == StateOK /\ LinkInv /\ BreakInv /\ ReplyInv /\ MainInput => ReplyInv'
<1> SUFFICES ASSUME StateOK, LinkInv, BreakInv, ReplyInv, MainInput PROVE ReplyInv'
  OBVIOUS
<1> USE DEF mainVars, secVars, replyVars, queueVars
<1> USE EventTypes, EventsDiffer
<1>t. QueuesOK /\ \A p \in Reply : Owner[p] \in Sec
  BY OwnerAssumption DEF StateOK
<1>f. mainPending \subseteq onWire /\ mainPending \subseteq Reply
  BY DEF ReplyInv, OnePlace, StateOK, MainOK
<1>1. CASE MainGetsName
  <2> DEFINE T == {s \in Sec : s \in links /\ LockHeld(s)}  e == UniqueName(TRUE)
  <2>1. /\ queue' = [s \in Sec |-> IF s \in T THEN Append(queue[s], e) ELSE queue[s]]
        /\ e \in SecEvents /\ \A p \in Reply : Success(p) # e /\ Failure(p) # e
    BY <1>1, EventTypes DEF MainGetsName, UniqueName, Success, Failure
  <2> HIDE DEF T, e
  <2>2. SameAnswers
    BY <1>t, <2>1, ToldSec DEF SameAnswers
  <2> QED
    BY <1>1, <1>f, <2>2, ReplyFrame DEF MainGetsName, SameRequests, ReplyInv, ConnectedToMain
<1>2. ASSUME Broadcast, UNCHANGED mainPhase, onWire' \subseteq onWire, mainPending \subseteq onWire'
      PROVE  ReplyInv'
  <2> DEFINE T == links \ DeadLinks  e == Message(~MainHasClient)
  <2>1. /\ queue' = [s \in Sec |-> IF s \in T THEN Append(queue[s], e) ELSE queue[s]]
        /\ e \in SecEvents /\ \A p \in Reply : Success(p) # e /\ Failure(p) # e
    BY <1>2, EventTypes, ClientAssumption DEF Broadcast, Message, Success, Failure
  <2>2. mainPending' \subseteq mainPending
        /\ \A p \in mainPending \ mainPending' : link[Owner[p]] # "Free"
    BY <1>2 DEF Broadcast, DeadLinks, LockFails
  <2> HIDE DEF T, e
  <2>3. SameAnswers
    BY <1>t, <2>1, ToldSec DEF SameAnswers
  <2> QED
    BY <1>2, <2>2, <2>3, ReplyFrame DEF Broadcast, SameRequests, ReplyInv, ConnectedToMain
<1>3. CASE MainReceivesSpontaneous
  BY <1>2, <1>3, <1>f DEF MainReceivesSpontaneous, Broadcast, MainIdle
<1>4. ASSUME NEW p \in Reply, MainReceivesLateReply(p) PROVE ReplyInv'
  BY <1>2, <1>4, <1>f DEF MainReceivesLateReply, Broadcast, MainIdle
<1>5. ASSUME NEW p \in Reply, MainForwardsReply(p) \/ MainForwardsFailure(p)
      PROVE  ReplyInv'
  <2> USE DEF ReplyInv, Sent, Answered, Recorded
  <2>1. PICK e \in {Success(p), Failure(p)} : MainForwards(p, e)
    BY <1>5 DEF MainForwardsReply, MainForwardsFailure
  <2> USE <2>1 DEF MainForwards
  <2>2. /\ \A q \in Reply, s \in Sec :
              /\ InQueue(Success(q), queue[s]) => InQueue(Success(q), queue'[s])
              /\ InQueue(Failure(q), queue[s]) => InQueue(Failure(q), queue'[s])
              /\ q # p /\ InQueue(Success(q), queue'[s]) => InQueue(Success(q), queue[s])
              /\ q # p /\ InQueue(Failure(q), queue'[s]) => InQueue(Failure(q), queue[s])
        /\ phase[Owner[p]] # "destroyed" => \/ InQueue(Success(p), queue'[Owner[p]])
                                            \/ InQueue(Failure(p), queue'[Owner[p]])
    BY <1>t, ToldOne DEF TellOwner
  <2>3. p \in onWire /\ p \in mainPending /\ ~Sent(p) /\ status[p] # "unsent"
    BY DEF OnePlace
  <2>4. OnePlace'
    BY <2>2, <2>3 DEF OnePlace
  <2>5. /\ SendingIsUnsent' /\ UnsentIsClean' /\ RecordsWait' /\ KnownAreNumbered'
        /\ CancelFollows' /\ CancelIsTrue' /\ ConnectedToMain'
    BY DEF SendingIsUnsent, UnsentIsClean, RecordsWait, KnownAreNumbered,
       CancelFollows, CancelIsTrue, ConnectedToMain
  <2>6. FreeIsKnown'
    BY <1>t, <2>2 DEF FreeIsKnown
  <2>7. RecordsAreNeeded'
    BY DEF RecordsAreNeeded
  <2> QED
    BY <2>4, <2>5, <2>6, <2>7
<1>6. ASSUME NEW p \in Reply, MainDropsFailure(p) PROVE ReplyInv'
  BY <1>6, <1>f, ReplyFrame
  DEF MainDropsFailure, SameRequests, SameAnswers, ReplyInv, ConnectedToMain
<1>7. ASSUME NEW s \in Sec, CreateCommRef(s) PROVE ReplyInv'
  <2>1. /\ phase[s] = "none" /\ link[s] = "none"
        /\ \A r \in Sec : r # s => link'[r] = link[r]
    BY <1>7 DEF CreateCommRef, LinkInv, NoRefNoSecondary, StateOK, MainOK
  <2> QED
    BY <1>7, <1>f, <2>1, ReplyFrame
    DEF CreateCommRef, SameRequests, SameAnswers, ReplyInv, ConnectedToMain
<1>8. CASE MainClose
  BY <1>8, <1>f, ReplyFrame
  DEF MainClose, SameRequests, SameAnswers, ReplyInv, ConnectedToMain
<1>9. CASE MainDestroy
  <2>1. \A s \in Sec : link'[s] \in {link[s], "Broken"}
    BY <1>9 DEF MainDestroy, RefsUnlinked
  <2> QED
    BY <1>9, <1>f, <2>1, ReplyFrame
    DEF MainDestroy, SameRequests, SameAnswers, ReplyInv, ConnectedToMain
<1> QED
  BY <1>1, <1>3, <1>4, <1>5, <1>6, <1>7, <1>8, <1>9 DEF MainInput

\* What is not in a queue may be said to be followed by anything.
LEMMA NotThere == \A e, f, q : ~InQueue(e, q) => Followed(e, f, q)
BY DEF InQueue, Followed

\* An answer is taken out of the queue of s, and the reply p ends if it is recorded.
LEMMA ReplyAnswered ==
  ASSUME StateOK, ReplyInv, NEW s \in Sec, NEW p \in Reply,
         NEW e \in {Success(p), Failure(p)}, Takes(s, e),
         pending' = [pending EXCEPT ![s] = @ \ {p}],
         \A q \in Reply : status'[q] = IF q = p /\ p \in pending[s] THEN "finished"
                                                                    ELSE status[q],
         \A q \in Reply : (q # p \/ p \notin pending[s]) => error'[q] = error[q],
         UNCHANGED <<mainVars, link, phase, state, hasMain, named, sending, numbered>>
  PROVE  ReplyInv'
<1> USE DEF ReplyInv, Sent, Answered, Recorded, mainVars
<1> USE EventTypes, EventsDiffer
<1>t. QueuesOK /\ \A q \in Reply : Owner[q] \in Sec
  BY OwnerAssumption DEF StateOK
<1>1. /\ \A q \in Reply, r \in Sec :
            /\ InQueue(Success(q), queue'[r]) => InQueue(Success(q), queue[r])
            /\ InQueue(Failure(q), queue'[r]) => InQueue(Failure(q), queue[r])
            /\ q # p \/ r # s => /\ InQueue(Success(q), queue[r]) => InQueue(Success(q), queue'[r])
                                 /\ InQueue(Failure(q), queue[r]) => InQueue(Failure(q), queue'[r])
      /\ Answered(p)
  BY <1>t, TakenSec
<1>2. ~Sent(p) /\ p \notin mainPending /\ status[p] # "unsent"
  BY <1>1 DEF OnePlace
<1>3. mainQueue' = mainQueue
  BY DEF Takes, MainQueueSame
<1>4. \A r \in Sec : pending'[r] = IF r = s THEN pending[s] \ {p} ELSE pending[r]
  BY DEF StateOK, SecOK
<1>5. p \in pending[s] => Owner[p] = s
  BY DEF RecordsWait
<1>6. OnePlace'
  BY <1>1, <1>2, <1>3 DEF OnePlace
<1>7. SendingIsUnsent' /\ UnsentIsClean'
  BY <1>2, <1>5 DEF SendingIsUnsent, UnsentIsClean, StateOK, SecOK
<1>8. RecordsWait' /\ KnownAreNumbered' /\ CancelIsTrue' /\ ConnectedToMain'
  BY <1>3, <1>4 DEF RecordsWait, KnownAreNumbered, CancelIsTrue, ConnectedToMain, StateOK, SecOK
<1>9. CancelFollows'
  BY <1>t, <1>2, <1>3, <1>4, NotThere DEF CancelFollows
<1>10. FreeIsKnown'
  BY <1>t, <1>1, <1>2, <1>3, <1>4 DEF FreeIsKnown
<1>11. RecordsAreNeeded'
  BY <1>t, <1>2, <1>3, <1>4 DEF RecordsAreNeeded, StateOK, MainOK
<1> QED
  BY <1>6, <1>7, <1>8, <1>9, <1>10, <1>11

\* A link that is not free any more: the replies of its secondary may end.
LEMMA ReplyCut ==
  ASSUME StateOK, ReplyInv, NEW s \in Sec, link[s] # "none", link'[s] = "Broken",
         \A r \in Sec : r # s => link'[r] = link[r],
         SameRequests, SameAnswers, ConnectedToMain',
         phase'[s] = "none" => phase[s] = "none",
         \A r \in Sec : r # s => phase'[r] = phase[r],
         UNCHANGED <<mainPhase, mainPending, onWire, sending, numbered>>,
         \A r \in Sec : r # s => pending'[r] = pending[r],
         pending'[s] \subseteq pending[s],
         \A p \in Reply : \/ status'[p] = status[p] /\ error'[p] = error[p]
                          \/ /\ Owner[p] = s /\ status[p] # "unsent" /\ p \notin pending'[s]
                             /\ status'[p] \in {"finished", "destroyed"}
  PROVE  ReplyInv'
<1> USE DEF ReplyInv, Sent, Answered, Recorded
<1>t. \A q \in Reply : Owner[q] \in Sec
  BY OwnerAssumption
<1>1. OnePlace'
  BY DEF OnePlace, SameRequests, SameAnswers
<1>2. SendingIsUnsent' /\ UnsentIsClean'
  BY <1>t DEF SendingIsUnsent, UnsentIsClean, StateOK, SecOK
<1>3. RecordsWait'
  BY DEF RecordsWait, StateOK, SecOK
<1>4. KnownAreNumbered' /\ CancelIsTrue'
  BY DEF KnownAreNumbered, CancelIsTrue, SameRequests
<1>5. CancelFollows' /\ FreeIsKnown' /\ RecordsAreNeeded'
  BY <1>t DEF CancelFollows, FreeIsKnown, RecordsAreNeeded, SameRequests, SameAnswers,
     StateOK, MainOK
<1> QED
  BY <1>1, <1>2, <1>3, <1>4, <1>5

\* A reply is unregistered because of its timeout or because it is destroyed.
LEMMA ReplyUnregistered ==
  ASSUME StateOK, LinkInv, BreakInv, ReplyInv, NEW s \in Sec, NEW p \in Reply,
         Owner[p] = s, status[p] = "waiting", Between(s), Unregister(s, p),
         status'[p] \in {"finished", "destroyed"},
         \A q \in Reply : q # p => status'[q] = status[q] /\ error'[q] = error[q]
  PROVE  ReplyInv'
<1> USE DEF Unregister, SecQueuesSame, mainVars
<1> USE EventTypes, EventsDiffer
<1>t. QueuesOK /\ \A q \in Reply : Owner[q] \in Sec
  BY OwnerAssumption DEF StateOK
<1>p. /\ pending'[s] = pending[s] \ SameKey(s, p)
      /\ \A r \in Sec : r # s => pending'[r] = pending[r]
  BY DEF StateOK, SecOK
<1>c. ConnectedToMain'
  BY DEF ReplyInv, ConnectedToMain
<1>1. CASE LockHeld(s)
  <2>1. phase[s] = "open" /\ hasMain[s] /\ link[s] = "Free"
    BY <1>1 DEF LockHeld, Between, BreakInv, BelievesWhileFree
  <2>2. p \in pending[s] /\ numbered[p]
    BY <2>1 DEF ReplyInv, FreeIsKnown
  <2>3. pending'[s] = pending[s] \ {p}
    BY <1>p, <2>2 DEF SameKey
  <2> USE DEF ReplyInv, Sent, Answered, Recorded
  <2>4. \A q \in Reply :
           /\ Once(SendWith(q), mainQueue')
           /\ Sent(q)' <=> Sent(q)
           /\ InQueue(Cancel(q), mainQueue') <=> q = p \/ InQueue(Cancel(q), mainQueue)
           /\ q = p \/ Followed(SendWith(q), Cancel(q), mainQueue)
              => Followed(SendWith(q), Cancel(q), mainQueue')
    BY <1>t, <1>1, <2>1, ToldMain DEF CancelInMain, TellMain, OnePlace
  <2>5. OnePlace'
    BY <2>4 DEF OnePlace
  <2>6. SendingIsUnsent' /\ UnsentIsClean' /\ RecordsWait' /\ KnownAreNumbered'
    BY <1>p, <2>3, <2>4 DEF SendingIsUnsent, UnsentIsClean, RecordsWait, KnownAreNumbered,
       StateOK, SecOK
  <2>7. CancelFollows' /\ CancelIsTrue'
    BY <1>t, <1>p, <2>3, <2>4 DEF CancelFollows, CancelIsTrue
  <2>8. FreeIsKnown' /\ RecordsAreNeeded'
    BY <1>t, <1>p, <2>3, <2>4 DEF FreeIsKnown, RecordsAreNeeded, StateOK, MainOK
  <2> QED
    BY <1>c, <2>5, <2>6, <2>7, <2>8
<1>2. CASE ~LockHeld(s)
  <2>1. link[s] = "Broken" /\ phase[s] # "none"
    BY <1>2 DEF LockHeld, Between, LinkInv, NoRefNoSecondary, StateOK, MainOK
  <2>2. p \notin pending'[s]
    BY <1>p DEF SameKey
  <2>3. SameRequests /\ SameAnswers
    BY <1>2 DEF CancelInMain, MainQueueSame, SameRequests, SameAnswers
  <2> QED
    BY <1>c, <1>p, <2>1, <2>2, <2>3, ReplyCut
<1> QED
  BY <1>1, <1>2

\* send() has made the reply p: if the link is free, its message is on its way.
LEMMA ReplyRegistered ==
  ASSUME StateOK, ReplyInv, NEW s \in Sec, NEW p \in Reply, NEW t, Register(s, p, t),
         \A q \in Reply : q # p => error'[q] = error[q],
         UNCHANGED queue,
         \/ link[s] # "Free" /\ UNCHANGED mainQueue
         \/ mainQueue' = Append(mainQueue, SendWith(p)) /\ numbered[p]
  PROVE  ReplyInv'
<1> USE DEF Register, mainVars
<1> USE EventTypes, EventsDiffer
<1>t. QueuesOK /\ \A q \in Reply : Owner[q] \in Sec
  BY OwnerAssumption DEF StateOK
<1>c. ConnectedToMain'
  BY DEF ReplyInv, ConnectedToMain
<1> USE DEF ReplyInv, Sent, Answered, Recorded
<1>1. /\ Owner[p] = s /\ status[p] = "unsent" /\ phase[s] # "none"
      /\ ~Sent(p) /\ ~Answered(p) /\ p \notin onWire /\ p \notin mainPending
      /\ \A r \in Sec : p \notin pending[r]
  BY DEF SendingIsUnsent, OnePlace, RecordsWait
<1>2. /\ status'[p] = "waiting" /\ \A q \in Reply : q # p => status'[q] = status[q]
      /\ sending'[s] = {} /\ \A r \in Sec : r # s => sending'[r] = sending[r]
      /\ pending'[s] \in {pending[s], pending[s] \cup {p}}
      /\ \A r \in Sec : r # s => pending'[r] = pending[r]
  BY DEF StateOK, SecOK, ReplyOK
<1>3. numbered[p] => pending'[s] = pending[s] \cup {p}
  BY <1>1 DEF SameKey, StateOK, SecOK
<1>4. \A q \in Reply :
         /\ Once(SendWith(q), mainQueue')
         /\ Sent(q) => Sent(q)'
         /\ Sent(q)' => Sent(q) \/ (q = p /\ numbered[p])
         /\ numbered[p] /\ link[s] = "Free" => Sent(p)'
         /\ InQueue(Cancel(q), mainQueue') <=> InQueue(Cancel(q), mainQueue)
         /\ q # p /\ Followed(SendWith(q), Cancel(q), mainQueue)
            => Followed(SendWith(q), Cancel(q), mainQueue')
  BY <1>t, <1>1, ToldMain DEF OnePlace
<1>5. link[s] = "Free" => numbered[p]
  OBVIOUS
<1>6. OnePlace'
  BY <1>1, <1>2, <1>4 DEF OnePlace
<1>7. SendingIsUnsent' /\ UnsentIsClean'
  BY <1>t, <1>1, <1>2 DEF SendingIsUnsent, UnsentIsClean, StateOK, SecOK
<1>8. RecordsWait' /\ KnownAreNumbered'
  BY <1>1, <1>2, <1>4 DEF RecordsWait, KnownAreNumbered, StateOK, SecOK
<1>9. CancelFollows'
  BY <1>t, <1>1, <1>2, <1>3, <1>4, <1>5 DEF CancelFollows
<1>10. CancelIsTrue'
  BY <1>1, <1>2, <1>4 DEF CancelIsTrue
<1>11. FreeIsKnown'
  BY <1>t, <1>1, <1>2, <1>3, <1>4, <1>5 DEF FreeIsKnown
<1>12. RecordsAreNeeded'
  BY <1>t, <1>1, <1>2, <1>4 DEF RecordsAreNeeded, StateOK, MainOK
<1> QED
  BY <1>c, <1>6, <1>7, <1>8, <1>9, <1>10, <1>11, <1>12

\* The steps of the thread of a secondary keep the invariant.
LEMMA ReplySecWork ==
  ASSUME StateOK, LinkInv, BreakInv, ReplyInv, NEW s \in Sec, SecWork(s)
  PROVE  ReplyInv'
<1> USE DEF mainVars, secVars, replyVars, queueVars
<1> USE EventTypes, EventsDiffer
<1>t. QueuesOK /\ \A q \in Reply : Owner[q] \in Sec
  BY OwnerAssumption DEF StateOK
<1>f. mainPending \subseteq onWire /\ mainPending \subseteq Reply
  BY DEF ReplyInv, OnePlace, StateOK, MainOK
<1>1. CASE Poll(s)
  BY <1>1, <1>f, ReplyFrame DEF Poll, SameRequests, SameAnswers, ReplyInv, ConnectedToMain
<1>2. ASSUME NEW n \in BOOLEAN, TakesUniqueName(s, n) \/ TakesMessage(s, n)
      PROVE  ReplyInv'
  <2> DEFINE e == UniqueName(n)  f == Message(n)
  <2>1. /\ Takes(s, e) \/ Takes(s, f)
        /\ \A p \in Reply : /\ Success(p) # e /\ Failure(p) # e
                            /\ Success(p) # f /\ Failure(p) # f
    BY <1>2 DEF TakesUniqueName, TakesMessage, UniqueName, Message, Success, Failure
  <2> HIDE DEF e, f
  <2>2. SameAnswers
    BY <1>t, <2>1, TakenSec DEF SameAnswers
  <2>3. SameRequests
    BY <2>1 DEF Takes, MainQueueSame, SameRequests
  <2>4. ConnectedToMain'
    BY <1>2 DEF TakesUniqueName, TakesMessage, ReplyInv, ConnectedToMain, StateOK, SecOK
  <2> QED
    BY <1>2, <1>f, <2>2, <2>3, <2>4, ReplyFrame DEF TakesUniqueName, TakesMessage
<1>3. ASSUME NEW p \in Reply, TakesSuccess(s, p) PROVE ReplyInv'
  <2>1. pending' = [pending EXCEPT ![s] = @ \ {p}]
    BY <1>3 DEF TakesSuccess, StateOK, SecOK
  <2>2. \A q \in Reply : status'[q] = IF q = p /\ p \in pending[s] THEN "finished"
                                                                    ELSE status[q]
    BY <1>3 DEF TakesSuccess, StateOK, ReplyOK
  <2> QED
    BY <1>3, <2>1, <2>2, ReplyAnswered DEF TakesSuccess
<1>4. ASSUME NEW p \in Reply, TakesFailure(s, p) PROVE ReplyInv'
  <2>1. pending' = [pending EXCEPT ![s] = @ \ {p}]
    BY <1>4 DEF TakesFailure, StateOK, SecOK
  <2>2. \A q \in Reply : /\ status'[q] = IF q = p /\ p \in pending[s] THEN "finished"
                                                                       ELSE status[q]
                         /\ q # p \/ p \notin pending[s] => error'[q] = error[q]
    BY <1>4 DEF TakesFailure, FailAll
  <2> QED
    BY <1>4, <2>1, <2>2, ReplyAnswered DEF TakesFailure
<1>5. CASE TakesMainGone(s)
  <2>1. /\ SameAnswers /\ InQueue(MainGone, queue[s])
    BY <1>t, <1>5, TakenSec DEF TakesMainGone, SameAnswers
  <2>2. SameRequests /\ ConnectedToMain'
    BY <1>5 DEF TakesMainGone, Takes, MainQueueSame, SameRequests, ReplyInv, ConnectedToMain,
       StateOK, SecOK
  <2>3. link[s] = "Broken"
    BY <2>1 DEF BreakInv, GoneIsTrue
  <2>4. pending'[s] = {} /\ \A r \in Sec : r # s => pending'[r] = pending[r]
    BY <1>5 DEF TakesMainGone, StateOK, SecOK
  <2>5. \A p \in Reply : \/ status'[p] = status[p] /\ error'[p] = error[p]
                         \/ /\ Owner[p] = s /\ status[p] # "unsent"
                            /\ status'[p] \in {"finished", "destroyed"}
    BY <1>5 DEF TakesMainGone, Cancelled, FailAll, ReplyInv, RecordsWait
  <2> QED
    BY <1>5, <2>1, <2>2, <2>3, <2>4, <2>5, ReplyCut DEF TakesMainGone
<1>6. ASSUME NEW p \in Reply, p \in sending[s], ~hasMain[s] \/ state[s] = "Unconnected"
      PROVE  link[s] # "Free"
  <2>1. phase[s] # "none"
    BY <1>6 DEF ReplyInv, SendingIsUnsent
  <2> QED
    BY <1>6, <2>1 DEF ReplyInv, ConnectedToMain, BreakInv, BelievesWhileFree, LinkInv,
       LinksReachLiving, StateOK, SecOK
<1>7. ASSUME NEW p \in Reply, SendRefused(s, p) PROVE ReplyInv'
  <2>1. link[s] # "Free"
    BY <1>6, <1>7 DEF SendRefused, Register, ReplyInv, SendingIsUnsent
  <2>2. \A q \in Reply : q # p => error'[q] = error[q]
    BY <1>7 DEF SendRefused, StateOK, ReplyOK
  <2> QED
    BY <1>7, <2>1, <2>2, ReplyRegistered DEF SendRefused
<1>8. ASSUME NEW p \in Reply, SendLocally(s, p) PROVE ReplyInv'
  <2>1. link[s] # "Free"
    BY <1>6, <1>8 DEF SendLocally, Register
  <2> QED
    BY <1>8, <2>1, ReplyRegistered DEF SendLocally
<1>9. ASSUME NEW p \in Reply, SendFindsBroken(s, p) PROVE ReplyInv'
  <2>1. link[s] # "Free"
    BY <1>9 DEF SendFindsBroken, LockFails
  <2>2. \A q \in Reply : q # p => error'[q] = error[q]
    BY <1>9 DEF SendFindsBroken, StateOK, ReplyOK
  <2> QED
    BY <1>9, <2>1, <2>2, ReplyRegistered DEF SendFindsBroken
<1>10. ASSUME NEW p \in Reply, SendHandsOver(s, p) PROVE ReplyInv'
  <2>1. numbered[p]
    BY <1>10 DEF SendHandsOver, Register, ReplyInv, SendingIsUnsent
  <2> QED
    BY <1>10, <2>1, ReplyRegistered DEF SendHandsOver, TellMain, SecQueuesSame
<1> QED
  BY <1>1, <1>2, <1>3, <1>4, <1>5, <1>7, <1>8, <1>9, <1>10 DEF SecWork

\* What the application does with a secondary, and its timers, keep it.
LEMMA ReplySecCalls ==
  ASSUME StateOK, LinkInv, BreakInv, ReplyInv, NEW s \in Sec,
         SecCalls(s) \/ \E p \in Reply : TimerFires(s, p)
  PROVE  ReplyInv'
<1> USE DEF mainVars, secVars, replyVars, queueVars
<1> USE EventTypes, EventsDiffer
<1>t. QueuesOK /\ \A q \in Reply : Owner[q] \in Sec
  BY OwnerAssumption DEF StateOK
<1>f. mainPending \subseteq onWire /\ mainPending \subseteq Reply
  BY DEF ReplyInv, OnePlace, StateOK, MainOK
<1>1. CASE Construct(s)
  <2>1. SameRequests /\ SameAnswers
    <3>1. CASE TellMain(Connect(s))
      BY <1>t, <1>1, <3>1, ToldMain
      DEF Construct, TellMain, SecQueuesSame, SameRequests, SameAnswers
    <3>2. CASE mainQueue' = mainQueue
      BY <1>1, <3>2 DEF Construct, SecQueuesSame, SameRequests, SameAnswers
    <3> QED
      BY <1>1, <3>1, <3>2 DEF Construct
  <2>2. ConnectedToMain'
    BY <1>1 DEF Construct, BreakInv, BelievesWhileFree, ReplyInv, ConnectedToMain, StateOK, SecOK
  <2>3. /\ phase[s] = "none" /\ phase'[s] = "open"
        /\ \A r \in Sec : r # s => phase'[r] = phase[r]
    BY <1>1 DEF Construct, StateOK, SecOK
  <2> QED
    BY <1>1, <1>f, <2>1, <2>2, <2>3, ReplyFrame DEF Construct
<1>2. ASSUME DropCommRef(s) \/ Destroy(s) PROVE ReplyInv'
  <2>1. /\ phase[s] \in {"none", "closed"} /\ phase'[s] = "destroyed" /\ link'[s] = "Broken"
        /\ \A r \in Sec : r # s => phase'[r] = phase[r] /\ link'[r] = link[r]
    BY <1>2 DEF DropCommRef, Destroy, StateOK, SecOK, MainOK
  <2>2. ConnectedToMain'
    BY <1>2, <2>1 DEF DropCommRef, Destroy, ReplyInv, ConnectedToMain
  <2> QED
    BY <1>2, <1>f, <2>1, <2>2, ReplyFrame DEF DropCommRef, Destroy, SameRequests, SameAnswers
<1>3. CASE Close(s)
  <2>1. /\ phase[s] = "open" /\ phase'[s] = "closed"
        /\ \A r \in Sec : r # s => phase'[r] = phase[r] /\ state'[r] = state[r]
        /\ pending'[s] = {} /\ \A r \in Sec : r # s => pending'[r] = pending[r]
    BY <1>3 DEF Close, Idle, StateOK, SecOK
  <2>2. SameRequests /\ SameAnswers
    <3>1. CASE TellMain(Disconnect(s))
      BY <1>t, <1>3, <3>1, ToldMain
      DEF Close, TellMain, SecQueuesSame, SameRequests, SameAnswers
    <3>2. CASE MainQueueSame
      BY <1>3, <3>2 DEF Close, MainQueueSame, SecQueuesSame, SameRequests, SameAnswers
    <3> QED
      BY <1>3, <3>1, <3>2 DEF Close
  <2>3. /\ link[s] # "none" /\ link'[s] = "Broken"
        /\ \A r \in Sec : r # s => link'[r] = link[r]
    BY <1>3, <2>1 DEF Close, LockHeld, BreakInv, BelievesWhileFree, LinkInv, NoRefNoSecondary,
       StateOK, MainOK
  <2>4. ConnectedToMain'
    BY <1>3, <2>1 DEF Close, ReplyInv, ConnectedToMain
  <2>5. \A p \in Reply : \/ status'[p] = status[p] /\ error'[p] = error[p]
                         \/ /\ Owner[p] = s /\ status[p] # "unsent"
                            /\ status'[p] \in {"finished", "destroyed"}
    BY <1>3 DEF Close, FailAll, ReplyInv, RecordsWait
  <2> QED
    BY <1>3, <2>1, <2>2, <2>3, <2>4, <2>5, ReplyCut DEF Close
<1>4. ASSUME NEW p \in Reply, SendPrepare(s, p) PROVE ReplyInv'
  <2> USE DEF ReplyInv, Sent, Answered, Recorded, SendPrepare
  <2>1. /\ sending[s] = {} /\ phase[s] = "open" /\ Owner[p] = s /\ status[p] = "unsent"
        /\ error[p] = "NoError"
    BY <1>4 DEF Idle, Between, UnsentIsClean
  <2>2. /\ sending'[s] = {p} /\ \A r \in Sec : r # s => sending'[r] = sending[r]
        /\ \A q \in Reply : q # p => error'[q] = error[q] /\ numbered'[q] = numbered[q]
        /\ \/ numbered'[p] /\ error'[p] = "NoError"
           \/ /\ hasMain[s] /\ link[s] # "Free" /\ numbered'[p] = numbered[p]
              /\ error'[p] = "LocalDisconnect"
    BY <1>4, <2>1 DEF LockFails, StateOK, SecOK, ReplyOK
  <2>3. link[s] # "none"
    BY <2>1 DEF LinkInv, NoRefNoSecondary
  <2>4. SendingIsUnsent'
    BY <1>4, <2>1, <2>2, <2>3 DEF SendingIsUnsent, StateOK, SecOK, MainOK
  <2>5. UnsentIsClean'
    BY <1>t, <1>4, <2>1, <2>2 DEF UnsentIsClean, StateOK, SecOK
  <2>6. /\ OnePlace' /\ RecordsWait' /\ CancelFollows' /\ CancelIsTrue' /\ ConnectedToMain'
        /\ RecordsAreNeeded'
    BY <1>4 DEF OnePlace, RecordsWait, CancelFollows, CancelIsTrue, ConnectedToMain,
       RecordsAreNeeded
  <2>7. KnownAreNumbered' /\ FreeIsKnown'
    BY <1>4, <2>1, <2>2 DEF KnownAreNumbered, FreeIsKnown
  <2> QED
    BY <2>4, <2>5, <2>6, <2>7
<1>5. ASSUME NEW p \in Reply, DropWaiting(s, p) \/ TimerFires(s, p) PROVE ReplyInv'
  <2>1. /\ Owner[p] = s /\ status[p] = "waiting" /\ Between(s) /\ Unregister(s, p)
        /\ status'[p] \in {"finished", "destroyed"}
        /\ \A q \in Reply : q # p => status'[q] = status[q] /\ error'[q] = error[q]
    BY <1>5 DEF DropWaiting, TimerFires, TimedOutFrom, FailAll, StateOK, ReplyOK
  <2> QED
    BY <2>1, ReplyUnregistered
<1> QED
  BY <1>1, <1>2, <1>3, <1>4, <1>5 DEF SecCalls

\* Every step keeps it.
LEMMA ReplyStep == StateOK /\ LinkInv /\ BreakInv /\ ReplyInv /\ [Step]_seen => ReplyInv'
<1> SUFFICES ASSUME StateOK, LinkInv, BreakInv, ReplyInv, [Step]_seen PROVE ReplyInv'
  OBVIOUS
<1>1. CASE UNCHANGED seen
  <2>1. mainPending \subseteq onWire /\ ConnectedToMain'
    BY <1>1 DEF ReplyInv, OnePlace, ConnectedToMain, seen, secVars, StateOK, MainOK
  <2> QED
    BY <1>1, <2>1, ReplyFrame
    DEF seen, mainVars, secVars, replyVars, queueVars, SameRequests, SameAnswers
<1> QED
  BY <1>1, ReplyMainWork, ReplyMainInput, ReplySecWork, ReplySecCalls DEF Step

\* The strengthened invariant holds in every state.
LEMMA RepliesKept == Spec => []ReplyInv
<1>1. Init => ReplyInv
  <2> SUFFICES ASSUME Init PROVE ReplyInv
    OBVIOUS
  <2>1. \A e, f : ~InQueue(e, <<>>) /\ Once(e, <<>>) /\ Followed(e, f, <<>>)
    BY DEF InQueue, Once, Followed
  <2>2. \A p \in Reply : Owner[p] \in Sec
    BY OwnerAssumption
  <2> QED
    BY <2>1, <2>2 DEF Init, ReplyInv, OnePlace, SendingIsUnsent, UnsentIsClean, RecordsWait,
       KnownAreNumbered, CancelFollows, CancelIsTrue, ConnectedToMain, FreeIsKnown,
       RecordsAreNeeded, Sent, Answered, Recorded
<1> QED
  BY <1>1, ReplyStep, StateKept, StepsOnly, LinksKept, BreaksKept, PTL DEF Spec

\* A record of the main connection for a linked secondary belongs to a reply that
\* waits there, or its cancellation is on its way.
THEOREM RecordsNeeded == Spec => []RecordsAreNeeded
<1>1. ReplyInv => RecordsAreNeeded
  BY DEF ReplyInv
<1> QED
  BY <1>1, RepliesKept, PTL

\* What a connection has a record of waits, so that nothing ends twice.
THEOREM OnlyWaitingRecorded == Spec => []RecordsWait
<1>1. ReplyInv => RecordsWait
  BY DEF ReplyInv
<1> QED
  BY <1>1, RepliesKept, PTL

\* A reply that waits on a secondary which has its main connection is never
\* forgotten by both: somebody has its message, its answer or the bad news.
THEOREM NothingForgotten == Spec => []WaitingIsNotForgotten
<1>1. StateOK /\ LinkInv /\ BreakInv /\ ReplyInv => WaitingIsNotForgotten
  <2> SUFFICES ASSUME StateOK, LinkInv, BreakInv, ReplyInv, NEW p \in Reply,
                      status[p] = "waiting", phase[Owner[p]] = "open", hasMain[Owner[p]],
                      mainPhase = "open" \/ (Redeemed(Owner[p]) /\ Owner[p] \notin links)
               PROVE  SomebodyKnows(p)
    BY DEF WaitingIsNotForgotten
  <2> DEFINE s == Owner[p]
  <2>1. s \in Sec /\ link[s] \in {"Free", "Broken"}
    BY OwnerAssumption DEF StateOK, MainOK, LinkInv, NoRefNoSecondary
  <2>2. CASE link[s] = "Free"
    <3>1. mainPhase = "open"
      BY <2>1, <2>2 DEF LinkInv, FreeIsHeld, Redeemed
    <3> QED
      BY <2>2, <3>1 DEF ReplyInv, FreeIsKnown, OnePlace, SomebodyKnows, Sent
  <2>3. CASE link[s] = "Broken"
    <3>1. Redeemed(s)
      BY <2>1, <2>3 DEF Redeemed, BreakInv, UnredeemedIsFree
    <3> QED
      BY <2>1, <2>3, <3>1 DEF BreakInv, BreakIsAnnounced, SomebodyKnows
  <2> QED
    BY <2>1, <2>2, <2>3
<1> QED
  BY <1>1, StateKept, LinksKept, BreaksKept, RepliesKept, PTL
=============================================================================
