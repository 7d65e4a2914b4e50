-------------------------- MODULE ConnectionLifeProof --------------------------
(***************************************************************************)
(* Proofs about ConnectionLife, for any set of PendingReplies and any      *)
(* bound on the serials.                                                   *)
(*                                                                         *)
(* Order on the wire comes from the serials, which grow along the wire and *)
(* then along the queue; the hello message takes the first serial before   *)
(* anything can be queued, and nothing is written before it (HelloInv).    *)
(* That records and replies match needs the serials of the records to be   *)
(* taken already, so that no record is replaced, and the loop of           *)
(* cancelAllPendingReplies to visit only records that exist (CancelOK).    *)
(***************************************************************************)
EXTENDS ConnectionLife, SequenceTheorems, TLAPS

-----------------------------------------------------------------------------
(* The inductive invariants.                                               *)

Party == Reply \cup {Hello}
Message == [serial : Nat, fds : BOOLEAN, sending : BOOLEAN]
ReplyRecord == [state : {"none", "waiting", "finished", "over", "gone"}, serial : Nat,
                failed : BOOLEAN, timer : BOOLEAN, heard : BOOLEAN]
CancelRecord == [on : BOOLEAN, at : Nat, rest : SUBSET Nat, inCallback : BOOLEAN,
                 then : {"return", "pop"}]

QueueType ==
  queue \in Seq(Message) /\ toPeer \in Seq(Nat) /\ nextSerial \in Nat /\ stalled \in BOOLEAN

RecordType ==
  /\ reply \in [Party -> ReplyRecord] /\ cancel \in CancelRecord /\ nextSerial \in Nat
  /\ \A s \in DOMAIN pending : s \in Nat /\ pending[s] \in Party

\* Serials grow along the wire and then along the queue, and the next one is larger.
Increasing(q) == \A i, j \in 1..Len(q) : i < j => q[i].serial < q[j].serial

WireInv ==
  /\ SentInOrder
  /\ Increasing(queue)
  /\ \A i \in 1..Len(toPeer), j \in 1..Len(queue) : toPeer[i] < queue[j].serial
  /\ \A j \in 1..Len(queue) : queue[j].serial < nextSerial
  /\ \A i \in 1..Len(toPeer) : toPeer[i] < nextSerial

\* Before the hello message nothing is sent, and its serial is free.
HelloInv ==
  state = "Authenticating" =>
    /\ toPeer = <<>> /\ nextSerial > HelloSerial
    /\ \A j \in 1..Len(queue) : queue[j].serial > HelloSerial /\ ~queue[j].sending

FrontInv ==
  /\ \A j \in 1..Len(queue) : queue[j].sending => j = 1
  /\ state = "Connected" /\ Len(queue) > 0 => queue[1].sending \/ stalled

QueueInv == QueueType /\ WireInv /\ HelloInv /\ FrontInv

\* A record and the PendingReply it is for.
RecordOK(s) == reply[pending[s]].serial = s /\ reply[pending[s]].state \in {"waiting", "over"}

Recording(r) ==
  /\ reply[r].state = "waiting" =>
        reply[r].serial \in DOMAIN pending /\ pending[reply[r].serial] = r
  /\ reply[r].timer => reply[r].state \in {"waiting", "finished"}

CancelOK(c, D) ==
  c.on => c.rest \subseteq D /\ c.at \notin c.rest /\ (c.at # 0 => c.at \in D)

RecordInv ==
  crash = "none" =>
    /\ \A s \in DOMAIN pending : RecordOK(s) /\ s # 0 /\ s < nextSerial
    /\ \A r \in Party : Recording(r)
    /\ reply[Hello] = NoReply \/ reply[Hello].serial = HelloSerial
    /\ CancelOK(cancel, DOMAIN pending)
    /\ nextSerial > 0
    /\ state = "Authenticating" => /\ nextSerial > HelloSerial
                                   /\ HelloSerial \notin DOMAIN pending

-----------------------------------------------------------------------------
(* Queues of messages.                                                     *)

LEMMA StartedQueue ==
  ASSUME NEW q \in Seq(Message)
  PROVE  /\ Started(q) \in Seq(Message) /\ Len(Started(q)) = Len(q)
         /\ \A i \in 1..Len(q) : /\ Started(q)[i].serial = q[i].serial
                                 /\ i = 1 => Started(q)[i].sending
                                 /\ i # 1 => Started(q)[i] = q[i]
<1> DEFINE t == Started(q)
<1>1. DOMAIN q = 1..Len(q) /\ Len(q) \in Nat /\ \A i \in 1..Len(q) : q[i] \in Message
  OBVIOUS
<1>2. \A i \in 1..Len(q) : /\ [q[i] EXCEPT !.sending = TRUE] \in Message
                           /\ [q[i] EXCEPT !.sending = TRUE].serial = q[i].serial
                           /\ [q[i] EXCEPT !.sending = TRUE].sending
  BY <1>1 DEF Message
<1>3. t = [i \in 1..Len(q) |-> IF i = 1 THEN [q[i] EXCEPT !.sending = TRUE] ELSE q[i]]
  BY <1>1 DEF Started
<1>4. t \in [1..Len(q) -> Message]
  BY <1>1, <1>2, <1>3
<1>5. t \in Seq(Message) /\ Len(t) = Len(q)
  BY <1>1, <1>4
<1> QED
  BY <1>2, <1>3, <1>5

LEMMA SentNextQueue ==
  ASSUME NEW q \in Seq(Message)
  PROVE  /\ SentNext(q) \in Seq(Message) /\ Len(SentNext(q)) = Len(q)
         /\ \A i \in 1..Len(q) : /\ SentNext(q)[i].serial = q[i].serial
                                 /\ i = 1 => SentNext(q)[i].sending
                                 /\ i # 1 => SentNext(q)[i] = q[i]
<1>1. CASE q = <<>>
  BY <1>1 DEF SentNext
<1>2. CASE q # <<>>
  BY <1>2, StartedQueue DEF SentNext
<1> QED
  BY <1>1, <1>2

\* The queue t is the queue with one message more, which has the serial n.
HasOneMore(t, n) ==
  /\ t \in Seq(Message) /\ Len(t) = Len(queue) + 1
  /\ \A i \in 1..Len(queue) : t[i] = queue[i]
  /\ t[Len(queue) + 1].serial = n
  /\ t[Len(queue) + 1].sending <=> state = "Connected" /\ Len(queue) = 0

LEMMA EnqueuedQueue ==
  ASSUME queue \in Seq(Message), NEW n \in Nat, NEW b \in BOOLEAN
  PROVE  HasOneMore(Enqueued(n, b), n)
<1> DEFINE m == [serial |-> n, fds |-> b, sending |-> FALSE]
           q == Append(queue, m)
           t == Enqueued(n, b)
<1> SUFFICES /\ t \in Seq(Message) /\ Len(t) = Len(queue) + 1
             /\ \A i \in 1..Len(queue) : t[i] = queue[i]
             /\ t[Len(queue) + 1].serial = n
             /\ t[Len(queue) + 1].sending <=> state = "Connected" /\ Len(queue) = 0
  BY DEF HasOneMore
<1>1. m \in Message /\ m.serial = n /\ ~m.sending
  BY DEF Message
<1>2. t = IF SentAtOnce(q) THEN Started(q) ELSE q
  BY DEF Enqueued
<1> HIDE DEF m, t
<1>3. /\ q \in Seq(Message) /\ Len(q) = Len(queue) + 1 /\ Len(queue) \in Nat
      /\ \A i \in 1..Len(queue) : q[i] = queue[i]
      /\ q[Len(queue) + 1] = m
  BY <1>1
<1> HIDE DEF q
<1>4. CASE SentAtOnce(q)
  <2>1. state = "Connected" /\ Len(queue) = 0
    BY <1>3, <1>4 DEF SentAtOnce
  <2>2. /\ t \in Seq(Message) /\ Len(t) = Len(q)
        /\ \A i \in 1..Len(q) : /\ t[i].serial = q[i].serial
                                /\ i = 1 => t[i].sending
    BY <1>2, <1>3, <1>4, StartedQueue
  <2> QED
    BY <1>1, <1>3, <2>1, <2>2
<1>5. CASE ~SentAtOnce(q)
  BY <1>1, <1>2, <1>3, <1>5 DEF SentAtOnce
<1> QED
  BY <1>4, <1>5

\* What is left of the queue when the front is written or dropped.
LEMMA PoppedQueue ==
  ASSUME NEW q \in Seq(Message), q # <<>>
  PROVE  /\ Tail(q) \in Seq(Message) /\ Len(Tail(q)) = Len(q) - 1 /\ Len(q) \in Nat \ {0}
         /\ \A i \in 1..Len(Tail(q)) : i + 1 \in 1..Len(q) /\ Tail(q)[i] = q[i + 1]
OBVIOUS

-----------------------------------------------------------------------------
(* Messages on the wire and in the queue.                                  *)

LEMMA QueueInit == Init => QueueInv
<1> SUFFICES ASSUME Init PROVE QueueInv
  OBVIOUS
<1>1. /\ queue = <<>> /\ toPeer = <<>> /\ stalled = FALSE /\ nextSerial \in {1, 2}
      /\ state = "Authenticating" => nextSerial = 2
  BY DEF Init, HelloSerial
<1>2. Len(queue) = 0 /\ Len(toPeer) = 0 /\ DOMAIN toPeer = {}
  BY <1>1
<1>3. QueueType
  <2>1. stalled \in BOOLEAN
    BY <1>1
  <2>2. queue \in Seq(Message) /\ toPeer \in Seq(Nat) /\ nextSerial \in Nat
    BY <1>1
  <2> QED
    BY <2>1, <2>2 DEF QueueType
<1>4. WireInv
  BY <1>2 DEF WireInv, SentInOrder, Increasing
<1>5. HelloInv /\ FrontInv
  BY <1>1, <1>2 DEF HelloInv, FrontInv, HelloSerial
<1> QED
  BY <1>3, <1>4, <1>5 DEF QueueInv

\* The wire by its length.
LEMMA Wire ==
  ASSUME QueueInv
  PROVE  /\ queue \in Seq(Message) /\ toPeer \in Seq(Nat) /\ nextSerial \in Nat
         /\ Len(queue) \in Nat /\ Len(toPeer) \in Nat
         /\ DOMAIN queue = 1..Len(queue) /\ DOMAIN toPeer = 1..Len(toPeer)
         /\ \A i \in 1..Len(queue) : queue[i] \in Message /\ queue[i].serial \in Nat
         /\ \A i \in 1..Len(toPeer) : toPeer[i] \in Nat
<1>1. queue \in Seq(Message) /\ toPeer \in Seq(Nat) /\ nextSerial \in Nat
  BY DEF QueueInv, QueueType
<1>2. /\ Len(queue) \in Nat /\ Len(toPeer) \in Nat
      /\ DOMAIN queue = 1..Len(queue) /\ DOMAIN toPeer = 1..Len(toPeer)
  BY <1>1
<1>3. \A m \in Message : m.serial \in Nat
  BY DEF Message
<1>4. ASSUME NEW i \in 1..Len(queue) PROVE queue[i] \in Message /\ queue[i].serial \in Nat
  <2>1. queue[i] \in Message
    BY <1>1
  <2> QED
    BY <1>3, <2>1
<1>5. \A i \in 1..Len(toPeer) : toPeer[i] \in Nat
  BY <1>1
<1> QED
  BY <1>1, <1>2, <1>4, <1>5, Zenon

\* A message is enqueued behind those that were sent before.
LEMMA EnqueuesInOrder ==
  ASSUME QueueInv, NEW b \in BOOLEAN, queue' = Enqueued(nextSerial, b),
         nextSerial' = nextSerial + 1, UNCHANGED <<toPeer, state, stalled>>
  PROVE  QueueInv'
<1> DEFINE n == Len(queue)
<1>1. /\ queue' \in Seq(Message) /\ Len(queue') = n + 1
      /\ \A i \in 1..n : queue'[i] = queue[i]
      /\ queue'[n + 1].serial = nextSerial
      /\ queue'[n + 1].sending <=> state = "Connected" /\ n = 0
  <2>1. queue \in Seq(Message) /\ nextSerial \in Nat
    BY DEF QueueInv, QueueType
  <2>2. HasOneMore(queue', nextSerial)
    BY <2>1, EnqueuedQueue
  <2> QED
    BY <2>2 DEF HasOneMore
<1>2. \A i \in 1..Len(queue') : i \in 1..n \/ i = n + 1
  BY <1>1, Wire
<1> HIDE DEF n
<1>3. QueueType'
  BY <1>1 DEF QueueInv, QueueType
<1>4. /\ n \in Nat /\ n = Len(queue) /\ nextSerial \in Nat
      /\ Increasing(queue) /\ \A i \in 1..n : queue[i].serial < nextSerial
      /\ \A i \in 1..n : queue[i].serial \in Nat
      /\ \A i \in 1..Len(toPeer) : toPeer[i] \in Nat /\ toPeer[i] < nextSerial
      /\ \A i \in 1..Len(toPeer), j \in 1..n : toPeer[i] < queue[j].serial
  BY Wire DEF QueueInv, WireInv, n
<1>5. Increasing(queue')
  <2> SUFFICES ASSUME NEW i \in 1..Len(queue'), NEW j \in 1..Len(queue'), i < j
               PROVE  queue'[i].serial < queue'[j].serial
    BY DEF Increasing
  <2>1. i \in 1..n
    BY <1>1, <1>2, <1>4
  <2>2. CASE j \in 1..n
    BY <1>1, <1>4, <2>1, <2>2 DEF Increasing
  <2>3. CASE j = n + 1
    BY <1>1, <1>4, <2>1, <2>3
  <2> QED
    BY <1>2, <2>2, <2>3
<1>6. WireInv'
  <2>1. SentInOrder'
    BY DEF QueueInv, WireInv, SentInOrder
  <2>2. \A j \in 1..Len(queue') : \/ queue'[j].serial = nextSerial
                                  \/ j \in 1..n /\ queue'[j] = queue[j]
    BY <1>1, <1>2
  <2>3. \A j \in 1..Len(queue') : queue'[j].serial < nextSerial'
    BY <1>4, <2>2
  <2>4. \A i \in 1..Len(toPeer), j \in 1..Len(queue') : toPeer[i] < queue'[j].serial
    BY <1>4, <2>2
  <2>5. \A i \in 1..Len(toPeer) : toPeer[i] < nextSerial'
    BY <1>4
  <2> QED
    BY <1>5, <2>1, <2>3, <2>4, <2>5 DEF WireInv
<1>7. HelloInv'
  BY <1>1, <1>2, <1>4 DEF QueueInv, HelloInv, HelloSerial
<1>8. FrontInv'
  BY <1>1, <1>2, <1>4 DEF QueueInv, FrontInv
<1> QED
  BY <1>3, <1>6, <1>7, <1>8 DEF QueueInv

\* A message that is not sent leaves a gap in the serials.
LEMMA SerialTaken ==
  ASSUME QueueInv, nextSerial' = nextSerial + 1, UNCHANGED <<queue, toPeer, state, stalled>>
  PROVE  QueueInv'
<1>1. QueueType'
  BY DEF QueueInv, QueueType
<1>2. WireInv'
  BY Wire DEF QueueInv, WireInv, SentInOrder, Increasing
<1>3. HelloInv' /\ FrontInv'
  BY Wire DEF QueueInv, HelloInv, HelloSerial, FrontInv
<1> QED
  BY <1>1, <1>2, <1>3 DEF QueueInv

LEMMA SendsInOrder ==
  ASSUME QueueInv, SendNoReply \/ \E r \in Reply : Send(r)
  PROVE  QueueInv'
<1>1. CASE SendNoReply
  BY <1>1, EnqueuesInOrder DEF SendNoReply
<1>2. ASSUME NEW r \in Reply, Send(r) PROVE QueueInv'
  <2>1. PICK failed \in BOOLEAN :
           queue' = IF failed THEN queue ELSE Enqueued(nextSerial, r \in WithFds)
    BY <1>2 DEF Send
  <2> DEFINE b == r \in WithFds
  <2>2. b \in BOOLEAN
    OBVIOUS
  <2>3. nextSerial' = nextSerial + 1 /\ UNCHANGED <<toPeer, state, stalled>>
    BY <1>2 DEF Send
  <2>4. CASE failed
    BY <2>1, <2>3, <2>4, SerialTaken
  <2>5. CASE ~failed
    <3>1. queue' = Enqueued(nextSerial, b)
      BY <2>1, <2>5
    <3> HIDE DEF b
    <3> QED
      BY <2>2, <2>3, <3>1, EnqueuesInOrder
  <2> QED
    BY <2>4, <2>5
<1> QED
  BY <1>1, <1>2

\* The front goes to the wire, or nowhere, and the next message is started, or not.
LEMMA FrontPopped ==
  ASSUME QueueInv, queue # <<>>, queue[1].sending, NEW q, q = Tail(queue),
         queue' \in Seq(Message), Len(queue') = Len(q),
         \A i \in 1..Len(q) : /\ queue'[i].serial = q[i].serial
                              /\ i # 1 => queue'[i] = q[i],
         toPeer' = toPeer \/ toPeer' = Append(toPeer, queue[1].serial),
         stalled' \in BOOLEAN, UNCHANGED <<nextSerial, state>>,
         Len(q) > 0 => queue'[1].sending \/ stalled'
  PROVE  QueueInv'
<1>1. /\ q \in Seq(Message) /\ Len(q) = Len(queue) - 1 /\ Len(queue) \in Nat \ {0}
      /\ \A i \in 1..Len(q) : i + 1 \in 1..Len(queue) /\ q[i] = queue[i + 1]
  BY PoppedQueue DEF QueueInv, QueueType
<1>2. \A i \in 1..Len(queue') :
         /\ i + 1 \in 1..Len(queue) /\ queue'[i].serial = queue[i + 1].serial
         /\ i # 1 => queue'[i] = queue[i + 1]
  BY <1>1
<1>3. queue[1].serial \in Nat /\ 1 \in 1..Len(queue)
  BY <1>1, Wire
<1>4. /\ toPeer' \in Seq(Nat) /\ Len(toPeer') \in Nat /\ DOMAIN toPeer' = 1..Len(toPeer')
      /\ \A i \in 1..Len(toPeer') : \/ i \in 1..Len(toPeer) /\ toPeer'[i] = toPeer[i]
                                    \/ /\ i = Len(toPeer) + 1 /\ i = Len(toPeer')
                                       /\ toPeer'[i] = queue[1].serial
  <2>1. CASE toPeer' = toPeer
    BY <2>1, Wire
  <2>2. CASE toPeer' = Append(toPeer, queue[1].serial)
    BY <1>3, <2>2, Wire
  <2> QED
    BY <2>1, <2>2
<1>5. QueueType'
  BY <1>4 DEF QueueInv, QueueType
<1>6. Increasing(queue')
  <2> SUFFICES ASSUME NEW i \in 1..Len(queue'), NEW j \in 1..Len(queue'), i < j
               PROVE  queue'[i].serial < queue'[j].serial
    BY DEF Increasing
  <2>1. i + 1 \in 1..Len(queue) /\ j + 1 \in 1..Len(queue) /\ i + 1 < j + 1
    BY <1>2
  <2>2. queue[i + 1].serial < queue[j + 1].serial
    BY <2>1 DEF QueueInv, WireInv, Increasing
  <2> QED
    BY <1>2, <2>2
<1>7. SentInOrder'
  <2> SUFFICES ASSUME NEW i \in 1..Len(toPeer'), NEW j \in 1..Len(toPeer'), i < j
               PROVE  toPeer'[i] < toPeer'[j]
    BY <1>4 DEF SentInOrder
  <2>1. i \in 1..Len(toPeer) /\ toPeer'[i] = toPeer[i]
    <3>1. Len(toPeer') \in Nat
      BY <1>4
    <3>2. i \in Int /\ j \in Int /\ j <= Len(toPeer')
      BY <3>1
    <3>3. i # Len(toPeer')
      BY <3>1, <3>2
    <3> QED
      BY <1>4, <3>3
  <2>2. CASE j \in 1..Len(toPeer) /\ toPeer'[j] = toPeer[j]
    BY <2>1, <2>2, Wire DEF QueueInv, WireInv, SentInOrder
  <2>3. CASE toPeer'[j] = queue[1].serial
    BY <1>3, <2>1, <2>3 DEF QueueInv, WireInv
  <2> QED
    BY <1>4, <2>2, <2>3
<1>8. \A i \in 1..Len(toPeer'), j \in 1..Len(queue') : toPeer'[i] < queue'[j].serial
  <2> SUFFICES ASSUME NEW i \in 1..Len(toPeer'), NEW j \in 1..Len(queue')
               PROVE  toPeer'[i] < queue[j + 1].serial
    BY <1>2
  <2>1. j + 1 \in 1..Len(queue) /\ 1 < j + 1
    BY <1>2
  <2>2. CASE toPeer'[i] = queue[1].serial
    BY <1>3, <2>1, <2>2 DEF QueueInv, WireInv, Increasing
  <2>3. CASE i \in 1..Len(toPeer) /\ toPeer'[i] = toPeer[i]
    BY <2>1, <2>3 DEF QueueInv, WireInv
  <2> QED
    BY <1>4, <2>2, <2>3
<1>9. WireInv'
  BY <1>2, <1>3, <1>4, <1>6, <1>7, <1>8 DEF QueueInv, WireInv
<1>10. HelloInv'
  BY <1>3 DEF QueueInv, HelloInv
<1>11. FrontInv'
  <2>1. \A j \in 1..Len(queue') : j # 1 => ~queue'[j].sending
    BY <1>2, <1>3 DEF QueueInv, FrontInv
  <2> QED
    BY <1>1, <2>1 DEF FrontInv
<1> QED
  BY <1>5, <1>9, <1>10, <1>11 DEF QueueInv

LEMMA WritesInOrder ==
  ASSUME QueueInv, WriteFront \/ RefuseFront
  PROVE  QueueInv'
<1> DEFINE q == Tail(queue)
<1>1. queue # <<>> /\ queue[1].sending /\ UNCHANGED <<nextSerial, state>>
  BY DEF WriteFront, RefuseFront, FrontIsSent
<1>2. /\ q \in Seq(Message) /\ Len(q) = Len(queue) - 1 /\ Len(queue) \in Nat \ {0}
      /\ \A i \in 1..Len(q) : i + 1 \in 1..Len(queue) /\ q[i] = queue[i + 1]
  BY <1>1, PoppedQueue DEF QueueInv, QueueType
<1>3. CASE WriteFront
  <2>1. /\ toPeer' = Append(toPeer, queue[1].serial) /\ queue' = SentNext(q)
        /\ stalled' = stalled
    BY <1>3 DEF WriteFront
  <2> HIDE DEF q
  <2>2. /\ queue' \in Seq(Message) /\ Len(queue') = Len(q)
        /\ \A i \in 1..Len(q) : /\ queue'[i].serial = q[i].serial
                                /\ i = 1 => queue'[i].sending
                                /\ i # 1 => queue'[i] = q[i]
    BY <1>2, <2>1, SentNextQueue
  <2>3. Len(q) > 0 => queue'[1].sending
    BY <1>2, <2>2
  <2>4. stalled' \in BOOLEAN
    BY <2>1 DEF QueueInv, QueueType
  <2> QED
    BY <1>1, <2>1, <2>2, <2>3, <2>4, FrontPopped DEF q
<1>4. CASE RefuseFront
  <2>1. /\ queue' = q /\ toPeer' = toPeer /\ stalled' = (stalled \/ Len(queue) > 1)
    BY <1>4 DEF RefuseFront
  <2>2. stalled' \in BOOLEAN /\ (Len(q) > 0 => stalled')
    <3>1. Len(queue) > 1 <=> Len(q) > 0
      BY <1>2
    <3>2. stalled \in BOOLEAN
      BY DEF QueueInv, QueueType
    <3> QED
      BY <2>1, <3>1, <3>2
  <2>3. Len(q) > 0 => queue'[1].sending \/ stalled'
    BY <2>2
  <2> HIDE DEF q
  <2> QED
    BY <1>1, <1>2, <2>1, <2>2, <2>3, FrontPopped DEF q
<1> QED
  BY <1>3, <1>4

\* The message that is lost is not written, and the one behind it is started.
LEMMA LosesInOrder ==
  ASSUME QueueInv, LoseFront
  PROVE  QueueInv'
<1> DEFINE q == Tail(queue)
<1>1. queue # <<>> /\ queue[1].sending /\ UNCHANGED <<nextSerial, state, toPeer, stalled>>
  BY DEF LoseFront, FrontIsSent
<1>2. CASE queue' = queue
  BY <1>1, <1>2 DEF QueueInv, QueueType, WireInv, HelloInv, FrontInv, SentInOrder
<1>3. CASE queue' = SentNext(q)
  <2>1. /\ q \in Seq(Message) /\ Len(q) = Len(queue) - 1 /\ Len(queue) \in Nat \ {0}
    BY <1>1, PoppedQueue DEF QueueInv, QueueType
  <2> HIDE DEF q
  <2>2. /\ queue' \in Seq(Message) /\ Len(queue') = Len(q)
        /\ \A i \in 1..Len(q) : /\ queue'[i].serial = q[i].serial
                                /\ i = 1 => queue'[i].sending
                                /\ i # 1 => queue'[i] = q[i]
    BY <1>3, <2>1, SentNextQueue
  <2>3. Len(q) > 0 => queue'[1].sending
    BY <2>1, <2>2
  <2>4. stalled' \in BOOLEAN
    BY <1>1 DEF QueueInv, QueueType
  <2> QED
    BY <1>1, <2>1, <2>2, <2>3, <2>4, FrontPopped DEF q
<1> QED
  BY <1>2, <1>3 DEF LoseFront

\* The hello message goes to the front of all that waits.
LEMMA HelloFirst ==
  ASSUME QueueInv, state = "Authenticating", SayHello, UNCHANGED <<nextSerial, toPeer, stalled>>
  PROVE  QueueInv'
<1> DEFINE m == [serial |-> HelloSerial, fds |-> FALSE, sending |-> TRUE]
           n == Len(queue)
<1>1. m \in Message /\ m.serial = 1 /\ m.sending
  BY DEF Message, HelloSerial
<1>2. queue' = <<m>> \o queue /\ state' = "AwaitingUniqueName"
  BY DEF SayHello, HelloQueued
<1> HIDE DEF m
<1>3. /\ n \in Nat /\ Len(toPeer) = 0 /\ nextSerial \in Nat /\ nextSerial > 1
      /\ \A j \in 1..n : /\ queue[j].serial > 1 /\ ~queue[j].sending
                         /\ queue[j].serial < nextSerial /\ queue[j].serial \in Nat
  BY Wire DEF QueueInv, HelloInv, HelloSerial, WireInv
<1>4. /\ queue' \in Seq(Message) /\ Len(queue') = n + 1 /\ queue'[1] = m
      /\ \A i \in 1..Len(queue') : i = 1 \/ (i - 1 \in 1..n /\ queue'[i] = queue[i - 1])
  BY <1>1, <1>2, Wire
<1> HIDE DEF n
<1>5. Increasing(queue')
  <2> SUFFICES ASSUME NEW i \in 1..Len(queue'), NEW j \in 1..Len(queue'), i < j
               PROVE  queue'[i].serial < queue'[j].serial
    BY DEF Increasing
  <2>1. j - 1 \in 1..n /\ queue'[j] = queue[j - 1]
    BY <1>4
  <2>2. CASE i = 1
    BY <1>1, <1>3, <1>4, <2>1, <2>2
  <2>3. CASE i - 1 \in 1..n /\ queue'[i] = queue[i - 1]
    BY <2>1, <2>3 DEF QueueInv, WireInv, Increasing, n
  <2> QED
    BY <1>4, <2>2, <2>3
<1>6. WireInv'
  <2>1. \A j \in 1..Len(queue') : queue'[j].serial < nextSerial
    BY <1>1, <1>3, <1>4
  <2> QED
    BY <1>3, <1>5, <2>1 DEF QueueInv, WireInv, SentInOrder
<1>7. HelloInv' /\ FrontInv'
  BY <1>2, <1>3, <1>4 DEF HelloInv, FrontInv
<1> QED
  BY <1>4, <1>6, <1>7 DEF QueueInv, QueueType

LEMMA QueueStep == QueueInv /\ [Next]_vars => QueueInv'
<1> SUFFICES ASSUME QueueInv, [Next]_vars PROVE QueueInv'
  OBVIOUS
<1>1. ASSUME UNCHANGED <<queue, toPeer, nextSerial, stalled>>,
             state' = state \/ state' = "Unconnected"
      PROVE  QueueInv'
  BY <1>1 DEF QueueInv, QueueType, WireInv, HelloInv, FrontInv, SentInOrder
<1>2. CASE UNCHANGED vars
  BY <1>1, <1>2 DEF vars
<1>3. CASE SendNoReply \/ \E r \in Reply : Send(r)
  BY <1>3, SendsInOrder
<1>4. CASE WriteFront \/ RefuseFront
  BY <1>4, WritesInOrder
<1>5. CASE LoseFront
  BY <1>5, LosesInOrder
<1>6. CASE ReadAuth
  <2>1. state = "Authenticating" /\ UNCHANGED <<nextSerial, toPeer, stalled>>
    BY <1>6 DEF ReadAuth
  <2>2. SayHello \/ UNCHANGED <<state, queue>>
    BY <1>6 DEF ReadAuth, FailAuth
  <2> QED
    BY <1>1, <2>1, <2>2, HelloFirst
<1>7. CASE EndClose
  <2>1. Len(queue') = 0 /\ queue' = <<>> /\ UNCHANGED <<toPeer, nextSerial, stalled>>
        /\ state' = "Unconnected"
    BY <1>7 DEF EndClose
  <2> QED
    BY <2>1 DEF QueueInv, QueueType, WireInv, HelloInv, FrontInv, SentInOrder, Increasing
<1>8. ASSUME UNCHANGED <<queue, toPeer, nextSerial>>, state' = "Connected",
             stalled' = (stalled \/ queue # <<>>)
             \/ stalled' = (stalled \/ (queue # <<>> /\ ~queue[1].sending))
      PROVE  QueueInv'
  <2>1. stalled' \in BOOLEAN /\ (Len(queue) > 0 => queue[1].sending \/ stalled')
    <3>1. stalled \in BOOLEAN /\ queue \in Seq(Message) /\ Len(queue) \in Nat
      BY DEF QueueInv, QueueType
    <3>2. Len(queue) > 0 => queue # <<>> /\ queue[1].sending \in BOOLEAN
      <4>1. \A m \in Message : m.sending \in BOOLEAN
        BY DEF Message
      <4>2. Len(queue) > 0 => queue # <<>> /\ queue[1] \in Message
        BY <3>1
      <4> QED
        BY <4>1, <4>2
    <3>3. CASE stalled' = (stalled \/ queue # <<>>)
      BY <3>1, <3>2, <3>3
    <3>4. CASE stalled' = (stalled \/ (queue # <<>> /\ ~queue[1].sending))
      BY <3>1, <3>2, <3>4
    <3> QED
      BY <1>8, <3>3, <3>4
  <2> QED
    BY <1>8, <2>1 DEF QueueInv, QueueType, WireInv, HelloInv, FrontInv, SentInOrder
<1>9. CASE ClientConnects
  BY <1>1, <1>8, <1>9 DEF ClientConnects
<1>10. CASE Receive
  BY <1>1, <1>8, <1>10 DEF Receive, TakeHelloReply
<1>11. CASE CancelReply \/ Close \/ Wait \/ LosePeer
            \/ PeerAnswersAuth \/ PeerCloses \/ (\E serial \in 1..MaxSerial : PeerReplies(serial))
            \/ (\E r \in Reply : Destroy(r) \/ AssignOver(r))
            \/ (\E r \in Reply \cup {Hello} : TimesOut(r))
  BY <1>1, <1>11 DEF CancelReply, Close, Wait, LosePeer, PeerAnswersAuth, PeerCloses, PeerReplies,
                     Destroy, AssignOver, TimesOut
<1> QED
  BY <1>2, <1>3, <1>4, <1>5, <1>6, <1>7, <1>9, <1>10, <1>11 DEF Next

\* The hello message is the first on the wire to a bus, and messages follow in the order in
\* which they were sent, through authentication, queueing, refused and failed messages and
\* closing, for any number of messages.
THEOREM WireInOrder == Spec => []SentInOrder
<1>1. QueueInv => SentInOrder
  BY DEF QueueInv, WireInv
<1> QED
  BY <1>1, QueueInit, QueueStep, PTL DEF Spec

\* Only the front of the queue is given to the transport, and on an established connection
\* it is, unless the queue is stalled, for any number of messages.
THEOREM FrontStarted == Spec => []FrontIsStarted
<1>1. QueueInv => FrontIsStarted
  BY Wire DEF QueueInv, FrontInv, FrontIsStarted
<1> QED
  BY <1>1, QueueInit, QueueStep, PTL DEF Spec

-----------------------------------------------------------------------------
(* Records of replies.                                                     *)

LEMMA NoReplyRecord ==
  /\ NoReply \in ReplyRecord /\ NoReply.state = "none" /\ NoReply.serial = 0
  /\ ~NoReply.timer
BY DEF NoReply, ReplyRecord

\* close() visits the records there are, unless somebody has called it before.
LEMMA CloseBegins ==
  ASSUME RecordType, NEW D \in SUBSET Nat, CancelOK(cancel, D),
         NEW then \in {"return", "pop"}, BeginClose(D, then)
  PROVE  cancel' \in CancelRecord /\ CancelOK(cancel', D)
<1>1. CASE closing
  BY <1>1 DEF BeginClose, RecordType
<1>2. CASE ~closing
  <2>1. cancel' \in CancelFrom(D, then)
    BY <1>2 DEF BeginClose
  <2>2. CASE D = {}
    <3>1. cancel' = [on |-> TRUE, at |-> 0, rest |-> {}, inCallback |-> FALSE, then |-> then]
      BY <2>1, <2>2 DEF CancelFrom, NotCancelling
    <3> QED
      BY <3>1 DEF CancelRecord, CancelOK
  <2>3. CASE D # {}
    <3>1. PICK s \in D : cancel' = [on |-> TRUE, at |-> s, rest |-> D \ {s},
                                    inCallback |-> FALSE, then |-> then]
      BY <2>1, <2>3 DEF CancelFrom, NotCancelling
    <3> QED
      BY <3>1 DEF CancelRecord, CancelOK
  <2> QED
    BY <2>2, <2>3
<1> QED
  BY <1>1, <1>2

LEMMA RecordInit == Init => RecordType /\ RecordInv
<1> SUFFICES ASSUME Init PROVE RecordType /\ RecordInv
  OBVIOUS
<1>1. /\ pending = <<>> /\ DOMAIN <<>> = {} /\ cancel = NotCancelling
      /\ reply = [r \in Party |-> NoReply] /\ nextSerial \in {1, 2}
      /\ state = "Authenticating" => nextSerial = 2
  BY DEF Init, HelloSerial, Party
<1>2. cancel \in CancelRecord /\ ~cancel.on
  BY <1>1 DEF NotCancelling, CancelRecord
<1>3. RecordType
  BY <1>1, <1>2, NoReplyRecord DEF RecordType
<1> QED
  BY <1>1, <1>2, <1>3, NoReplyRecord DEF RecordInv, Recording, CancelOK, HelloSerial, Party

\* Nothing happens to the records.
LEMMA RecordsKept ==
  ASSUME RecordType, RecordInv, crash = "none", UNCHANGED <<pending, reply>>,
         nextSerial' \in {nextSerial, nextSerial + 1},
         state' = state \/ state' # "Authenticating",
         cancel' \in CancelRecord, CancelOK(cancel', DOMAIN pending)
  PROVE  RecordType' /\ RecordInv'
<1>1. nextSerial' \in Nat /\ nextSerial' >= nextSerial /\ nextSerial \in Nat
  BY DEF RecordType
<1>2. RecordType'
  BY <1>1 DEF RecordType
<1>3. \A s \in DOMAIN pending : s \in Nat
  BY DEF RecordType
<1> QED
  BY <1>1, <1>2, <1>3 DEF RecordInv, RecordOK, Recording, HelloSerial

\* The connection is told of a reply under a serial that is not taken.
LEMMA RecordAdded ==
  ASSUME RecordType, RecordInv, crash = "none",
         NEW s \in Nat, s # 0, s \notin DOMAIN pending, NEW r \in Party,
         \A t \in DOMAIN pending : pending[t] # r,
         NEW x \in ReplyRecord, x.state = "waiting", x.serial = s,
         pending' = With(pending, s, r), reply' = [reply EXCEPT ![r] = x],
         r = Hello => s = HelloSerial,
         nextSerial' \in Nat, nextSerial' >= nextSerial, s < nextSerial',
         state' = "Authenticating" => state = "Authenticating" /\ s # HelloSerial,
         cancel' \in CancelRecord, CancelOK(cancel', DOMAIN pending \cup {s})
  PROVE  RecordType' /\ RecordInv'
<1>1. /\ DOMAIN pending' = DOMAIN pending \cup {s} /\ pending'[s] = r
      /\ \A t \in DOMAIN pending : pending'[t] = pending[t]
  BY DEF With
<1>2. /\ reply' \in [Party -> ReplyRecord] /\ reply'[r] = x
      /\ \A p \in Party : p # r => reply'[p] = reply[p]
  BY DEF RecordType
<1>3. \A t \in DOMAIN pending : t \in Nat /\ pending[t] \in Party
  BY DEF RecordType
<1>4. RecordType'
  BY <1>1, <1>2, <1>3 DEF RecordType
<1>5. \A t \in DOMAIN pending' : RecordOK(t)' /\ t # 0 /\ t < nextSerial'
  <2> SUFFICES ASSUME NEW t \in DOMAIN pending'
               PROVE  RecordOK(t)' /\ t # 0 /\ t < nextSerial'
    OBVIOUS
  <2>1. CASE t = s
    BY <1>1, <1>2, <2>1 DEF RecordOK
  <2>2. CASE t \in DOMAIN pending
    <3>1. pending'[t] = pending[t] /\ reply'[pending[t]] = reply[pending[t]]
      BY <1>1, <1>2, <1>3, <2>2
    <3>2. RecordOK(t) /\ t # 0 /\ t < nextSerial /\ t \in Nat /\ nextSerial \in Nat
      BY <1>3, <2>2 DEF RecordInv, RecordType
    <3> QED
      BY <3>1, <3>2 DEF RecordOK
  <2> QED
    BY <1>1, <2>1, <2>2
<1>6. \A p \in Party : Recording(p)'
  <2> SUFFICES ASSUME NEW p \in Party PROVE Recording(p)'
    OBVIOUS
  <2>1. CASE p = r
    BY <1>1, <1>2, <2>1 DEF Recording
  <2>2. CASE p # r
    BY <1>1, <1>2, <2>2 DEF Recording, RecordInv
  <2> QED
    BY <2>1, <2>2
<1>7. reply'[Hello] = NoReply \/ reply'[Hello].serial = HelloSerial
  BY <1>2 DEF RecordInv, Party
<1>8. nextSerial' > 0 /\ (state' = "Authenticating" => nextSerial' > HelloSerial
                                                       /\ HelloSerial \notin DOMAIN pending')
  BY <1>1 DEF RecordInv, RecordType, HelloSerial
<1> QED
  BY <1>1, <1>4, <1>5, <1>6, <1>7, <1>8 DEF RecordInv

\* A reply stops waiting, and its record, if there is one, goes.
LEMMA RecordDropped ==
  ASSUME RecordType, RecordInv, crash = "none", NEW r \in Party,
         NEW x \in ReplyRecord, x.state # "waiting", x.timer => x.state = "finished",
         reply' = [reply EXCEPT ![r] = x],
         r = Hello => x = NoReply \/ x.serial = HelloSerial,
         \/ /\ pending' = Without(pending, reply[r].serial)
            /\ reply[r].serial \in DOMAIN pending => pending[reply[r].serial] = r
         \/ pending' = pending /\ reply[r].state \notin {"waiting", "over"},
         UNCHANGED nextSerial, state' = state \/ state' # "Authenticating",
         cancel' \in CancelRecord, CancelOK(cancel', DOMAIN pending')
  PROVE  RecordType' /\ RecordInv'
<1>1. \A t \in DOMAIN pending : t \in Nat /\ pending[t] \in Party /\ RecordOK(t)
  BY DEF RecordType, RecordInv
<1>2. /\ reply' \in [Party -> ReplyRecord] /\ reply'[r] = x
      /\ \A p \in Party : p # r => reply'[p] = reply[p]
  BY DEF RecordType
<1>3. /\ \A t \in DOMAIN pending' :
            t \in DOMAIN pending /\ pending'[t] = pending[t] /\ pending[t] # r
      /\ \A t \in DOMAIN pending : pending[t] # r => t \in DOMAIN pending'
  <2>1. CASE pending' = Without(pending, reply[r].serial)
             /\ (reply[r].serial \in DOMAIN pending => pending[reply[r].serial] = r)
    <3>1. /\ DOMAIN pending' = DOMAIN pending \ {reply[r].serial}
          /\ \A t \in DOMAIN pending' : pending'[t] = pending[t]
      BY <2>1 DEF Without
    <3> QED
      BY <1>1, <2>1, <3>1 DEF RecordOK
  <2>2. CASE pending' = pending /\ reply[r].state \notin {"waiting", "over"}
    BY <1>1, <2>2 DEF RecordOK
  <2> QED
    BY <2>1, <2>2
<1>4. RecordType'
  BY <1>1, <1>2, <1>3 DEF RecordType
<1>5. \A t \in DOMAIN pending' : RecordOK(t)' /\ t # 0 /\ t < nextSerial'
  BY <1>1, <1>2, <1>3 DEF RecordOK, RecordInv
<1>6. \A p \in Party : Recording(p)'
  <2> SUFFICES ASSUME NEW p \in Party PROVE Recording(p)'
    OBVIOUS
  <2>1. CASE p = r
    BY <1>2, <2>1 DEF Recording
  <2>2. CASE p # r
    BY <1>2, <1>3, <2>2 DEF Recording, RecordInv
  <2> QED
    BY <2>1, <2>2
<1>7. reply'[Hello] = NoReply \/ reply'[Hello].serial = HelloSerial
  BY <1>2 DEF RecordInv, Party
<1> QED
  BY <1>3, <1>4, <1>5, <1>6, <1>7 DEF RecordInv

\* What the records and replies are, from the invariant.
LEMMA Records ==
  ASSUME RecordType, RecordInv, crash = "none"
  PROVE  /\ DOMAIN pending \in SUBSET Nat /\ Hello \in Party
         /\ \A s \in DOMAIN pending :
               /\ pending[s] \in Party /\ s # 0 /\ s < nextSerial
               /\ reply[pending[s]].serial = s
               /\ reply[pending[s]].state \in {"waiting", "over"}
         /\ \A r \in Party : reply[r] \in ReplyRecord /\ Recording(r)
         /\ CancelOK(cancel, DOMAIN pending)
BY DEF RecordType, RecordInv, RecordOK, Party

\* The ways a reply ends.
LEMMA Endings ==
  ASSUME NEW x \in ReplyRecord, NEW how \in {"over", "gone"}
  PROVE  /\ LET y == [x EXCEPT !.state = "finished", !.failed = TRUE] IN
            y \in ReplyRecord /\ y.state = "finished" /\ y.serial = x.serial
         /\ LET y == [x EXCEPT !.state = "finished", !.failed = TRUE, !.timer = FALSE] IN
            y \in ReplyRecord /\ y.state = "finished" /\ y.serial = x.serial
         /\ LET y == [x EXCEPT !.state = "finished", !.timer = FALSE] IN
            y \in ReplyRecord /\ y.state = "finished" /\ y.serial = x.serial
         /\ LET y == [x EXCEPT !.state = how, !.timer = FALSE] IN
            y \in ReplyRecord /\ y.state = how /\ y.serial = x.serial /\ ~y.timer
BY DEF ReplyRecord

\* The loop of cancelAllPendingReplies takes one record out and goes on to another.
LEMMA CancelReplyRecord ==
  ASSUME RecordType, RecordInv, CancelReply
  PROVE  RecordType' /\ RecordInv'
<1> DEFINE r == pending[cancel.at]
           x == IF r = Hello THEN NoReply
                ELSE [reply[r] EXCEPT !.state = "finished", !.failed = TRUE]
           b == r # Hello
<1>1. /\ crash = "none" /\ cancel.on /\ cancel.at # 0 /\ UNCHANGED <<nextSerial, state>>
      /\ pending' = Without(pending, cancel.at)
  BY DEF CancelReply
<1>2. /\ cancel.at \in DOMAIN pending /\ cancel.rest \subseteq DOMAIN pending
      /\ cancel.at \notin cancel.rest /\ cancel.rest \subseteq Nat /\ r \in Party
      /\ cancel.at = reply[r].serial /\ reply[r] \in ReplyRecord
      /\ reply[r].state \in {"waiting", "over"} /\ cancel.at \in Nat
  BY <1>1, Records DEF CancelOK
<1>3. CASE reply[r].state = "over"
  <2>1. crash' = "error for a freed PendingReply" /\ UNCHANGED <<reply, cancel>>
    BY <1>3 DEF CancelReply
  <2>2. RecordType'
    BY <1>1, <2>1 DEF RecordType, Without
  <2> QED
    BY <2>1, <2>2 DEF RecordInv
<1>4. CASE reply[r].state # "over"
  <2>1. PICK s \in IF cancel.rest = {} THEN {0} ELSE cancel.rest :
           cancel' = [cancel EXCEPT !.at = s, !.rest = @ \ {s}, !.inCallback = b]
    BY <1>4 DEF CancelReply
  <2>2. reply' = [reply EXCEPT ![r] = x]
    BY <1>2, <1>4 DEF CancelReply, RecordType
  <2>3. x \in ReplyRecord /\ x.state \in {"none", "finished"} /\ (x.timer => x.state = "finished")
        /\ (r = Hello => x = NoReply \/ x.serial = HelloSerial)
    <3>1. CASE r = Hello
      BY <3>1, NoReplyRecord
    <3>2. CASE r # Hello
      BY <1>2, <3>2, Endings
    <3> QED
      BY <3>1, <3>2
  <2>4. b \in BOOLEAN
    OBVIOUS
  <2> HIDE DEF x, b
  <2>5. s \in Nat /\ cancel \in CancelRecord
    BY <1>2, <2>1 DEF RecordType
  <2>6. cancel' \in CancelRecord /\ cancel'.rest = cancel.rest \ {s} /\ cancel'.at = s
    BY <2>1, <2>4, <2>5 DEF CancelRecord
  <2>7. DOMAIN pending' = DOMAIN pending \ {cancel.at}
    BY <1>1 DEF Without
  <2>8. CancelOK(cancel', DOMAIN pending')
    BY <1>2, <2>1, <2>6, <2>7 DEF CancelOK
  <2> HIDE DEF r
  <2> QED
    BY <1>1, <1>2, <2>2, <2>3, <2>6, <2>8, RecordDropped DEF r
<1> QED
  BY <1>3, <1>4

\* A message is refused, and its reply fails.
LEMMA RefuseFrontRecord ==
  ASSUME RecordType, RecordInv, RefuseFront
  PROVE  RecordType' /\ RecordInv'
<1> DEFINE serial == queue[1].serial
           r == pending[serial]
           x == [reply[r] EXCEPT !.state = "finished", !.failed = TRUE]
<1>1. /\ crash = "none" /\ ~cancel.on /\ UNCHANGED <<nextSerial, state, cancel>>
  BY DEF RefuseFront, FrontIsSent, Running
<1>2. cancel' \in CancelRecord /\ \A D : CancelOK(cancel', D)
  BY <1>1 DEF CancelOK, RecordType
<1>3. CASE serial \notin DOMAIN pending
  <2>1. UNCHANGED <<pending, reply>>
    BY <1>3 DEF RefuseFront
  <2> QED
    BY <1>1, <1>2, <2>1, RecordsKept
<1>4. CASE serial \in DOMAIN pending
  <2>1. pending' = Without(pending, serial) /\ Failing(r)
    BY <1>4 DEF RefuseFront
  <2>2. r \in Party /\ serial = reply[r].serial /\ reply[r] \in ReplyRecord
        /\ reply[r].state \in {"waiting", "over"} /\ serial # 0
    BY <1>1, <1>4, Records
  <2>3. CASE reply[r].state = "over"
    <3>1. crash' # "none" /\ UNCHANGED reply
      BY <2>1, <2>3 DEF Failing
    <3>2. RecordType'
      BY <1>1, <2>1, <3>1 DEF RecordType, Without
    <3> QED
      BY <3>1, <3>2 DEF RecordInv
  <2>4. CASE reply[r].state # "over"
    <3>1. reply' = [reply EXCEPT ![r] = x]
      BY <2>1, <2>2, <2>4 DEF Failing, RecordType
    <3>2. x \in ReplyRecord /\ x.state = "finished" /\ x.serial = reply[r].serial
      BY <2>2, Endings
    <3>3. r = Hello => x.serial = HelloSerial
      BY <1>1, <2>2, <3>2, NoReplyRecord DEF RecordInv
    <3> HIDE DEF x
    <3> HIDE DEF r, serial
    <3> QED
      BY <1>1, <1>2, <1>4, <2>1, <2>2, <3>1, <3>2, <3>3, RecordDropped DEF r
  <2> QED
    BY <2>3, <2>4
<1> QED
  BY <1>3, <1>4

\* The reply to a message arrives.
LEMMA ReceiveRecord ==
  ASSUME RecordType, RecordInv, Receive
  PROVE  RecordType' /\ RecordInv'
<1> DEFINE m == Head(peer.messages)
           s == m.to
           r == pending[s]
           x == [reply[r] EXCEPT !.state = "finished", !.timer = FALSE]
<1>1. /\ crash = "none" /\ ~cancel.on /\ UNCHANGED nextSerial
      /\ state' = state \/ state' = "Connected"
  BY DEF Receive, Running, TakeHelloReply
<1>2. cancel \in CancelRecord /\ \A D : CancelOK(cancel, D)
  BY <1>1 DEF CancelOK, RecordType
<1>3. CASE s \notin DOMAIN pending
  <2>1. UNCHANGED <<pending, reply, cancel>>
    BY <1>3 DEF Receive
  <2> QED
    BY <1>1, <1>2, <2>1, RecordsKept
<1>4. CASE s \in DOMAIN pending
  <2>1. pending' = Without(pending, s) /\ DOMAIN pending' = DOMAIN pending \ {s}
    BY <1>4 DEF Receive, Recorded, Without
  <2>2. r \in Party /\ s = reply[r].serial /\ reply[r] \in ReplyRecord /\ s # 0
        /\ DOMAIN pending \in SUBSET Nat
    BY <1>1, <1>4, Records
  <2>3. CASE r = Hello
    <3>1. TakeHelloReply(m.body, DOMAIN Recorded(s))
      BY <1>4, <2>3 DEF Receive
    <3>2. reply' = [reply EXCEPT ![r] = NoReply]
      BY <2>3, <3>1 DEF TakeHelloReply
    <3>3. DOMAIN Recorded(s) = DOMAIN pending \ {s}
      BY DEF Recorded, Without
    <3>4. UNCHANGED cancel \/ BeginClose(DOMAIN pending \ {s}, "return")
      BY <3>1, <3>3 DEF TakeHelloReply
    <3>5. cancel' \in CancelRecord /\ CancelOK(cancel', DOMAIN pending')
      <4>1. CASE UNCHANGED cancel
        BY <1>2, <4>1
      <4>2. CASE BeginClose(DOMAIN pending \ {s}, "return")
        BY <1>2, <2>1, <2>2, <4>2, CloseBegins
      <4> QED
        BY <3>4, <4>1, <4>2
    <3> HIDE DEF r, s
    <3> QED
      BY <1>1, <1>4, <2>1, <2>2, <3>2, <3>5, NoReplyRecord, RecordDropped DEF r
  <2>4. CASE r # Hello /\ reply[r].state = "over"
    <3>1. crash' # "none" /\ UNCHANGED <<reply, cancel>>
      BY <1>4, <2>4 DEF Receive
    <3>2. RecordType'
      BY <1>1, <2>1, <3>1 DEF RecordType, Without
    <3> QED
      BY <3>1, <3>2 DEF RecordInv
  <2>5. CASE r # Hello /\ reply[r].state # "over"
    <3>1. reply' = [reply EXCEPT ![r].state = "finished", ![r].timer = FALSE] /\ UNCHANGED cancel
      BY <1>4, <2>5 DEF Receive
    <3>2. reply' = [reply EXCEPT ![r] = x]
      BY <2>2, <3>1 DEF RecordType
    <3>3. x \in ReplyRecord /\ x.state = "finished"
      BY <2>2, Endings
    <3> HIDE DEF x
    <3> HIDE DEF r, s
    <3> QED
      BY <1>1, <1>2, <1>4, <2>1, <2>2, <2>5, <3>1, <3>2, <3>3, RecordDropped DEF r
  <2> QED
    BY <2>3, <2>4, <2>5
<1> QED
  BY <1>3, <1>4

\* A timer of a reply fires.
LEMMA TimesOutRecord ==
  ASSUME RecordType, RecordInv, NEW r \in Party, TimesOut(r)
  PROVE  RecordType' /\ RecordInv'
<1> DEFINE s == reply[r].serial
           x == [reply[r] EXCEPT !.state = "finished", !.failed = TRUE, !.timer = FALSE]
<1>1. /\ crash = "none" /\ ~cancel.on /\ UNCHANGED <<nextSerial, state>> /\ reply[r].timer
  BY DEF TimesOut, Running
<1>2. cancel \in CancelRecord /\ \A D : CancelOK(cancel, D)
  BY <1>1 DEF CancelOK, RecordType
<1>3. /\ reply[r] \in ReplyRecord /\ Recording(r) /\ DOMAIN pending \in SUBSET Nat
  BY <1>1, Records
<1>4. CASE reply[r].state = "finished"
  <2>1. crash' # "none" /\ UNCHANGED <<pending, reply, cancel>>
    BY <1>4 DEF TimesOut
  <2> QED
    BY <1>1, <2>1 DEF RecordType, RecordInv
<1>5. CASE reply[r].state # "finished"
  <2>1. /\ s \in DOMAIN pending /\ pending[s] = r
        /\ pending' = Without(pending, s) /\ DOMAIN pending' = DOMAIN pending \ {s}
    BY <1>1, <1>3, <1>5 DEF Recording, TimesOut, Without
  <2>2. CASE r = Hello
    <3>1. /\ reply' = [reply EXCEPT ![r] = NoReply]
          /\ BeginClose(DOMAIN pending \ {HelloSerial}, "return")
      BY <1>5, <2>2 DEF TimesOut
    <3>2. s = HelloSerial
      BY <1>1, <2>2, NoReplyRecord DEF RecordInv
    <3>3. cancel' \in CancelRecord /\ CancelOK(cancel', DOMAIN pending')
      BY <1>2, <1>3, <2>1, <3>1, <3>2, CloseBegins
    <3> HIDE DEF s
    <3> QED
      BY <1>1, <2>1, <3>1, <3>3, NoReplyRecord, RecordDropped DEF s
  <2>3. CASE r # Hello
    <3>1. /\ reply' = [reply EXCEPT ![r].state = "finished", ![r].failed = TRUE,
                                    ![r].timer = FALSE]
          /\ UNCHANGED cancel
      BY <1>5, <2>3 DEF TimesOut
    <3>2. reply' = [reply EXCEPT ![r] = x]
      BY <3>1 DEF RecordType
    <3>3. x \in ReplyRecord /\ x.state = "finished"
      BY <1>3, Endings
    <3> HIDE DEF x, s
    <3> QED
      BY <1>1, <1>2, <2>1, <2>3, <3>1, <3>2, <3>3, RecordDropped DEF s
  <2> QED
    BY <2>2, <2>3
<1> QED
  BY <1>4, <1>5

\* The application destroys a reply, while others are cancelled as well.
LEMMA DestroyRecord ==
  ASSUME RecordType, RecordInv, NEW r \in Reply, Destroy(r)
  PROVE  RecordType' /\ RecordInv'
<1> DEFINE s == reply[r].serial
           x == [reply[r] EXCEPT !.state = "gone", !.timer = FALSE]
<1>1. /\ crash = "none" /\ UNCHANGED <<nextSerial, state>> /\ r \in Party /\ r # Hello
      /\ reply[r].state \in {"waiting", "finished"}
  BY ReplyAssumption DEF Destroy, MayCall, Party, Hello
<1>2. /\ reply[r] \in ReplyRecord /\ Recording(r) /\ DOMAIN pending \in SUBSET Nat
      /\ CancelOK(cancel, DOMAIN pending) /\ cancel \in CancelRecord
  BY <1>1, Records DEF RecordType
<1>3. reply' = [reply EXCEPT ![r] = x]
  BY <1>1 DEF Destroy, Gone, RecordType
<1>4. x \in ReplyRecord /\ x.state = "gone" /\ ~x.timer
  BY <1>2, Endings
<1> HIDE DEF x
<1>5. CASE reply[r].state = "finished"
  <2>1. UNCHANGED <<pending, cancel>>
    BY <1>5 DEF Destroy
  <2> QED
    BY <1>1, <1>2, <1>3, <1>4, <1>5, <2>1, RecordDropped
<1>6. CASE reply[r].state = "waiting"
  <2>1. /\ s \in DOMAIN pending /\ pending[s] = r /\ s \in Nat
        /\ pending' = Without(pending, s) /\ DOMAIN pending' = DOMAIN pending \ {s}
        /\ \A t \in DOMAIN pending' : pending'[t] = pending[t]
    BY <1>2, <1>6 DEF Recording, Destroy, Without
  <2>2. /\ cancel' = [cancel EXCEPT !.rest = @ \ {s}]
        /\ crash' = IF cancel.on /\ cancel.at = s THEN "iterator of an erased record" ELSE crash
    BY <1>6 DEF Destroy
  <2> HIDE DEF s
  <2>3. /\ cancel' \in CancelRecord /\ cancel'.at = cancel.at /\ cancel'.on = cancel.on
        /\ cancel'.rest = cancel.rest \ {s}
    BY <1>2, <2>2 DEF CancelRecord
  <2>4. CASE cancel.on /\ cancel.at = s
    <3>1. RecordType'
      BY <1>1, <1>3, <1>4, <2>1, <2>3 DEF RecordType
    <3> QED
      BY <2>2, <2>4, <3>1 DEF RecordInv
  <2>5. CASE ~(cancel.on /\ cancel.at = s)
    <3>1. CancelOK(cancel', DOMAIN pending')
      BY <1>2, <2>1, <2>3, <2>5 DEF CancelOK
    <3> QED
      BY <1>1, <1>2, <1>3, <1>4, <2>1, <2>3, <3>1, RecordDropped DEF s
  <2> QED
    BY <2>4, <2>5
<1> QED
  BY <1>1, <1>5, <1>6

\* Another PendingReply is assigned to this one, whose record stays.
LEMMA AssignOverRecord ==
  ASSUME RecordType, RecordInv, NEW r \in Reply, AssignOver(r)
  PROVE  RecordType' /\ RecordInv'
<1> DEFINE how == IF reply[r].state = "waiting" THEN "over" ELSE "gone"
           x == [reply[r] EXCEPT !.state = how, !.timer = FALSE]
<1>1. /\ crash = "none" /\ UNCHANGED <<nextSerial, state, pending, cancel>>
      /\ r \in Party /\ r # Hello /\ reply[r].state \in {"waiting", "finished"}
  BY ReplyAssumption DEF AssignOver, MayCall, Party, Hello
<1>2. /\ reply[r] \in ReplyRecord /\ CancelOK(cancel, DOMAIN pending)
      /\ cancel \in CancelRecord /\ how \in {"over", "gone"}
  BY <1>1, Records DEF RecordType
<1>3. reply' = [reply EXCEPT ![r] = x]
  BY <1>1 DEF AssignOver, Gone, RecordType
<1>4. x \in ReplyRecord /\ x.state = how /\ x.serial = reply[r].serial /\ ~x.timer
  <2> HIDE DEF how
  <2> QED
    BY <1>2, Endings
<1> HIDE DEF x
<1>5. CASE reply[r].state = "finished"
  BY <1>1, <1>2, <1>3, <1>4, <1>5, RecordDropped
<1>6. CASE reply[r].state = "waiting"
  <2>1. /\ reply' \in [Party -> ReplyRecord] /\ reply'[r] = x
        /\ \A p \in Party : p # r => reply'[p] = reply[p]
    BY <1>1, <1>3, <1>4 DEF RecordType
  <2>2. RecordType'
    BY <1>1, <2>1 DEF RecordType
  <2>3. \A t \in DOMAIN pending : RecordOK(t)'
    <3> SUFFICES ASSUME NEW t \in DOMAIN pending PROVE RecordOK(t)'
      OBVIOUS
    <3>1. pending[t] \in Party /\ RecordOK(t)
      BY <1>1, Records DEF RecordOK
    <3>2. CASE pending[t] = r
      BY <1>1, <1>4, <1>6, <2>1, <3>1, <3>2 DEF RecordOK
    <3>3. CASE pending[t] # r
      BY <1>1, <2>1, <3>1, <3>3 DEF RecordOK
    <3> QED
      BY <3>2, <3>3
  <2>4. \A p \in Party : Recording(p)'
    <3> SUFFICES ASSUME NEW p \in Party PROVE Recording(p)'
      OBVIOUS
    <3>1. CASE p = r
      BY <1>4, <1>6, <2>1, <3>1 DEF Recording
    <3>2. CASE p # r
      BY <1>1, <2>1, <3>2 DEF Recording, RecordInv
    <3> QED
      BY <3>1, <3>2
  <2> QED
    BY <1>1, <2>1, <2>2, <2>3, <2>4 DEF RecordInv, Party
<1> QED
  BY <1>1, <1>5, <1>6

\* A message is sent with a reply, possibly while all others are cancelled.
LEMMA SendRecord ==
  ASSUME RecordType, RecordInv, NEW r \in Reply, Send(r)
  PROVE  RecordType' /\ RecordInv'
<1> DEFINE s == nextSerial
<1>1. PICK failed \in BOOLEAN :
         reply' = [reply EXCEPT ![r] =
                     [state |-> "waiting", serial |-> s, failed |-> failed,
                      timer |-> failed \/ r \in Timed, heard |-> r \in Timed]]
  BY DEF Send
<1>2. /\ crash = "none" /\ r \in Party /\ r # Hello /\ reply[r] = NoReply
      /\ nextSerial' = s + 1 /\ UNCHANGED state /\ pending' = With(pending, s, r)
      /\ Joined(s)
  BY ReplyAssumption DEF Send, MayCall, Party, Hello
<1>3. /\ s \in Nat /\ s # 0 /\ s \notin DOMAIN pending /\ DOMAIN pending \in SUBSET Nat
      /\ state = "Authenticating" => s # HelloSerial
      /\ CancelOK(cancel, DOMAIN pending) /\ cancel \in CancelRecord
  BY <1>2, Records DEF RecordType, RecordInv, HelloSerial
<1>4. \A t \in DOMAIN pending : pending[t] # r
  BY <1>2, Records, NoReplyRecord
<1> DEFINE h == r \in Timed
           tm == failed \/ r \in Timed
           x == [state |-> "waiting", serial |-> s, failed |-> failed, timer |-> tm, heard |-> h]
<1>5. h \in BOOLEAN /\ tm \in BOOLEAN
  OBVIOUS
<1>6. reply' = [reply EXCEPT ![r] = x]
  BY <1>1
<1> HIDE DEF h, tm
<1>7. x \in ReplyRecord /\ x.state = "waiting" /\ x.serial = s
  BY <1>3, <1>5 DEF ReplyRecord
<1> HIDE DEF x, s
<1>8. cancel' \in CancelRecord /\ CancelOK(cancel', DOMAIN pending \cup {s})
  <2>1. CASE cancel.on
    <3>1. PICK seen \in {{}, {s}} :
             cancel' = [cancel EXCEPT !.rest = IF @ = {} /\ cancel.at = 0 THEN @ ELSE @ \cup seen]
      BY <1>2, <2>1 DEF Joined
    <3>2. /\ cancel' \in CancelRecord /\ cancel'.at = cancel.at
          /\ cancel'.rest \subseteq cancel.rest \cup {s}
      BY <1>3, <3>1 DEF CancelRecord
    <3>3. cancel.at \in Nat
      BY <1>3 DEF CancelRecord
    <3>4. s \in cancel'.rest => cancel'.at # s
      <4>1. CASE cancel.at = 0
        BY <1>3, <3>2, <4>1 DEF s
      <4>2. CASE cancel.at # 0
        BY <1>3, <2>1, <3>2, <4>2 DEF CancelOK
      <4> QED
        BY <4>1, <4>2
    <3> QED
      BY <1>3, <2>1, <3>2, <3>4 DEF CancelOK
  <2>2. CASE ~cancel.on
    BY <1>2, <1>3, <2>2 DEF Joined, CancelOK
  <2> QED
    BY <2>1, <2>2
<1>9. nextSerial' \in Nat /\ nextSerial' >= nextSerial /\ s < nextSerial'
  BY <1>2, <1>3 DEF s
<1> QED
  BY <1>2, <1>3, <1>4, <1>6, <1>7, <1>8, <1>9, RecordAdded

\* The hello message is sent with a reply as well.
LEMMA SayHelloRecord ==
  ASSUME RecordType, RecordInv, crash = "none", ~cancel.on, state = "Authenticating", SayHello,
         UNCHANGED nextSerial
  PROVE  RecordType' /\ RecordInv'
<1> DEFINE s == HelloSerial
           r == Hello
           x == [state |-> "waiting", serial |-> s, failed |-> FALSE, timer |-> TRUE,
                 heard |-> TRUE]
<1>1. /\ pending' = With(pending, s, r) /\ reply' = [reply EXCEPT ![r] = x]
      /\ UNCHANGED cancel /\ state' # "Authenticating"
  BY DEF SayHello
<1>2. s \in Nat /\ s # 0 /\ s \notin DOMAIN pending /\ nextSerial \in Nat /\ s < nextSerial
  BY DEF RecordInv, RecordType, HelloSerial
<1>3. r \in Party
  BY DEF Party
<1>4. \A t \in DOMAIN pending : pending[t] # r
  BY <1>2, Records, NoReplyRecord DEF RecordInv
<1>5. x \in ReplyRecord /\ x.state = "waiting" /\ x.serial = s
  BY <1>2 DEF ReplyRecord
<1>6. cancel' \in CancelRecord /\ CancelOK(cancel', DOMAIN pending \cup {s})
  BY <1>1 DEF CancelOK, RecordType
<1>7. nextSerial' \in Nat /\ nextSerial' >= nextSerial /\ s < nextSerial'
  BY <1>2
<1>8. r = Hello => s = HelloSerial
  OBVIOUS
<1> HIDE DEF x, s, r
<1> QED
  BY <1>1, <1>2, <1>3, <1>4, <1>5, <1>6, <1>7, <1>8, RecordAdded

LEMMA RecordStep == RecordType /\ RecordInv /\ [Next]_vars => RecordType' /\ RecordInv'
<1> SUFFICES ASSUME RecordType, RecordInv, [Next]_vars PROVE RecordType' /\ RecordInv'
  OBVIOUS
<1>1. ASSUME crash = "none", UNCHANGED <<pending, reply>>,
             nextSerial' \in {nextSerial, nextSerial + 1},
             state' = state \/ state' # "Authenticating",
             UNCHANGED cancel \/ cancel' = NotCancelling
             \/ BeginClose(DOMAIN pending, "return") \/ BeginClose(DOMAIN pending, "pop")
      PROVE  RecordType' /\ RecordInv'
  <2>1. CASE UNCHANGED cancel \/ cancel' = NotCancelling
    <3>1. NotCancelling \in CancelRecord /\ ~NotCancelling.on
      BY DEF NotCancelling, CancelRecord
    <3>2. cancel' \in CancelRecord /\ CancelOK(cancel', DOMAIN pending)
      BY <1>1, <2>1, <3>1 DEF RecordType, RecordInv, CancelOK
    <3> QED
      BY <1>1, <3>2, RecordsKept
  <2>2. CASE BeginClose(DOMAIN pending, "return") \/ BeginClose(DOMAIN pending, "pop")
    <3>1. DOMAIN pending \in SUBSET Nat /\ CancelOK(cancel, DOMAIN pending)
      BY <1>1, Records
    <3>2. cancel' \in CancelRecord /\ CancelOK(cancel', DOMAIN pending)
      BY <2>2, <3>1, CloseBegins
    <3> QED
      BY <1>1, <3>2, RecordsKept
  <2> QED
    BY <1>1, <2>1, <2>2
<1>2. CASE UNCHANGED vars
  BY <1>2 DEF vars, RecordType, RecordInv, RecordOK, Recording
<1>3. CASE \/ CancelReply \/ RefuseFront \/ Receive
           \/ \E r \in Reply : Send(r) \/ Destroy(r) \/ AssignOver(r)
           \/ \E r \in Reply \cup {Hello} : TimesOut(r)
  BY <1>3, CancelReplyRecord, RefuseFrontRecord, ReceiveRecord, SendRecord, DestroyRecord,
     AssignOverRecord, TimesOutRecord DEF Party
<1>4. CASE ReadAuth
  <2>1. /\ crash = "none" /\ ~cancel.on /\ state = "Authenticating" /\ UNCHANGED nextSerial
    BY <1>4 DEF ReadAuth, Running
  <2>2. \/ SayHello
        \/ UNCHANGED <<state, pending, reply, cancel>>
        \/ BeginClose(DOMAIN pending, "return") /\ UNCHANGED <<state, pending, reply>>
    BY <1>4 DEF ReadAuth, FailAuth
  <2> QED
    BY <1>1, <2>1, <2>2, SayHelloRecord
<1>5. CASE EndClose
  <2>1. crash = "none" /\ UNCHANGED <<pending, reply, nextSerial>> /\ state' = "Unconnected"
        /\ cancel' = NotCancelling
    BY <1>5 DEF EndClose
  <2> QED
    BY <1>1, <2>1
<1>6. CASE LoseFront
  <2>1. crash = "none" /\ UNCHANGED <<pending, reply, nextSerial, state>>
    BY <1>6 DEF LoseFront, FrontIsSent, Running
  <2>2. BeginClose(DOMAIN pending, "return") \/ BeginClose(DOMAIN pending, "pop")
    BY <1>6 DEF LoseFront
  <2> QED
    BY <1>1, <2>1, <2>2
<1>7. CASE Close \/ LosePeer
  <2>1. crash = "none" /\ UNCHANGED <<pending, reply, nextSerial, state>>
        /\ BeginClose(DOMAIN pending, "return")
    BY <1>7 DEF Close, LosePeer, MayCall, Running
  <2> QED
    BY <1>1, <2>1
<1>8. CASE SendNoReply \/ Wait \/ ClientConnects \/ WriteFront \/ PeerAnswersAuth \/ PeerCloses
           \/ \E serial \in 1..MaxSerial : PeerReplies(serial)
  <2>1. /\ crash = "none" /\ UNCHANGED <<pending, reply, cancel>>
        /\ nextSerial' \in {nextSerial, nextSerial + 1}
        /\ state' = state \/ state' # "Authenticating"
    BY <1>8 DEF SendNoReply, Wait, ClientConnects, WriteFront, PeerAnswersAuth, PeerCloses,
                PeerReplies, MayCall, Running, FrontIsSent
  <2> QED
    BY <1>1, <2>1
<1> QED
  BY <1>2, <1>3, <1>4, <1>5, <1>6, <1>7, <1>8 DEF Next

\* A PendingReply waits exactly as long as the connection has its record, through replies,
\* timeouts, errors, destruction, assignment, and calls made while all are cancelled, for any
\* number of PendingReplies and serials.
THEOREM RecordsAgree == Spec => []RecordsMatchReplies
<1>1. RecordType /\ RecordInv => RecordsMatchReplies
  BY DEF RecordType, RecordInv, RecordOK, Recording, RecordsMatchReplies
<1> QED
  BY <1>1, RecordInit, RecordStep, PTL DEF Spec
=============================================================================
