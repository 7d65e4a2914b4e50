---------------------------- MODULE EventLoopProof ----------------------------
(***************************************************************************)
(* Proofs about EventLoop, for any set of connections and descriptors.     *)
(*                                                                         *)
(* WatchedAsAsked is not inductive: that nothing else is watched depends   *)
(* on the listeners being keyed by the descriptor each object has now, and *)
(* that a descriptor which is given out again is not watched depends on    *)
(* every descriptor that is held being taken (Plumbed, IncomingOK).        *)
(* NotifiedAsRequested follows from what remains true of the entries of a  *)
(* batch that wait while callbacks run (BatchInv).                         *)
(***************************************************************************)
EXTENDS EventLoop, SequenceTheorems, WellFoundedInduction, TLAPS

-----------------------------------------------------------------------------
(* Types.                                                                  *)

Interests == {"Read", "Write"}
Table(S) == UNION {[D -> S] : D \in SUBSET Fd}

ObjectRecord ==
  [state : {"none", "open", "waiting", "listening", "closed", "gone"},
   fd : Fd \cup {NoFd}, interest : SUBSET Interests, attached : BOOLEAN,
   watched : SUBSET Interests]
SocketRecord ==
  [kind : {"free", "stream", "listening"}, waiting : Int,
   peer : {"there", "done", "gone"}]
IoRecord ==
  [object : [Object -> ObjectRecord], listeners : Table(Object),
   poller : Table(SUBSET Interests), sock : [Fd -> SocketRecord]]

Entry == [fd : Fd \cup {Pipe}, events : SUBSET {"Read", "Write", "HangUp"},
          of : Object \cup {None}]
LoopRecord ==
  [at : {"application", "batch", "reading", "aux"}, batch : SUBSET Entry, current : SUBSET Entry,
   action : {"NoInterrupt", "Stop", "ProcessAuxEvents"}, aux : Int]

LoopType == loop \in LoopRecord /\ events \in Nat

-----------------------------------------------------------------------------
(* Tables keyed by descriptors.                                            *)

\* With and Without an entry, a table is still one.
LEMMA WithTable ==
  ASSUME NEW S, NEW f \in Table(S), NEW x \in Fd, NEW v \in S
  PROVE  With(f, x, v) \in Table(S)
<1>1. PICK D \in SUBSET Fd : f \in [D -> S]
  BY DEF Table
<1>2. With(f, x, v) \in [D \cup {x} -> S]
  BY <1>1 DEF With
<1>3. D \cup {x} \in SUBSET Fd
  OBVIOUS
<1> QED
  BY <1>1, <1>2, <1>3 DEF Table

LEMMA WithoutTable ==
  ASSUME NEW S, NEW f \in Table(S), NEW x
  PROVE  Without(f, x) \in Table(S)
<1>1. PICK D \in SUBSET Fd : f \in [D -> S]
  BY DEF Table
<1>2. Without(f, x) \in [D \ {x} -> S]
  BY <1>1 DEF Without
<1>3. D \ {x} \in SUBSET Fd
  OBVIOUS
<1> QED
  BY <1>1, <1>2, <1>3 DEF Table

LEMMA ReplacedTable ==
  ASSUME NEW S, NEW f \in Table(S), NEW x \in DOMAIN f, NEW v \in S
  PROVE  /\ [f EXCEPT ![x] = v] \in Table(S)
         /\ DOMAIN [f EXCEPT ![x] = v] = DOMAIN f
BY DEF Table

LEMMA TableType ==
  ASSUME NEW S, NEW f \in Table(S)
  PROVE  DOMAIN f \subseteq Fd /\ \A x \in DOMAIN f : f[x] \in S
BY DEF Table

\* A set of descriptors that is not empty has a lowest one.
LEMMA MinIsMember == ASSUME NEW S \in SUBSET Nat, S # {} PROVE Min(S) \in S
<1> DEFINE R == {ss \in Nat \X Nat : ss[1] < ss[2]}
<1>1. IsWellFoundedOn(R, Nat)
  BY NatLessThanWellFounded DEF OpToRel
<1>2. \A x, y \in Nat : y < x => <<y, x>> \in R
  OBVIOUS
<1> HIDE DEF R
<1>3. PICK x \in S : \A y \in S : ~ (<<y, x>> \in R)
  BY <1>1, WFMin
<1>4. \A y \in S : ~(y < x)
  BY <1>2, <1>3
<1>5. \A y \in S : x <= y
  BY <1>4
<1> QED
  BY <1>5 DEF Min

\* The kernel gives out a descriptor that is free.
LEMMA NewFdIsFree ==
  ASSUME NEW s, FreeFds(s) # {}
  PROVE  NewFd(s) \in Fd /\ NewFd(s) # NoFd /\ s.sock[NewFd(s)].kind = "free"
<1>1. FreeFds(s) \in SUBSET Nat /\ FreeFds(s) \subseteq Fd
  BY ConnAssumption DEF FreeFds
<1>2. NewFd(s) \in FreeFds(s)
  BY <1>1, MinIsMember DEF NewFd
<1> QED
  BY <1>2, ConnAssumption DEF FreeFds, NoFd

-----------------------------------------------------------------------------
(* The plumbing.                                                           *)

\* The object o has a descriptor, and the dispatcher and the poller know it.
Wired(s, o) ==
  LET f == s.object[o].fd IN
  /\ f \in DOMAIN s.listeners /\ f \in DOMAIN s.poller
  /\ s.listeners[f] = o
  /\ s.object[o].watched = s.object[o].interest
  /\ s.poller[f] = s.object[o].interest
  /\ s.sock[f].kind # "free"

Plumbed(s) ==
  /\ DOMAIN s.poller = DOMAIN s.listeners
  /\ \A f \in DOMAIN s.listeners : s.object[s.listeners[f]].fd = f
  /\ \A o \in Object :
        /\ s.object[o].attached <=> s.object[o].fd # NoFd
        /\ s.object[o].fd # NoFd => Wired(s, o)
        /\ s.object[o].state = "none" => s.object[o].fd = NoFd

OpenIsWired(s) ==
  \A o \in Object : s.object[o].state = "open" => s.object[o].fd # NoFd

OnlyServerListens(s) ==
  \A o \in Object : s.object[o].state = "listening" => o = Server

\* Only the object o may differ, and nothing about the sockets does.
OnlyObject(s, t, o) ==
  /\ t.sock = s.sock
  /\ \A p \in Object : p # o => t.object[p] = s.object[p]

\* The fields of an object that is wired.
Has(r, state, fd, interest) ==
  r.state = state /\ r.fd = fd /\ r.interest = interest /\ r.attached /\ r.watched = interest

\* What is in a record of this type.
LEMMA IoFields ==
  ASSUME NEW s \in IoRecord, NEW o \in Object
  PROVE  /\ s.object \in [Object -> ObjectRecord] /\ s.object[o] \in ObjectRecord
         /\ s.listeners \in Table(Object) /\ s.poller \in Table(SUBSET Interests)
         /\ s.sock \in [Fd -> SocketRecord]
BY DEF IoRecord

\* The object o is replaced.
LEMMA ObjectReplaced ==
  ASSUME NEW s \in IoRecord, NEW o \in Object, NEW r \in ObjectRecord
  PROVE  LET t == [s EXCEPT !.object[o] = r] IN
         /\ t \in IoRecord
         /\ t.object[o] = r /\ \A p \in Object : p # o => t.object[p] = s.object[p]
         /\ t.listeners = s.listeners /\ t.poller = s.poller /\ t.sock = s.sock
BY DEF IoRecord

LEMMA RegisteredIo ==
  ASSUME NEW s \in IoRecord, NEW f \in Fd, f \notin DOMAIN s.listeners, NEW o \in Object,
         NEW i \in SUBSET Interests
  PROVE  LET t == Registered(s, f, o, i) IN
         /\ t \in IoRecord
         /\ t.listeners = With(s.listeners, f, o) /\ t.poller = With(s.poller, f, i)
         /\ t.object = s.object /\ t.sock = s.sock
<1>1. s.listeners \in Table(Object) /\ s.poller \in Table(SUBSET Interests)
  BY DEF IoRecord
<1>2. With(s.listeners, f, o) \in Table(Object) /\ With(s.poller, f, i) \in Table(SUBSET Interests)
  BY <1>1, WithTable
<1> QED
  BY <1>2 DEF Registered, IoRecord

LEMMA AttachedIo ==
  ASSUME NEW s \in IoRecord, NEW o \in Object, s.object[o].fd \in Fd,
         s.object[o].fd \notin DOMAIN s.listeners
  PROVE  LET t == Attached(s, o)  f == s.object[o].fd  i == s.object[o].interest IN
         /\ t \in IoRecord
         /\ Has(t.object[o], s.object[o].state, f, i)
         /\ \A p \in Object : p # o => t.object[p] = s.object[p]
         /\ t.listeners = With(s.listeners, f, o) /\ t.poller = With(s.poller, f, i)
         /\ t.sock = s.sock
<1> DEFINE r == [s.object[o] EXCEPT !.attached = TRUE, !.watched = s.object[o].interest]
           u == [s EXCEPT !.object[o] = r]
<1>1. s.object[o] \in ObjectRecord
  BY DEF IoRecord
<1>2. r \in ObjectRecord /\ r.fd = s.object[o].fd /\ r.watched = s.object[o].interest
      /\ s.object[o].interest \in SUBSET Interests
  BY <1>1 DEF ObjectRecord
<1>3. Attached(s, o) = Registered(u, r.fd, o, r.watched)
  BY DEF Attached
<1>x. Has(r, s.object[o].state, s.object[o].fd, s.object[o].interest)
  BY <1>1 DEF ObjectRecord, Has
<1> HIDE DEF r
<1>4. /\ u \in IoRecord
      /\ u.object[o] = r /\ \A p \in Object : p # o => u.object[p] = s.object[p]
      /\ u.listeners = s.listeners /\ u.poller = s.poller /\ u.sock = s.sock
  BY <1>2, ObjectReplaced
<1> HIDE DEF u
<1> QED
  BY <1>2, <1>3, <1>4, <1>x, RegisteredIo

\* setIoInterest on an object that is wired.
LEMMA WithInterestIo ==
  ASSUME NEW s \in IoRecord, NEW o \in Object, s.object[o].attached,
         s.object[o].fd \in DOMAIN s.poller, NEW i \in SUBSET Interests
  PROVE  LET t == WithInterest(s, o, i)  f == s.object[o].fd IN
         /\ t \in IoRecord
         /\ Has(t.object[o], s.object[o].state, f, i)
         /\ \A p \in Object : p # o => t.object[p] = s.object[p]
         /\ t.listeners = s.listeners /\ t.sock = s.sock
         /\ t.poller = [s.poller EXCEPT ![f] = i]
<1> DEFINE r == [s.object[o] EXCEPT !.interest = i]
           q == [s.object[o] EXCEPT !.interest = i, !.watched = i]
           a == [s EXCEPT !.object[o] = r]
           b == [s EXCEPT !.object[o] = q]
           f == s.object[o].fd
<1>1. s.object[o] \in ObjectRecord
  BY IoFields
<1>2. /\ r \in ObjectRecord /\ q \in ObjectRecord
      /\ r.attached /\ r.fd = f /\ r.interest = i /\ q.fd = f /\ q.interest = i
      /\ q = [r EXCEPT !.watched = i]
  BY <1>1 DEF ObjectRecord
<1>3. a = [s EXCEPT !.object[o].interest = i]
  BY <1>1 DEF IoRecord
<1>x. Has(q, s.object[o].state, f, i)
  BY <1>1, <1>2 DEF ObjectRecord, Has
<1> HIDE DEF r, q
<1>4. /\ a \in IoRecord /\ a.object[o] = r
      /\ [a EXCEPT !.object[o].watched = i] = b
  <2>1. a \in IoRecord /\ a.object[o] = r
    BY <1>2, ObjectReplaced
  <2>2. [a EXCEPT !.object[o].watched = i] = [a EXCEPT !.object[o] = q]
    BY <1>2, <2>1 DEF IoRecord
  <2>3. [a EXCEPT !.object[o] = q] = b
    BY DEF IoRecord
  <2> QED
    BY <2>1, <2>2, <2>3
<1>5. /\ b \in IoRecord
      /\ b.object[o] = q /\ \A p \in Object : p # o => b.object[p] = s.object[p]
      /\ b.listeners = s.listeners /\ b.poller = s.poller /\ b.sock = s.sock
  BY <1>2, ObjectReplaced
<1> HIDE DEF a, b
<1>6. WithInterest(s, o, i) = Forwarded(a, o)
  BY <1>2, <1>3, <1>4 DEF WithInterest
<1>7. Forwarded(a, o) = Repolled(b, f, i)
  BY <1>2, <1>4 DEF Forwarded
<1>8. Repolled(b, f, i) = [b EXCEPT !.poller[f] = i]
  BY <1>5 DEF Repolled
<1>9. [s.poller EXCEPT ![f] = i] \in Table(SUBSET Interests)
  BY IoFields, ReplacedTable
<1> QED
  BY <1>5, <1>6, <1>7, <1>8, <1>9, <1>x DEF IoRecord

\* A transport that is connected is wired.
LEMMA ConnectedIo ==
  ASSUME NEW s \in IoRecord, Plumbed(s), NEW c \in Object, NEW f \in Fd,
         f \notin DOMAIN s.listeners, s.sock[f].kind # "free", s.object[c].fd = NoFd
  PROVE  LET t == Connected(s, c, f) IN
         /\ t \in IoRecord /\ Plumbed(t) /\ OnlyObject(s, t, c)
         /\ t.object[c].state = "open" /\ t.object[c].fd = f
         /\ t.listeners = With(s.listeners, f, c)
<1> DEFINE r == [s.object[c] EXCEPT !.state = "open", !.fd = f, !.interest = {}]
           a == [s EXCEPT !.object[c] = r]
           b == Attached(a, c)
           t == Connected(s, c, f)
<1>1. s.object[c] \in ObjectRecord /\ f # NoFd /\ {} \in SUBSET Interests /\ {"Read"} \in SUBSET Interests
  BY IoFields, ConnAssumption DEF NoFd, Interests
<1>2. /\ r \in ObjectRecord
      /\ r.state = "open" /\ r.fd = f /\ r.interest = {}
  BY <1>1 DEF ObjectRecord
<1>3. t = WithInterest(b, c, {"Read"})
  BY DEF Connected
<1> HIDE DEF r, t
<1>4. /\ a \in IoRecord
      /\ a.object[c] = r /\ \A p \in Object : p # c => a.object[p] = s.object[p]
      /\ a.listeners = s.listeners /\ a.poller = s.poller /\ a.sock = s.sock
  BY <1>2, ObjectReplaced
<1> HIDE DEF a
<1>5. /\ b \in IoRecord
      /\ Has(b.object[c], "open", f, {})
      /\ \A p \in Object : p # c => b.object[p] = s.object[p]
      /\ b.listeners = With(s.listeners, f, c) /\ b.poller = With(s.poller, f, {})
      /\ b.sock = s.sock
  <2>1. a.object[c].state = "open" /\ a.object[c].fd = f /\ a.object[c].interest = {}
    BY <1>2, <1>4
  <2>2. a.object[c].fd \in Fd /\ a.object[c].fd \notin DOMAIN a.listeners
    BY <1>4, <2>1
  <2>3. LET i == a.object[c].interest  g == a.object[c].fd IN
        /\ b \in IoRecord
        /\ Has(b.object[c], a.object[c].state, g, i)
        /\ \A p \in Object : p # c => b.object[p] = a.object[p]
        /\ b.listeners = With(a.listeners, g, c) /\ b.poller = With(a.poller, g, i)
        /\ b.sock = a.sock
    <3>1. a \in IoRecord
      BY <1>4
    <3> QED
      BY <2>2, <3>1, AttachedIo
  <2> QED
    BY <1>4, <2>1, <2>3
<1> HIDE DEF b
<1>6. /\ b.object[c].attached /\ b.object[c].state = "open" /\ b.object[c].fd = f
  BY <1>5 DEF Has
<1>7. /\ DOMAIN b.listeners = DOMAIN s.listeners \cup {f} /\ b.listeners[f] = c
      /\ \A g \in DOMAIN s.listeners : g # f => b.listeners[g] = s.listeners[g]
  <2>1. b.listeners = With(s.listeners, f, c)
    BY <1>5
  <2> QED
    BY <2>1 DEF With
<1>8. /\ DOMAIN b.poller = DOMAIN s.poller \cup {f}
      /\ \A g \in DOMAIN s.poller : g # f => b.poller[g] = s.poller[g]
  <2>1. b.poller = With(s.poller, f, {})
    BY <1>5
  <2> QED
    BY <2>1 DEF With
<1>9. /\ t \in IoRecord
      /\ Has(t.object[c], "open", f, {"Read"})
      /\ \A p \in Object : p # c => t.object[p] = s.object[p]
      /\ t.listeners = b.listeners /\ t.sock = s.sock
      /\ t.poller = [b.poller EXCEPT ![f] = {"Read"}]
  <2>1. b.object[c].fd \in DOMAIN b.poller
    BY <1>6, <1>8
  <2> DEFINE i == {"Read"}
  <2>2. b \in IoRecord /\ i \in SUBSET Interests /\ t = WithInterest(b, c, i)
    BY <1>1, <1>3, <1>5
  <2> HIDE DEF i
  <2>3. /\ t \in IoRecord
        /\ Has(t.object[c], "open", f, i)
        /\ \A p \in Object : p # c => t.object[p] = b.object[p]
        /\ t.listeners = b.listeners /\ t.sock = b.sock
        /\ t.poller = [b.poller EXCEPT ![f] = i]
    BY <1>6, <2>1, <2>2, WithInterestIo
  <2> QED
    BY <1>5, <2>3 DEF i
<1>10. /\ t.object[c].state = "open" /\ t.object[c].fd = f /\ t.object[c].attached
       /\ t.object[c].interest = {"Read"} /\ t.object[c].watched = {"Read"}
  BY <1>9 DEF Has
<1>11. /\ t.poller[f] = {"Read"} /\ DOMAIN t.poller = DOMAIN s.poller \cup {f}
       /\ \A g \in DOMAIN s.poller : g # f => t.poller[g] = s.poller[g]
  BY <1>8, <1>9, IoFields
<1>12. Plumbed(t)
  <2>1. DOMAIN t.poller = DOMAIN t.listeners
    BY <1>7, <1>9, <1>11 DEF Plumbed
  <2>2. \A g \in DOMAIN t.listeners : t.object[t.listeners[g]].fd = g
    <3>1. \A g \in DOMAIN s.listeners : g \in Fd /\ s.listeners[g] \in Object
      BY IoFields, TableType
    <3>2. \A g \in DOMAIN s.listeners : s.listeners[g] # c
      BY <3>1, ConnAssumption DEF Plumbed, NoFd
    <3> QED
      BY <1>7, <1>9, <1>10, <3>1, <3>2 DEF Plumbed
  <2>3. Wired(t, c)
    BY <1>1, <1>7, <1>9, <1>10, <1>11 DEF Wired
  <2>4. ASSUME NEW o \in Object, o # c
        PROVE  /\ t.object[o].attached <=> t.object[o].fd # NoFd
               /\ t.object[o].fd # NoFd => Wired(t, o)
               /\ t.object[o].state = "none" => t.object[o].fd = NoFd
    BY <1>7, <1>9, <1>11, <2>4 DEF Plumbed, Wired
  <2> QED
    BY <1>1, <1>10, <2>1, <2>2, <2>3, <2>4 DEF Plumbed
<1> QED
  BY <1>5, <1>9, <1>10, <1>12 DEF OnlyObject, t

\* The sockets that are made and the objects that are opened.
LEMMA NewRecords ==
  /\ Free \in SocketRecord
  /\ Stream \in SocketRecord /\ Stream.kind = "stream"
  /\ Listening \in SocketRecord /\ Listening.kind = "listening"
  /\ NotOpen \in ObjectRecord /\ NotOpen.fd = NoFd /\ ~NotOpen.attached
  /\ NotOpen.state = "none"
<1>1. Free \in SocketRecord
  BY DEF Free, SocketRecord
<1>2. Stream \in SocketRecord /\ Stream.kind = "stream"
  BY <1>1 DEF Stream, SocketRecord
<1>3. Listening \in SocketRecord /\ Listening.kind = "listening"
  BY <1>1 DEF Listening, SocketRecord
<1>4. /\ NotOpen \in ObjectRecord /\ NotOpen.fd = NoFd /\ ~NotOpen.attached
      /\ NotOpen.state = "none"
  BY DEF NotOpen, ObjectRecord, Interests
<1> QED
  BY <1>1, <1>2, <1>3, <1>4

\* A descriptor that is closed is not watched any more, by anyone.
LEMMA ClosedIo ==
  ASSUME NEW s \in IoRecord, Plumbed(s), NEW o \in Object
  PROVE  LET t == Closed(s, o)  f == s.object[o].fd IN
         /\ t \in IoRecord /\ Plumbed(t)
         /\ t.object[o].fd = NoFd /\ t.object[o].state = s.object[o].state
         /\ \A p \in Object : p # o => t.object[p] = s.object[p]
         /\ \A g \in Fd : g # f => t.sock[g] = s.sock[g]
         /\ DOMAIN t.listeners = DOMAIN s.listeners \ {f}
         /\ \A g \in DOMAIN t.listeners : t.listeners[g] = s.listeners[g]
<1> DEFINE f == s.object[o].fd
           q == [s.object[o] EXCEPT !.attached = FALSE]
           r == [s.object[o] EXCEPT !.attached = FALSE, !.fd = NoFd]
           a == [s EXCEPT !.object[o] = q]
           b == Unregistered(a, f)
           t == Closed(s, o)
<1>1. /\ s.object[o] \in ObjectRecord /\ f \in Fd \cup {NoFd} /\ NoFd \notin Fd
      /\ DOMAIN s.listeners \subseteq Fd
  BY IoFields, TableType, ConnAssumption DEF NoFd, ObjectRecord
<1>2. CASE f = NoFd
  BY <1>1, <1>2 DEF Closed
<1>3. CASE f # NoFd
  <2>1. Wired(s, o) /\ s.object[o].attached
    BY <1>3 DEF Plumbed
  <2>2. t = PlatformClose(b, o)
    <3>1. a = [s EXCEPT !.object[o].attached = FALSE]
      BY <1>1 DEF IoRecord
    <3> QED
      BY <1>3, <2>1, <3>1 DEF Closed, Removed, Detached
  <2>3. /\ q \in ObjectRecord /\ q.fd = f /\ r = [q EXCEPT !.fd = NoFd] /\ r \in ObjectRecord
        /\ r.fd = NoFd /\ r.state = s.object[o].state /\ ~r.attached
    BY <1>1 DEF ObjectRecord
  <2> HIDE DEF q, r, t
  <2>4. /\ a \in IoRecord
        /\ a.object[o] = q /\ \A p \in Object : p # o => a.object[p] = s.object[p]
        /\ a.listeners = s.listeners /\ a.poller = s.poller /\ a.sock = s.sock
    BY <2>3, ObjectReplaced
  <2>5. f \in Fd /\ f \in DOMAIN a.listeners
    BY <1>1, <1>3, <2>1, <2>4 DEF Wired
  <2>6. /\ Without(s.listeners, f) \in Table(Object)
        /\ Without(s.poller, f) \in Table(SUBSET Interests)
        /\ Without(Without(s.poller, f), f) \in Table(SUBSET Interests)
    BY IoFields, WithoutTable
  <2> HIDE DEF a, f
  <2>7. /\ b \in IoRecord /\ b.object = a.object /\ b.sock = s.sock
        /\ b.listeners = Without(s.listeners, f) /\ b.poller = Without(s.poller, f)
    BY <2>4, <2>5, <2>6 DEF Unregistered, IoRecord
  <2> HIDE DEF b
  <2>8. /\ t.object = [b.object EXCEPT ![o] = r] /\ t.object \in [Object -> ObjectRecord]
        /\ t.listeners = Without(s.listeners, f)
        /\ t.poller = Without(Without(s.poller, f), f)
        /\ t.sock = [s.sock EXCEPT ![f] = Free] /\ t.sock \in [Fd -> SocketRecord]
        /\ t \in IoRecord
    <3>1. Free \in SocketRecord
      BY NewRecords
    <3>2. b.object[o] = q /\ b.object[o].fd = f
      BY <2>3, <2>4, <2>7
    <3>3. t = [b EXCEPT !.sock[f] = Free, !.poller = Without(@, f), !.object[o].fd = NoFd]
      BY <2>2, <3>2 DEF PlatformClose
    <3>4. t = [b EXCEPT !.sock[f] = Free, !.poller = Without(@, f), !.object[o] = r]
      BY <2>3, <2>7, <3>2, <3>3 DEF IoRecord
    <3> QED
      BY <2>3, <2>5, <2>6, <2>7, <3>1, <3>4 DEF IoRecord
  <2>9. /\ t.object[o] = r /\ \A p \in Object : p # o => t.object[p] = s.object[p]
        /\ DOMAIN t.listeners = DOMAIN s.listeners \ {f}
        /\ \A g \in DOMAIN t.listeners : t.listeners[g] = s.listeners[g]
        /\ DOMAIN t.poller = DOMAIN s.poller \ {f}
        /\ \A g \in DOMAIN t.poller : t.poller[g] = s.poller[g]
        /\ \A g \in Fd : g # f => t.sock[g] = s.sock[g]
    <3>1. \A p \in Object : p # o => b.object[p] = s.object[p]
      BY <2>4, <2>7
    <3>2. b.object \in [Object -> ObjectRecord]
      BY <2>7, IoFields
    <3> QED
      BY <2>8, <3>1, <3>2, IoFields DEF Without
  <2>10. Plumbed(t)
    <3>1. \A g \in DOMAIN t.listeners : t.object[t.listeners[g]].fd = g
      <4>1. \A g \in DOMAIN s.listeners : s.listeners[g] \in Object
        BY IoFields, TableType
      <4> QED
        BY <2>9, <4>1 DEF Plumbed, f
    <3>2. ASSUME NEW p \in Object, p # o
          PROVE  /\ t.object[p].attached <=> t.object[p].fd # NoFd
                 /\ t.object[p].fd # NoFd => Wired(t, p)
                 /\ t.object[p].state = "none" => t.object[p].fd = NoFd
      <4>1. s.object[p].fd # NoFd => /\ s.object[p].fd # f /\ s.object[p].fd \in Fd
        BY <1>1, <2>1, <3>2 DEF Plumbed, Wired, f
      <4> QED
        BY <2>9, <3>2, <4>1 DEF Plumbed, Wired
    <3>3. t.object[o].fd = NoFd /\ ~t.object[o].attached
      BY <2>3, <2>9
    <3>4. DOMAIN t.poller = DOMAIN t.listeners
      BY <2>9 DEF Plumbed
    <3> QED
      BY <3>1, <3>2, <3>3, <3>4 DEF Plumbed
  <2> QED
    BY <2>3, <2>8, <2>9, <2>10 DEF f, t
<1> QED
  BY <1>2, <1>3

\* What an object is called has nothing to do with the plumbing.
WithState(s, o, state) == [s EXCEPT !.object[o].state = state]

LEMMA RenamedIo ==
  ASSUME NEW s \in IoRecord, Plumbed(s), NEW o \in Object, NEW state \in {"closed", "gone"}
  PROVE  LET t == WithState(s, o, state) IN
         /\ t \in IoRecord /\ Plumbed(t) /\ OnlyObject(s, t, o)
         /\ t.object[o].state = state /\ t.object[o].fd = s.object[o].fd
         /\ t.object[o].interest = s.object[o].interest
         /\ t.object[o].attached = s.object[o].attached
         /\ t.listeners = s.listeners
<1> DEFINE r == [s.object[o] EXCEPT !.state = state]
           t == WithState(s, o, state)
<1>1. /\ s.object[o] \in ObjectRecord /\ r \in ObjectRecord /\ r.state = state
      /\ r.fd = s.object[o].fd /\ r.attached = s.object[o].attached
      /\ r.interest = s.object[o].interest /\ r.watched = s.object[o].watched
  BY IoFields DEF ObjectRecord
<1>2. t = [s EXCEPT !.object[o] = r]
  BY DEF IoRecord, WithState
<1> HIDE DEF r, t
<1>3. /\ t \in IoRecord /\ t.object[o] = r
      /\ \A p \in Object : p # o => t.object[p] = s.object[p]
      /\ t.listeners = s.listeners /\ t.poller = s.poller /\ t.sock = s.sock
  BY <1>1, <1>2, ObjectReplaced
<1>4. Plumbed(t)
  <2>1. \A g \in DOMAIN t.listeners : t.object[t.listeners[g]].fd = g
    <3>1. \A g \in DOMAIN s.listeners : s.listeners[g] \in Object
      BY IoFields, TableType
    <3> QED
      BY <1>1, <1>3, <3>1 DEF Plumbed
  <2> QED
    BY <1>1, <1>3, <2>1 DEF Plumbed, Wired
<1> QED
  BY <1>1, <1>3, <1>4 DEF OnlyObject, t

\* close() leaves the transport neither open nor watched; a server is left alone.
LEMMA ConnectionClosedIo ==
  ASSUME NEW s \in IoRecord, Plumbed(s), NEW c \in Object
  PROVE  LET t == ConnectionClosed(s, c) IN
         /\ t \in IoRecord /\ Plumbed(t) /\ t.object[c].state = "closed"
         /\ \A p \in Object : p # c => t.object[p] = s.object[p]
         /\ \A g \in Fd : g # s.object[c].fd => t.sock[g] = s.sock[g]
         /\ DOMAIN t.listeners \subseteq DOMAIN s.listeners
         /\ \A g \in DOMAIN t.listeners : /\ t.listeners[g] = s.listeners[g]
                                          /\ t.object[t.listeners[g]].interest
                                             = s.object[s.listeners[g]].interest
                                          /\ t.sock[g] = s.sock[g]
<1> DEFINE u == IF s.object[c].state = "open" THEN Closed(s, c) ELSE s
           k == "closed"
           t == WithState(u, c, k)
<1>1. /\ u \in IoRecord /\ Plumbed(u)
      /\ \A p \in Object : p # c => u.object[p] = s.object[p]
      /\ \A g \in Fd : g # s.object[c].fd => u.sock[g] = s.sock[g]
      /\ DOMAIN u.listeners \subseteq DOMAIN s.listeners
      /\ \A g \in DOMAIN u.listeners : /\ u.listeners[g] = s.listeners[g]
                                       /\ u = s \/ g # s.object[c].fd
  BY ClosedIo
<1>2. /\ \A g \in DOMAIN s.listeners : g \in Fd /\ s.listeners[g] \in Object
      /\ \A g \in DOMAIN s.listeners : s.object[s.listeners[g]].fd = g
  BY IoFields, TableType DEF Plumbed
<1>3. ConnectionClosed(s, c) = t
  BY DEF ConnectionClosed, WithState
<1>4. k \in {"closed", "gone"}
  OBVIOUS
<1> HIDE DEF u, k
<1>5. /\ t \in IoRecord /\ Plumbed(t) /\ OnlyObject(u, t, c)
      /\ t.object[c].state = k /\ t.object[c].interest = u.object[c].interest
      /\ t.listeners = u.listeners
  BY <1>1, <1>4, RenamedIo
<1> HIDE DEF t
<1>6. \A g \in DOMAIN t.listeners : /\ t.listeners[g] = s.listeners[g]
                                    /\ t.object[t.listeners[g]].interest
                                       = s.object[s.listeners[g]].interest
                                    /\ t.sock[g] = s.sock[g]
  <2> SUFFICES ASSUME NEW g \in DOMAIN t.listeners
               PROVE  /\ t.listeners[g] = s.listeners[g]
                      /\ t.object[t.listeners[g]].interest = s.object[s.listeners[g]].interest
                      /\ t.sock[g] = s.sock[g]
    OBVIOUS
  <2>1. CASE u = s
    BY <1>2, <1>5, <2>1 DEF OnlyObject
  <2>2. CASE g # s.object[c].fd
    BY <1>1, <1>2, <1>5, <2>2 DEF OnlyObject
  <2> QED
    BY <1>1, <1>5, <2>1, <2>2
<1>7. /\ t \in IoRecord /\ Plumbed(t)
      /\ \A p \in Object : p # c => t.object[p] = s.object[p]
      /\ \A g \in Fd : g # s.object[c].fd => t.sock[g] = s.sock[g]
      /\ DOMAIN t.listeners \subseteq DOMAIN s.listeners
  BY <1>1, <1>5 DEF OnlyObject
<1>8. t.object[c].state = "closed"
  BY <1>5 DEF k
<1> QED
  BY <1>3, <1>6, <1>7, <1>8

\* What happens to the sockets is no matter as long as they stay taken.
LEMMA SocketsIo ==
  ASSUME NEW s \in IoRecord, Plumbed(s), NEW k \in [Fd -> SocketRecord],
         NEW t, t = [s EXCEPT !.sock = k],
         \A g \in DOMAIN s.listeners : s.sock[g].kind # "free" => k[g].kind # "free"
  PROVE  /\ t \in IoRecord /\ Plumbed(t)
         /\ t.object = s.object /\ t.listeners = s.listeners /\ t.sock = k
<1>1. t \in IoRecord /\ t.object = s.object /\ t.listeners = s.listeners
      /\ t.poller = s.poller /\ t.sock = k
  BY DEF IoRecord
<1>2. Plumbed(t)
  BY <1>1 DEF Plumbed, Wired
<1> QED
  BY <1>1, <1>2

\* accept() takes a client off the backlog and gives it a descriptor.
LEMMA AcceptedIo ==
  ASSUME NEW s \in IoRecord, Plumbed(s), NEW o \in Object, NEW f \in Fd,
         s.sock[f].kind = "free"
  PROVE  LET t == Accepted(s, o, f) IN
         /\ t \in IoRecord /\ Plumbed(t)
         /\ t.object = s.object /\ t.listeners = s.listeners
         /\ t.sock[f].kind # "free"
         /\ \A g \in Fd : g # f => t.sock[g].kind = s.sock[g].kind
         /\ \A g \in Fd : g # f /\ g # s.object[o].fd => t.sock[g] = s.sock[g]
<1> DEFINE h == s.object[o].fd
           k == [g \in Fd |-> IF g = f THEN Stream
                              ELSE IF g = h THEN [s.sock[g] EXCEPT !.waiting = @ - 1]
                              ELSE s.sock[g]]
           t == Accepted(s, o, f)
<1>1. s.sock \in [Fd -> SocketRecord] /\ h \in Fd \cup {NoFd} /\ NoFd \notin Fd
  BY IoFields, ConnAssumption DEF NoFd, ObjectRecord
<1>2. Stream \in SocketRecord /\ Stream.kind # "free"
  BY NewRecords
<1>3. \A g \in Fd : /\ [s.sock[g] EXCEPT !.waiting = @ - 1] \in SocketRecord
                    /\ [s.sock[g] EXCEPT !.waiting = @ - 1].kind = s.sock[g].kind
  BY <1>1 DEF SocketRecord
<1>4. k \in [Fd -> SocketRecord]
  BY <1>1, <1>2, <1>3
<1>5. [[s.sock EXCEPT ![h].waiting = @ - 1] EXCEPT ![f] = Stream] = k
  BY <1>1
<1>6. t = [s EXCEPT !.sock = [[s.sock EXCEPT ![h].waiting = @ - 1] EXCEPT ![f] = Stream]]
  BY DEF Accepted, IoRecord
<1>7. /\ k[f] = Stream
      /\ \A g \in Fd : g # f => k[g].kind = s.sock[g].kind
      /\ \A g \in Fd : g # f /\ g # h => k[g] = s.sock[g]
  BY <1>3
<1>8. \A g \in DOMAIN s.listeners : g \in Fd
  BY IoFields, TableType
<1>9. t = [s EXCEPT !.sock = k]
  BY <1>5, <1>6
<1> HIDE DEF k, t
<1>10. \A g \in DOMAIN s.listeners : s.sock[g].kind # "free" => k[g].kind # "free"
  BY <1>2, <1>7, <1>8
<1>11. /\ t \in IoRecord /\ Plumbed(t)
       /\ t.object = s.object /\ t.listeners = s.listeners /\ t.sock = k
  BY <1>4, <1>9, <1>10, SocketsIo
<1> QED
  BY <1>2, <1>7, <1>11 DEF t

\* An object that listens is wired.
LEMMA ListensIo ==
  ASSUME NEW s \in IoRecord, Plumbed(s), NEW o \in Object, FreeFds(s) # {},
         \A g \in DOMAIN s.listeners : s.sock[g].kind # "free",
         s.object[o].fd = NoFd, NEW state \in {"waiting", "listening"}
  PROVE  LET t == Listens(s, o, state)  f == NewFd(s) IN
         /\ t \in IoRecord /\ Plumbed(t)
         /\ t.object[o].state = state /\ t.object[o].fd = f
         /\ \A p \in Object : p # o => t.object[p] = s.object[p]
         /\ \A g \in Fd : g # f => t.sock[g] = s.sock[g]
         /\ t.sock[f].kind # "free"
         /\ DOMAIN t.listeners = DOMAIN s.listeners \cup {f} /\ t.listeners[f] = o
         /\ \A g \in DOMAIN s.listeners : g # f => t.listeners[g] = s.listeners[g]
<1> DEFINE f == NewFd(s)
           i == {"Read"}
           r == [NotOpen EXCEPT !.state = state, !.fd = f, !.interest = i]
           k == [s.sock EXCEPT ![f] = Listening]
           u == [s EXCEPT !.sock = k]
           a == [u EXCEPT !.object[o] = r]
           t == Listens(s, o, state)
<1>1. /\ f \in Fd /\ f # NoFd /\ s.sock[f].kind = "free" /\ f \notin DOMAIN s.listeners
  BY NewFdIsFree
<1>2. t = Attached(a, o)
  <2>1. a = [s EXCEPT !.sock[f] = Listening, !.object[o] = r]
    BY DEF IoRecord
  <2> QED
    BY <2>1 DEF Listens
<1> HIDE DEF f
<1>3. /\ r \in ObjectRecord /\ r.state = state /\ r.fd = f /\ r.interest = i
      /\ i \in SUBSET Interests
  <2>1. i \in SUBSET Interests /\ NotOpen \in ObjectRecord
    BY NewRecords DEF Interests
  <2> HIDE DEF i
  <2> QED
    BY <1>1, <2>1 DEF ObjectRecord
<1>4. Listening \in SocketRecord /\ Listening.kind # "free"
  BY NewRecords
<1>5. /\ k \in [Fd -> SocketRecord] /\ k[f] = Listening
      /\ \A g \in Fd : g # f => k[g] = s.sock[g]
  BY <1>1, <1>4, IoFields
<1>6. \A g \in DOMAIN s.listeners : g \in Fd /\ s.listeners[g] \in Object
  BY IoFields, TableType
<1> HIDE DEF k, r, i, t
<1>7. /\ u \in IoRecord /\ Plumbed(u)
      /\ u.object = s.object /\ u.listeners = s.listeners /\ u.sock = k
  BY <1>4, <1>5, <1>6, SocketsIo
<1> HIDE DEF u
<1>8. /\ a \in IoRecord
      /\ a.object[o] = r /\ \A p \in Object : p # o => a.object[p] = u.object[p]
      /\ a.listeners = u.listeners /\ a.poller = u.poller /\ a.sock = u.sock
  BY <1>3, <1>7, ObjectReplaced
<1> HIDE DEF a
<1>9. a.object[o].fd \in Fd /\ a.object[o].fd \notin DOMAIN a.listeners
  BY <1>1, <1>3, <1>7, <1>8
<1>10. /\ t \in IoRecord
       /\ Has(t.object[o], state, f, i)
       /\ \A p \in Object : p # o => t.object[p] = a.object[p]
       /\ t.listeners = With(a.listeners, f, o) /\ t.poller = With(a.poller, f, i)
       /\ t.sock = a.sock
  BY <1>2, <1>3, <1>8, <1>9, AttachedIo
<1>11. /\ DOMAIN t.listeners = DOMAIN s.listeners \cup {f} /\ t.listeners[f] = o
       /\ \A g \in DOMAIN s.listeners : g # f => t.listeners[g] = s.listeners[g]
  BY <1>7, <1>8, <1>10 DEF With
<1>12. /\ DOMAIN t.poller = DOMAIN u.poller \cup {f} /\ t.poller[f] = i
       /\ \A g \in DOMAIN u.poller : g # f => t.poller[g] = u.poller[g]
  BY <1>8, <1>10 DEF With
<1>13. Plumbed(t)
  <2>1. DOMAIN t.poller = DOMAIN t.listeners
    BY <1>7, <1>11, <1>12 DEF Plumbed
  <2>2. \A p \in Object : p # o => t.object[p] = s.object[p]
    BY <1>7, <1>8, <1>10
  <2>3. \A g \in DOMAIN t.listeners : t.object[t.listeners[g]].fd = g
    <3>1. \A g \in DOMAIN s.listeners : s.listeners[g] # o
      BY <1>6, ConnAssumption DEF Plumbed, NoFd
    <3> QED
      BY <1>1, <1>6, <1>10, <1>11, <2>2, <3>1 DEF Plumbed, Has
  <2>4. Wired(t, o) /\ t.object[o].attached /\ t.object[o].fd # NoFd /\ t.object[o].state # "none"
    BY <1>1, <1>4, <1>5, <1>7, <1>8, <1>10, <1>11, <1>12 DEF Wired, Has
  <2>5. ASSUME NEW p \in Object, p # o
        PROVE  /\ t.object[p].attached <=> t.object[p].fd # NoFd
               /\ t.object[p].fd # NoFd => Wired(t, p)
               /\ t.object[p].state = "none" => t.object[p].fd = NoFd
    <3>1. u.object[p].fd # NoFd => Wired(u, p) /\ u.object[p].fd # f
      BY <1>1, <1>7 DEF Plumbed, Wired
    <3> QED
      BY <1>7, <1>8, <1>10, <1>11, <1>12, <2>5, <3>1 DEF Plumbed, Wired
  <2> QED
    BY <2>1, <2>3, <2>4, <2>5 DEF Plumbed
<1>14. t.object[o].state = state /\ t.object[o].fd = f
  BY <1>10 DEF Has
<1>15. /\ t.sock[f].kind # "free" /\ \A g \in Fd : g # f => t.sock[g] = s.sock[g]
       /\ \A p \in Object : p # o => t.object[p] = s.object[p]
  BY <1>4, <1>5, <1>7, <1>8, <1>10
<1> QED
  BY <1>10, <1>11, <1>13, <1>14, <1>15 DEF t, f

-----------------------------------------------------------------------------
(* What the application and the peers do to the plumbing.                  *)

\* The descriptors nobody has taken yet are not watched, and each is one client.
IncomingOK ==
  /\ \A i \in 1..Len(incoming) : /\ incoming[i] \notin DOMAIN io.listeners
                                 /\ io.sock[incoming[i]].kind # "free"
  /\ \A i, j \in 1..Len(incoming) : incoming[i] = incoming[j] => i = j

IoInv == /\ io \in IoRecord /\ incoming \in Seq(Fd)
         /\ Plumbed(io) /\ OpenIsWired(io) /\ OnlyServerListens(io) /\ IncomingOK

\* There is something to read, or the end of the input.
Input(s, f) == s.sock[f].waiting > 0 \/ s.sock[f].peer # "there"

\* The dispatcher knows f as a descriptor of o.
Knows(s, f, o) == f \in DOMAIN s.listeners /\ s.listeners[f] = o

\* From s to t, an object that was open before gets no other descriptor, unless it
\* stops waiting for its client; what there was to read (but for X) and to write
\* (but for Y) on a descriptor remains.
Keeps(s, t, X, Y) ==
  \A o \in Object : s.object[o].state # "none" =>
     /\ t.object[o].state # "none"
     /\ t.object[o].state = "waiting" =>
           /\ s.object[o].state = "waiting"
           /\ \A f \in Fd : Knows(s, f, o) => Knows(t, f, o)
     /\ \A f \in Fd : Knows(t, f, o) =>
           \/ s.object[o].state = "waiting" /\ ~Knows(s, f, o)
           \/ /\ Knows(s, f, o)
              /\ Input(s, f) /\ f \notin X => Input(t, f)
              /\ "Write" \in s.object[o].interest /\ f \notin Y
                 => "Write" \in t.object[o].interest

LEMMA KeepsSame == ASSUME NEW s, NEW X, NEW Y PROVE Keeps(s, s, X, Y)
BY DEF Keeps

\* A descriptor that is watched belongs to an object, which is wired.
LEMMA ListenersWired ==
  ASSUME NEW s \in IoRecord, Plumbed(s), NEW f \in DOMAIN s.listeners
  PROVE  /\ f \in Fd /\ f # NoFd /\ s.listeners[f] \in Object
         /\ s.object[s.listeners[f]].fd = f /\ Wired(s, s.listeners[f])
         /\ s.object[s.listeners[f]].attached
         /\ s.sock[f].kind # "free"
<1>1. f \in Fd /\ s.listeners[f] \in Object
  <2>1. s.listeners \in Table(Object)
    BY DEF IoRecord
  <2> QED
    BY <2>1, TableType
<1>2. s.object[s.listeners[f]].fd = f
  BY DEF Plumbed
<1>3. f # NoFd
  BY <1>1, ConnAssumption DEF NoFd
<1> QED
  BY <1>1, <1>2, <1>3 DEF Plumbed, Wired

\* A connection that is opened, with a descriptor nobody has.
LEMMA OpenClientIo ==
  ASSUME IoInv, NEW c \in Conn, OpenClient(c)
  PROVE  IoInv' /\ Keeps(io, io', {}, {})
<1> DEFINE f == NewFd(io)
           k == [io.sock EXCEPT ![f] = Stream]
           u == [io EXCEPT !.sock = k]
<1>1. /\ f \in Fd /\ f # NoFd /\ io.sock[f].kind = "free" /\ f \notin DOMAIN io.listeners
  BY NewFdIsFree, ListenersWired DEF OpenClient, IoInv
<1>2. /\ c \in Object /\ io.object[c].state = "none" /\ io.object[c].fd = NoFd
      /\ UNCHANGED incoming
  BY DEF OpenClient, State, Object, IoInv, Plumbed
<1>3. io' = Connected(u, c, f)
  BY DEF OpenClient, IoInv, IoRecord
<1> HIDE DEF f
<1>4. /\ k \in [Fd -> SocketRecord] /\ k[f].kind # "free"
      /\ \A g \in Fd : g # f => k[g] = io.sock[g]
  BY <1>1, NewRecords, IoFields DEF IoInv, Object
<1> HIDE DEF k
<1>5. \A g \in DOMAIN io.listeners : k[g].kind # "free"
  BY <1>1, <1>4, ListenersWired DEF IoInv
<1>6. /\ u \in IoRecord /\ Plumbed(u)
      /\ u.object = io.object /\ u.listeners = io.listeners /\ u.sock = k
  BY <1>4, <1>5, SocketsIo DEF IoInv
<1> HIDE DEF u
<1>7. /\ io' \in IoRecord /\ Plumbed(io') /\ OnlyObject(u, io', c)
      /\ io'.object[c].state = "open" /\ io'.object[c].fd = f
      /\ io'.listeners = With(u.listeners, f, c)
  BY <1>1, <1>2, <1>3, <1>4, <1>6, ConnectedIo
<1>8. /\ DOMAIN io'.listeners = DOMAIN io.listeners \cup {f} /\ io'.listeners[f] = c
      /\ \A g \in DOMAIN io.listeners : io'.listeners[g] = io.listeners[g]
  BY <1>1, <1>6, <1>7 DEF With
<1>9. /\ \A p \in Object : p # c => io'.object[p] = io.object[p]
      /\ \A g \in Fd : g # f => io'.sock[g] = io.sock[g]
      /\ io'.sock[f].kind # "free"
  BY <1>4, <1>6, <1>7 DEF OnlyObject
<1>10. IncomingOK' /\ incoming' \in Seq(Fd)
  BY <1>1, <1>2, <1>8, <1>9 DEF IoInv, IncomingOK
<1>11. OpenIsWired(io')
  BY <1>1, <1>7, <1>9 DEF IoInv, OpenIsWired
<1>12. Keeps(io, io', {}, {})
  BY <1>1, <1>2, <1>8, <1>9 DEF Keeps, Knows, Input
<1>13. OnlyServerListens(io')
  BY <1>7, <1>9 DEF IoInv, OnlyServerListens
<1> QED
  BY <1>7, <1>10, <1>11, <1>12, <1>13 DEF IoInv

\* A connection that waits for a client takes a free descriptor as well.
LEMMA OpenWaitingIo ==
  ASSUME IoInv, NEW c \in Conn, OpenWaiting(c)
  PROVE  IoInv' /\ Keeps(io, io', {}, {})
<1> DEFINE f == NewFd(io)
<1>1. /\ f \in Fd /\ f # NoFd /\ io.sock[f].kind = "free" /\ f \notin DOMAIN io.listeners
  BY NewFdIsFree, ListenersWired DEF OpenWaiting, IoInv
<1>2. /\ c \in Object /\ io.object[c].state = "none" /\ io.object[c].fd = NoFd
      /\ UNCHANGED incoming /\ FreeFds(io) # {}
      /\ \A g \in DOMAIN io.listeners : io.sock[g].kind # "free"
  BY ListenersWired DEF OpenWaiting, State, Object, IoInv, Plumbed
<1>3. /\ io' \in IoRecord /\ Plumbed(io')
      /\ io'.object[c].state = "waiting" /\ io'.object[c].fd = f
      /\ \A p \in Object : p # c => io'.object[p] = io.object[p]
      /\ \A g \in Fd : g # f => io'.sock[g] = io.sock[g]
      /\ io'.sock[f].kind # "free"
      /\ DOMAIN io'.listeners = DOMAIN io.listeners \cup {f} /\ io'.listeners[f] = c
      /\ \A g \in DOMAIN io.listeners : g # f => io'.listeners[g] = io.listeners[g]
  BY <1>2, ListensIo DEF OpenWaiting, IoInv
<1> HIDE DEF f
<1>4. IncomingOK' /\ incoming' \in Seq(Fd)
  BY <1>1, <1>2, <1>3 DEF IoInv, IncomingOK
<1>5. OpenIsWired(io') /\ OnlyServerListens(io')
  BY <1>1, <1>3 DEF IoInv, OpenIsWired, OnlyServerListens
<1>6. Keeps(io, io', {}, {})
  BY <1>1, <1>2, <1>3 DEF Keeps, Knows, Input
<1> QED
  BY <1>3, <1>4, <1>5, <1>6 DEF IoInv

\* takeNextClient opens a connection with a descriptor that was put aside.
LEMMA TakeNextClientIo ==
  ASSUME IoInv, NEW c \in Conn, TakeNextClient(c)
  PROVE  IoInv' /\ Keeps(io, io', {}, {})
<1> DEFINE f == incoming[1]
<1>1. /\ incoming \in Seq(Fd) /\ Len(incoming) \in Nat \ {0}
      /\ io' = Connected(io, c, f) /\ incoming' = Tail(incoming)
  BY DEF TakeNextClient, IoInv
<1>2. /\ Len(incoming') = Len(incoming) - 1 /\ incoming' \in Seq(Fd)
      /\ \A i \in 1..Len(incoming') : i + 1 \in 1..Len(incoming) /\ incoming'[i] = incoming[i + 1]
  BY <1>1
<1>3. /\ f \in Fd /\ f # NoFd /\ f \notin DOMAIN io.listeners /\ io.sock[f].kind # "free"
      /\ \A i \in 1..Len(incoming') : incoming'[i] # f
  BY <1>1, <1>2, ConnAssumption DEF IoInv, IncomingOK, NoFd
<1>4. /\ c \in Object /\ io.object[c].state = "none" /\ io.object[c].fd = NoFd
  BY DEF TakeNextClient, State, Object, IoInv, Plumbed
<1> HIDE DEF f
<1>5. /\ io' \in IoRecord /\ Plumbed(io') /\ OnlyObject(io, io', c)
      /\ io'.object[c].state = "open" /\ io'.object[c].fd = f
      /\ io'.listeners = With(io.listeners, f, c)
  BY <1>1, <1>3, <1>4, ConnectedIo DEF IoInv
<1>6. /\ DOMAIN io'.listeners = DOMAIN io.listeners \cup {f} /\ io'.listeners[f] = c
      /\ \A g \in DOMAIN io.listeners : io'.listeners[g] = io.listeners[g]
  BY <1>3, <1>5 DEF With
<1>7. /\ io'.sock = io.sock /\ \A p \in Object : p # c => io'.object[p] = io.object[p]
  BY <1>5 DEF OnlyObject
<1>8. IncomingOK'
  <2>1. ASSUME NEW i \in 1..Len(incoming')
        PROVE  incoming'[i] \notin DOMAIN io'.listeners /\ io'.sock[incoming'[i]].kind # "free"
    <3>1. PICK j : j = i + 1
      OBVIOUS
    <3>2. j \in 1..Len(incoming) /\ incoming'[i] = incoming[j] /\ incoming'[i] # f
      BY <1>2, <1>3, <3>1
    <3>3. incoming[j] \notin DOMAIN io.listeners /\ io.sock[incoming[j]].kind # "free"
      BY <3>2 DEF IoInv, IncomingOK
    <3> QED
      BY <1>6, <1>7, <3>2, <3>3
  <2>2. ASSUME NEW i \in 1..Len(incoming'), NEW j \in 1..Len(incoming'),
               incoming'[i] = incoming'[j]
        PROVE  i = j
    <3>1. incoming[i + 1] = incoming[j + 1] /\ i + 1 \in 1..Len(incoming)
          /\ j + 1 \in 1..Len(incoming)
      BY <1>2, <2>2
    <3>2. i + 1 = j + 1
      BY <3>1 DEF IoInv, IncomingOK
    <3> QED
      BY <1>1, <1>2, <3>2
  <2> QED
    BY <2>1, <2>2 DEF IncomingOK
<1>9. OpenIsWired(io') /\ OnlyServerListens(io')
  BY <1>3, <1>5, <1>7 DEF IoInv, OpenIsWired, OnlyServerListens
<1>10. Keeps(io, io', {}, {})
  BY <1>3, <1>4, <1>6, <1>7 DEF Keeps, Knows, Input
<1> QED
  BY <1>2, <1>5, <1>8, <1>9, <1>10 DEF IoInv

\* Asking for other events changes what is watched, and nothing else.
LEMMA AsksIo ==
  ASSUME IoInv, NEW c \in Object, io.object[c].fd # NoFd, NEW i \in SUBSET Interests,
         io' = WithInterest(io, c, i), UNCHANGED incoming
  PROVE  /\ IoInv'
         /\ \A Y : "Write" \in i \/ Y = {io.object[c].fd} => Keeps(io, io', {}, Y)
<1> DEFINE f == io.object[c].fd
<1>1. /\ io \in IoRecord /\ Wired(io, c) /\ io.object[c].attached
  BY DEF IoInv, Plumbed
<1>2. f \in DOMAIN io.poller /\ f \in DOMAIN io.listeners /\ io.listeners[f] = c
  BY <1>1 DEF Wired
<1>3. /\ io' \in IoRecord
      /\ Has(io'.object[c], io.object[c].state, f, i)
      /\ \A p \in Object : p # c => io'.object[p] = io.object[p]
      /\ io'.listeners = io.listeners /\ io'.sock = io.sock
      /\ io'.poller = [io.poller EXCEPT ![f] = i]
  BY <1>1, <1>2, WithInterestIo
<1>4. /\ io'.object[c].state = io.object[c].state /\ io'.object[c].fd = f
      /\ io'.object[c].interest = i /\ io'.object[c].watched = i /\ io'.object[c].attached
  BY <1>3 DEF Has
<1>5. \A g \in DOMAIN io.listeners : g \in Fd /\ io.listeners[g] \in Object
  BY <1>1, ListenersWired DEF IoInv
<1> HIDE DEF f
<1>6. /\ DOMAIN io'.poller = DOMAIN io.poller /\ io'.poller[f] = i
      /\ \A g \in DOMAIN io.poller : g # f => io'.poller[g] = io.poller[g]
  BY <1>2, <1>3
<1>7. Plumbed(io')
  <2>1. /\ DOMAIN io'.poller = DOMAIN io'.listeners
        /\ \A g \in DOMAIN io'.listeners : io'.object[io'.listeners[g]].fd = g
    BY <1>3, <1>4, <1>5, <1>6 DEF IoInv, Plumbed, f
  <2>2. Wired(io', c) /\ io'.object[c].fd # NoFd
    BY <1>1, <1>2, <1>3, <1>4, <1>6 DEF Wired, f
  <2>3. ASSUME NEW p \in Object, p # c
        PROVE  /\ io'.object[p].attached <=> io'.object[p].fd # NoFd
               /\ io'.object[p].fd # NoFd => Wired(io', p)
               /\ io'.object[p].state = "none" => io'.object[p].fd = NoFd
    <3>1. io.object[p].fd # NoFd => Wired(io, p) /\ io.object[p].fd # f
      BY <1>2, <2>3 DEF IoInv, Plumbed, Wired
    <3> QED
      BY <1>3, <1>6, <2>3, <3>1 DEF IoInv, Plumbed, Wired
  <2>4. io'.object[c].state = "none" => io'.object[c].fd = NoFd
    BY <1>4 DEF IoInv, Plumbed, f
  <2> QED
    BY <1>4, <2>1, <2>2, <2>3, <2>4 DEF Plumbed
<1>8. IncomingOK' /\ incoming' \in Seq(Fd)
  BY <1>3 DEF IoInv, IncomingOK
<1>9. OpenIsWired(io') /\ OnlyServerListens(io')
  BY <1>3, <1>4 DEF IoInv, OpenIsWired, OnlyServerListens, f
<1>10. ASSUME NEW Y, "Write" \in i \/ Y = {f} PROVE Keeps(io, io', {}, Y)
  <2> SUFFICES ASSUME NEW o \in Object, io.object[o].state # "none"
               PROVE  /\ io'.object[o].state = io.object[o].state
                      /\ \A g \in Fd : Knows(io', g, o) => /\ Knows(io, g, o)
                                                           /\ g \notin Y /\ "Write" \in io.object[o].interest
                                                              => "Write" \in io'.object[o].interest
    BY <1>3 DEF Keeps, Knows, Input
  <2>1. CASE o = c
    <3>1. \A g \in Fd : Knows(io, g, c) => g = f
      BY DEF Knows, IoInv, Plumbed, f
    <3> QED
      BY <1>3, <1>4, <1>10, <2>1, <3>1 DEF Knows
  <2>2. CASE o # c
    BY <1>3, <2>2 DEF Knows
  <2> QED
    BY <2>1, <2>2
<1> QED
  BY <1>3, <1>7, <1>8, <1>9, <1>10 DEF IoInv, f

LEMMA SendIo ==
  ASSUME IoInv, NEW c \in Conn, Send(c)
  PROVE  IoInv' /\ Keeps(io, io', {}, {})
<1> DEFINE i == {"Read", "Write"}
<1>1. /\ c \in Object /\ io.object[c].fd # NoFd /\ i \in SUBSET Interests /\ "Write" \in i
      /\ io' = WithInterest(io, c, i) /\ UNCHANGED incoming
  BY DEF Send, IoInv, OpenIsWired, State, Object, Interests
<1> HIDE DEF i
<1> QED
  BY <1>1, AsksIo

\* close() of an object that has been opened.
LEMMA ClosesIo ==
  ASSUME IoInv, NEW c \in Object, io.object[c].state # "none",
         NEW t, t = ConnectionClosed(io, c)
  PROVE  /\ t \in IoRecord /\ Plumbed(t) /\ OpenIsWired(t) /\ OnlyServerListens(t)
         /\ t.object[c].state = "closed"
         /\ \A i \in 1..Len(incoming) : /\ incoming[i] \notin DOMAIN t.listeners
                                        /\ t.sock[incoming[i]].kind # "free"
         /\ Keeps(io, t, {}, {})
<1>1. /\ t \in IoRecord /\ Plumbed(t) /\ t.object[c].state = "closed"
      /\ \A p \in Object : p # c => t.object[p] = io.object[p]
      /\ \A g \in Fd : g # io.object[c].fd => t.sock[g] = io.sock[g]
      /\ DOMAIN t.listeners \subseteq DOMAIN io.listeners
      /\ \A g \in DOMAIN t.listeners : /\ t.listeners[g] = io.listeners[g]
                                       /\ t.object[t.listeners[g]].interest
                                          = io.object[io.listeners[g]].interest
                                       /\ t.sock[g] = io.sock[g]
  BY ConnectionClosedIo DEF IoInv
<1>2. \A i \in 1..Len(incoming) : /\ incoming[i] \notin DOMAIN t.listeners
                                  /\ t.sock[incoming[i]].kind # "free"
  <2> SUFFICES ASSUME NEW i \in 1..Len(incoming)
               PROVE  /\ incoming[i] \notin DOMAIN t.listeners
                      /\ t.sock[incoming[i]].kind # "free"
    OBVIOUS
  <2>1. incoming[i] \in Fd /\ incoming[i] # NoFd
    BY ConnAssumption DEF IoInv, NoFd
  <2>2. incoming[i] \notin DOMAIN io.listeners /\ io.sock[incoming[i]].kind # "free"
    BY DEF IoInv, IncomingOK
  <2>3. incoming[i] # io.object[c].fd
    BY <2>1, <2>2 DEF IoInv, Plumbed, Wired
  <2> QED
    BY <1>1, <2>1, <2>2, <2>3
<1>3. OpenIsWired(t) /\ OnlyServerListens(t)
  BY <1>1 DEF IoInv, OpenIsWired, OnlyServerListens
<1>4. Keeps(io, t, {}, {})
  <2> SUFFICES ASSUME NEW o \in Object, io.object[o].state # "none"
               PROVE  /\ t.object[o].state # "none"
                      /\ t.object[o].state = "waiting" =>
                           /\ io.object[o].state = "waiting"
                           /\ \A f \in Fd : Knows(io, f, o) => Knows(t, f, o)
                      /\ \A f \in Fd : Knows(t, f, o) =>
                           /\ Knows(io, f, o)
                           /\ Input(io, f) => Input(t, f)
                           /\ "Write" \in io.object[o].interest => "Write" \in t.object[o].interest
    BY DEF Keeps
  <2>1. t.object[o].state # "none"
    BY <1>1
  <2>2. ASSUME t.object[o].state = "waiting"
        PROVE  /\ io.object[o].state = "waiting"
               /\ \A f \in Fd : Knows(io, f, o) => Knows(t, f, o)
    <3>1. o # c /\ t.object[o] = io.object[o]
      BY <1>1, <2>2
    <3>2. ASSUME NEW f \in Fd, Knows(io, f, o) PROVE Knows(t, f, o)
      <4>1. io.object[o].fd = f /\ f # NoFd
        BY <3>2, ConnAssumption DEF Knows, IoInv, Plumbed, NoFd
      <4>2. Wired(t, o) /\ t.object[o].fd = f
        BY <1>1, <3>1, <4>1 DEF Plumbed
      <4> QED
        BY <4>2 DEF Wired, Knows
    <3> QED
      BY <2>2, <3>1, <3>2
  <2>3. ASSUME NEW f \in Fd, Knows(t, f, o)
        PROVE  /\ Knows(io, f, o)
               /\ Input(io, f) => Input(t, f)
               /\ "Write" \in io.object[o].interest => "Write" \in t.object[o].interest
    BY <1>1, <2>3 DEF Knows, Input
  <2> QED
    BY <2>1, <2>2, <2>3
<1> QED
  BY <1>1, <1>2, <1>3, <1>4

LEMMA CloseIo ==
  ASSUME IoInv, NEW c \in Conn, Close(c)
  PROVE  IoInv' /\ Keeps(io, io', {}, {})
<1>1. /\ c \in Object /\ io.object[c].state # "none" /\ UNCHANGED incoming
      /\ io' = ConnectionClosed(io, c)
  BY DEF Close, IsOpen, State, Object
<1> QED
  BY <1>1, ClosesIo DEF IoInv, IncomingOK

\* A connection is closed before it is destroyed.
LEMMA DestroyIo ==
  ASSUME IoInv, NEW c \in Conn, Destroy(c)
  PROVE  IoInv' /\ Keeps(io, io', {}, {})
<1> DEFINE s == IF IsOpen(c) THEN ConnectionClosed(io, c) ELSE io
           k == "gone"
           t == WithState(s, c, k)
<1>1. /\ c \in Object /\ io.object[c].state # "none" /\ UNCHANGED incoming
      /\ io' = t /\ k \in {"closed", "gone"}
  BY DEF Destroy, IsOpen, State, Object, WithState
<1>2. /\ s \in IoRecord /\ Plumbed(s) /\ OpenIsWired(s) /\ OnlyServerListens(s)
      /\ s.object[c].state = "closed"
      /\ \A i \in 1..Len(incoming) : /\ incoming[i] \notin DOMAIN s.listeners
                                     /\ s.sock[incoming[i]].kind # "free"
      /\ Keeps(io, s, {}, {})
  <2>1. CASE IsOpen(c)
    BY <1>1, <2>1, ClosesIo
  <2>2. CASE ~IsOpen(c)
    BY <2>2, KeepsSame DEF IoInv, IncomingOK, Destroy, State
  <2> QED
    BY <2>1, <2>2
<1> HIDE DEF s, k
<1>3. /\ t \in IoRecord /\ Plumbed(t) /\ OnlyObject(s, t, c)
      /\ t.object[c].state = k /\ t.object[c].fd = s.object[c].fd
      /\ t.object[c].interest = s.object[c].interest
      /\ t.listeners = s.listeners
  BY <1>1, <1>2, RenamedIo
<1> HIDE DEF t
<1>4. OpenIsWired(t) /\ OnlyServerListens(t)
  BY <1>2, <1>3 DEF OpenIsWired, OnlyServerListens, OnlyObject, k
<1>5. Keeps(io, t, {}, {})
  BY <1>2, <1>3 DEF Keeps, Knows, Input, OnlyObject, k
<1> QED
  BY <1>1, <1>2, <1>3, <1>4, <1>5 DEF IoInv, IncomingOK, OnlyObject

\* The clients nobody has taken are closed with the server.
LEMMA DestroyServerIo ==
  ASSUME IoInv, DestroyServer
  PROVE  IoInv' /\ Keeps(io, io', {}, {})
<1> DEFINE s == Closed(io, Server)
           x == "gone"
           u == WithState(s, Server, x)
           k == [f \in Fd |-> IF \E i \in DOMAIN incoming : incoming[i] = f
                              THEN Free ELSE s.sock[f]]
<1>1. /\ Server \in Object /\ incoming' = <<>> /\ x \in {"closed", "gone"}
      /\ io' = [u EXCEPT !.sock = k]
  BY DEF DestroyServer, Object, WithState
<1>2. /\ s \in IoRecord /\ Plumbed(s)
      /\ s.object[Server].fd = NoFd
      /\ \A p \in Object : p # Server => s.object[p] = io.object[p]
      /\ \A g \in Fd : g # io.object[Server].fd => s.sock[g] = io.sock[g]
      /\ DOMAIN s.listeners = DOMAIN io.listeners \ {io.object[Server].fd}
      /\ \A g \in DOMAIN s.listeners : s.listeners[g] = io.listeners[g]
  BY <1>1, ClosedIo DEF IoInv
<1> HIDE DEF s, x
<1>3. /\ u \in IoRecord /\ Plumbed(u) /\ OnlyObject(s, u, Server)
      /\ u.object[Server].state = x /\ u.listeners = s.listeners
  BY <1>1, <1>2, RenamedIo
<1>4. k \in [Fd -> SocketRecord]
  BY <1>1, <1>2, NewRecords, IoFields
<1>5. \A g \in DOMAIN u.listeners : /\ g \in Fd /\ g # io.object[Server].fd
                                    /\ k[g] = u.sock[g] /\ k[g] = io.sock[g]
  <2> SUFFICES ASSUME NEW g \in DOMAIN u.listeners
               PROVE  /\ g \in Fd /\ g # io.object[Server].fd
                      /\ k[g] = u.sock[g] /\ k[g] = io.sock[g]
    OBVIOUS
  <2>1. g \in Fd
    BY <1>3, ListenersWired
  <2>2. g # io.object[Server].fd /\ s.sock[g] = io.sock[g] /\ u.sock = s.sock
    BY <1>2, <1>3, <2>1 DEF OnlyObject
  <2>3. ~\E i \in DOMAIN incoming : incoming[i] = g
    <3>1. DOMAIN incoming = 1..Len(incoming)
      BY DEF IoInv
    <3>2. g \in DOMAIN io.listeners
      BY <1>2, <1>3
    <3> QED
      BY <3>1, <3>2 DEF IoInv, IncomingOK
  <2> QED
    BY <2>1, <2>2, <2>3
<1> HIDE DEF u, k
<1>6. /\ io' \in IoRecord /\ Plumbed(io')
      /\ io'.object = u.object /\ io'.listeners = u.listeners /\ io'.sock = k
  BY <1>1, <1>3, <1>4, <1>5, SocketsIo
<1>7. IncomingOK' /\ incoming' \in Seq(Fd)
  BY <1>1 DEF IncomingOK
<1>8. OpenIsWired(io') /\ OnlyServerListens(io')
  BY <1>2, <1>3, <1>6 DEF IoInv, OpenIsWired, OnlyServerListens, OnlyObject, x
<1>9. Keeps(io, io', {}, {})
  <2> SUFFICES ASSUME NEW o \in Object, io.object[o].state # "none"
               PROVE  /\ io'.object[o].state # "none"
                      /\ io'.object[o].state = "waiting" =>
                           /\ io.object[o].state = "waiting"
                           /\ \A f \in Fd : Knows(io, f, o) => Knows(io', f, o)
                      /\ \A f \in Fd : Knows(io', f, o) =>
                           /\ Knows(io, f, o)
                           /\ Input(io, f) => Input(io', f)
                           /\ "Write" \in io.object[o].interest => "Write" \in io'.object[o].interest
    BY DEF Keeps
  <2>1. CASE o = Server
    <3>1. \A f \in Fd : ~Knows(io', f, Server)
      BY <1>2, <1>3, <1>6 DEF Knows, IoInv, Plumbed
    <3> QED
      BY <1>3, <1>6, <2>1, <3>1 DEF x
  <2>2. CASE o # Server
    <3>1. io'.object[o] = io.object[o]
      BY <1>2, <1>3, <1>6, <2>2 DEF OnlyObject
    <3>2. ASSUME NEW f \in Fd, Knows(io, f, o) PROVE Knows(io', f, o)
      <4>1. f # io.object[Server].fd
        BY <1>1, <2>2, <3>2, ConnAssumption DEF Knows, IoInv, Plumbed, Wired, NoFd
      <4> QED
        BY <1>2, <1>3, <1>6, <3>2, <4>1 DEF Knows
    <3>3. ASSUME NEW f \in Fd, Knows(io', f, o)
          PROVE  Knows(io, f, o) /\ (Input(io, f) => Input(io', f))
      BY <1>2, <1>3, <1>5, <1>6, <3>3 DEF Knows, Input
    <3> QED
      BY <3>1, <3>2, <3>3
  <2> QED
    BY <2>1, <2>2
<1> QED
  BY <1>6, <1>7, <1>8, <1>9 DEF IoInv

\* What peers do, and reading: there is as much to read as before, but for X.
LEMMA SocketIo ==
  ASSUME IoInv, NEW f \in Fd, NEW r \in SocketRecord, r.kind = io.sock[f].kind,
         io' = [io EXCEPT !.sock[f] = r], UNCHANGED incoming, NEW X,
         Input(io, f) /\ f \notin X => r.waiting > 0 \/ r.peer # "there"
  PROVE  IoInv' /\ Keeps(io, io', X, {})
<1> DEFINE k == [io.sock EXCEPT ![f] = r]
<1>1. /\ k \in [Fd -> SocketRecord] /\ k[f] = r /\ \A g \in Fd : g # f => k[g] = io.sock[g]
  BY DEF IoInv, IoRecord
<1>2. io' = [io EXCEPT !.sock = k]
  BY DEF IoInv, IoRecord
<1> HIDE DEF k
<1>3. \A g \in DOMAIN io.listeners : io.sock[g].kind # "free" => k[g].kind # "free"
  <2>1. \A g \in DOMAIN io.listeners : g \in Fd
    BY ListenersWired DEF IoInv
  <2> QED
    BY <1>1, <2>1
<1>4. /\ io' \in IoRecord /\ Plumbed(io')
      /\ io'.object = io.object /\ io'.listeners = io.listeners /\ io'.sock = k
  <2> DEFINE u == [io EXCEPT !.sock = k]
  <2>1. io \in IoRecord /\ Plumbed(io)
    BY DEF IoInv
  <2>2. /\ u \in IoRecord /\ Plumbed(u)
        /\ u.object = io.object /\ u.listeners = io.listeners /\ u.sock = k
    BY <1>1, <1>3, <2>1, SocketsIo
  <2> QED
    BY <1>2, <2>2
<1>5. IncomingOK' /\ incoming' \in Seq(Fd)
  <2>1. \A i \in 1..Len(incoming) : incoming[i] \in Fd
    BY DEF IoInv
  <2> QED
    BY <1>1, <1>4, <2>1 DEF IoInv, IncomingOK
<1>6. OpenIsWired(io') /\ OnlyServerListens(io')
  BY <1>4 DEF IoInv, OpenIsWired, OnlyServerListens
<1>7. Keeps(io, io', X, {})
  BY <1>1, <1>4 DEF Keeps, Knows, Input
<1> QED
  BY <1>4, <1>5, <1>6, <1>7 DEF IoInv

Peer(f) == PeerConnects(f) \/ PeerSends(f) \/ PeerShutsDown(f) \/ PeerCloses(f)

LEMMA PeerIo ==
  ASSUME IoInv, NEW f \in Fd, Peer(f)
  PROVE  IoInv' /\ Keeps(io, io', {}, {}) /\ io'.listeners = io.listeners
<1> DEFINE r == [io.sock[f] EXCEPT !.waiting = 1]
           q == [io.sock[f] EXCEPT !.peer = "done"]
           h == [io.sock[f] EXCEPT !.peer = "gone"]
           Kept(x) == x \in SocketRecord /\ x.kind = io.sock[f].kind
                      /\ (x.waiting > 0 \/ x.peer # "there")
<1>1. Kept(r) /\ Kept(q) /\ Kept(h)
  <2>1. io.sock[f] \in SocketRecord
    BY DEF IoInv, IoRecord
  <2>2. Kept(r)
    BY <2>1 DEF SocketRecord
  <2>3. Kept(q)
    BY <2>1 DEF SocketRecord
  <2>4. Kept(h)
    BY <2>1 DEF SocketRecord
  <2> QED
    BY <2>2, <2>3, <2>4
<1>2. UNCHANGED incoming /\ \E x \in {r, q, h} : io' = [io EXCEPT !.sock[f] = x]
  <2>1. CASE PeerConnects(f) \/ PeerSends(f)
    BY <2>1 DEF PeerConnects, PeerSends, IoInv, IoRecord
  <2>2. CASE PeerShutsDown(f)
    BY <2>2 DEF PeerShutsDown, IoInv, IoRecord
  <2>3. CASE PeerCloses(f)
    <3>1. io' = [io EXCEPT !.sock[f] = h]
      BY <2>3 DEF PeerCloses, IoInv, IoRecord
    <3> QED
      BY <2>3, <3>1 DEF PeerCloses
  <2> QED
    BY <2>1, <2>2, <2>3 DEF Peer
<1>3. PICK x \in {r, q, h} : io' = [io EXCEPT !.sock[f] = x]
  BY <1>2
<1>4. x \in SocketRecord /\ x.kind = io.sock[f].kind /\ (x.waiting > 0 \/ x.peer # "there")
  BY <1>1
<1>5. io'.listeners = io.listeners
  BY <1>3 DEF IoInv, IoRecord
<1> HIDE DEF r, q, h
<1> QED
  BY <1>2, <1>3, <1>4, <1>5, SocketIo

-----------------------------------------------------------------------------
(* What the handlers do to the plumbing.                                   *)

LEMMA KeepsMore ==
  ASSUME NEW s, NEW t, NEW X, NEW Y, NEW V, NEW W, Keeps(s, t, X, Y), X \subseteq V, Y \subseteq W
  PROVE  Keeps(s, t, V, W)
BY DEF Keeps

\* The server puts the client it accepts aside.
LEMMA ServerReadsIo ==
  ASSUME IoInv, ServerReads, FreeFds(io) # {}
  PROVE  IoInv' /\ Keeps(io, io', {io.object[Server].fd}, {})
<1> DEFINE f == NewFd(io)
<1>1. /\ f \in Fd /\ f # NoFd /\ io.sock[f].kind = "free" /\ f \notin DOMAIN io.listeners
  BY NewFdIsFree, ListenersWired DEF IoInv
<1>2. /\ io' = Accepted(io, Server, f) /\ incoming' = Append(incoming, f) /\ Server \in Object
  BY DEF ServerReads, Object
<1> HIDE DEF f
<1>3. /\ io' \in IoRecord /\ Plumbed(io')
      /\ io'.object = io.object /\ io'.listeners = io.listeners
      /\ io'.sock[f].kind # "free"
      /\ \A g \in Fd : g # f => io'.sock[g].kind = io.sock[g].kind
      /\ \A g \in Fd : g # f /\ g # io.object[Server].fd => io'.sock[g] = io.sock[g]
  BY <1>1, <1>2, AcceptedIo DEF IoInv
<1>4. /\ incoming \in Seq(Fd) /\ Len(incoming) \in Nat /\ incoming' \in Seq(Fd)
      /\ Len(incoming') = Len(incoming) + 1
      /\ \A i \in 1..Len(incoming) : incoming'[i] = incoming[i] /\ incoming[i] \in Fd
      /\ incoming'[Len(incoming) + 1] = f
  BY <1>1, <1>2 DEF IoInv
<1>5. \A i \in 1..Len(incoming) : incoming[i] # f
  BY <1>1 DEF IoInv, IncomingOK
<1>6. \A i \in 1..Len(incoming') : \/ i \in 1..Len(incoming)
                                   \/ i = Len(incoming) + 1
  BY <1>4
<1>7. \A i \in 1..Len(incoming') : /\ incoming'[i] \notin DOMAIN io'.listeners
                                   /\ io'.sock[incoming'[i]].kind # "free"
  BY <1>1, <1>3, <1>4, <1>5, <1>6 DEF IoInv, IncomingOK
<1>8. \A i, j \in 1..Len(incoming') : incoming'[i] = incoming'[j] => i = j
  BY <1>4, <1>5, <1>6 DEF IoInv, IncomingOK
<1>9. OpenIsWired(io') /\ OnlyServerListens(io')
  BY <1>3 DEF IoInv, OpenIsWired, OnlyServerListens
<1>10. Keeps(io, io', {io.object[Server].fd}, {})
  BY <1>1, <1>3 DEF Keeps, Knows, Input
<1> QED
  BY <1>3, <1>4, <1>7, <1>8, <1>9, <1>10 DEF IoInv, IncomingOK

\* The connection stops listening and talks to its client under another descriptor.
LEMMA ClientIsThereIo ==
  ASSUME IoInv, NEW c \in Object, io.object[c].state = "waiting", ClientIsThere(c),
         UNCHANGED incoming
  PROVE  IoInv' /\ Keeps(io, io', {}, {})
<1> DEFINE f == NewFd(io)
           h == io.object[c].fd
           u == Accepted(io, c, f)
           v == Closed(u, c)
<1>1. /\ f \in Fd /\ f # NoFd /\ io.sock[f].kind = "free" /\ f \notin DOMAIN io.listeners
      /\ f # h
  <2>1. f \in Fd /\ f # NoFd /\ io.sock[f].kind = "free"
    BY NewFdIsFree DEF ClientIsThere
  <2>2. io \in IoRecord /\ Plumbed(io)
    BY DEF IoInv
  <2>3. f \notin DOMAIN io.listeners
    BY <2>1, <2>2, ListenersWired
  <2>4. h # NoFd => h \in DOMAIN io.listeners
    BY <2>2 DEF Plumbed, Wired
  <2> QED
    BY <2>1, <2>3, <2>4
<1>2. io' = Connected(v, c, f)
  BY DEF ClientIsThere
<1> HIDE DEF f
<1>3. /\ u \in IoRecord /\ Plumbed(u)
      /\ u.object = io.object /\ u.listeners = io.listeners
      /\ u.sock[f].kind # "free"
      /\ \A g \in Fd : g # f => u.sock[g].kind = io.sock[g].kind
      /\ \A g \in Fd : g # f /\ g # h => u.sock[g] = io.sock[g]
  BY <1>1, AcceptedIo DEF IoInv
<1> HIDE DEF u
<1>4. /\ v \in IoRecord /\ Plumbed(v)
      /\ v.object[c].fd = NoFd
      /\ \A p \in Object : p # c => v.object[p] = io.object[p]
      /\ \A g \in Fd : g # h => v.sock[g] = u.sock[g]
      /\ DOMAIN v.listeners = DOMAIN io.listeners \ {h}
      /\ \A g \in DOMAIN v.listeners : v.listeners[g] = io.listeners[g]
  <2>1. u.object[c].fd = h
    BY <1>3
  <2> QED
    BY <1>3, <2>1, ClosedIo
<1> HIDE DEF v
<1>5. /\ io' \in IoRecord /\ Plumbed(io') /\ OnlyObject(v, io', c)
      /\ io'.object[c].state = "open" /\ io'.object[c].fd = f
      /\ io'.listeners = With(v.listeners, f, c)
  BY <1>1, <1>2, <1>3, <1>4, ConnectedIo
<1>6. /\ DOMAIN io'.listeners = DOMAIN v.listeners \cup {f} /\ io'.listeners[f] = c
      /\ \A g \in DOMAIN v.listeners : io'.listeners[g] = io.listeners[g]
  BY <1>1, <1>4, <1>5 DEF With
<1>7. /\ \A p \in Object : p # c => io'.object[p] = io.object[p]
      /\ \A g \in Fd : g # f /\ g # h => io'.sock[g] = io.sock[g]
  BY <1>3, <1>4, <1>5 DEF OnlyObject
<1>8. IncomingOK' /\ incoming' \in Seq(Fd)
  <2>1. \A i \in 1..Len(incoming) : incoming[i] \in Fd /\ incoming[i] # f /\ incoming[i] # h
    BY <1>1, ConnAssumption DEF IoInv, IncomingOK, Plumbed, Wired, NoFd
  <2> QED
    BY <1>4, <1>6, <1>7, <2>1 DEF IoInv, IncomingOK
<1>9. OpenIsWired(io') /\ OnlyServerListens(io')
  BY <1>1, <1>5, <1>7 DEF IoInv, OpenIsWired, OnlyServerListens
<1>10. Keeps(io, io', {}, {})
  <2> SUFFICES ASSUME NEW o \in Object, io.object[o].state # "none"
               PROVE  /\ io'.object[o].state # "none"
                      /\ io'.object[o].state = "waiting" =>
                           /\ io.object[o].state = "waiting"
                           /\ \A g \in Fd : Knows(io, g, o) => Knows(io', g, o)
                      /\ \A g \in Fd : Knows(io', g, o) =>
                           \/ io.object[o].state = "waiting" /\ ~Knows(io, g, o)
                           \/ /\ Knows(io, g, o)
                              /\ Input(io, g) => Input(io', g)
                              /\ "Write" \in io.object[o].interest
                                 => "Write" \in io'.object[o].interest
    BY DEF Keeps
  <2>1. CASE o = c
    <3>1. ASSUME NEW g \in Fd, Knows(io', g, c) PROVE ~Knows(io, g, c)
      <4>1. g = f
        BY <1>5, <3>1 DEF Plumbed, Knows
      <4> QED
        BY <1>1, <4>1 DEF Knows
    <3> QED
      BY <1>5, <2>1, <3>1
  <2>2. CASE o # c
    <3>1. io'.object[o] = io.object[o]
      BY <1>7, <2>2
    <3>2. ASSUME NEW g \in Fd, Knows(io, g, o) PROVE Knows(io', g, o)
      <4>1. g # h
        BY <1>3, <2>2, <3>2, ConnAssumption DEF Knows, IoInv, Plumbed, Wired, NoFd
      <4> QED
        BY <1>4, <1>6, <3>2, <4>1 DEF Knows
    <3>3. ASSUME NEW g \in Fd, Knows(io', g, o)
          PROVE  Knows(io, g, o) /\ (Input(io, g) => Input(io', g))
      <4>1. g # f /\ g \in DOMAIN v.listeners
        BY <1>6, <2>2, <3>3 DEF Knows
      <4> QED
        BY <1>4, <1>6, <1>7, <3>3, <4>1 DEF Knows, Input
    <3> QED
      BY <3>1, <3>2, <3>3
  <2> QED
    BY <2>1, <2>2
<1> QED
  BY <1>5, <1>8, <1>9, <1>10 DEF IoInv

LEMMA ConnectionReadsIo ==
  ASSUME IoInv, NEW c \in Object, io.object[c].state # "none", io.object[c].fd \in Fd,
         ConnectionReads(c), UNCHANGED incoming
  PROVE  IoInv' /\ Keeps(io, io', {io.object[c].fd}, {})
<1> DEFINE f == io.object[c].fd
           r == [io.sock[f] EXCEPT !.waiting = @ - 1]
<1>1. CASE io' = ConnectionClosed(io, c)
  BY <1>1, ClosesIo, KeepsMore DEF IoInv, IncomingOK
<1>2. CASE io' = [io EXCEPT !.sock[f].waiting = @ - 1]
  <2>1. io.sock[f] \in SocketRecord
    BY DEF IoInv, IoRecord
  <2>2. r \in SocketRecord /\ r.kind = io.sock[f].kind
    BY <2>1 DEF SocketRecord
  <2>3. io' = [io EXCEPT !.sock[f] = r]
    BY <1>2 DEF IoInv, IoRecord
  <2> HIDE DEF r
  <2> QED
    BY <2>2, <2>3, SocketIo
<1> QED
  BY <1>1, <1>2 DEF ConnectionReads

LEMMA ConnectionWritesIo ==
  ASSUME IoInv, NEW c \in Object, io.object[c].state # "none", io.object[c].fd # NoFd,
         ConnectionWrites(c), UNCHANGED incoming
  PROVE  IoInv' /\ Keeps(io, io', {}, {io.object[c].fd})
<1> DEFINE i == {"Read"}
<1>1. i \in SUBSET Interests
  BY DEF Interests
<1>2. io' = WithInterest(io, c, i) \/ io' = ConnectionClosed(io, c)
  BY DEF ConnectionWrites
<1> HIDE DEF i
<1>3. CASE io' = WithInterest(io, c, i)
  BY <1>1, <1>3, AsksIo
<1>4. CASE io' = ConnectionClosed(io, c)
  BY <1>4, ClosesIo, KeepsMore DEF IoInv, IncomingOK
<1> QED
  BY <1>2, <1>3, <1>4

\* An event takes what there is to read on its own descriptor at most.
LEMMA HandlesIo ==
  ASSUME IoInv, NEW e, e.fd \in DOMAIN io.listeners, Handles(e)
  PROVE  IoInv' /\ Keeps(io, io', {e.fd}, {})
<1> DEFINE o == io.listeners[e.fd]
<1>1. CASE UNCHANGED <<io, incoming>>
  <2>1. Keeps(io, io', {e.fd}, {})
    BY <1>1, KeepsSame
  <2> QED
    BY <1>1, <2>1 DEF IoInv, IncomingOK
<1>2. CASE ~UNCHANGED <<io, incoming>>
  <2>1. /\ e.fd \in Fd /\ e.fd # NoFd /\ o \in Object /\ io.object[o].fd = e.fd
    BY ListenersWired DEF IoInv
  <2> HIDE DEF o
  <2>2. CASE State(o) = "listening" /\ ServerReads
    <3>1. o = Server
      BY <2>1, <2>2 DEF State, IoInv, OnlyServerListens
    <3>2. CASE FreeFds(io) = {}
      BY <1>1, <2>2, <3>2 DEF ServerReads
    <3>3. CASE FreeFds(io) # {}
      BY <2>1, <2>2, <3>1, <3>3, ServerReadsIo
    <3> QED
      BY <3>2, <3>3
  <2>3. CASE State(o) = "waiting" /\ ClientIsThere(o) /\ UNCHANGED incoming
    BY <2>1, <2>3, ClientIsThereIo, KeepsMore DEF State
  <2>4. CASE State(o) = "waiting" /\ AcceptFails(o) /\ UNCHANGED incoming
    <3>1. CASE io' = ConnectionClosed(io, o)
      BY <2>1, <2>4, <3>1, ClosesIo, KeepsMore DEF IoInv, IncomingOK, State
    <3> QED
      BY <1>1, <2>4, <3>1 DEF AcceptFails
  <2>5. CASE State(o) = "open" /\ ConnectionReads(o) /\ UNCHANGED incoming
    <3>1. io.object[o].state # "none"
      BY <2>5 DEF State
    <3> QED
      BY <2>1, <2>5, <3>1, ConnectionReadsIo
  <2> QED
    BY <1>1, <2>2, <2>3, <2>4, <2>5 DEF Handles, o
<1> QED
  BY <1>1, <1>2

LEMMA ReadsIo ==
  ASSUME IoInv, NEW e, Reads(e)
  PROVE  IoInv' /\ Keeps(io, io', {e.fd}, {})
<1>1. CASE UNCHANGED <<io, incoming>>
  <2>1. Keeps(io, io', {e.fd}, {})
    BY <1>1, KeepsSame
  <2> QED
    BY <1>1, <2>1 DEF IoInv, IncomingOK
<1>2. CASE e.fd \in DOMAIN io.listeners /\ Handles(e)
  BY <1>2, HandlesIo
<1> QED
  BY <1>1, <1>2 DEF Reads, ToRead

LEMMA EndEntryIo ==
  ASSUME IoInv, EndEntry
  PROVE  IoInv' /\ \A e \in loop.current : Keeps(io, io', {}, {e.fd})
<1> SUFFICES ASSUME NEW e \in loop.current
             PROVE  IoInv' /\ Keeps(io, io', {}, {e.fd})
  BY DEF EndEntry
<1> DEFINE o == io.listeners[e.fd]
<1>1. CASE UNCHANGED <<io, incoming>>
  <2>1. Keeps(io, io', {}, {e.fd})
    BY <1>1, KeepsSame
  <2> QED
    BY <1>1, <2>1 DEF IoInv, IncomingOK
<1>2. CASE e.fd \in DOMAIN io.listeners /\ ConnectionWrites(o) /\ UNCHANGED incoming
  <2>1. /\ e.fd \in Fd /\ e.fd # NoFd /\ o \in Object /\ io.object[o].fd = e.fd
        /\ io.object[o].state # "none"
    BY <1>2, ListenersWired DEF IoInv, Plumbed
  <2> QED
    BY <1>2, <2>1, ConnectionWritesIo
<1> QED
  BY <1>1, <1>2 DEF EndEntry

-----------------------------------------------------------------------------
(* The plumbing is always in order.                                        *)

LEMMA IoInit == Init => IoInv
<1> DEFINE z == [object |-> [o \in Object |-> NotOpen], listeners |-> <<>>, poller |-> <<>>,
                 sock |-> [f \in Fd |-> Free]]
           k == "listening"
<1> SUFFICES ASSUME Init PROVE IoInv
  OBVIOUS
<1>1. /\ NotOpen \in ObjectRecord /\ Free \in SocketRecord /\ Server \in Object
      /\ NotOpen.fd = NoFd /\ ~NotOpen.attached /\ NotOpen.state = "none"
  BY NewRecords DEF Object
<1>2. <<>> \in Table(Object) /\ <<>> \in Table(SUBSET Interests) /\ DOMAIN <<>> = {}
  <2>1. ASSUME NEW S PROVE <<>> \in [{} -> S] /\ DOMAIN <<>> = {}
    OBVIOUS
  <2> QED
    BY <2>1 DEF Table
<1>3. /\ z \in IoRecord /\ DOMAIN z.listeners = {} /\ DOMAIN z.poller = {}
      /\ \A o \in Object : z.object[o] = NotOpen
      /\ \A f \in Fd : z.sock[f] = Free
  BY <1>1, <1>2 DEF IoRecord
<1>4. io = Listens(z, Server, k) /\ incoming = <<>> /\ k \in {"waiting", "listening"}
  BY DEF Init
<1> HIDE DEF z, k
<1>5. Plumbed(z) /\ z.object[Server].fd = NoFd
  BY <1>1, <1>3 DEF Plumbed
<1>6. FreeFds(z) # {} /\ \A g \in DOMAIN z.listeners : z.sock[g].kind # "free"
  <2>1. Free.kind = "free"
    BY DEF Free
  <2>2. PICK f \in Fd : TRUE
    BY ConnAssumption
  <2>3. z.sock[f].kind = "free"
    BY <1>3, <2>1
  <2> QED
    BY <1>3, <2>3 DEF FreeFds
<1>7. /\ io \in IoRecord /\ Plumbed(io)
      /\ io.object[Server].state = k
      /\ \A p \in Object : p # Server => io.object[p] = z.object[p]
  BY <1>1, <1>3, <1>4, <1>5, <1>6, ListensIo
<1>8. OpenIsWired(io) /\ OnlyServerListens(io)
  BY <1>1, <1>3, <1>7 DEF OpenIsWired, OnlyServerListens, k
<1> QED
  BY <1>4, <1>7, <1>8 DEF IoInv, IncomingOK

LEMMA IoStep == IoInv /\ [Next]_vars => IoInv'
<1> SUFFICES ASSUME IoInv, [Next]_vars PROVE IoInv'
  OBVIOUS
<1>1. CASE UNCHANGED <<io, incoming>>
  BY <1>1 DEF IoInv, IncomingOK
<1>2. CASE BeginEntry
  <2>1. PICK e : ReadPipe \/ Reads(e)
    BY <1>2 DEF BeginEntry
  <2> QED
    BY <1>1, <2>1, ReadsIo DEF ReadPipe
<1>3. CASE EndEntry
  BY <1>3, EndEntryIo
<1>8. CASE Resume
  BY <1>8, HandlesIo DEF Resume, ToRead
<1>4. CASE DestroyServer
  BY <1>4, DestroyServerIo
<1>5. CASE \E c \in Conn : \/ OpenClient(c) \/ OpenWaiting(c) \/ TakeNextClient(c) \/ Send(c)
                           \/ Close(c) \/ Destroy(c)
  BY <1>5, OpenClientIo, OpenWaitingIo, TakeNextClientIo, SendIo, CloseIo, DestroyIo
<1>6. CASE \E f \in Fd : Peer(f)
  BY <1>6, PeerIo
<1>7. CASE Poll \/ EndBatch \/ ProcessAuxEvent \/ Return \/ QueueEvent \/ Interrupt
  BY <1>1, <1>7 DEF Poll, EndBatch, ProcessAuxEvent, Return, QueueEvent, Interrupt
<1> QED
  BY <1>1, <1>2, <1>3, <1>4, <1>5, <1>6, <1>7, <1>8 DEF Next, Peer, vars

\* The dispatcher and the kernel watch exactly the attached objects, each under its
\* current descriptor and for what it asked for last, in every order of opening, accepting,
\* closing and destroying, for any number of connections and descriptors.
THEOREM KernelWatchesWhatWasAsked == Spec => []WatchedAsAsked
<1>1. IoInv => WatchedAsAsked
  <2> SUFFICES ASSUME IoInv PROVE WatchedAsAsked
    OBVIOUS
  <2>1. \A o \in Object : io.object[o].attached =>
           /\ io.object[o].fd \in DOMAIN io.listeners
           /\ io.listeners[io.object[o].fd] = o
           /\ io.object[o].watched = io.object[o].interest
           /\ io.poller[io.object[o].fd] = io.object[o].interest
    BY DEF IoInv, Plumbed, Wired
  <2>2. \A f \in DOMAIN io.listeners : io.object[io.listeners[f]].attached
    BY ListenersWired DEF IoInv
  <2>3. \A c \in Conn : State(c) = "open" => io.object[c].attached
    BY DEF IoInv, Plumbed, OpenIsWired, State, Object
  <2> QED
    BY <2>1, <2>2, <2>3 DEF WatchedAsAsked, IoInv, Plumbed
<1> QED
  BY <1>1, IoInit, IoStep, PTL DEF Spec

-----------------------------------------------------------------------------
(* The entries of a batch that wait.                                       *)

\* An event was collected for an object that was open; while that object has the
\* descriptor it wants to write, if the event says that it can.
EntryOK(s, e) ==
  e.fd # Pipe =>
    /\ e.fd \in Fd /\ e.of \in Object
    /\ s.object[e.of].state # "none"
    /\ s.object[e.of].state = "waiting" => Knows(s, e.fd, e.of)
    /\ Knows(s, e.fd, e.of) /\ "Write" \in e.events => "Write" \in s.object[e.of].interest

\* Nobody has taken what the event says there is to read.
EntryWaits(s, e) ==
  e.fd # Pipe /\ Knows(s, e.fd, e.of) /\ {"Read", "HangUp"} \cap e.events # {}
    => Input(s, e.fd)

BatchInv ==
  /\ \A e \in loop.batch : EntryOK(io, e) /\ EntryWaits(io, e)
  /\ \A e \in loop.current : EntryOK(io, e)
  /\ \A d, e \in loop.batch : d.fd = e.fd => d = e
  /\ \A d \in loop.batch, e \in loop.current : d.fd # e.fd
  /\ \A d, e \in loop.current : d = e

LEMMA EntryKept ==
  ASSUME NEW s, NEW t, NEW X, NEW Y, Keeps(s, t, X, Y), NEW e, EntryOK(s, e)
  PROVE  /\ e.fd \notin Y => EntryOK(t, e)
         /\ e.fd \notin X /\ EntryWaits(s, e) => EntryWaits(t, e)
BY DEF Keeps, EntryOK, EntryWaits

\* While a handler is held up by a read, nobody else calls or is called.
HeldUp == loop.at = "reading" => caller = None

LEMMA HeldUpStep == LoopType /\ HeldUp /\ [Next]_vars => HeldUp'
<1> SUFFICES ASSUME LoopType, HeldUp, [Next]_vars, loop'.at = "reading" PROVE caller' = None
  BY DEF HeldUp
<1> USE DEF LoopType, LoopRecord
<1>1. CASE UNCHANGED <<loop, caller>> \/ (UNCHANGED loop /\ caller' = None)
  BY <1>1 DEF HeldUp
<1>2. CASE BeginEntry
  BY <1>2 DEF BeginEntry, ReadPipe, Reads
<1>3. CASE Resume
  BY <1>3 DEF Resume
<1>4. CASE EndEntry
  <2>1. PICK e \in loop.current : TRUE
    BY <1>4 DEF EndEntry
  <2>2. loop' = [loop EXCEPT !.current = {}] \/ loop' = loop
    BY <1>4, <2>1 DEF EndEntry
  <2> QED
    BY <1>4, <2>2 DEF EndEntry
<1>5. CASE Poll \/ EndBatch \/ ProcessAuxEvent
  BY <1>5 DEF Poll, EndBatch, ProcessAuxEvent, Returned
<1>6. CASE DestroyServer \/ Return \/ QueueEvent \/ Interrupt
  BY <1>1, <1>6 DEF DestroyServer, Return, QueueEvent, Interrupt
<1>7. CASE \E c \in Conn : \/ OpenClient(c) \/ OpenWaiting(c) \/ TakeNextClient(c) \/ Send(c)
                           \/ Close(c) \/ Destroy(c)
  BY <1>1, <1>7 DEF OpenClient, OpenWaiting, TakeNextClient, Send, Close, Destroy
<1>8. CASE \E f \in Fd : Peer(f)
  BY <1>1, <1>8 DEF Peer, PeerConnects, PeerSends, PeerShutsDown, PeerCloses
<1> QED
  BY <1>1, <1>2, <1>3, <1>4, <1>5, <1>6, <1>7, <1>8 DEF Next, Peer, vars

\* What the application and the peers do leaves the waiting entries as they are.
LEMMA BatchKept ==
  ASSUME BatchInv, Keeps(io, io', {}, {}), UNCHANGED loop
  PROVE  BatchInv'
BY EntryKept DEF BatchInv

\* What the kernel reports was asked for, except for a hangup.
LEMMA PollBatch ==
  ASSUME IoInv, LoopType, Poll
  PROVE  BatchInv' /\ LoopType'
<1>1. PICK room \in SUBSET {f \in DOMAIN io.poller : "Write" \in io.poller[f]} :
         loop' = [Returned EXCEPT !.at = "batch", !.batch = Entries(room)]
  BY DEF Poll
<1>2. UNCHANGED <<io, events>>
  BY DEF Poll
<1>3. /\ loop'.at = "batch" /\ loop'.batch = Entries(room) /\ loop'.current = {}
      /\ loop' = [at |-> "batch", batch |-> Entries(room), current |-> {},
                  action |-> "NoInterrupt", aux |-> 0]
  BY <1>1 DEF Returned
<1>4. /\ DOMAIN io.poller = DOMAIN io.listeners
      /\ \A f \in DOMAIN io.listeners :
            /\ f \in Fd /\ f # Pipe
            /\ LET o == io.listeners[f] IN
               /\ o \in Object /\ io.object[o].state # "none"
               /\ io.poller[f] = io.object[o].interest
  <2>1. io \in IoRecord /\ Plumbed(io) /\ Pipe = NoFd
    BY DEF IoInv, Pipe, NoFd
  <2>2. ASSUME NEW f \in DOMAIN io.listeners
        PROVE  /\ f \in Fd /\ f # Pipe
               /\ LET o == io.listeners[f] IN
                  /\ o \in Object /\ io.object[o].state # "none"
                  /\ io.poller[f] = io.object[o].interest
    <3>1. /\ f \in Fd /\ f # NoFd /\ io.listeners[f] \in Object
          /\ io.object[io.listeners[f]].fd = f /\ Wired(io, io.listeners[f])
      BY <2>1, ListenersWired
    <3> QED
      BY <2>1, <3>1 DEF Plumbed, Wired
  <2> QED
    BY <2>1, <2>2 DEF Plumbed
<1>5. \A f \in DOMAIN io.listeners :
         /\ Happens(f, room) \subseteq {"Read", "Write", "HangUp"}
         /\ "Write" \in Happens(f, room) => "Write" \in io.poller[f]
         /\ {"Read", "HangUp"} \cap Happens(f, room) # {} => Input(io, f)
  BY DEF Happens, HasInput, Input
<1>6. \A e \in Entries(room) :
         \/ e = [fd |-> Pipe, events |-> {"Read"}, of |-> None]
         \/ \E f \in DOMAIN io.listeners :
               e = [fd |-> f, events |-> Happens(f, room), of |-> io.listeners[f]]
  BY <1>4 DEF Entries
<1>7. Entries(room) \subseteq Entry
  BY <1>4, <1>5, <1>6 DEF Entry
<1>8. \A e \in Entries(room) : EntryOK(io, e) /\ EntryWaits(io, e)
  BY <1>4, <1>5, <1>6 DEF EntryOK, EntryWaits, Knows
<1>9. \A d, e \in Entries(room) : d.fd = e.fd => d = e
  <2> SUFFICES ASSUME NEW d \in Entries(room), NEW e \in Entries(room), d.fd = e.fd
               PROVE  d = e
    OBVIOUS
  <2>1. CASE d.fd = Pipe
    <3>1. d = [fd |-> Pipe, events |-> {"Read"}, of |-> None]
      BY <1>4, <1>6, <2>1
    <3>2. e.fd = Pipe
      BY <2>1
    <3>3. e = [fd |-> Pipe, events |-> {"Read"}, of |-> None]
      BY <1>4, <1>6, <3>2
    <3> QED
      BY <3>1, <3>3
  <2>2. CASE d.fd # Pipe
    <3>1. d = [fd |-> d.fd, events |-> Happens(d.fd, room), of |-> io.listeners[d.fd]]
      BY <1>6, <2>2
    <3>2. e = [fd |-> e.fd, events |-> Happens(e.fd, room), of |-> io.listeners[e.fd]]
      BY <1>6, <2>2
    <3> QED
      BY <3>1, <3>2
  <2> QED
    BY <2>1, <2>2
<1> QED
  BY <1>2, <1>3, <1>7, <1>8, <1>9 DEF BatchInv, LoopType, LoopRecord

\* Handling an event for reading, and what the code asserts then.
LEMMA BeginBatch ==
  ASSUME IoInv, LoopType, BatchInv, BeginEntry
  PROVE  BatchInv' /\ LoopType' /\ NotifiedAsRequested'
<1>1. PICK e \in loop.batch : IF e.fd = Pipe THEN ReadPipe ELSE Reads(e)
  BY DEF BeginEntry
<1>2. CASE e.fd = Pipe
  <2>1. /\ loop' = [loop EXCEPT !.action = Drained,
                                !.batch = IF Drained = "Stop" THEN {} ELSE {x \in @ : x.fd # Pipe}]
        /\ UNCHANGED <<io, events, crash>> /\ crash = "none" /\ loop.at = "batch"
    BY <1>1, <1>2 DEF ReadPipe, BeginEntry
  <2>2. Drained \in {"Stop", "ProcessAuxEvents"}
    BY DEF Drained
  <2>3. /\ loop' \in LoopRecord /\ loop'.batch \subseteq loop.batch
        /\ loop'.current = loop.current /\ loop'.at = "batch"
    BY <2>1, <2>2 DEF LoopType, LoopRecord
  <2>4. BatchInv'
    BY <2>1, <2>3 DEF BatchInv
  <2> QED
    BY <2>1, <2>3, <2>4 DEF LoopType, NotifiedAsRequested
<1>3. CASE e.fd # Pipe
  <2>1. Reads(e) /\ crash = "none"
    BY <1>1, <1>3 DEF BeginEntry
  <2>2. /\ loop' \in LoopRecord /\ loop'.batch = loop.batch \ {e} /\ loop'.current = {e}
        /\ loop'.at = "reading" => ToRead(e) /\ InVain(e)
        /\ UNCHANGED events
    BY <2>1 DEF Reads, BeginEntry, LoopType, LoopRecord
  <2>3. Keeps(io, io', {e.fd}, {})
    BY <2>1, ReadsIo
  <2>4. BatchInv'
    BY <2>2, <2>3, EntryKept DEF BatchInv
  <2>5. ASSUME loop'.at = "reading" PROVE \A d \in loop'.current : IsStale(d)'
    <3>1. UNCHANGED io /\ ToRead(e) /\ ~HasInput(e.fd)
      BY <2>1, <2>2, <2>5 DEF Reads, InVain
    <3>2. e.fd \in DOMAIN io.listeners /\ e.of # io.listeners[e.fd]
      BY <1>3, <3>1 DEF BatchInv, EntryWaits, Knows, ToRead, HasInput, Input
    <3> QED
      BY <2>2, <3>1, <3>2 DEF IsStale
  <2>6. crash' # "not asked for"
    BY <2>1 DEF Reads, Handles
  <2> QED
    BY <2>2, <2>4, <2>5, <2>6 DEF LoopType, NotifiedAsRequested
<1> QED
  BY <1>2, <1>3

\* The read that held up a handler: it says nothing about the rest of the batch.
LEMMA ResumeBatch ==
  ASSUME IoInv, LoopType, BatchInv, Resume
  PROVE  BatchInv' /\ LoopType' /\ NotifiedAsRequested'
<1>1. PICK e \in loop.current : ToRead(e) /\ Handles(e)
  BY DEF Resume
<1>2. /\ loop' \in LoopRecord /\ loop'.batch = loop.batch /\ loop'.current = loop.current
      /\ loop'.at = "batch" /\ UNCHANGED events
  BY DEF Resume, LoopType, LoopRecord
<1>3. Keeps(io, io', {e.fd}, {})
  BY <1>1, HandlesIo DEF ToRead
<1>4. BatchInv'
  BY <1>2, <1>3, EntryKept DEF BatchInv
<1>5. crash' # "not asked for"
  BY <1>1 DEF Resume, Handles
<1> QED
  BY <1>2, <1>4, <1>5 DEF LoopType, NotifiedAsRequested

\* Handling an event for writing, and what the code asserts then.
LEMMA EndEntryBatch ==
  ASSUME IoInv, LoopType, BatchInv, EndEntry
  PROVE  BatchInv' /\ LoopType' /\ NotifiedAsRequested'
<1>1. PICK e \in loop.current : \A d \in loop.current : d = e
  BY DEF EndEntry, BatchInv
<1>2. CASE loop' = [loop EXCEPT !.current = {}] /\ UNCHANGED crash
  <2>1. /\ loop' \in LoopRecord /\ loop'.batch = loop.batch /\ loop'.current = {}
        /\ UNCHANGED events /\ crash' = "none"
    BY <1>2 DEF EndEntry, LoopType, LoopRecord
  <2>2. Keeps(io, io', {}, {e.fd})
    BY EndEntryIo
  <2>3. BatchInv'
    BY <2>1, <2>2, EntryKept DEF BatchInv
  <2> QED
    BY <2>1, <2>3 DEF LoopType, NotifiedAsRequested
<1>3. CASE UNCHANGED <<io, loop>> /\ crash' = "not asked for"
  <2>1. UNCHANGED events /\ BatchInv' /\ loop'.at = "batch"
    BY <1>3 DEF BatchInv, EndEntry
  <2>2. /\ {"Write", "HangUp"} \cap e.events # {} /\ e.fd \in DOMAIN io.listeners
        /\ "Write" \notin io.object[io.listeners[e.fd]].interest
    BY <1>3 DEF EndEntry
  <2>3. IsStale(e) \/ "HangUp" \in e.events
    <3>1. e.fd # Pipe
      BY <2>2, ListenersWired DEF IoInv, Pipe, NoFd
    <3> QED
      BY <2>2, <3>1 DEF IsStale, BatchInv, EntryOK, Knows
  <2> QED
    BY <1>1, <1>3, <2>1, <2>3 DEF NotifiedAsRequested, IsStale, LoopType
<1> QED
  BY <1>2, <1>3 DEF EndEntry

\* The events of other threads are counted down.
LEMMA CountedDown ==
  ASSUME NEW l \in LoopRecord, NEW n \in Int, NEW at \in {"batch", "aux"}
  PROVE  [l EXCEPT !.at = at, !.aux = n] \in LoopRecord /\ [l EXCEPT !.aux = n] \in LoopRecord
BY DEF LoopRecord

\* The entries of a batch are also all right while it waits.
LEMMA BatchUntouched ==
  ASSUME LoopType, BatchInv, NotifiedAsRequested, UNCHANGED loop, events' \in Nat,
         Keeps(io, io', {}, {}), crash' \in {"none", "destroyed while watched"},
         loop.at # "reading" \/ io'.listeners = io.listeners
  PROVE  LoopType' /\ BatchInv' /\ NotifiedAsRequested'
BY BatchKept DEF LoopType, NotifiedAsRequested, IsStale

LEMMA BatchInit == Init => LoopType /\ HeldUp /\ BatchInv /\ NotifiedAsRequested
BY DEF HeldUp, Init, LoopType, LoopRecord, Returned, BatchInv, NotifiedAsRequested

LEMMA BatchStep ==
  IoInv /\ LoopType /\ HeldUp /\ BatchInv /\ NotifiedAsRequested /\ [Next]_vars
    => (LoopType /\ BatchInv /\ NotifiedAsRequested)'
<1> SUFFICES ASSUME IoInv, LoopType, HeldUp, BatchInv, NotifiedAsRequested, [Next]_vars
             PROVE  LoopType' /\ BatchInv' /\ NotifiedAsRequested'
  OBVIOUS
<1>1. CASE UNCHANGED vars
  BY <1>1 DEF vars, LoopType, BatchInv, NotifiedAsRequested, IsStale
<1>3. CASE Poll
  <2>1. loop'.at = "batch"
    BY <1>3 DEF Poll, Returned
  <2> QED
    BY <1>3, <2>1, PollBatch DEF Poll, NotifiedAsRequested
<1>4. CASE BeginEntry
  BY <1>4, BeginBatch
<1>5. CASE EndEntry
  BY <1>5, EndEntryBatch
<1>12. CASE Resume
  BY <1>12, ResumeBatch
<1>6. CASE EndBatch
  <2>1. /\ loop' \in LoopRecord /\ loop'.batch = {} /\ loop'.current = {} /\ events' \in Nat
        /\ crash' = "none"
    <3>1. Returned \in LoopRecord /\ Returned.batch = {} /\ Returned.current = {}
      BY DEF Returned, LoopRecord
    <3>2. loop \in LoopRecord /\ loop.batch = {} /\ loop.current = {} /\ events \in Nat
          /\ crash' = "none"
      BY <1>6 DEF EndBatch, LoopType
    <3>3. CASE loop' = Returned /\ UNCHANGED events
      BY <3>1, <3>2, <3>3
    <3>4. CASE loop' = [loop EXCEPT !.at = "aux", !.aux = events] /\ events' = 0
      <4>1. loop' \in LoopRecord
        <5>1. events \in Int
          BY <3>2
        <5> QED
          BY <3>2, <3>4, <5>1, CountedDown
      <4>2. loop'.batch = {} /\ loop'.current = {}
        BY <3>2, <3>4 DEF LoopRecord
      <4> QED
        BY <3>2, <3>4, <4>1, <4>2
    <3> QED
      BY <1>6, <3>2, <3>3, <3>4 DEF EndBatch
  <2> QED
    BY <2>1 DEF BatchInv, LoopType, NotifiedAsRequested
<1>7. CASE ProcessAuxEvent
  <2>1. /\ loop' \in LoopRecord /\ loop'.batch \subseteq loop.batch
        /\ loop'.current \subseteq loop.current /\ UNCHANGED <<io, events>>
        /\ crash' \in {"none", "no connection to notify"} /\ loop'.at # "reading"
    <3>1. Returned \in LoopRecord /\ Returned.batch = {} /\ Returned.current = {}
          /\ Returned.at = "application"
      BY DEF Returned, LoopRecord
    <3>2. loop \in LoopRecord /\ UNCHANGED <<io, events>> /\ loop.at = "aux"
          /\ crash' \in {"none", "no connection to notify"}
      BY <1>7 DEF ProcessAuxEvent, LoopType
    <3>3. CASE loop' = Returned
      BY <3>1, <3>2, <3>3
    <3>4. CASE loop' = [loop EXCEPT !.aux = @ - 1]
      <4>1. loop' \in LoopRecord
        <5> DEFINE n == loop.aux - 1
        <5>1. loop.aux \in Int
          BY <3>2 DEF LoopRecord
        <5>2. n \in Int
          BY <5>1
        <5>3. loop' = [loop EXCEPT !.aux = n]
          BY <3>4
        <5> HIDE DEF n
        <5> QED
          BY <3>2, <5>2, <5>3, CountedDown
      <4>2. loop'.batch = loop.batch /\ loop'.current = loop.current /\ loop'.at = "aux"
        BY <3>2, <3>4 DEF LoopRecord
      <4> QED
        BY <3>2, <4>1, <4>2
    <3> QED
      BY <1>7, <3>2, <3>3, <3>4 DEF ProcessAuxEvent
  <2>2. BatchInv'
    BY <2>1 DEF BatchInv
  <2> QED
    BY <2>1, <2>2 DEF LoopType, NotifiedAsRequested
<1>8. CASE DestroyServer
  BY <1>8, BatchUntouched, DestroyServerIo DEF DestroyServer, MayCall, HeldUp, LoopType
<1>9. CASE \E c \in Conn : \/ OpenClient(c) \/ OpenWaiting(c) \/ TakeNextClient(c) \/ Send(c)
                           \/ Close(c) \/ Destroy(c)
  <2>1. PICK c \in Conn : \/ OpenClient(c) \/ OpenWaiting(c) \/ TakeNextClient(c) \/ Send(c)
                          \/ Close(c) \/ Destroy(c)
    BY <1>9
  <2>2. Keeps(io, io', {}, {})
    BY <2>1, OpenClientIo, OpenWaitingIo, TakeNextClientIo, SendIo, CloseIo, DestroyIo
  <2>3. /\ UNCHANGED <<loop, events>> /\ crash = "none"
        /\ crash' \in {"none", "destroyed while watched"} /\ loop.at # "reading"
    BY <2>1 DEF OpenClient, OpenWaiting, TakeNextClient, Send, Close, Destroy, MayCall, HeldUp
  <2> QED
    BY <2>2, <2>3, BatchUntouched DEF LoopType
<1>10. CASE \E f \in Fd : Peer(f)
  <2>1. PICK f \in Fd : Peer(f)
    BY <1>10
  <2>2. UNCHANGED <<loop, events, crash>> /\ crash = "none"
    BY <2>1 DEF Peer, PeerConnects, PeerSends, PeerShutsDown, PeerCloses
  <2> QED
    BY <2>1, <2>2, PeerIo, BatchUntouched DEF LoopType
<1>11. CASE Return \/ QueueEvent \/ Interrupt
  <2>1. UNCHANGED <<io, loop, crash>> /\ crash = "none" /\ events' \in Nat
    BY <1>11 DEF Return, QueueEvent, Interrupt, LoopType
  <2>2. Keeps(io, io', {}, {})
    BY <2>1, KeepsSame
  <2> QED
    BY <2>2, <2>1, BatchUntouched
<1> QED
  BY <1>1, <1>3, <1>4, <1>5, <1>6, <1>7, <1>8, <1>9, <1>10, <1>11, <1>12
  DEF Next, Peer

\* Whatever callbacks do between the events of a batch, a handler that is told of a
\* descriptor it did not ask for is told so of a hangup, or of a descriptor that was given
\* out again; and it waits for input in the latter case only.
THEOREM OnlyRequestedEvents == Spec => []NotifiedAsRequested
BY IoInit, IoStep, BatchInit, HeldUpStep, BatchStep, PTL DEF Spec
=============================================================================
