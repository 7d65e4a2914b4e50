----------------------------- MODULE TimersProof -----------------------------
(***************************************************************************)
(* Proofs about Timers, for any set of timers, intervals and widths of the *)
(* serial.                                                                 *)
(*                                                                         *)
(* Types hold in every behaviour, however callbacks compact the serials.   *)
(* The other properties need the shape of the map: it is sorted, each      *)
(* running timer has one node under its key, and the node at the iterator  *)
(* is that of the timer called back (MapInv).  With it, where a node comes *)
(* to lie with respect to the iterator says who may still be triggered in  *)
(* a run (RunInv).                                                         *)
(***************************************************************************)
EXTENDS Timers, SequenceTheorems, FiniteSetTheorems, WellFoundedInduction, TLAPS

-----------------------------------------------------------------------------
(* The inductive invariants.                                               *)

\* A compaction in progress counts up to at most maxSerial; the callback of a timer runs
\* during a run, while the iterator is at the node of that timer.
CompactionOK ==
  Compacting =>
    /\ compaction.at >= 1
    /\ compaction.newSerial <= compaction.count /\ compaction.count <= maxSerial
    /\ m_triggerTime # 0 => active # Null

AtCallback ==
  active # Null =>
    /\ m_triggerTime # 0
    /\ ~Compacting /\ ~m_serialsCompacted =>
         pos \in 1..Len(m_timers) /\ m_timers[pos].timer \in {active, Null}

Sorted(q) == \A i, j \in 1..Len(q) : i < j => NotAfter(q[i], q[j])

TimerType == TypeOK /\ Sorted(m_timers) /\ CompactionOK /\ AtCallback

\* Timer t has no node, or the node n and no other.
Absent(q, t)   == \A i \in 1..Len(q) : q[i].timer # t
Filed(q, t, n) == \E i \in 1..Len(q) : q[i] = n /\ \A j \in 1..Len(q) : q[j].timer = t => j = i

Key(t) == Node(m_nextDueTime[t], m_serial[t], t)

\* What the map holds for a timer whose callback does not run.
Placed(t) ==
  /\ m_isRunning[t] /\ t # compaction.for => Filed(m_timers, t, Key(t))
  /\ ~m_isRunning[t] \/ t = compaction.for => Absent(m_timers, t)

\* The node of the timer called back is at the iterator, and a null pointer in its place
\* when the timer is gone.
Called(t) ==
  /\ exists[t] => /\ m_timers[pos] = Key(t) /\ Filed(m_timers, t, Key(t))
                  /\ Absent(m_timers, Null)
  /\ ~exists[t] => m_timers[pos].timer = Null /\ Filed(m_timers, Null, m_timers[pos])
                   /\ Absent(m_timers, t)

MapInv ==
  /\ now >= 1 /\ m_triggerTime <= now
  /\ ~inside =>
       /\ \A t \in Timer : m_isRunning[t] => exists[t]
       /\ \A t \in Timer \ {active} : Placed(t)
       /\ active = Null => Absent(m_timers, Null)
       /\ Compacting => m_triggerTime = 0 /\ active = Null /\ m_isRunning[compaction.for]
       /\ active # Null => /\ ~m_serialsCompacted
                           /\ m_timers[pos].due \in 1..m_triggerTime /\ Called(active)

\* In a run with iterator p that began at time T: t is not met again, or still lies ahead.
Done(q, p, t, T)  == \A i \in 1..Len(q) : q[i].timer = t => i < p \/ q[i].due > T
Ahead(q, p, t, T) == \E i \in 1..Len(q) : q[i].timer = t /\ i >= p /\ q[i].due \in 1..T

RunInv ==
  ~inside =>
    /\ m_triggerTime # 0 =>
         /\ pos >= 1
         /\ \A t \in seen \ {active} : Done(m_timers, pos, t, m_triggerTime)
         /\ \A t \in owed : t # active /\ Ahead(m_timers, pos, t, m_triggerTime)
    /\ m_triggerTime = 0 => owed = {}

-----------------------------------------------------------------------------
(* The map: sequences that are sorted by key.                              *)

LEMMA NodeFields ==
  /\ \A n \in Nodes : n.due \in Nat /\ n.serial \in Nat /\ n.timer \in Timer \cup {Null}
  /\ \A d, s \in Nat, t \in Timer \cup {Null} :
        /\ Node(d, s, t) \in Nodes
        /\ Node(d, s, t).due = d /\ Node(d, s, t).serial = s /\ Node(d, s, t).timer = t
  BY DEF Nodes, Node

\* Keys are ordered.
LEMMA NotAfterOrder ==
  /\ \A a, b \in Nodes : NotAfter(a, b) \/ NotAfter(b, a)
  /\ \A a, b, c \in Nodes : NotAfter(a, b) /\ NotAfter(b, c) => NotAfter(a, c)
  /\ \A a, b \in Nodes : NotAfter(a, b) => a.due <= b.due
  /\ \A a, b \in Nodes : a.due < b.due => NotAfter(a, b) /\ ~NotAfter(b, a)
<1>1. \A a, b \in Nodes : NotAfter(a, b) \/ NotAfter(b, a)
  BY NodeFields DEF NotAfter
<1>2. \A a, b, c \in Nodes : NotAfter(a, b) /\ NotAfter(b, c) => NotAfter(a, c)
  BY NodeFields DEF NotAfter
<1>3. \A a, b \in Nodes : NotAfter(a, b) => a.due <= b.due
  BY NodeFields DEF NotAfter
<1>4. \A a, b \in Nodes : a.due < b.due => NotAfter(a, b) /\ ~NotAfter(b, a)
  BY NodeFields DEF NotAfter
<1> QED
  BY <1>1, <1>2, <1>3, <1>4

\* What erasing a node leaves.
LEMMA Removal ==
  ASSUME NEW S, NEW q \in Seq(S), NEW i \in 1..Len(q)
  PROVE  /\ RemoveAt(q, i) \in Seq(S) /\ Len(RemoveAt(q, i)) = Len(q) - 1
         /\ \A j \in 1..i - 1 : RemoveAt(q, i)[j] = q[j]
         /\ \A j \in i..Len(q) - 1 : RemoveAt(q, i)[j] = q[j + 1]
<1> DEFINE a == SubSeq(q, 1, i - 1)
           b == SubSeq(q, i + 1, Len(q))
           r == a \o b
<1>1. a \in Seq(S) /\ Len(a) = i - 1 /\ \A j \in 1..i - 1 : a[j] = q[j]
  OBVIOUS
<1>2. b \in Seq(S) /\ Len(b) = Len(q) - i /\ \A j \in 1..Len(q) - i : b[j] = q[i + j]
  OBVIOUS
<1> HIDE DEF a, b
<1>3. /\ r \in Seq(S) /\ Len(r) = Len(a) + Len(b)
      /\ \A j \in 1..Len(a) + Len(b) : r[j] = IF j <= Len(a) THEN a[j] ELSE b[j - Len(a)]
  BY <1>1, <1>2, ConcatProperties
<1> HIDE DEF r
<1>4. ASSUME NEW j \in 1..i - 1 PROVE r[j] = q[j]
  <2>1. j \in 1..Len(a) + Len(b) /\ j <= Len(a)
    BY <1>1, <1>2
  <2> QED
    BY <2>1, <1>1, <1>3
<1>5. ASSUME NEW j \in i..Len(q) - 1 PROVE r[j] = q[j + 1]
  <2>1. j - Len(a) \in 1..Len(q) - i /\ i + (j - Len(a)) = j + 1 /\ ~(j <= Len(a))
        /\ j \in 1..Len(a) + Len(b)
    BY <1>1, <1>2
  <2>2. r[j] = b[j - Len(a)]
    BY <2>1, <1>3
  <2> QED
    BY <2>1, <2>2, <1>2
<1>6. Len(r) = Len(q) - 1
  BY <1>1, <1>2, <1>3
<1>7. RemoveAt(q, i) = r
  BY DEF RemoveAt, a, b, r
<1> QED
  BY <1>3, <1>4, <1>5, <1>6, <1>7

\* What inserting a node makes.
LEMMA Insertion ==
  ASSUME NEW S, NEW q \in Seq(S), NEW i \in 1..Len(q) + 1, NEW e \in S
  PROVE  /\ InsertAt(q, i, e) \in Seq(S) /\ Len(InsertAt(q, i, e)) = Len(q) + 1
         /\ \A j \in 1..i - 1 : InsertAt(q, i, e)[j] = q[j]
         /\ InsertAt(q, i, e)[i] = e
         /\ \A j \in i + 1..Len(q) + 1 : InsertAt(q, i, e)[j] = q[j - 1]
<1> DEFINE a == SubSeq(q, 1, i - 1)
           b == SubSeq(q, i, Len(q))
           c == a \o <<e>>
           r == c \o b
<1>1. a \in Seq(S) /\ Len(a) = i - 1 /\ \A j \in 1..i - 1 : a[j] = q[j]
  OBVIOUS
<1>2. b \in Seq(S) /\ Len(b) = Len(q) - i + 1
      /\ \A j \in 1..Len(q) - i + 1 : b[j] = q[i + j - 1]
  OBVIOUS
<1>3. c \in Seq(S) /\ Len(c) = i /\ c[i] = e /\ \A j \in 1..i - 1 : c[j] = q[j]
  <2> HIDE DEF a
  <2> QED
    BY <1>1
<1> HIDE DEF a, b, c
<1>4. /\ r \in Seq(S) /\ Len(r) = Len(c) + Len(b)
      /\ \A j \in 1..Len(c) + Len(b) : r[j] = IF j <= Len(c) THEN c[j] ELSE b[j - Len(c)]
  BY <1>2, <1>3, ConcatProperties
<1> HIDE DEF r
<1>5. \A j \in 1..i - 1 : r[j] = q[j]
  BY <1>2, <1>3, <1>4
<1>6. r[i] = e
  BY <1>2, <1>3, <1>4
<1>7. ASSUME NEW j \in i + 1..Len(q) + 1 PROVE r[j] = q[j - 1]
  <2>1. j - Len(c) \in 1..Len(q) - i + 1 /\ i + (j - Len(c)) - 1 = j - 1 /\ ~(j <= Len(c))
        /\ j \in 1..Len(c) + Len(b)
    BY <1>2, <1>3
  <2>2. r[j] = b[j - Len(c)]
    BY <2>1, <1>4
  <2> QED
    BY <2>1, <2>2, <1>2
<1>8. Len(r) = Len(q) + 1
  BY <1>2, <1>3, <1>4
<1>9. InsertAt(q, i, e) = r
  BY DEF InsertAt, a, b, c, r
<1> QED
  BY <1>4, <1>5, <1>6, <1>7, <1>8, <1>9

\* Every set of numbers that is not empty has a least one.
LEMMA MinIsMember ==
  ASSUME NEW S \in SUBSET Nat, S # {}
  PROVE  Min(S) \in S /\ \A y \in S : Min(S) <= y
<1> DEFINE R == {ss \in Nat \X Nat : ss[1] < ss[2]}
<1>1. IsWellFoundedOn(R, Nat)
  BY NatLessThanWellFounded DEF OpToRel
<1>2. \A x, y \in Nat : y < x => <<y, x>> \in R
  OBVIOUS
<1> HIDE DEF R
<1>3. PICK x \in S : \A y \in S : ~ (<<y, x>> \in R)
  BY <1>1, WFMin
<1>4. \A y \in S : ~(y < x)
  BY <1>2, <1>3
<1>5. \A y \in S : x <= y
  BY <1>4
<1> QED
  BY <1>5 DEF Min

\* A node goes behind those whose key is not greater, which are the first ones.
LEMMA Place ==
  ASSUME NEW q \in Seq(Nodes), Sorted(q), NEW n \in Nodes
  PROVE  /\ PlaceOf(q, n) \in 1..Len(q) + 1
         /\ \A i \in 1..Len(q) : NotAfter(q[i], n) <=> i < PlaceOf(q, n)
<1> DEFINE P == {p \in 1..Len(q) + 1 : p \in 1..Len(q) => ~NotAfter(q[p], n)}
<1>1. Len(q) + 1 \in P /\ P \in SUBSET Nat
  OBVIOUS
<1>2. PICK p \in P : \A y \in P : p <= y
  <2> HIDE DEF P
  <2> QED
    BY <1>1, MinIsMember
<1>5. \A y \in P : ~(y < p)
  BY <1>2, <1>1
<1>6. ASSUME NEW i \in 1..Len(q) PROVE NotAfter(q[i], n) <=> i < p
  <2>1. i < p => NotAfter(q[i], n)
    BY <1>5
  <2>2. ASSUME i >= p, NotAfter(q[i], n) PROVE FALSE
    <3>1. p \in 1..Len(q) /\ ~NotAfter(q[p], n)
      BY <2>2
    <3>2. NotAfter(q[p], q[i])
      BY <3>1, <2>2 DEF Sorted
    <3>3. q[p] \in Nodes /\ q[i] \in Nodes
      BY <3>1
    <3> QED
      BY <3>1, <3>2, <3>3, <2>2, NotAfterOrder
  <2> QED
    BY <2>1, <2>2
<1> DEFINE C == {i \in 1..Len(q) : NotAfter(q[i], n)}
<1>7. C = 1..p - 1
  BY <1>6
<1>8. Cardinality(1..p - 1) = p - 1
  BY FS_Interval
<1>9. PlaceOf(q, n) = 1 + Cardinality(C)
  BY DEF PlaceOf
<1> HIDE DEF C
<1>10. PlaceOf(q, n) = p
  BY <1>7, <1>8, <1>9
<1> QED
  BY <1>6, <1>10

-----------------------------------------------------------------------------
(* What erasing and inserting nodes means for timers and for the iterator. *)

\* The node at i is erased, and with it the iterator p becomes p2.
LEMMA Erased ==
  ASSUME NEW q \in Seq(Nodes), Sorted(q), NEW i \in 1..Len(q), NEW p \in Nat, NEW p2 \in Nat,
         i < p => p2 = p - 1, i >= p => p2 = p
  PROVE  /\ RemoveAt(q, i) \in Seq(Nodes) /\ Sorted(RemoveAt(q, i))
         /\ \A t : Absent(q, t) => Absent(RemoveAt(q, i), t)
         /\ \A t, n : Filed(q, t, n) /\ q[i].timer # t /\ n.timer = t
                        => Filed(RemoveAt(q, i), t, n)
         /\ \A t, n : Filed(q, t, n) /\ q[i].timer = t => Absent(RemoveAt(q, i), t)
         /\ p >= 1 => p2 >= 1
         /\ p \in 1..Len(q) /\ p # i =>
               p2 \in 1..Len(RemoveAt(q, i)) /\ RemoveAt(q, i)[p2] = q[p]
         /\ \A t, T : Done(q, p, t, T) => Done(RemoveAt(q, i), p2, t, T)
         /\ \A t, T : Ahead(q, p, t, T) /\ q[i].timer # t => Ahead(RemoveAt(q, i), p2, t, T)
<1> DEFINE r == RemoveAt(q, i)
<1>1. /\ r \in Seq(Nodes) /\ Len(r) = Len(q) - 1
      /\ \A j \in 1..i - 1 : r[j] = q[j]
      /\ \A j \in i..Len(q) - 1 : r[j] = q[j + 1]
  BY Removal
<1> HIDE DEF r
\* where the nodes of r come from, and where those of q go
<1>2. ASSUME NEW j \in 1..Len(r)
      PROVE  \/ j < i /\ j \in 1..Len(q) /\ r[j] = q[j]
             \/ j >= i /\ j + 1 \in 1..Len(q) /\ r[j] = q[j + 1]
  BY <1>1
<1>3. ASSUME NEW k \in 1..Len(q), k # i
      PROVE  \/ k < i /\ k \in 1..Len(r) /\ r[k] = q[k]
             \/ k > i /\ k - 1 \in 1..Len(r) /\ r[k - 1] = q[k]
  <2>1. CASE k < i
    BY <2>1, <1>1
  <2>2. CASE k > i
    <3>1. k - 1 \in i..Len(q) - 1 /\ (k - 1) + 1 = k
      BY <2>2
    <3> QED
      BY <3>1, <2>2, <1>1
  <2> QED
    BY <1>3, <2>1, <2>2
<1>4. ASSUME NEW j1 \in 1..Len(r), NEW j2 \in 1..Len(r), j1 < j2
      PROVE  NotAfter(r[j1], r[j2])
  <2>1. CASE j2 < i
    BY <2>1, <1>2, <1>4 DEF Sorted
  <2>2. CASE j1 < i /\ j2 >= i
    <3>1. j1 < j2 + 1
      BY <1>4
    <3> QED
      BY <3>1, <2>2, <1>2 DEF Sorted
  <2>3. CASE j1 >= i
    <3>1. j1 + 1 < j2 + 1 /\ j2 >= i
      BY <2>3, <1>4
    <3>2. /\ j1 + 1 \in 1..Len(q) /\ r[j1] = q[j1 + 1]
          /\ j2 + 1 \in 1..Len(q) /\ r[j2] = q[j2 + 1]
      BY <3>1, <2>3, <1>2
    <3> QED
      BY <3>1, <3>2 DEF Sorted
  <2> QED
    BY <2>1, <2>2, <2>3
<1>5. ASSUME NEW t, Absent(q, t) PROVE Absent(r, t)
  BY <1>2, <1>5 DEF Absent
<1>6. ASSUME NEW t, NEW n, Filed(q, t, n), q[i].timer # t, n.timer = t PROVE Filed(r, t, n)
  <2>1. PICK k \in 1..Len(q) : q[k] = n /\ \A j \in 1..Len(q) : q[j].timer = t => j = k
    BY <1>6 DEF Filed
  <2>2. k # i
    BY <2>1, <1>6
  <2>3. CASE k < i
    <3>1. k \in 1..Len(r) /\ r[k] = n
      BY <2>1, <2>2, <2>3, <1>3
    <3>2. ASSUME NEW j \in 1..Len(r), r[j].timer = t PROVE j = k
      BY <3>2, <2>1, <2>3, <1>2
    <3> QED
      BY <3>1, <3>2 DEF Filed
  <2>4. CASE k > i
    <3>1. k - 1 \in 1..Len(r) /\ r[k - 1] = n
      BY <2>1, <2>2, <2>4, <1>3
    <3>2. ASSUME NEW j \in 1..Len(r), r[j].timer = t PROVE j = k - 1
      BY <3>2, <2>1, <2>4, <1>2
    <3> QED
      BY <3>1, <3>2 DEF Filed
  <2> QED
    BY <2>2, <2>3, <2>4
<1>7. ASSUME NEW t, NEW n, Filed(q, t, n), q[i].timer = t PROVE Absent(r, t)
  <2> SUFFICES ASSUME NEW j \in 1..Len(r), r[j].timer = t PROVE FALSE
    BY DEF Absent
  <2>1. PICK k \in 1..Len(q) : \A m \in 1..Len(q) : q[m].timer = t => m = k
    BY <1>7 DEF Filed
  <2>2. k = i
    BY <2>1, <1>7
  <2> QED
    BY <1>2, <2>1, <2>2
<1>8. p >= 1 => p2 >= 1
  OBVIOUS
<1>9. ASSUME p \in 1..Len(q), p # i PROVE p2 \in 1..Len(r) /\ r[p2] = q[p]
  BY <1>3, <1>9
<1>10. ASSUME NEW t, NEW T, Done(q, p, t, T) PROVE Done(r, p2, t, T)
  <2> SUFFICES ASSUME NEW j \in 1..Len(r), r[j].timer = t, ~(r[j].due > T) PROVE j < p2
    BY DEF Done
  <2>1. CASE j < i
    BY <2>1, <1>2, <1>10 DEF Done
  <2>2. CASE j >= i
    BY <2>2, <1>2, <1>10 DEF Done
  <2> QED
    BY <2>1, <2>2
<1>11. ASSUME NEW t, NEW T, Ahead(q, p, t, T), q[i].timer # t PROVE Ahead(r, p2, t, T)
  <2>1. PICK k \in 1..Len(q) : q[k].timer = t /\ k >= p /\ q[k].due \in 1..T
    BY <1>11 DEF Ahead
  <2>2. k # i
    BY <2>1, <1>11
  <2>3. CASE k < i
    <3>1. k \in 1..Len(r) /\ r[k] = q[k] /\ k >= p2
      BY <2>1, <2>2, <2>3, <1>3
    <3> QED
      BY <3>1, <2>1 DEF Ahead
  <2>4. CASE k > i
    <3>1. k - 1 \in 1..Len(r) /\ r[k - 1] = q[k] /\ k - 1 >= p2
      BY <2>1, <2>2, <2>4, <1>3
    <3> QED
      BY <3>1, <2>1 DEF Ahead
  <2> QED
    BY <2>2, <2>3, <2>4
<1>12. Sorted(r)
  BY <1>4 DEF Sorted
<1> QED
  BY <1>1, <1>5, <1>6, <1>7, <1>8, <1>9, <1>10, <1>11, <1>12 DEF r

\* The node n is inserted, and the iterator p moves on.
LEMMA Entered ==
  ASSUME NEW q \in Seq(Nodes), Sorted(q), NEW n \in Nodes, NEW p \in Nat
  PROVE  /\ Emplaced(q, n) \in Seq(Nodes) /\ Sorted(Emplaced(q, n))
         /\ \A t : Absent(q, t) /\ n.timer # t => Absent(Emplaced(q, n), t)
         /\ \A t, m : Filed(q, t, m) /\ n.timer # t => Filed(Emplaced(q, n), t, m)
         /\ \A t : Absent(q, t) /\ n.timer = t => Filed(Emplaced(q, n), t, n)
         /\ MovedOn(p, q, n) \in Nat /\ (p >= 1 => MovedOn(p, q, n) >= 1)
         /\ p \in 1..Len(q) => /\ MovedOn(p, q, n) \in 1..Len(Emplaced(q, n))
                               /\ Emplaced(q, n)[MovedOn(p, q, n)] = q[p]
         /\ p >= 1 => \A t, T : Done(q, p, t, T) /\ n.timer # t
                                  => Done(Emplaced(q, n), MovedOn(p, q, n), t, T)
         /\ p >= 1 => \A t, T : Ahead(q, p, t, T)
                                  => Ahead(Emplaced(q, n), MovedOn(p, q, n), t, T)
         /\ p >= 1 => \A t, T : Absent(q, t) /\ (n.due > T \/ (p \in 1..Len(q) /\ n.due < q[p].due))
                                  => Done(Emplaced(q, n), MovedOn(p, q, n), t, T)
<1> DEFINE l == PlaceOf(q, n)
           r == Emplaced(q, n)
           p2 == MovedOn(p, q, n)
<1>1. l \in 1..Len(q) + 1 /\ \A i \in 1..Len(q) : NotAfter(q[i], n) <=> i < l
  BY Place
<1>2. /\ r \in Seq(Nodes) /\ Len(r) = Len(q) + 1
      /\ \A j \in 1..l - 1 : r[j] = q[j]
      /\ r[l] = n
      /\ \A j \in l + 1..Len(q) + 1 : r[j] = q[j - 1]
  <2>1. r = InsertAt(q, l, n)
    BY DEF Emplaced
  <2> HIDE DEF l, r
  <2> DEFINE s == InsertAt(q, l, n)
  <2>2. /\ s \in Seq(Nodes) /\ Len(s) = Len(q) + 1
        /\ \A j \in 1..l - 1 : s[j] = q[j]
        /\ s[l] = n
        /\ \A j \in l + 1..Len(q) + 1 : s[j] = q[j - 1]
    BY <1>1, Insertion
  <2> HIDE DEF s
  <2>3. r = s
    BY <2>1 DEF s
  <2> QED
    BY <2>2, <2>3
<1>3. /\ p # 0 /\ l <= p => p2 = p + 1
      /\ ~(p # 0 /\ l <= p) => p2 = p
  BY DEF MovedOn
<1> HIDE DEF r, l, p2
<1>4. ASSUME NEW j \in 1..Len(r)
      PROVE  \/ j = l
             \/ j < l /\ j \in 1..Len(q) /\ r[j] = q[j]
             \/ j > l /\ j - 1 \in 1..Len(q) /\ r[j] = q[j - 1]
  BY <1>1, <1>2
<1>5. ASSUME NEW k \in 1..Len(q)
      PROVE  \/ k < l /\ k \in 1..Len(r) /\ r[k] = q[k]
             \/ k >= l /\ k + 1 \in 1..Len(r) /\ r[k + 1] = q[k]
  <2>1. CASE k < l
    BY <2>1, <1>1, <1>2
  <2>2. CASE k >= l
    <3>1. k + 1 \in l + 1..Len(q) + 1 /\ (k + 1) - 1 = k
      BY <2>2, <1>1
    <3> QED
      BY <3>1, <2>2, <1>1, <1>2
  <2> QED
    BY <1>1, <2>1, <2>2
<1>6. ASSUME NEW j1 \in 1..Len(r), NEW j2 \in 1..Len(r), j1 < j2
      PROVE  NotAfter(r[j1], r[j2])
  <2>1. CASE j2 < l
    BY <2>1, <1>4, <1>6, <1>1 DEF Sorted
  <2>2. CASE j2 = l
    BY <2>2, <1>1, <1>2, <1>4, <1>6
  <2>3. CASE j1 < l /\ j2 > l
    <3>2. j1 \in 1..Len(q) /\ r[j1] = q[j1] /\ j2 - 1 \in 1..Len(q) /\ r[j2] = q[j2 - 1]
      BY <2>3, <1>1, <1>4
    <3>3. NotAfter(q[j1], n) /\ ~NotAfter(q[j2 - 1], n)
      BY <3>2, <2>3, <1>1
    <3>4. q[j1] \in Nodes /\ q[j2 - 1] \in Nodes
      BY <3>2
    <3> QED
      BY <3>2, <3>3, <3>4, NotAfterOrder
  <2>4. CASE j1 = l
    <3>1. j2 > l /\ j2 - 1 \in 1..Len(q) /\ r[j2] = q[j2 - 1]
      BY <2>4, <1>1, <1>4, <1>6
    <3>2. ~NotAfter(q[j2 - 1], n) /\ q[j2 - 1] \in Nodes
      BY <3>1, <1>1
    <3> QED
      BY <3>1, <3>2, <2>4, <1>2, NotAfterOrder
  <2>5. CASE j1 > l
    <3>1. j2 > l /\ j1 - 1 < j2 - 1
      BY <2>5, <1>1, <1>6
    <3>2. j1 - 1 \in 1..Len(q) /\ r[j1] = q[j1 - 1] /\ j2 - 1 \in 1..Len(q) /\ r[j2] = q[j2 - 1]
      BY <3>1, <2>5, <1>1, <1>4
    <3> QED
      BY <3>1, <3>2 DEF Sorted
  <2> QED
    BY <2>1, <2>2, <2>3, <2>4, <2>5, <1>1, <1>2
<1>7. ASSUME NEW t, Absent(q, t), n.timer # t PROVE Absent(r, t)
  BY <1>2, <1>4, <1>7 DEF Absent
<1>8. ASSUME NEW t, NEW m, Filed(q, t, m), n.timer # t PROVE Filed(r, t, m)
  <2>1. PICK k \in 1..Len(q) : q[k] = m /\ \A j \in 1..Len(q) : q[j].timer = t => j = k
    BY <1>8 DEF Filed
  <2>2. CASE k < l
    <3>1. k \in 1..Len(r) /\ r[k] = m
      BY <2>1, <2>2, <1>5, <1>1
    <3>2. ASSUME NEW j \in 1..Len(r), r[j].timer = t PROVE j = k
      BY <3>2, <2>1, <2>2, <1>1, <1>2, <1>4, <1>8
    <3> QED
      BY <3>1, <3>2 DEF Filed
  <2>3. CASE k >= l
    <3>1. k + 1 \in 1..Len(r) /\ r[k + 1] = m
      BY <2>1, <2>3, <1>5, <1>1
    <3>2. ASSUME NEW j \in 1..Len(r), r[j].timer = t PROVE j = k + 1
      BY <3>2, <2>1, <2>3, <1>1, <1>2, <1>4, <1>8
    <3> QED
      BY <3>1, <3>2 DEF Filed
  <2> QED
    BY <2>2, <2>3, <1>1
<1>9. ASSUME NEW t, Absent(q, t), n.timer = t PROVE Filed(r, t, n)
  <2>1. l \in 1..Len(r) /\ r[l] = n
    BY <1>1, <1>2
  <2>2. ASSUME NEW j \in 1..Len(r), r[j].timer = t PROVE j = l
    BY <2>2, <1>4, <1>9 DEF Absent
  <2> QED
    BY <2>1, <2>2 DEF Filed
<1>10. p2 \in Nat /\ (p >= 1 => p2 >= 1)
  BY <1>3
<1>11. ASSUME p \in 1..Len(q) PROVE p2 \in 1..Len(r) /\ r[p2] = q[p]
  BY <1>1, <1>3, <1>5, <1>11
<1>12. ASSUME p >= 1, NEW t, NEW T, Done(q, p, t, T), n.timer # t PROVE Done(r, p2, t, T)
  <2> SUFFICES ASSUME NEW j \in 1..Len(r), r[j].timer = t, ~(r[j].due > T) PROVE j < p2
    BY DEF Done
  <2>1. j # l
    BY <1>2, <1>12
  <2>2. CASE j < l
    BY <2>2, <1>1, <1>3, <1>4, <1>12 DEF Done
  <2>3. CASE j > l
    <3>1. j - 1 < p
      BY <2>3, <1>1, <1>4, <1>12 DEF Done
    <3> QED
      BY <3>1, <2>3, <1>1, <1>3, <1>12
  <2> QED
    BY <2>1, <2>2, <2>3, <1>1
<1>13. ASSUME p >= 1, NEW t, NEW T, Ahead(q, p, t, T) PROVE Ahead(r, p2, t, T)
  <2>1. PICK k \in 1..Len(q) : q[k].timer = t /\ k >= p /\ q[k].due \in 1..T
    BY <1>13 DEF Ahead
  <2>2. CASE k < l
    <3>1. k \in 1..Len(r) /\ r[k] = q[k] /\ k >= p2
      BY <2>1, <2>2, <1>1, <1>3, <1>5
    <3> QED
      BY <3>1, <2>1 DEF Ahead
  <2>3. CASE k >= l
    <3>1. k + 1 \in 1..Len(r) /\ r[k + 1] = q[k] /\ k + 1 >= p2
      BY <2>1, <2>3, <1>1, <1>3, <1>5
    <3> QED
      BY <3>1, <2>1 DEF Ahead
  <2> QED
    BY <2>2, <2>3, <1>1
<1>14. ASSUME p >= 1, NEW t, NEW T, Absent(q, t),
              n.due > T \/ (p \in 1..Len(q) /\ n.due < q[p].due)
       PROVE  Done(r, p2, t, T)
  <2> SUFFICES ASSUME NEW j \in 1..Len(r), r[j].timer = t, ~(r[j].due > T) PROVE j < p2
    BY DEF Done
  <2>1. j = l
    BY <1>4, <1>14 DEF Absent
  <2>2. p \in 1..Len(q) /\ n.due < q[p].due
    BY <2>1, <1>2, <1>14
  <2>3. ~NotAfter(q[p], n)
    BY <2>2, NotAfterOrder
  <2>4. l <= p
    BY <2>2, <2>3, <1>1
  <2> QED
    BY <2>1, <2>4, <1>1, <1>3, <1>14
<1>15. Sorted(r)
  BY <1>6 DEF Sorted
<1> QED
  BY <1>2, <1>7, <1>8, <1>9, <1>10, <1>11, <1>12, <1>13, <1>14, <1>15 DEF r, p2

-----------------------------------------------------------------------------
(* The map and the iterator after the operations that steps consist of.    *)

\* From map q and iterator p to q2 and p2, for all nodes but those of timer t: they are
\* kept, the iterator stays at its node, and what was before or behind it still is.
Carried(q, p, q2, p2, t) ==
  /\ q2 \in Seq(Nodes) /\ Sorted(q2) /\ p2 \in Nat
  /\ \A u : u # t /\ Absent(q, u) => Absent(q2, u)
  /\ \A u, n : u # t /\ n.timer = u /\ Filed(q, u, n) => Filed(q2, u, n)
  /\ p >= 1 => /\ p2 >= 1
               /\ \A u, T : u # t /\ Done(q, p, u, T) => Done(q2, p2, u, T)
               /\ \A u, T : u # t /\ Ahead(q, p, u, T) => Ahead(q2, p2, u, T)
  /\ p \in 1..Len(q) /\ q[p].timer # t => p2 \in 1..Len(q2) /\ q2[p2] = q[p]

LEMMA CarriedTwice ==
  ASSUME NEW q1, NEW p1, NEW q2, NEW p2, NEW q3, NEW p3, NEW t,
         Carried(q1, p1, q2, p2, t), Carried(q2, p2, q3, p3, t)
  PROVE  Carried(q1, p1, q3, p3, t)
<1>1. p1 \in 1..Len(q1) /\ q1[p1].timer # t => p3 \in 1..Len(q3) /\ q3[p3] = q1[p1]
  BY DEF Carried
<1> QED
  BY <1>1 DEF Carried

\* Erasing the node at i; the iterator at a node that is erased is at the next one then.
LEMMA ErasedCarries ==
  ASSUME NEW q \in Seq(Nodes), Sorted(q), NEW i \in 1..Len(q), NEW p \in Nat, NEW p2 \in Nat,
         i < p => p2 = p - 1, i >= p => p2 = p,
         NEW t, q[i].timer = t, NEW r, r = RemoveAt(q, i)
  PROVE  /\ Carried(q, p, r, p2, t)
         /\ Absent(q, t) \/ (\E n : Filed(q, t, n)) => Absent(r, t)
<1> DEFINE s == RemoveAt(q, i)
<1>1. /\ s \in Seq(Nodes) /\ Sorted(s)
      /\ \A u : Absent(q, u) => Absent(s, u)
      /\ \A u, n : Filed(q, u, n) /\ q[i].timer # u /\ n.timer = u => Filed(s, u, n)
      /\ \A u, n : Filed(q, u, n) /\ q[i].timer = u => Absent(s, u)
      /\ p >= 1 => p2 >= 1
      /\ p \in 1..Len(q) /\ p # i => p2 \in 1..Len(s) /\ s[p2] = q[p]
      /\ \A u, T : Done(q, p, u, T) => Done(s, p2, u, T)
      /\ \A u, T : Ahead(q, p, u, T) /\ q[i].timer # u => Ahead(s, p2, u, T)
  BY Erased
<1> HIDE DEF s
<1>2. r = s
  BY DEF s
<1> QED
  BY <1>1, <1>2 DEF Carried

\* Inserting the node n.
LEMMA EnteredCarries ==
  ASSUME NEW q \in Seq(Nodes), Sorted(q), NEW n \in Nodes, NEW p \in Nat,
         NEW t, n.timer = t, NEW r, r = Emplaced(q, n), NEW p2, p2 = MovedOn(p, q, n)
  PROVE  /\ Carried(q, p, r, p2, t)
         /\ Absent(q, t) => Filed(r, t, n)
         /\ p >= 1 => \A T : Absent(q, t) /\ (n.due > T \/ (p \in 1..Len(q) /\ n.due < q[p].due))
                               => Done(r, p2, t, T)
<1> DEFINE s == Emplaced(q, n)
           m == MovedOn(p, q, n)
<1>1. /\ s \in Seq(Nodes) /\ Sorted(s)
      /\ \A u : Absent(q, u) /\ n.timer # u => Absent(s, u)
      /\ \A u, k : Filed(q, u, k) /\ n.timer # u => Filed(s, u, k)
      /\ \A u : Absent(q, u) /\ n.timer = u => Filed(s, u, n)
      /\ m \in Nat /\ (p >= 1 => m >= 1)
      /\ p \in 1..Len(q) => m \in 1..Len(s) /\ s[m] = q[p]
      /\ p >= 1 => \A u, T : Done(q, p, u, T) /\ n.timer # u => Done(s, m, u, T)
      /\ p >= 1 => \A u, T : Ahead(q, p, u, T) => Ahead(s, m, u, T)
      /\ p >= 1 => \A u, T : Absent(q, u) /\ (n.due > T \/ (p \in 1..Len(q) /\ n.due < q[p].due))
                               => Done(s, m, u, T)
  BY Entered
<1> HIDE DEF s, m
<1>2. r = s /\ p2 = m
  BY DEF s, m
<1> QED
  BY <1>1, <1>2 DEF Carried

\* q and p are map and iterator after timer t has been taken out, if it was found.
Taken(t, q, p) ==
  /\ Carried(m_timers, pos, q, p, t)
  /\ ~m_isRunning[t] => q = m_timers
  /\ m_isRunning[t] /\ Filed(m_timers, t, Key(t)) => Absent(q, t)

\* What removeTimer finds is a node under the key of the timer.
LEMMA FoundIsFiled ==
  ASSUME TimerType, NEW t \in Timer
  PROVE  /\ Found(t) # {} => /\ Min(Found(t)) \in 1..Len(m_timers)
                             /\ m_timers[Min(Found(t))] = Key(t)
                             /\ m_timers[Min(Found(t))].timer = t
         /\ Filed(m_timers, t, Key(t)) => Found(t) # {}
<1>1. Key(t).timer = t
  BY DEF Key, Node
<1>2. Found(t) = {i \in 1..Len(m_timers) : m_timers[i] = Key(t)}
  BY DEF Found, Key
<1>3. Found(t) \in SUBSET Nat
  BY <1>2
<1>4. Found(t) # {} => Min(Found(t)) \in Found(t)
  BY <1>3, MinIsMember
<1> QED
  BY <1>1, <1>2, <1>4 DEF Filed

LEMMA RequeueTakes ==
  ASSUME TimerType, NEW t \in Timer, NEW ms, NEW again \in BOOLEAN, Requeue(t, ms, again)
  PROVE  /\ \E q, p : /\ Taken(t, q, p)
                      /\ again => Add(q, p, t, ms)
                      /\ ~again => /\ m_timers' = q /\ pos' = p /\ KeyReset(t)
                                   /\ UNCHANGED <<m_currentTimerSerial, compaction, seen, inside>>
         /\ adjusted' \in Timer \cup {"end", "invalid"} /\ owed' = owed \ {t}
<1> DEFINE found == IF m_isRunning[t] THEN Found(t) ELSE {}
           i == Min(found)
           q == IF found = {} THEN m_timers ELSE RemoveAt(m_timers, i)
           p == IF found # {} /\ i < pos THEN pos - 1 ELSE pos
<1>1. /\ again => Add(q, p, t, ms)
      /\ ~again => /\ m_timers' = q /\ pos' = p /\ KeyReset(t)
                   /\ UNCHANGED <<m_currentTimerSerial, compaction, seen, inside>>
  BY DEF Requeue
<1>2. adjusted' \in Timer \cup {"end", "invalid"} /\ owed' = owed \ {t}
  BY DEF Requeue, Dangling, TimerType, TypeOK, DispatcherOK
<1>3. m_timers \in Seq(Nodes) /\ pos \in Nat /\ Sorted(m_timers)
  BY DEF TimerType, TypeOK, DispatcherOK
<1>4. Taken(t, q, p)
  <2>1. CASE found = {}
    <3>1. q = m_timers /\ p = pos
      BY <2>1
    <3>2. ~(m_isRunning[t] /\ Filed(m_timers, t, Key(t)))
      BY <2>1, FoundIsFiled
    <3> HIDE DEF q, p, found
    <3> QED
      BY <1>3, <3>1, <3>2 DEF Taken, Carried
  <2>2. CASE found # {}
    <3>1. found = Found(t) /\ m_isRunning[t]
      BY <2>2
    <3>2. i \in 1..Len(m_timers) /\ m_timers[i] = Key(t) /\ m_timers[i].timer = t
      BY <3>1, <2>2, FoundIsFiled
    <3>3. q = RemoveAt(m_timers, i)
      BY <2>2
    <3>4. (i < pos => p = pos - 1) /\ (i >= pos => p = pos)
      BY <2>2, <3>2, <1>3
    <3> HIDE DEF found, i, q, p
    <3>5. p \in Nat
      BY <3>2, <3>4, <1>3
    <3>6. /\ Carried(m_timers, pos, q, p, t)
          /\ Absent(m_timers, t) \/ (\E n : Filed(m_timers, t, n)) => Absent(q, t)
      BY <1>3, <3>2, <3>3, <3>4, <3>5, ErasedCarries
    <3> QED
      BY <3>1, <3>6 DEF Taken
  <2> QED
    BY <2>1, <2>2
<1> HIDE DEF q, p
<1> QED
  BY <1>1, <1>2, <1>4

\* Keys stay typed, and those of all timers but t stay what they are.
KeysKept(t) ==
  /\ m_nextDueTime' \in [Timer -> Nat] /\ m_serial' \in [Timer -> 0..maxSerial]
  /\ \A u \in Timer \ {t} : m_nextDueTime'[u] = m_nextDueTime[u] /\ m_serial'[u] = m_serial[u]

LEMMA KeyOf ==
  ASSUME NEW t \in Timer, TypeOK
  PROVE  /\ Key(t) \in Nodes /\ Key(t).timer = t /\ maxSerial \in Nat
         /\ Key(t).due = m_nextDueTime[t] /\ Key(t).serial = m_serial[t]
<1>1. m_nextDueTime[t] \in Nat /\ m_serial[t] \in 0..maxSerial /\ maxSerial \in Nat
  BY MaxSerialsAssumption DEF TypeOK, TimersOK
<1>2. m_serial[t] \in Nat
  BY <1>1
<1> QED
  BY <1>1, <1>2, NodeFields DEF Key

LEMMA EnterPuts ==
  ASSUME TimerType, NEW q \in Seq(Nodes), Sorted(q), NEW p \in Nat, NEW t \in Timer,
         NEW ms \in Nat, NEW s \in 0..maxSerial, Enter(q, p, t, ms, s)
  PROVE  /\ Carried(q, p, m_timers', pos', t) /\ KeysKept(t)
         /\ m_currentTimerSerial' \in 0..maxSerial + 1
         /\ Absent(q, t) => Filed(m_timers', t, Key(t)')
         /\ p >= 1 /\ Absent(q, t) =>
              \A T : DueTime(ms) > T \/ (p \in 1..Len(q) /\ DueTime(ms) < q[p].due)
                       => Done(m_timers', pos', t, T)
<1> DEFINE n == Node(DueTime(ms), s, t)
<1>1. DueTime(ms) \in Nat /\ s \in Nat /\ maxSerial \in Nat
  BY MaxSerialsAssumption DEF DueTime, TimerType, TypeOK
<1>2. n \in Nodes /\ n.due = DueTime(ms) /\ n.serial = s /\ n.timer = t
  BY <1>1, NodeFields
<1>3. /\ m_timers' = Emplaced(q, n) /\ pos' = MovedOn(p, q, n)
      /\ m_nextDueTime' = [m_nextDueTime EXCEPT ![t] = n.due]
      /\ m_serial' = [m_serial EXCEPT ![t] = s]
      /\ m_currentTimerSerial' = s + 1
  BY DEF Enter
<1>4. KeysKept(t) /\ m_nextDueTime'[t] = DueTime(ms) /\ m_serial'[t] = s
      /\ m_currentTimerSerial' \in 0..maxSerial + 1
  <2> HIDE DEF n
  <2> QED
    BY <1>1, <1>2, <1>3 DEF KeysKept, TimerType, TypeOK, TimersOK
<1>5. Key(t)' = n
  BY <1>4 DEF Key
<1> HIDE DEF n
<1>6. /\ Carried(q, p, m_timers', pos', t)
      /\ Absent(q, t) => Filed(m_timers', t, n)
      /\ p >= 1 => \A T : Absent(q, t) /\ (n.due > T \/ (p \in 1..Len(q) /\ n.due < q[p].due))
                            => Done(m_timers', pos', t, T)
  BY <1>2, <1>3, EnteredCarries
<1> QED
  BY <1>2, <1>4, <1>5, <1>6

\* addTimer enters the timer, or begins to compact the serials for it.
LEMMA AddPuts ==
  ASSUME TimerType, NEW q \in Seq(Nodes), Sorted(q), NEW p \in Nat, NEW t \in Timer,
         NEW ms \in Nat, Add(q, p, t, ms)
  PROVE  \/ /\ Carried(q, p, m_timers', pos', t) /\ KeysKept(t)
            /\ m_currentTimerSerial' \in 0..maxSerial + 1
            /\ Absent(q, t) => Filed(m_timers', t, Key(t)')
            /\ p >= 1 /\ Absent(q, t) =>
                 \A T : DueTime(ms) > T \/ (p \in 1..Len(q) /\ DueTime(ms) < q[p].due)
                          => Done(m_timers', pos', t, T)
            /\ seen' = SeenAdding(t) /\ UNCHANGED <<compaction, inside>>
         \/ /\ m_timers' = q /\ pos' = p /\ KeysKept(t) /\ seen' = seen
            /\ m_currentTimerSerial' \in 0..maxSerial + 1
            /\ compaction' \in Compactions /\ compaction'.for = t /\ compaction'.at = 1
            /\ compaction'.newSerial = 0 /\ compaction'.count <= maxSerial
            /\ inside' = (inside \/ m_triggerTime # 0)
<1>1. maxSerial \in Nat /\ m_currentTimerSerial \in 0..maxSerial + 1 /\ Len(q) \in Nat
  BY MaxSerialsAssumption DEF TimerType, TypeOK, DispatcherOK
<1>2. CASE ~SerialsUsedUp
  <2>1. m_currentTimerSerial \in 0..maxSerial
    BY <1>1, <1>2 DEF SerialsUsedUp
  <2>2. /\ Enter(q, p, t, ms, m_currentTimerSerial)
        /\ seen' = SeenAdding(t) /\ UNCHANGED <<compaction, inside>>
    BY <1>2 DEF Add
  <2> QED
    BY <2>1, <2>2, EnterPuts
<1>3. CASE SerialsUsedUp /\ TooMany(q)
  <2>1. 0 \in 0..maxSerial
    BY <1>1
  <2>2. Enter(q, p, t, ms, 0) /\ seen' = SeenAdding(t) /\ UNCHANGED <<compaction, inside>>
    BY <1>3 DEF Add
  <2> QED
    BY <2>1, <2>2, EnterPuts
<1>4. CASE SerialsUsedUp /\ ~TooMany(q)
  <2>1. /\ compaction' = [for |-> t, count |-> Len(q), newSerial |-> 0, at |-> 1,
                          pick |-> FALSE]
        /\ m_timers' = q /\ pos' = p
        /\ inside' = (inside \/ m_triggerTime # 0)
        /\ UNCHANGED <<m_nextDueTime, m_serial, m_currentTimerSerial, seen>>
    BY <1>4 DEF Add
  <2>2. Len(q) <= maxSerial
    BY <1>1, <1>4 DEF TooMany
  <2>3. KeysKept(t)
    BY <2>1 DEF KeysKept, TimerType, TypeOK, TimersOK
  <2>4. compaction' \in Compactions
    BY <1>1, <2>1 DEF Compactions
  <2> QED
    BY <1>1, <2>1, <2>2, <2>3, <2>4
<1> QED
  BY <1>2, <1>3, <1>4

\* What start, setRunning and setInterval leave, whatever they find.
Requeued(t, again) ==
  /\ Carried(m_timers, pos, m_timers', pos', t) /\ KeysKept(t)
  /\ m_currentTimerSerial' \in 0..maxSerial + 1
  /\ adjusted' \in Timer \cup {"end", "invalid"} /\ owed' = owed \ {t}
  /\ seen' = seen \/ seen' = SeenAdding(t)
  /\ \/ compaction' = compaction /\ inside' = inside
     \/ /\ again /\ inside' = (inside \/ m_triggerTime # 0)
        /\ compaction' \in Compactions /\ compaction'.for = t /\ compaction'.at = 1
        /\ compaction'.newSerial = 0 /\ compaction'.count <= maxSerial

\* And where they put a timer that is where it belongs, while another one is called back or
\* none.
Replaced(t, again) ==
  /\ again /\ compaction' = compaction => Filed(m_timers', t, Key(t)')
  /\ ~again \/ compaction' # compaction => Absent(m_timers', t)
  /\ ~inside' /\ m_triggerTime # 0 =>
       (/\ m_triggerTime <= now /\ pos \in 1..Len(m_timers)
        /\ m_timers[pos].timer # t /\ m_timers[pos].due >= 1
        => Done(m_timers', pos', t, m_triggerTime))

LEMMA RequeueDoes ==
  ASSUME TimerType, NEW t \in Timer, NEW ms \in Nat, NEW again \in BOOLEAN,
         Requeue(t, ms, again), ~Compacting
  PROVE  /\ Requeued(t, again)
         /\ /\ m_isRunning[t] => Filed(m_timers, t, Key(t))
            /\ ~m_isRunning[t] => Absent(m_timers, t)
            => Replaced(t, again)
<1>1. /\ \E q, p : /\ Taken(t, q, p)
                   /\ again => Add(q, p, t, ms)
                   /\ ~again => /\ m_timers' = q /\ pos' = p /\ KeyReset(t)
                                /\ UNCHANGED <<m_currentTimerSerial, compaction, seen, inside>>
      /\ adjusted' \in Timer \cup {"end", "invalid"} /\ owed' = owed \ {t}
  BY RequeueTakes
<1>2. PICK q, p : /\ Taken(t, q, p)
                  /\ again => Add(q, p, t, ms)
                  /\ ~again => /\ m_timers' = q /\ pos' = p /\ KeyReset(t)
                               /\ UNCHANGED <<m_currentTimerSerial, compaction, seen, inside>>
  BY <1>1
<1>3. Carried(m_timers, pos, q, p, t) /\ q \in Seq(Nodes) /\ Sorted(q) /\ p \in Nat
  BY <1>2 DEF Taken, Carried
<1>4. /\ m_isRunning[t] => Filed(m_timers, t, Key(t))
      /\ ~m_isRunning[t] => Absent(m_timers, t)
      => Absent(q, t)
  <2>1. m_isRunning[t] \in BOOLEAN
    BY DEF TimerType, TypeOK, TimersOK
  <2> QED
    BY <1>2, <2>1 DEF Taken
<1>5. CASE ~again
  <2>1. m_timers' = q /\ pos' = p /\ KeyReset(t)
        /\ UNCHANGED <<m_currentTimerSerial, compaction, seen, inside>>
    BY <1>2, <1>5
  <2>2. KeysKept(t)
    BY <2>1, MaxSerialsAssumption DEF KeyReset, KeysKept, TimerType, TypeOK, TimersOK
  <2>3. m_currentTimerSerial' \in 0..maxSerial + 1
    BY <2>1 DEF TimerType, TypeOK, DispatcherOK
  <2>4. Requeued(t, again)
    BY <1>1, <1>3, <2>1, <2>2, <2>3 DEF Requeued
  <2>5. Absent(m_timers', t) => Done(m_timers', pos', t, m_triggerTime)
    BY DEF Absent, Done
  <2>6. Absent(m_timers', t) => Replaced(t, again)
    BY <1>5, <2>1, <2>5 DEF Replaced
  <2> QED
    BY <1>4, <2>1, <2>4, <2>6
<1>6. CASE again
  <2>1. Add(q, p, t, ms)
    BY <1>2, <1>6
  <2>2. CASE /\ Carried(q, p, m_timers', pos', t) /\ KeysKept(t)
             /\ m_currentTimerSerial' \in 0..maxSerial + 1
             /\ Absent(q, t) => Filed(m_timers', t, Key(t)')
             /\ p >= 1 /\ Absent(q, t) =>
                  \A T : DueTime(ms) > T \/ (p \in 1..Len(q) /\ DueTime(ms) < q[p].due)
                           => Done(m_timers', pos', t, T)
             /\ seen' = SeenAdding(t) /\ UNCHANGED <<compaction, inside>>
    <3>1. Carried(m_timers, pos, m_timers', pos', t)
      BY <1>3, <2>2, CarriedTwice
    <3>2. Requeued(t, again)
      BY <1>1, <2>2, <3>1 DEF Requeued
    <3>3. ASSUME Absent(q, t), m_triggerTime # 0, m_triggerTime <= now, pos \in 1..Len(m_timers),
                 m_timers[pos].timer # t, m_timers[pos].due >= 1
          PROVE  Done(m_timers', pos', t, m_triggerTime)
      <4>1. p \in 1..Len(q) /\ q[p] = m_timers[pos] /\ p >= 1
        BY <1>3, <3>3 DEF Carried
      <4>2. m_triggerTime \in Nat /\ now \in Nat
        BY DEF TimerType, TypeOK, DispatcherOK
      <4>3. CASE ms = 0
        <5>1. DueTime(ms) = 0
          BY <4>3, <3>3 DEF DueTime
        <5>2. q[p] \in Nodes
          BY <1>3, <4>1
        <5>3. q[p].due \in Nat /\ q[p].due >= 1
          BY <4>1, <3>3, <5>2, NodeFields
        <5>4. DueTime(ms) < q[p].due
          BY <5>1, <5>3
        <5> QED
          BY <2>2, <3>3, <4>1, <5>4
      <4>4. CASE ms # 0
        <5>1. DueTime(ms) = now + ms
          BY <4>4 DEF DueTime
        <5>2. DueTime(ms) > m_triggerTime
          BY <4>2, <4>4, <5>1, <3>3
        <5> QED
          BY <2>2, <3>3, <4>1, <5>2
      <4> QED
        BY <4>3, <4>4
    <3>4. Absent(q, t) => Replaced(t, again)
      BY <1>6, <2>2, <3>3 DEF Replaced
    <3> QED
      BY <1>4, <3>2, <3>4
  <2>3. CASE /\ m_timers' = q /\ pos' = p /\ KeysKept(t) /\ seen' = seen
             /\ m_currentTimerSerial' \in 0..maxSerial + 1
             /\ compaction' \in Compactions /\ compaction'.for = t /\ compaction'.at = 1
             /\ compaction'.newSerial = 0 /\ compaction'.count <= maxSerial
             /\ inside' = (inside \/ m_triggerTime # 0)
    <3>1. Requeued(t, again)
      BY <1>1, <1>3, <1>6, <2>3 DEF Requeued
    <3>2. compaction' # compaction
      BY <2>3, NullAssumption DEF Compacting
    <3>3. Absent(q, t) => Replaced(t, again)
      BY <1>6, <2>3, <3>2 DEF Replaced
    <3> QED
      BY <1>4, <3>1, <3>3
  <2> QED
    BY <1>3, <2>1, <2>2, <2>3, AddPuts
<1> QED
  BY <1>5, <1>6

\* The node at the iterator gets its new place or is erased, and the iterator moves on.
LEMMA AdvanceMoves ==
  ASSUME TimerType, pos \in 1..Len(m_timers), NEW t, t = Here, Advance
  PROVE  /\ Carried(m_timers, pos, m_timers', pos', t) /\ KeysKept(t)
         /\ adjusted' \in Timer \cup {"end", "invalid"}
         /\ Live(t) /\ Filed(m_timers, t, Key(t)) => Filed(m_timers', t, Key(t)')
         /\ ~Live(t) /\ (\E n : Filed(m_timers, t, n)) => Absent(m_timers', t)
         /\ /\ \E n : Filed(m_timers, t, n)
            /\ Live(t) => m_interval[t] # 0 \/ m_nextDueTime[t] # 0
            => Done(m_timers', pos', t, m_triggerTime)
<1>1. /\ m_timers \in Seq(Nodes) /\ Sorted(m_timers) /\ pos \in Nat /\ m_triggerTime \in Nat
      /\ adjusted \in Timer \cup {"end", "invalid"} /\ maxSerial \in Nat
      /\ m_interval \in [Timer -> Nat] /\ m_nextDueTime \in [Timer -> Nat]
      /\ m_serial \in [Timer -> 0..maxSerial]
  BY MaxSerialsAssumption DEF TimerType, TypeOK, DispatcherOK, TimersOK
<1>2. m_timers[pos] \in Nodes /\ m_timers[pos].timer = t
  BY <1>1 DEF Here
<1>3. t \in Timer \cup {Null} /\ (Live(t) => t \in Timer)
  BY <1>2, NodeFields DEF Live
<1>4. Dangling(t) \in Timer \cup {"end", "invalid"}
  BY <1>1 DEF Dangling
<1>9. ASSUME NEW r, r = RemoveAt(m_timers, pos)
      PROVE  /\ Carried(m_timers, pos, r, pos, t)
             /\ Absent(m_timers, t) \/ (\E k : Filed(m_timers, t, k)) => Absent(r, t)
  <2>1. m_timers \in Seq(Nodes) /\ Sorted(m_timers) /\ pos \in Nat /\ m_timers[pos].timer = t
    BY <1>1, <1>2
  <2>2. (pos < pos => pos = pos - 1) /\ (pos >= pos => pos = pos)
    BY <2>1
  <2> DEFINE p == pos
  <2>3. /\ p \in Nat /\ (pos < p => p = p - 1) /\ (pos >= p => p = p) /\ p = pos
    BY <2>1, <2>2
  <2> HIDE DEF p
  <2>4. /\ Carried(m_timers, p, r, p, t)
        /\ Absent(m_timers, t) \/ (\E k : Filed(m_timers, t, k)) => Absent(r, t)
    BY <1>9, <2>1, <2>3, ErasedCarries
  <2> QED
    BY <2>3, <2>4
<1>5. CASE /\ Live(t) /\ m_interval[t] = 0 /\ m_nextDueTime[t] # 0
           /\ pos' = pos + 1
           /\ UNCHANGED <<m_timers, m_nextDueTime, m_serial, adjusted>>
  <2>1. ASSUME NEW u, NEW T, u # t, Ahead(m_timers, pos, u, T)
        PROVE  Ahead(m_timers', pos', u, T)
    <3>1. PICK i \in 1..Len(m_timers) : /\ m_timers[i].timer = u /\ i >= pos
                                        /\ m_timers[i].due \in 1..T
      BY <2>1 DEF Ahead
    <3>2. i >= pos'
      BY <3>1, <2>1, <1>1, <1>2, <1>5
    <3> QED
      BY <3>1, <3>2, <1>5 DEF Ahead
  <2>2. ASSUME NEW u, NEW T, Done(m_timers, pos, u, T) PROVE Done(m_timers', pos', u, T)
    BY <1>1, <1>5, <2>2 DEF Done
  <2>3. Carried(m_timers, pos, m_timers', pos', t)
    BY <1>1, <1>2, <1>5, <2>1, <2>2 DEF Carried
  <2>4. KeysKept(t)
    BY <1>1, <1>5 DEF KeysKept
  <2>5. Key(t)' = Key(t) /\ Live(t)
    BY <1>5 DEF Key
  <2>6. ASSUME NEW n, Filed(m_timers, t, n) PROVE Done(m_timers', pos', t, m_triggerTime)
    BY <1>1, <1>2, <1>5, <2>6 DEF Filed, Done
  <2> QED
    BY <1>1, <1>5, <2>3, <2>4, <2>5, <2>6
<1>6. CASE /\ Live(t) /\ ~(m_interval[t] = 0 /\ m_nextDueTime[t] # 0)
           /\ Reschedule(t)
  <2> DEFINE rest == RemoveAt(m_timers, pos)
             n    == Node(m_triggerTime + m_interval[t], m_serial[t], t)
  <2>1. /\ m_timers' = Emplaced(rest, n)
        /\ m_nextDueTime' = [m_nextDueTime EXCEPT ![t] = n.due]
        /\ pos' = MovedOn(pos, rest, n)
        /\ adjusted' = Dangling(t) /\ m_serial' = m_serial
    BY <1>6 DEF Reschedule
  <2>2. /\ m_triggerTime + m_interval[t] \in Nat /\ m_serial[t] \in Nat /\ t \in Timer
    BY <1>1, <1>3, <1>6
  <2>3. /\ n \in Nodes /\ n.timer = t /\ n.serial = m_serial[t]
        /\ n.due = m_triggerTime + m_interval[t]
    BY <2>2, NodeFields
  <2>4. rest = RemoveAt(m_timers, pos)
    OBVIOUS
  <2>5. n = Node(m_triggerTime + m_interval[t], m_serial[t], t)
    OBVIOUS
  <2> HIDE DEF rest, n
  <2>6. /\ Carried(m_timers, pos, rest, pos, t)
        /\ Absent(m_timers, t) \/ (\E k : Filed(m_timers, t, k)) => Absent(rest, t)
    BY <1>9, <2>4
  <2>7. rest \in Seq(Nodes) /\ Sorted(rest)
    BY <2>6 DEF Carried
  <2>8. /\ Carried(rest, pos, m_timers', pos', t)
        /\ Absent(rest, t) => Filed(m_timers', t, n)
        /\ pos >= 1 => \A T : Absent(rest, t) /\ (n.due > T \/ (pos \in 1..Len(rest) /\ n.due < rest[pos].due))
                               => Done(m_timers', pos', t, T)
    BY <1>1, <2>1, <2>3, <2>7, EnteredCarries
  <2>9. Carried(m_timers, pos, m_timers', pos', t)
    BY <2>6, <2>8, CarriedTwice
  <2>10. KeysKept(t) /\ m_nextDueTime'[t] = n.due /\ m_serial'[t] = m_serial[t]
    BY <1>1, <2>1, <2>2, <2>3 DEF KeysKept
  <2>11. Key(t)' = n
    BY <2>3, <2>5, <2>10 DEF Key
  <2>12. ASSUME m_interval[t] # 0 \/ m_nextDueTime[t] # 0 PROVE n.due > m_triggerTime
    BY <1>1, <1>6, <2>2, <2>3, <2>12
  <2>13. Absent(rest, t) /\ n.due > m_triggerTime => Done(m_timers', pos', t, m_triggerTime)
    BY <1>1, <2>8
  <2> QED
    BY <1>4, <1>6, <2>1, <2>6, <2>8, <2>9, <2>10, <2>11, <2>12, <2>13
<1>7. CASE /\ ~Live(t)
           /\ m_timers' = RemoveAt(m_timers, pos)
           /\ pos' = NextAfterErase
           /\ adjusted' = Dangling(t)
           /\ KeyReset(t)
  <2>1. pos' = pos
    BY <1>7 DEF NextAfterErase
  <2>2. /\ Carried(m_timers, pos, m_timers', pos', t)
        /\ Absent(m_timers, t) \/ (\E k : Filed(m_timers, t, k)) => Absent(m_timers', t)
    BY <1>7, <1>9, <2>1
  <2>3. KeysKept(t)
    BY <1>1, <1>7 DEF KeysKept, KeyReset
  <2>4. Absent(m_timers', t) => Done(m_timers', pos', t, m_triggerTime)
    BY DEF Absent, Done
  <2> QED
    BY <1>4, <1>7, <2>2, <2>3, <2>4
<1>8. \/ /\ Live(t) /\ m_interval[t] = 0 /\ m_nextDueTime[t] # 0
         /\ pos' = pos + 1
         /\ UNCHANGED <<m_timers, m_nextDueTime, m_serial, adjusted>>
      \/ /\ Live(t) /\ ~(m_interval[t] = 0 /\ m_nextDueTime[t] # 0)
         /\ Reschedule(t)
      \/ /\ ~Live(t)
         /\ m_timers' = RemoveAt(m_timers, pos)
         /\ pos' = NextAfterErase
         /\ adjusted' = Dangling(t)
         /\ KeyReset(t)
  BY DEF Advance
<1> QED
  BY <1>5, <1>6, <1>7, <1>8

\* A round of the compaction renumbers the node it looks at, or drops it.
LEMMA CompactMoves ==
  ASSUME TimerType, CompactRound, NEW t, t = m_timers[compaction.at].timer
  PROVE  /\ \E p, p2 : Carried(m_timers, p, m_timers', p2, t)
         /\ KeysKept(t) /\ adjusted' \in Timer \cup {"end", "invalid"}
         /\ compaction' \in Compactions
         /\ compaction'.for = compaction.for /\ compaction'.count = compaction.count
         /\ compaction'.at >= 1 /\ compaction'.newSerial <= compaction.count
         /\ compaction.at \in 1..Len(m_timers)
         /\ Live(t) => /\ t \in Timer
                       /\ Filed(m_timers, t, Key(t)) => Filed(m_timers', t, Key(t)')
<1>1. /\ m_timers \in Seq(Nodes) /\ Sorted(m_timers) /\ maxSerial \in Nat
      /\ adjusted \in Timer \cup {"end", "invalid"}
      /\ m_nextDueTime \in [Timer -> Nat] /\ m_serial \in [Timer -> 0..maxSerial]
      /\ compaction \in Compactions
  BY MaxSerialsAssumption DEF TimerType, TypeOK, DispatcherOK, TimersOK
<1>2. /\ Compacting /\ compaction.newSerial < compaction.count
      /\ compaction.count <= maxSerial
      /\ compaction.at \in 1..Len(m_timers)
      /\ ~(compaction.pick /\ t = Null)
      /\ IF Live(t) \/ compaction.pick THEN Renumber(t) ELSE DropDead
  BY DEF CompactRound, CompactsNothing, TimerType, CompactionOK
<1>3. /\ compaction.at \in Nat /\ compaction.newSerial \in 0..maxSerial
      /\ compaction.newSerial \in Nat /\ compaction.newSerial + 1 <= compaction.count
      /\ compaction.count \in Nat
  BY <1>1, <1>2 DEF Compactions
<1> DEFINE at == compaction.at
           rest == RemoveAt(m_timers, at)
<1>4. at \in 1..Len(m_timers) /\ m_timers[at] \in Nodes /\ m_timers[at].timer = t /\ at \in Nat
  BY <1>1, <1>2, <1>3
<1>5. t \in Timer \cup {Null} /\ (Live(t) => t \in Timer)
  BY <1>4, NodeFields DEF Live
<1>6. Dangling(t) \in Timer \cup {"end", "invalid"}
  BY <1>1 DEF Dangling
<1>7. rest = RemoveAt(m_timers, at)
  OBVIOUS
<1>8. at = compaction.at
  OBVIOUS
<1> HIDE DEF at, rest
<1>9. /\ Carried(m_timers, at, rest, at, t)
      /\ Absent(m_timers, t) \/ (\E k : Filed(m_timers, t, k)) => Absent(rest, t)
  <2> DEFINE p == at
  <2>1. /\ p \in Nat /\ (at < p => p = p - 1) /\ (at >= p => p = p) /\ p = at
    BY <1>4
  <2> HIDE DEF p
  <2>2. /\ Carried(m_timers, p, rest, p, t)
        /\ Absent(m_timers, t) \/ (\E k : Filed(m_timers, t, k)) => Absent(rest, t)
    BY <1>1, <1>4, <1>7, <2>1, ErasedCarries
  <2> QED
    BY <2>1, <2>2
<1>10. CASE Live(t) \/ compaction.pick
  <2>1. t \in Timer
    BY <1>2, <1>5, <1>10
  <2> DEFINE n == Node(m_nextDueTime[t], compaction.newSerial, t)
  <2>2. /\ m_timers' = Emplaced(rest, n)
        /\ m_serial' = [m_serial EXCEPT ![t] = n.serial] /\ m_nextDueTime' = m_nextDueTime
        /\ compaction' = [compaction EXCEPT !.newSerial = @ + 1, !.at = MovedOn(@, rest, n),
                                            !.pick = FALSE]
        /\ adjusted' = IF compaction.pick THEN t ELSE Dangling(t)
    BY <1>2, <1>7, <1>8, <1>10 DEF Renumber
  <2>3. n \in Nodes /\ n.timer = t /\ n.serial = compaction.newSerial
    <3>1. m_nextDueTime[t] \in Nat /\ compaction.newSerial \in Nat
      BY <1>1, <1>3, <2>1
    <3> QED
      BY <2>1, <3>1, NodeFields
  <2>4. n = Node(m_nextDueTime[t], compaction.newSerial, t)
    OBVIOUS
  <2> HIDE DEF n
  <2>5. rest \in Seq(Nodes) /\ Sorted(rest)
    BY <1>9 DEF Carried
  <2> DEFINE p2 == MovedOn(at, rest, n)
  <2>6. p2 = MovedOn(at, rest, n)
    OBVIOUS
  <2> HIDE DEF p2
  <2>7. Carried(rest, at, m_timers', p2, t) /\ (Absent(rest, t) => Filed(m_timers', t, n))
    BY <1>4, <2>2, <2>3, <2>5, <2>6, EnteredCarries
  <2>8. Carried(m_timers, at, m_timers', p2, t)
    BY <1>9, <2>7, CarriedTwice
  <2>9. p2 \in Nat /\ p2 >= 1
    BY <1>4, <2>7 DEF Carried
  <2>10. KeysKept(t) /\ m_serial'[t] = compaction.newSerial /\ m_nextDueTime'[t] = m_nextDueTime[t]
    BY <1>1, <1>3, <2>1, <2>2, <2>3 DEF KeysKept
  <2>11. Key(t)' = n
    BY <2>4, <2>10 DEF Key
  <2>12. compaction' = [compaction EXCEPT !.newSerial = @ + 1, !.at = p2, !.pick = FALSE]
    BY <1>8, <2>2, <2>6
  <2>13. /\ compaction' \in Compactions
         /\ compaction'.for = compaction.for /\ compaction'.count = compaction.count
         /\ compaction'.at = p2 /\ compaction'.newSerial = compaction.newSerial + 1
    <3>1. compaction \in Compactions /\ compaction.newSerial + 1 \in Nat /\ p2 \in Nat
      BY <1>1, <1>3, <2>9
    <3>2. /\ compaction'.for = compaction.for /\ compaction'.count = compaction.count
          /\ compaction'.at = p2 /\ compaction'.newSerial = compaction.newSerial + 1
      BY <3>1, <2>12 DEF Compactions
    <3>3. compaction' \in Compactions
      BY <3>1, <2>12 DEF Compactions
    <3> QED
      BY <3>2, <3>3
  <2>14. adjusted' \in Timer \cup {"end", "invalid"}
    BY <1>6, <2>1, <2>2
  <2> QED
    BY <1>2, <1>3, <1>9, <2>1, <2>7, <2>8, <2>9, <2>10, <2>11, <2>13, <2>14
<1>11. CASE ~(Live(t) \/ compaction.pick)
  <2>1. /\ m_timers' = rest
        /\ compaction' = [compaction EXCEPT !.pick = TRUE]
        /\ adjusted' = "end" /\ KeyReset(t)
    BY <1>2, <1>4, <1>7, <1>8, <1>11 DEF DropDead
  <2>2. KeysKept(t)
    BY <1>1, <2>1 DEF KeysKept, KeyReset
  <2>3. /\ compaction' \in Compactions
        /\ compaction'.for = compaction.for /\ compaction'.count = compaction.count
        /\ compaction'.at = at /\ compaction'.newSerial = compaction.newSerial
    BY <1>1, <1>8, <2>1 DEF Compactions
  <2> QED
    BY <1>2, <1>3, <1>4, <1>8, <1>9, <1>11, <2>1, <2>2, <2>3
<1> QED
  BY <1>10, <1>11

-----------------------------------------------------------------------------
(* Types.                                                                  *)

LEMMA TypeInit == Init => TimerType
<1> SUFFICES ASSUME Init PROVE TimerType
  OBVIOUS
<1>1. maxSerial \in Nat
  BY MaxSerialsAssumption DEF Init
<1>2. m_timers = <<>> /\ m_timers \in Seq(Nodes) /\ Len(m_timers) = 0
  BY DEF Init
<1>3. compaction \in Compactions
  BY DEF Init, NoCompaction, Compactions
<1>4. TypeOK
  <2>1. TimersOK
    BY <1>1 DEF Init, TimersOK
  <2>2. adjusted \in Timer \cup {"end", "invalid"} /\ active \in Timer \cup {Null}
    BY DEF Init
  <2>3. pos \in Nat /\ m_triggerTime \in Nat /\ m_currentTimerSerial \in 0..maxSerial + 1
    BY <1>1 DEF Init
  <2>6. m_serialsCompacted \in BOOLEAN
    BY DEF Init
  <2>4. DispatcherOK
    BY <1>2, <1>3, <2>2, <2>3, <2>6 DEF DispatcherOK
  <2>5. maxSerial \in MaxSerials /\ now \in Nat /\ owed \subseteq Timer /\ seen \subseteq Timer
    BY DEF Init
  <2>7. undefined \in BOOLEAN /\ inside \in BOOLEAN
    BY DEF Init
  <2> QED
    BY <2>1, <2>4, <2>5, <2>7 DEF TypeOK
<1>5. Sorted(m_timers)
  BY <1>2 DEF Sorted
<1>6. ~Compacting /\ active = Null
  BY DEF Init, NoCompaction, Compacting
<1> QED
  BY <1>4, <1>5, <1>6 DEF TimerType, CompactionOK, AtCallback

LEMMA RequeuedType ==
  ASSUME TimerType, NEW t \in Timer, NEW again \in BOOLEAN, Requeued(t, again),
         Idle \/ InCallback, t # active,
         UNCHANGED <<clockVars, runVars>>,
         exists' \in [Timer -> BOOLEAN], m_isRunning' \in [Timer -> BOOLEAN],
         m_interval' \in [Timer -> Nat]
  PROVE  TimerType'
<1>1. /\ Carried(m_timers, pos, m_timers', pos', t) /\ KeysKept(t)
      /\ m_currentTimerSerial' \in 0..maxSerial + 1
      /\ adjusted' \in Timer \cup {"end", "invalid"} /\ owed' = owed \ {t}
      /\ seen' = seen \/ seen' = SeenAdding(t)
      /\ \/ compaction' = compaction /\ inside' = inside
         \/ /\ again /\ inside' = (inside \/ m_triggerTime # 0)
            /\ compaction' \in Compactions /\ compaction'.for = t /\ compaction'.at = 1
            /\ compaction'.newSerial = 0 /\ compaction'.count <= maxSerial
  BY DEF Requeued
<1>2. /\ maxSerial' = maxSerial /\ now' = now /\ undefined' = undefined
      /\ m_triggerTime' = m_triggerTime /\ m_serialsCompacted' = m_serialsCompacted
      /\ active' = active
  BY DEF clockVars, runVars
<1>3. seen' \subseteq Timer /\ owed' \subseteq Timer /\ inside' \in BOOLEAN
      /\ compaction' \in Compactions
  BY <1>1 DEF SeenAdding, TimerType, TypeOK, DispatcherOK
<1>4. m_timers' \in Seq(Nodes) /\ Sorted(m_timers') /\ pos' \in Nat
  BY <1>1 DEF Carried
<1>5. DispatcherOK'
  BY <1>1, <1>2, <1>3, <1>4 DEF TimerType, TypeOK, DispatcherOK
<1>6. TimersOK'
  BY <1>1, <1>2 DEF TimersOK, KeysKept
<1>7. TypeOK'
  BY <1>2, <1>3, <1>5, <1>6 DEF TimerType, TypeOK
<1>8. ~Compacting /\ (m_triggerTime # 0 <=> active # Null)
  BY DEF Idle, InCallback, TimerType, AtCallback
<1>9. CompactionOK'
  <2>1. CASE compaction' = compaction
    BY <1>8, <2>1 DEF Compacting, CompactionOK
  <2>2. CASE /\ compaction' \in Compactions /\ compaction'.for = t /\ compaction'.at = 1
             /\ compaction'.newSerial = 0 /\ compaction'.count <= maxSerial
    <3>1. compaction'.count \in Nat
      BY <2>2 DEF Compactions
    <3> QED
      BY <1>2, <1>8, <2>2, <3>1 DEF CompactionOK
  <2> QED
    BY <1>1, <2>1, <2>2
<1>10. AtCallback'
  <2> SUFFICES ASSUME active # Null, ~m_serialsCompacted
               PROVE  pos' \in 1..Len(m_timers') /\ m_timers'[pos'].timer \in {active, Null}
    BY <1>2, <1>8 DEF AtCallback
  <2>1. pos \in 1..Len(m_timers) /\ m_timers[pos].timer \in {active, Null}
    BY <1>8, <1>2 DEF TimerType, AtCallback
  <2>2. m_timers[pos].timer # t
    BY <2>1, NullAssumption
  <2> QED
    BY <1>1, <2>1, <2>2 DEF Carried
<1> QED
  BY <1>4, <1>7, <1>9, <1>10 DEF TimerType

\* After the node at the iterator has been dealt with, no callback runs.
LEMMA AdvancedType ==
  ASSUME TimerType, pos \in 1..Len(m_timers), Advance, active' = Null, ~Compacting,
         m_serialsCompacted' \in BOOLEAN,
         UNCHANGED <<clockVars, m_triggerTime, m_currentTimerSerial, compaction, timerVars,
                     watchVars>>
  PROVE  TimerType'
<1> DEFINE t == Here
<1>1. t = Here
  OBVIOUS
<1> HIDE DEF t
<1>2. /\ Carried(m_timers, pos, m_timers', pos', t) /\ KeysKept(t)
      /\ adjusted' \in Timer \cup {"end", "invalid"}
  BY <1>1, AdvanceMoves
<1>3. m_timers' \in Seq(Nodes) /\ Sorted(m_timers') /\ pos' \in Nat
  BY <1>2 DEF Carried
<1>4. /\ maxSerial' = maxSerial /\ now' = now /\ undefined' = undefined
      /\ m_triggerTime' = m_triggerTime /\ m_currentTimerSerial' = m_currentTimerSerial
      /\ compaction' = compaction /\ exists' = exists /\ m_isRunning' = m_isRunning
      /\ m_interval' = m_interval /\ owed' = owed /\ seen' = seen /\ inside' = inside
  BY DEF clockVars, timerVars, watchVars
<1>5. DispatcherOK'
  BY <1>2, <1>3, <1>4 DEF TimerType, TypeOK, DispatcherOK
<1>6. TimersOK'
  BY <1>2, <1>4 DEF TimerType, TypeOK, TimersOK, KeysKept
<1>7. TypeOK'
  BY <1>4, <1>5, <1>6 DEF TimerType, TypeOK
<1> QED
  BY <1>3, <1>4, <1>7 DEF TimerType, CompactionOK, AtCallback, Compacting

\* Nothing but the clock, the watched sets and the run change, and no callback begins.
LEMMA MapSameType ==
  ASSUME TimerType, UNCHANGED <<m_timers, compaction, m_nextDueTime, m_serial, exists, maxSerial,
                                m_currentTimerSerial, adjusted>>,
         now' \in Nat, undefined' \in BOOLEAN, pos' \in Nat, m_triggerTime' \in Nat,
         m_serialsCompacted' \in BOOLEAN, m_isRunning' \in [Timer -> BOOLEAN],
         m_interval' \in [Timer -> Nat], owed' \subseteq Timer, seen' \subseteq Timer,
         inside' \in BOOLEAN, active' \in Timer \cup {Null},
         Compacting => m_triggerTime' = m_triggerTime /\ active' = active,
         AtCallback'
  PROVE  TimerType'
<1>1. TypeOK'
  BY DEF TimerType, TypeOK, DispatcherOK, TimersOK
<1>2. CompactionOK'
  BY DEF TimerType, CompactionOK, Compacting
<1>3. Sorted(m_timers')
  BY DEF TimerType
<1> QED
  BY <1>1, <1>2, <1>3 DEF TimerType

\* What the application does with a timer, whose callback does not run.
LEMMA ApplicationType ==
  ASSUME TimerType, NEW t \in Timer, NEW ms \in Nat, NEW again \in BOOLEAN,
         Idle \/ InCallback,
         IF Guarded(t) THEN QueueSame ELSE Requeue(t, ms, again),
         UNCHANGED <<clockVars, runVars>>,
         exists' \in [Timer -> BOOLEAN], m_isRunning' \in [Timer -> BOOLEAN],
         m_interval' \in [Timer -> Nat],
         Guarded(t) => exists' = exists
  PROVE  TimerType'
<1>1. ~Compacting
  BY DEF Idle, InCallback
<1>2. CASE Guarded(t)
  BY <1>2 DEF QueueSame, mapVars, watchVars, clockVars, runVars, TimerType, TypeOK, DispatcherOK,
              TimersOK, CompactionOK, AtCallback, Compacting
<1>3. CASE ~Guarded(t)
  <2>1. Requeued(t, again)
    BY <1>1, <1>3, RequeueDoes
  <2> QED
    BY <1>3, <2>1, RequeuedType DEF Guarded
<1> QED
  BY <1>2, <1>3

LEMMA KilledType ==
  ASSUME TimerType, NEW i \in 1..Len(m_timers)
  PROVE  /\ Killed(i) \in Seq(Nodes) /\ Len(Killed(i)) = Len(m_timers) /\ Sorted(Killed(i))
         /\ \A j \in 1..Len(m_timers) : j # i => Killed(i)[j] = m_timers[j]
         /\ Killed(i)[i].timer = Null /\ Killed(i)[i].due = m_timers[i].due
<1>1. m_timers \in Seq(Nodes) /\ Sorted(m_timers)
  BY DEF TimerType, TypeOK, DispatcherOK
<1>2. m_timers[i] \in Nodes
  BY <1>1
<1> DEFINE n == [m_timers[i] EXCEPT !.timer = Null]
<1>3. n \in Nodes /\ n.timer = Null /\ n.due = m_timers[i].due /\ n.serial = m_timers[i].serial
  BY <1>2 DEF Nodes
<1>4. Killed(i) = [m_timers EXCEPT ![i] = n]
  BY DEF Killed
<1> HIDE DEF n
<1>5. /\ Killed(i) \in Seq(Nodes) /\ Len(Killed(i)) = Len(m_timers)
      /\ \A j \in 1..Len(m_timers) : j # i => Killed(i)[j] = m_timers[j]
      /\ Killed(i)[i] = n
  BY <1>1, <1>3, <1>4
<1>6. \A j \in 1..Len(m_timers) : /\ Killed(i)[j].due = m_timers[j].due
                                  /\ Killed(i)[j].serial = m_timers[j].serial
  BY <1>3, <1>5
<1>7. Sorted(Killed(i))
  BY <1>1, <1>5, <1>6 DEF Sorted, NotAfter
<1> QED
  BY <1>3, <1>5, <1>7

LEMMA TypeStep == TimerType /\ [Next]_vars => TimerType'
<1> SUFFICES ASSUME TimerType, [Next]_vars PROVE TimerType'
  OBVIOUS
<1>1. /\ maxSerial \in MaxSerials /\ now \in Nat /\ undefined \in BOOLEAN /\ maxSerial \in Nat
      /\ m_timers \in Seq(Nodes) /\ pos \in Nat /\ m_triggerTime \in Nat
      /\ m_serialsCompacted \in BOOLEAN /\ active \in Timer \cup {Null}
      /\ adjusted \in Timer \cup {"end", "invalid"} /\ compaction \in Compactions
      /\ owed \subseteq Timer /\ seen \subseteq Timer /\ inside \in BOOLEAN
      /\ exists \in [Timer -> BOOLEAN] /\ m_isRunning \in [Timer -> BOOLEAN]
      /\ m_interval \in [Timer -> Nat]
      /\ m_nextDueTime \in [Timer -> Nat] /\ m_serial \in [Timer -> 0..maxSerial]
  BY MaxSerialsAssumption DEF TimerType, TypeOK, DispatcherOK, TimersOK
<1>2. CASE BeginRun
  <2>1. active = Null /\ ~Compacting
    BY <1>2 DEF BeginRun, Idle, TimerType, AtCallback
  <2>2. owed' \subseteq Timer /\ seen' \subseteq Timer /\ pos' \in Nat
    BY <1>2 DEF BeginRun
  <2>3. /\ UNCHANGED <<m_timers, compaction, m_nextDueTime, m_serial, maxSerial,
                       m_currentTimerSerial, adjusted>>
        /\ UNCHANGED <<exists, now, undefined, m_serialsCompacted, m_isRunning, m_interval, inside,
                       active>>
        /\ m_triggerTime' = now
    BY <1>2 DEF BeginRun, clockVars, timerVars
  <2> QED
    BY <1>1, <2>1, <2>2, <2>3, MapSameType DEF AtCallback
<1>3. CASE EndRun
  <2>1. active = Null
    BY <1>3 DEF EndRun, InLoop
  <2>2. owed' \subseteq Timer /\ seen' \subseteq Timer /\ pos' \in Nat
    BY <1>1, <1>3 DEF EndRun
  <2>3. /\ UNCHANGED <<m_timers, compaction, m_nextDueTime, m_serial, maxSerial,
                       m_currentTimerSerial, adjusted>>
        /\ UNCHANGED <<exists, now, undefined, m_serialsCompacted, m_isRunning, m_interval, inside,
                       active>>
        /\ m_triggerTime' = 0 /\ m_triggerTime # 0
    BY <1>3 DEF EndRun, clockVars, timerVars, InLoop
  <2>4. ~Compacting
    BY <2>1, <2>3 DEF TimerType, CompactionOK
  <2> QED
    BY <1>1, <2>1, <2>2, <2>3, <2>4, MapSameType DEF AtCallback
<1>4. ASSUME NEW t \in Timer, Trigger(t) PROVE TimerType'
  <2>1. /\ m_triggerTime # 0 /\ active = Null /\ pos \in 1..Len(m_timers) /\ Here = t
    BY <1>4 DEF Trigger, InLoop, IsDue, AtNode
  <2>2. ~Compacting
    BY <2>1 DEF TimerType, CompactionOK
  <2>3. owed' \subseteq Timer /\ seen' \subseteq Timer
    BY <1>1, <1>4 DEF Trigger
  <2>4. m_isRunning' \in [Timer -> BOOLEAN]
    <3>1. m_isRunning' = [m_isRunning EXCEPT ![t] = @ /\ t \in Repeating]
      BY <1>4 DEF Trigger
    <3> QED
      BY <1>1, <3>1, Zenon
  <2>5. /\ UNCHANGED <<m_timers, compaction, m_nextDueTime, m_serial, maxSerial,
                       m_currentTimerSerial, adjusted>>
        /\ UNCHANGED <<exists, now, undefined, m_triggerTime, m_interval, inside, pos>>
        /\ active' = t
    BY <1>4 DEF Trigger, clockVars, mapVars
  <2>6. m_serialsCompacted' \in BOOLEAN
    BY <1>4 DEF Trigger
  <2>7. AtCallback'
    BY <2>1, <2>5 DEF AtCallback, Here
  <2> QED
    BY <1>1, <2>2, <2>3, <2>4, <2>5, <2>6, <2>7, MapSameType
<1>5. ASSUME NEW t \in Timer, Unstage(t) PROVE TimerType'
  <2>1. /\ m_triggerTime # 0 /\ active = Null /\ pos \in 1..Len(m_timers) /\ active' = active
        /\ Advance
        /\ UNCHANGED <<clockVars, m_triggerTime, m_currentTimerSerial, compaction, timerVars,
                       watchVars>>
    BY <1>5 DEF Unstage, InLoop, IsDue, AtNode
  <2>2. ~Compacting
    BY <2>1 DEF TimerType, CompactionOK
  <2>3. m_serialsCompacted' \in BOOLEAN
    BY <1>5 DEF Unstage
  <2> QED
    BY <2>1, <2>2, <2>3, AdvancedType
<1>6. CASE Return
  <2>1. /\ active # Null /\ ~Compacting /\ ~m_serialsCompacted /\ active' = Null /\ Advance
        /\ m_serialsCompacted' = m_serialsCompacted
        /\ UNCHANGED <<clockVars, m_triggerTime, m_currentTimerSerial, compaction, timerVars,
                       watchVars>>
    BY <1>6 DEF Return, InCallback
  <2>2. pos \in 1..Len(m_timers)
    BY <2>1 DEF TimerType, AtCallback
  <2>3. m_serialsCompacted' \in BOOLEAN
    BY <1>1, <2>1
  <2> QED
    BY <2>1, <2>2, <2>3, AdvancedType
<1>7. CASE ReturnCompacted
  <2>1. ~Compacting /\ active' = Null
    BY <1>7 DEF ReturnCompacted, InCallback
  <2>2. /\ UNCHANGED <<m_timers, compaction, m_nextDueTime, m_serial, maxSerial,
                       m_currentTimerSerial, adjusted>>
        /\ UNCHANGED <<exists, now, m_triggerTime, m_serialsCompacted, m_interval, m_isRunning,
                       inside, owed, seen>>
    BY <1>7 DEF ReturnCompacted, timerVars, watchVars
  <2>3. undefined' \in BOOLEAN
    BY <1>7 DEF ReturnCompacted
  <2>4. pos' \in Nat
    <3> DEFINE at == {i \in 1..Len(m_timers) : m_timers[i].timer = adjusted}
    <3>1. pos' = IF adjusted = "end" THEN Len(m_timers) + 1
                 ELSE IF at = {} THEN 0 ELSE CHOOSE i \in at : TRUE
      BY <1>7 DEF ReturnCompacted
    <3>2. at \subseteq Nat /\ Len(m_timers) \in Nat
      BY <1>1
    <3> DEFINE i == CHOOSE k \in at : TRUE
    <3> HIDE DEF at
    <3>3. at # {} => i \in at
      OBVIOUS
    <3>4. pos' = IF adjusted = "end" THEN Len(m_timers) + 1 ELSE IF at = {} THEN 0 ELSE i
      BY <3>1
    <3> HIDE DEF i
    <3> QED
      BY <3>2, <3>3, <3>4
  <2> QED
    BY <1>1, <2>1, <2>2, <2>3, <2>4, MapSameType DEF AtCallback
<1>8. CASE LooksAtNothing
  <2>1. /\ UNCHANGED <<m_timers, compaction, m_nextDueTime, m_serial, maxSerial,
                       m_currentTimerSerial, adjusted>>
        /\ UNCHANGED <<exists, now, m_triggerTime, m_serialsCompacted, m_interval, m_isRunning>>
        /\ UNCHANGED <<inside, owed, seen, pos, active>>
    BY <1>8 DEF LooksAtNothing, timerVars, watchVars, runVars, mapVars
  <2>2. undefined' \in BOOLEAN
    BY <1>8 DEF LooksAtNothing
  <2> QED
    BY <1>1, <2>1, <2>2, MapSameType DEF TimerType, AtCallback, Compacting
<1>9. CASE Tick
  <2>1. /\ UNCHANGED <<m_timers, compaction, m_nextDueTime, m_serial, maxSerial,
                       m_currentTimerSerial, adjusted>>
        /\ UNCHANGED <<exists, undefined, m_triggerTime, m_serialsCompacted, m_interval, m_isRunning>>
        /\ UNCHANGED <<inside, owed, seen, pos, active>>
        /\ now' = now + 1
    BY <1>9 DEF Tick, timerVars, watchVars, runVars, mapVars
  <2> QED
    BY <1>1, <2>1, MapSameType DEF TimerType, AtCallback, Compacting
<1>10. CASE UNCHANGED vars
  <2>1. /\ UNCHANGED <<m_timers, compaction, m_nextDueTime, m_serial, maxSerial,
                       m_currentTimerSerial, adjusted>>
        /\ UNCHANGED <<exists, undefined, m_triggerTime, m_serialsCompacted, m_interval, m_isRunning>>
        /\ UNCHANGED <<inside, owed, seen, pos, active, now>>
    BY <1>10 DEF vars, clockVars, timerVars, watchVars, runVars, mapVars
  <2> QED
    BY <1>1, <2>1, MapSameType DEF TimerType, AtCallback, Compacting
<1>11. CASE CompactRound
  <2> DEFINE t == m_timers[compaction.at].timer
  <2>1. t = m_timers[compaction.at].timer
    OBVIOUS
  <2> HIDE DEF t
  <2>2. /\ \E p, p2 : Carried(m_timers, p, m_timers', p2, t)
        /\ KeysKept(t) /\ adjusted' \in Timer \cup {"end", "invalid"}
        /\ compaction' \in Compactions
        /\ compaction'.for = compaction.for /\ compaction'.count = compaction.count
        /\ compaction'.at >= 1 /\ compaction'.newSerial <= compaction.count
    BY <1>11, <2>1, CompactMoves
  <2>3. m_timers' \in Seq(Nodes) /\ Sorted(m_timers')
    BY <2>2 DEF Carried
  <2>4. /\ UNCHANGED <<maxSerial, now, undefined, m_triggerTime, m_serialsCompacted, active, pos>>
        /\ UNCHANGED <<m_currentTimerSerial, exists, m_isRunning, m_interval, owed, seen, inside>>
        /\ Compacting
    BY <1>11 DEF CompactRound, clockVars, runVars, timerVars, watchVars
  <2>5. DispatcherOK'
    BY <2>2, <2>3, <2>4 DEF TimerType, TypeOK, DispatcherOK
  <2>6. TimersOK'
    BY <2>2, <2>4 DEF TimerType, TypeOK, TimersOK, KeysKept
  <2>7. TypeOK'
    BY <2>4, <2>5, <2>6 DEF TimerType, TypeOK
  <2>8. CompactionOK' /\ AtCallback'
    BY <2>2, <2>4 DEF TimerType, CompactionOK, AtCallback, Compacting
  <2> QED
    BY <2>3, <2>7, <2>8 DEF TimerType
<1>12. CASE CompactEnds
  <2> DEFINE t  == compaction.for
             ms == m_interval[t]
  <2>1. /\ Compacting /\ m_serialsCompacted' = TRUE
        /\ Enter(m_timers, 0, t, ms, compaction.count)
        /\ compaction' = NoCompaction /\ seen' = SeenAdding(t)
    BY <1>12 DEF CompactEnds
  <2>2. t \in Timer /\ compaction.count \in 0..maxSerial
    BY <1>1, <2>1 DEF Compacting, Compactions, TimerType, CompactionOK
  <2>3. ms \in Nat
    BY <1>1, <2>2
  <2> HIDE DEF t, ms
  <2>4. /\ Carried(m_timers, 0, m_timers', pos', t) /\ KeysKept(t)
        /\ m_currentTimerSerial' \in 0..maxSerial + 1
    <3> DEFINE p == 0
    <3>1. p \in Nat /\ p = 0
      OBVIOUS
    <3> HIDE DEF p
    <3>2. Enter(m_timers, p, t, ms, compaction.count) /\ m_timers \in Seq(Nodes) /\ Sorted(m_timers)
      BY <2>1, <3>1 DEF TimerType, TypeOK, DispatcherOK
    <3>3. /\ Carried(m_timers, p, m_timers', pos', t) /\ KeysKept(t)
          /\ m_currentTimerSerial' \in 0..maxSerial + 1
      BY <2>2, <2>3, <3>1, <3>2, EnterPuts
    <3> QED
      BY <3>1, <3>3
  <2>5. m_timers' \in Seq(Nodes) /\ Sorted(m_timers') /\ pos' \in Nat
    BY <2>4 DEF Carried
  <2>6. /\ UNCHANGED <<maxSerial, now, undefined, m_triggerTime, active, adjusted>>
        /\ UNCHANGED <<exists, m_isRunning, m_interval, owed, inside>>
    BY <1>12 DEF CompactEnds, clockVars, timerVars
  <2>7. compaction' \in Compactions /\ ~Compacting'
    BY <2>1 DEF NoCompaction, Compactions, Compacting
  <2>8. DispatcherOK'
    BY <1>1, <2>1, <2>4, <2>5, <2>6, <2>7 DEF DispatcherOK
  <2>9. TimersOK'
    BY <1>1, <2>4, <2>6 DEF TimersOK, KeysKept
  <2>10. seen' \subseteq Timer
    BY <1>1, <2>1, <2>2 DEF SeenAdding
  <2>11. TypeOK'
    BY <1>1, <2>6, <2>8, <2>9, <2>10 DEF TypeOK
  <2>12. AtCallback' /\ CompactionOK'
    BY <2>1, <2>6, <2>7 DEF TimerType, AtCallback, CompactionOK
  <2> QED
    BY <2>5, <2>11, <2>12 DEF TimerType
<1>13. ASSUME NEW t \in Timer, NEW ms \in Intervals, Start(t, ms) PROVE TimerType'
  <2>1. /\ Idle \/ InCallback
        /\ IF Guarded(t) THEN QueueSame ELSE Requeue(t, ms, TRUE)
        /\ UNCHANGED <<clockVars, runVars>> /\ exists' = exists
        /\ m_interval' = [m_interval EXCEPT ![t] = ms]
        /\ m_isRunning' = [m_isRunning EXCEPT ![t] = TRUE]
    BY <1>13 DEF Start
  <2>2. ms \in Nat
    BY IntervalsAssumption
  <2>3. m_interval' \in [Timer -> Nat]
    BY <1>1, <2>1, <2>2
  <2>4. m_isRunning' \in [Timer -> BOOLEAN] /\ exists' \in [Timer -> BOOLEAN]
    BY <1>1, <2>1, Zenon
  <2> QED
    BY <2>1, <2>2, <2>3, <2>4, ApplicationType
<1>14. ASSUME NEW t \in Timer, NEW ms \in Intervals, SetInterval(t, ms) PROVE TimerType'
  <2>1. /\ Idle \/ InCallback
        /\ IF m_isRunning[t] /\ ~Guarded(t) THEN Requeue(t, ms, TRUE) ELSE QueueSame
        /\ UNCHANGED <<clockVars, runVars>> /\ exists' = exists /\ m_isRunning' = m_isRunning
        /\ m_interval' = [m_interval EXCEPT ![t] = ms]
    BY <1>14 DEF SetInterval
  <2>2. ms \in Nat
    BY IntervalsAssumption
  <2>3. m_interval' \in [Timer -> Nat]
    BY <1>1, <2>1, <2>2
  <2>4. m_isRunning' \in [Timer -> BOOLEAN] /\ exists' \in [Timer -> BOOLEAN]
    BY <1>1, <2>1
  <2>5. CASE QueueSame
    BY <1>1, <2>1, <2>3, <2>4, <2>5 DEF QueueSame, mapVars, watchVars, clockVars, runVars, TimerType, TypeOK,
                       DispatcherOK, TimersOK, CompactionOK, AtCallback, Compacting
  <2>6. CASE ~Guarded(t) /\ Requeue(t, ms, TRUE)
    BY <2>1, <2>2, <2>3, <2>4, <2>6, ApplicationType
  <2> QED
    BY <2>1, <2>5, <2>6
<1>15. ASSUME NEW t \in Timer, NEW run \in BOOLEAN, SetRunning(t, run) PROVE TimerType'
  <2>1. /\ Idle \/ InCallback
        /\ IF Guarded(t) THEN QueueSame ELSE Requeue(t, m_interval[t], run)
        /\ UNCHANGED <<clockVars, runVars>> /\ exists' = exists /\ m_interval' = m_interval
        /\ m_isRunning' = [m_isRunning EXCEPT ![t] = run]
    BY <1>15 DEF SetRunning
  <2>2. m_interval[t] \in Nat /\ m_interval' \in [Timer -> Nat]
    BY <1>1, <2>1
  <2>3. m_isRunning' \in [Timer -> BOOLEAN] /\ exists' \in [Timer -> BOOLEAN]
    BY <1>1, <2>1, Zenon
  <2> QED
    BY <2>1, <2>2, <2>3, ApplicationType
<1>16. ASSUME NEW t \in Timer, Destroy(t) PROVE TimerType'
  <2>1. /\ Idle \/ InCallback
        /\ exists' = [exists EXCEPT ![t] = FALSE]
        /\ m_isRunning' = [m_isRunning EXCEPT ![t] = FALSE]
        /\ UNCHANGED <<clockVars, runVars>> /\ m_interval' = m_interval
    BY <1>16 DEF Destroy
  <2>2. m_isRunning' \in [Timer -> BOOLEAN] /\ exists' \in [Timer -> BOOLEAN]
    BY <1>1, <2>1, Zenon
  <2>3. m_interval' \in [Timer -> Nat]
    BY <1>1, <2>1
  <2>4. CASE ~Guarded(t)
    <3>1. Requeue(t, 0, FALSE)
      BY <1>16, <2>4 DEF Destroy
    <3> QED
      BY <2>1, <2>2, <2>3, <2>4, <3>1, ApplicationType
  <2>5. CASE Guarded(t)
    <3>1. /\ m_timers' = IF Found(t) = {} THEN m_timers ELSE Killed(Min(Found(t)))
          /\ KeyReset(t)
          /\ UNCHANGED <<pos, m_currentTimerSerial, adjusted, compaction, watchVars>>
      BY <1>16, <2>5 DEF Destroy
    <3>2. /\ m_timers' \in Seq(Nodes) /\ Sorted(m_timers') /\ Len(m_timers') = Len(m_timers)
          /\ \A j \in 1..Len(m_timers) : m_timers'[j].timer \in {m_timers[j].timer, Null}
      <4>1. CASE Found(t) = {}
        BY <1>1, <3>1, <4>1 DEF TimerType
      <4>2. CASE Found(t) # {}
        <5> DEFINE i == Min(Found(t))
        <5>1. i \in 1..Len(m_timers)
          BY <4>2, FoundIsFiled
        <5>2. m_timers' = Killed(i)
          BY <3>1, <4>2
        <5> HIDE DEF i
        <5>3. /\ Killed(i) \in Seq(Nodes) /\ Len(Killed(i)) = Len(m_timers) /\ Sorted(Killed(i))
              /\ \A j \in 1..Len(m_timers) : j # i => Killed(i)[j] = m_timers[j]
              /\ Killed(i)[i].timer = Null
          BY <5>1, KilledType
        <5> QED
          BY <5>1, <5>2, <5>3
      <4> QED
        BY <4>1, <4>2
    <3>3. /\ UNCHANGED <<pos, m_currentTimerSerial, adjusted, compaction, maxSerial, now, undefined>>
          /\ UNCHANGED <<m_triggerTime, m_serialsCompacted, active, owed, seen, inside>>
      BY <2>1, <3>1 DEF clockVars, runVars, watchVars
    <3>4. m_nextDueTime' \in [Timer -> Nat] /\ m_serial' \in [Timer -> 0..maxSerial]
      BY <1>1, <3>1 DEF KeyReset
    <3>5. DispatcherOK'
      BY <3>2, <3>3 DEF TimerType, TypeOK, DispatcherOK
    <3>6. TimersOK'
      BY <2>2, <2>3, <3>3, <3>4 DEF TimersOK
    <3>7. TypeOK'
      BY <3>3, <3>5, <3>6 DEF TimerType, TypeOK
    <3>8. CompactionOK'
      BY <3>3 DEF TimerType, CompactionOK, Compacting
    <3>9. AtCallback'
      BY <3>2, <3>3 DEF TimerType, AtCallback, Compacting
    <3> QED
      BY <3>2, <3>7, <3>8, <3>9 DEF TimerType
  <2> QED
    BY <2>4, <2>5
<1> QED
  BY <1>2, <1>3, <1>4, <1>5, <1>6, <1>7, <1>8, <1>9, <1>10, <1>11, <1>12, <1>13, <1>14, <1>15, <1>16
     DEF Next, Loop, CallbackEnds, Application

\* Whatever the application does to its timers, from wherever, every variable has its type:
\* above all, the serials stay within the bits that a key has for them (timer.h l. 71).
THEOREM TypeCorrect == Spec => []TypeOK
<1>1. TimerType => TypeOK
  BY DEF TimerType
<1>2. Spec => []TimerType
  BY TypeInit, TypeStep, PTL DEF Spec
<1> QED
  BY <1>1, <1>2, PTL

-----------------------------------------------------------------------------
(* The map holds what it should, as long as no callback compacts serials.  *)

LEMMA MapInit == Init => MapInv
<1> SUFFICES ASSUME Init PROVE MapInv
  OBVIOUS
<1>1. m_timers = <<>> /\ active = Null /\ compaction = NoCompaction /\ now = 1 /\ m_triggerTime = 0
  BY DEF Init
<1>2. \A t \in Timer : ~m_isRunning[t]
  BY DEF Init
<1>3. \A t : Absent(m_timers, t)
  BY <1>1 DEF Absent
<1>4. compaction.for = Null
  BY <1>1 DEF NoCompaction
<1>5. \A t \in Timer : Placed(t)
  BY <1>2, <1>3 DEF Placed
<1> QED
  BY <1>1, <1>2, <1>3, <1>4, <1>5 DEF MapInv, Compacting

\* A timer stays in its place while something is done with another one.
LEMMA PlacedKept ==
  ASSUME TypeOK, NEW t, NEW u \in Timer, u # t, NEW p, NEW p2, Carried(m_timers, p, m_timers', p2, t),
         KeysKept(t), m_isRunning'[u] = m_isRunning[u],
         u = compaction'.for <=> u = compaction.for, Placed(u)
  PROVE  Placed(u)'
<1>1. Key(u)' = Key(u) /\ Key(u).timer = u
  BY KeyOf DEF Key, KeysKept
<1>2. /\ Absent(m_timers, u) => Absent(m_timers', u)
      /\ Filed(m_timers, u, Key(u)) => Filed(m_timers', u, Key(u)')
  BY <1>1 DEF Carried
<1> QED
  BY <1>2 DEF Placed

\* Before the callbacks of a run, the node at the iterator is the only one of its timer.
LEMMA AtIterator ==
  ASSUME TimerType, MapInv, ~inside, active = Null, NEW i \in 1..Len(m_timers), NEW t,
         t = m_timers[i].timer
  PROVE  /\ t \in Timer /\ m_isRunning[t] /\ exists[t] /\ t # compaction.for
         /\ Filed(m_timers, t, Key(t)) /\ m_timers[i] = Key(t)
         /\ m_timers[i].due = m_nextDueTime[t]
<1>1. m_timers[i] \in Nodes
  BY DEF TimerType, TypeOK, DispatcherOK
<1>2. t # Null
  BY DEF MapInv, Absent
<1>3. t \in Timer
  BY <1>1, <1>2, NodeFields
<1>4. ~Absent(m_timers, t)
  BY DEF Absent
<1>5. t # active
  BY <1>2
<1>6. Placed(t) /\ (m_isRunning[t] => exists[t])
  BY <1>3, <1>5 DEF MapInv
<1>7. m_isRunning[t] /\ t # compaction.for /\ Filed(m_timers, t, Key(t))
  BY <1>4, <1>6 DEF Placed
<1>8. m_timers[i] = Key(t)
  BY <1>7 DEF Filed
<1>9. Key(t).due = m_nextDueTime[t]
  BY <1>3, KeyOf DEF TimerType
<1> QED
  BY <1>3, <1>6, <1>7, <1>8, <1>9

\* While a callback runs, the node at the iterator is none of another timer's.
LEMMA NotAtCallback ==
  ASSUME TimerType, MapInv, ~inside, active # Null
  PROVE  /\ m_triggerTime # 0 /\ m_triggerTime <= now /\ ~Compacting /\ active \in Timer
         /\ pos \in 1..Len(m_timers) /\ m_timers[pos] \in Nodes
         /\ m_timers[pos].due >= 1 /\ m_timers[pos].due <= m_triggerTime
         /\ m_timers[pos].timer = IF exists[active] THEN active ELSE Null
<1>1. ~Compacting /\ m_triggerTime # 0 /\ ~m_serialsCompacted /\ m_triggerTime <= now
  BY DEF MapInv, TimerType, AtCallback
<1>2. active \in Timer /\ m_timers \in Seq(Nodes)
  BY DEF TimerType, TypeOK, DispatcherOK
<1>3. pos \in 1..Len(m_timers)
  BY <1>1 DEF TimerType, AtCallback
<1>4. m_timers[pos].due \in 1..m_triggerTime /\ Called(active)
  BY DEF MapInv
<1>5. Key(active).timer = active
  BY <1>2, KeyOf DEF TimerType
<1>6. exists[active] => m_timers[pos].timer = active
  BY <1>4, <1>5 DEF Called
<1>7. ~exists[active] => m_timers[pos].timer = Null
  BY <1>4 DEF Called
<1>8. m_timers[pos].due >= 1 /\ m_timers[pos].due <= m_triggerTime
  <2>1. m_triggerTime \in Nat
    BY DEF TimerType, TypeOK, DispatcherOK
  <2> QED
    BY <1>4, <2>1
<1> QED
  BY <1>1, <1>2, <1>3, <1>6, <1>7, <1>8

LEMMA RequeuedMap ==
  ASSUME TimerType, MapInv, NEW t \in Timer, t # active, NEW ms \in Nat, NEW again \in BOOLEAN,
         Requeue(t, ms, again), Idle \/ InCallback, UNCHANGED <<clockVars, runVars>>,
         \A u \in Timer \ {t} : exists'[u] = exists[u] /\ m_isRunning'[u] = m_isRunning[u],
         m_isRunning'[t] = again, again => exists'[t]
  PROVE  MapInv'
<1>1. ~Compacting /\ compaction.for = Null
  BY DEF Idle, InCallback, Compacting
<1>2. /\ now' = now /\ m_triggerTime' = m_triggerTime /\ active' = active
      /\ m_serialsCompacted' = m_serialsCompacted
  BY DEF clockVars, runVars
<1>3. /\ Requeued(t, again)
      /\ /\ m_isRunning[t] => Filed(m_timers, t, Key(t))
         /\ ~m_isRunning[t] => Absent(m_timers, t)
         => Replaced(t, again)
  BY <1>1, RequeueDoes
<1>4. /\ Carried(m_timers, pos, m_timers', pos', t) /\ KeysKept(t)
      /\ \/ compaction' = compaction /\ inside' = inside
         \/ again /\ compaction'.for = t /\ inside' = (inside \/ m_triggerTime # 0)
  BY <1>3 DEF Requeued
<1> SUFFICES ASSUME ~inside'
             PROVE  /\ \A u \in Timer : m_isRunning'[u] => exists'[u]
                    /\ \A u \in Timer \ {active} : Placed(u)'
                    /\ active = Null => Absent(m_timers', Null)
                    /\ Compacting' => m_triggerTime = 0 /\ active = Null /\ m_isRunning'[compaction'.for]
                    /\ active # Null => /\ ~m_serialsCompacted
                                        /\ m_timers'[pos'].due \in 1..m_triggerTime /\ Called(active)'
  BY <1>2 DEF MapInv
<1>5. ~inside
  BY <1>4
<1>6. \A u \in Timer : m_isRunning'[u] => exists'[u]
  BY <1>5 DEF MapInv
<1>7. Replaced(t, again)
  <2>1. Placed(t) /\ t # compaction.for
    BY <1>1, <1>5, NullAssumption DEF MapInv
  <2> QED
    BY <1>3, <2>1 DEF Placed
<1>8. ASSUME NEW u \in Timer \ {active} PROVE Placed(u)'
  <2>1. CASE u = t
    <3>1. CASE compaction' = compaction
      <4>1. t # compaction'.for
        BY <1>1, <3>1, NullAssumption
      <4> QED
        BY <1>7, <2>1, <3>1, <4>1 DEF Replaced, Placed
    <3>2. CASE compaction' # compaction
      <4>1. compaction'.for = t /\ Absent(m_timers', t)
        BY <1>4, <1>7, <3>2 DEF Replaced
      <4> QED
        BY <2>1, <4>1 DEF Placed
    <3> QED
      BY <3>1, <3>2
  <2>2. CASE u # t
    <3>1. Placed(u) /\ m_isRunning'[u] = m_isRunning[u]
      BY <1>5, <2>2 DEF MapInv
    <3>2. u = compaction'.for <=> u = compaction.for
      BY <1>1, <1>4, <2>2, NullAssumption
    <3> QED
      BY <1>4, <2>2, <3>1, <3>2, PlacedKept DEF TimerType
  <2> QED
    BY <2>1, <2>2
<1>9. t # Null
  BY NullAssumption
<1>10. active = Null => Absent(m_timers', Null)
  BY <1>4, <1>5, <1>9 DEF MapInv, Carried
<1>11. Compacting' => m_triggerTime = 0 /\ active = Null /\ m_isRunning'[compaction'.for]
  <2> SUFFICES ASSUME Compacting' PROVE m_triggerTime = 0 /\ active = Null /\ m_isRunning'[compaction'.for]
    OBVIOUS
  <2>1. again /\ compaction'.for = t /\ ~(m_triggerTime # 0)
    BY <1>1, <1>4 DEF Compacting
  <2> QED
    BY <2>1 DEF TimerType, AtCallback
<1>12. ASSUME active # Null
       PROVE  ~m_serialsCompacted /\ m_timers'[pos'].due \in 1..m_triggerTime /\ Called(active)'
  <2>1. ~m_serialsCompacted /\ m_timers[pos].due \in 1..m_triggerTime /\ Called(active)
    BY <1>5, <1>12 DEF MapInv
  <2>2. /\ pos \in 1..Len(m_timers) /\ active \in Timer
        /\ m_timers[pos].timer = IF exists[active] THEN active ELSE Null
    BY <1>5, <1>12, NotAtCallback
  <2>3. m_timers[pos].timer # t
    BY <1>9, <2>2
  <2>4. m_timers'[pos'] = m_timers[pos]
    BY <1>4, <2>2, <2>3 DEF Carried
  <2>5. Key(active)' = Key(active) /\ Key(active).timer = active /\ exists'[active] = exists[active]
    <3>1. active \in Timer \ {t} /\ TypeOK
      BY <2>2 DEF TimerType
    <3>2. m_nextDueTime'[active] = m_nextDueTime[active] /\ m_serial'[active] = m_serial[active]
      BY <1>4, <3>1 DEF KeysKept
    <3> QED
      BY <1>2, <3>1, <3>2, KeyOf DEF Key
  <2>6. CASE exists[active]
    <3>1. m_timers[pos] = Key(active) /\ Filed(m_timers, active, Key(active)) /\ Absent(m_timers, Null)
      BY <2>1, <2>6 DEF Called
    <3>2. Filed(m_timers', active, Key(active)) /\ Absent(m_timers', Null)
      BY <1>4, <1>9, <2>5, <3>1 DEF Carried
    <3>3. Called(active)'
      BY <1>2, <2>4, <2>5, <2>6, <3>1, <3>2 DEF Called
    <3> QED
      BY <2>1, <2>4, <3>3
  <2>7. CASE ~exists[active]
    <3>1. m_timers[pos].timer = Null /\ Filed(m_timers, Null, m_timers[pos]) /\ Absent(m_timers, active)
      BY <2>1, <2>7 DEF Called
    <3>2. Filed(m_timers', Null, m_timers[pos]) /\ Absent(m_timers', active)
      BY <1>4, <1>9, <3>1 DEF Carried
    <3>3. Called(active)'
      BY <1>2, <2>4, <2>5, <2>7, <3>1, <3>2 DEF Called
    <3> QED
      BY <2>1, <2>4, <3>3
  <2> QED
    BY <2>6, <2>7
<1> QED
  BY <1>6, <1>8, <1>10, <1>11, <1>12

\* The map stays as it is: only what the invariant does not speak of changes, or the timer
\* called back is started or stopped.
LEMMA SameMap ==
  ASSUME TimerType, MapInv,
         UNCHANGED <<m_timers, m_nextDueTime, m_serial, exists, compaction, inside>>,
         UNCHANGED <<active, pos, m_serialsCompacted>> \/ (active = Null /\ active' = Null),
         \A u \in Timer \ {active} : m_isRunning'[u] = m_isRunning[u],
         ~inside /\ active # Null => (m_isRunning'[active] => exists[active]),
         now' >= 1, m_triggerTime' <= now', Compacting \/ active # Null => m_triggerTime' = m_triggerTime
  PROVE  MapInv'
<1> SUFFICES ASSUME ~inside
             PROVE  /\ \A u \in Timer : m_isRunning'[u] => exists'[u]
                    /\ \A u \in Timer \ {active'} : Placed(u)'
                    /\ active' = Null => Absent(m_timers', Null)
                    /\ Compacting' => m_triggerTime' = 0 /\ active' = Null /\ m_isRunning'[compaction'.for]
                    /\ active' # Null => /\ ~m_serialsCompacted'
                                        /\ m_timers'[pos'].due \in 1..m_triggerTime' /\ Called(active)'
  BY DEF MapInv
<1>1. active' = active
  OBVIOUS
<1>2. ASSUME NEW u \in Timer, m_isRunning'[u] PROVE exists'[u]
  <2>1. \A v \in Timer : m_isRunning[v] => exists[v]
    BY DEF MapInv
  <2>2. CASE u = active
    <3>1. active # Null
      BY <2>2, NullAssumption
    <3> QED
      BY <1>2, <2>2, <3>1
  <2>3. CASE u # active
    BY <1>2, <2>1, <2>3
  <2> QED
    BY <2>2, <2>3
<1>3. ASSUME NEW u \in Timer \ {active'} PROVE Placed(u)'
  BY <1>1, <1>3 DEF MapInv, Placed, Key
<1>4. active' = Null => Absent(m_timers', Null)
  BY <1>1 DEF MapInv
<1>5. Compacting' => m_triggerTime' = 0 /\ active' = Null /\ m_isRunning'[compaction'.for]
  <2> SUFFICES ASSUME Compacting PROVE m_triggerTime' = 0 /\ active' = Null /\ m_isRunning'[compaction.for]
    BY DEF Compacting
  <2>1. m_triggerTime = 0 /\ active = Null /\ m_isRunning[compaction.for]
    BY DEF MapInv
  <2>2. compaction.for \in Timer
    BY DEF Compacting, TimerType, TypeOK, DispatcherOK, Compactions
  <2> QED
    BY <1>1, <2>1, <2>2, NullAssumption
<1>6. active' # Null => /\ ~m_serialsCompacted'
                        /\ m_timers'[pos'].due \in 1..m_triggerTime' /\ Called(active)'
  <2> SUFFICES ASSUME active # Null
               PROVE  /\ ~m_serialsCompacted'
                      /\ m_timers'[pos'].due \in 1..m_triggerTime' /\ Called(active)'
    BY <1>1
  <2>1. ~m_serialsCompacted /\ m_timers[pos].due \in 1..m_triggerTime /\ Called(active)
    BY DEF MapInv
  <2>2. UNCHANGED <<active, pos, m_serialsCompacted, m_triggerTime>>
    OBVIOUS
  <2> QED
    BY <2>1, <2>2 DEF Called, Key
<1> QED
  BY <1>2, <1>3, <1>4, <1>5, <1>6

\* The steps at the iterator.
LEMMA TriggerMap == ASSUME TimerType, MapInv, NEW t \in Timer, Trigger(t) PROVE MapInv'
<1>1. /\ active = Null /\ pos \in 1..Len(m_timers) /\ m_timers[pos].timer = t
      /\ m_timers[pos].due <= m_triggerTime /\ m_nextDueTime[t] # 0 /\ m_triggerTime # 0
      /\ active' = t /\ m_serialsCompacted' = FALSE
      /\ m_isRunning' = [m_isRunning EXCEPT ![t] = @ /\ t \in Repeating]
  BY DEF Trigger, InLoop, IsDue, AtNode, Here
<1>2. /\ UNCHANGED <<now, m_triggerTime, m_timers, pos, m_nextDueTime, m_serial, compaction, exists, inside>>
  BY DEF Trigger, clockVars, mapVars
<1>3. /\ ~Compacting /\ m_isRunning \in [Timer -> BOOLEAN] /\ m_triggerTime \in Nat
      /\ m_nextDueTime \in [Timer -> Nat]
  BY <1>1 DEF TimerType, CompactionOK, TypeOK, TimersOK, DispatcherOK
<1> SUFFICES ASSUME ~inside PROVE MapInv'
  BY <1>2 DEF MapInv
<1>4. /\ m_isRunning[t] /\ exists[t] /\ Filed(m_timers, t, Key(t)) /\ m_timers[pos] = Key(t)
      /\ m_timers[pos].due = m_nextDueTime[t]
  BY <1>1, AtIterator
<1>5. m_timers[pos].due \in 1..m_triggerTime
  BY <1>1, <1>3, <1>4
<1>6. \A u \in Timer \ {t} : m_isRunning'[u] = m_isRunning[u]
  BY <1>1, <1>3
<1>7. \A u \in Timer : m_isRunning'[u] => exists'[u]
  BY <1>2, <1>4, <1>6 DEF MapInv
<1>8. ASSUME NEW u \in Timer \ {t} PROVE Placed(u)'
  <2>1. Placed(u)
    BY <1>1, NullAssumption DEF MapInv
  <2> QED
    BY <1>2, <1>6, <2>1 DEF Placed, Key
<1>9. Called(t)'
  <2>1. Absent(m_timers, Null)
    BY <1>1 DEF MapInv
  <2> QED
    BY <1>2, <1>4, <2>1 DEF Called, Key
<1>10. active' # Null /\ ~Compacting'
  BY <1>1, <1>2, <1>3, NullAssumption DEF Compacting
<1>11. now' >= 1 /\ m_triggerTime' <= now'
  BY <1>2 DEF MapInv
<1> QED
  BY <1>1, <1>2, <1>5, <1>7, <1>8, <1>9, <1>10, <1>11 DEF MapInv

LEMMA UnstageMap == ASSUME TimerType, MapInv, NEW t \in Timer, Unstage(t) PROVE MapInv'
<1>1. /\ active = Null /\ active' = Null /\ pos \in 1..Len(m_timers) /\ m_timers[pos].timer = t
      /\ m_triggerTime # 0 /\ Advance /\ t = Here
  BY DEF Unstage, InLoop, IsDue, AtNode, Here
<1>2. UNCHANGED <<now, m_triggerTime, compaction, exists, m_isRunning, inside>>
  BY DEF Unstage, clockVars, timerVars, watchVars
<1>3. ~Compacting
  BY <1>1 DEF TimerType, CompactionOK
<1> SUFFICES ASSUME ~inside PROVE MapInv'
  BY <1>2 DEF MapInv
<1>4. m_isRunning[t] /\ Filed(m_timers, t, Key(t)) /\ t # compaction.for /\ t # Null
  BY <1>1, AtIterator, NullAssumption
<1>5. /\ Carried(m_timers, pos, m_timers', pos', t) /\ KeysKept(t)
      /\ Live(t) /\ Filed(m_timers, t, Key(t)) => Filed(m_timers', t, Key(t)')
  BY <1>1, AdvanceMoves
<1>6. Placed(t)'
  BY <1>2, <1>4, <1>5 DEF Live, Placed
<1>7. ASSUME NEW u \in Timer PROVE Placed(u)'
  <2>1. CASE u # t
    <3>1. Placed(u) /\ TypeOK
      BY <1>1, NullAssumption DEF MapInv, TimerType
    <3> QED
      BY <1>2, <1>5, <2>1, <3>1, PlacedKept
  <2> QED
    BY <1>6, <2>1
<1>8. Absent(m_timers', Null)
  BY <1>1, <1>4, <1>5 DEF MapInv, Carried
<1> QED
  BY <1>1, <1>2, <1>3, <1>7, <1>8 DEF MapInv, Compacting

LEMMA ReturnMap == ASSUME TimerType, MapInv, Return PROVE MapInv'
<1> PICK h, a : h = Here /\ a = active
  OBVIOUS
<1>1. /\ active # Null /\ ~Compacting /\ active' = Null /\ Advance /\ h = Here /\ a = active
      /\ UNCHANGED <<now, m_triggerTime, compaction, exists, m_isRunning, inside>>
  BY DEF Return, InCallback, clockVars, timerVars, watchVars
<1> SUFFICES ASSUME ~inside PROVE MapInv'
  BY <1>1 DEF MapInv
<1>2. /\ pos \in 1..Len(m_timers) /\ a \in Timer
      /\ exists[a] => h = a
      /\ ~exists[a] => h = Null
  BY <1>1, NotAtCallback DEF Here
<1>3. /\ Carried(m_timers, pos, m_timers', pos', h) /\ KeysKept(h)
      /\ Live(h) /\ Filed(m_timers, h, Key(h)) => Filed(m_timers', h, Key(h)')
      /\ ~Live(h) /\ (\E n : Filed(m_timers, h, n)) => Absent(m_timers', h)
  BY <1>1, <1>2, AdvanceMoves
<1>4. Called(a) /\ (m_isRunning[a] => exists[a]) /\ a # compaction.for
  BY <1>1, <1>2, NullAssumption DEF MapInv, Compacting
<1>5. Placed(a)' /\ Absent(m_timers', Null)
  <2>1. CASE exists[a]
    <3>1. h = a /\ h # Null /\ Filed(m_timers, h, Key(h)) /\ Absent(m_timers, Null)
      BY <1>1, <1>2, <1>4, <2>1 DEF Called
    <3>2. Absent(m_timers', Null)
      BY <1>3, <3>1 DEF Carried
    <3>3. m_isRunning[h] => Filed(m_timers', h, Key(h)')
      BY <1>3, <3>1 DEF Live
    <3>4. ~m_isRunning[h] => Absent(m_timers', h)
      BY <1>3, <3>1 DEF Live
    <3> QED
      BY <1>1, <1>4, <3>1, <3>2, <3>3, <3>4 DEF Placed
  <2>2. CASE ~exists[a]
    <3>1. h = Null /\ Filed(m_timers, Null, m_timers[pos]) /\ Absent(m_timers, a)
      BY <1>2, <1>4, <2>2 DEF Called
    <3>2. Absent(m_timers', Null)
      BY <1>3, <3>1 DEF Live
    <3>3. Absent(m_timers', a) /\ ~m_isRunning[a]
      BY <1>1, <1>3, <1>4, <2>2, <3>1 DEF Carried
    <3> QED
      BY <1>1, <3>2, <3>3 DEF Placed
  <2> QED
    BY <2>1, <2>2
<1>6. ASSUME NEW u \in Timer PROVE Placed(u)'
  <2>1. CASE u # a
    <3>1. Placed(u) /\ TypeOK /\ u # h
      BY <1>2, <2>1, NullAssumption DEF MapInv, TimerType
    <3> QED
      BY <1>1, <1>3, <3>1, PlacedKept
  <2> QED
    BY <1>5, <2>1
<1> QED
  BY <1>1, <1>5, <1>6 DEF MapInv, Compacting

\* A timer destroyed in its own callback leaves a node that points to nothing.
LEMMA KilledMap ==
  ASSUME TimerType, MapInv, ~inside, NEW t \in Timer, t = active, exists[t],
         m_timers' = IF Found(t) = {} THEN m_timers ELSE Killed(Min(Found(t)))
  PROVE  /\ pos \in 1..Len(m_timers) /\ m_timers[pos].timer = t
         /\ Len(m_timers') = Len(m_timers)
         /\ \A j \in 1..Len(m_timers) : j # pos => m_timers'[j] = m_timers[j] /\ m_timers[j].timer # t
         /\ m_timers'[pos].timer = Null /\ m_timers'[pos].due = m_timers[pos].due
         /\ Absent(m_timers', t) /\ Filed(m_timers', Null, m_timers'[pos])
<1>1. /\ active # Null /\ Called(t)
  BY NullAssumption DEF MapInv
<1>2. /\ pos \in 1..Len(m_timers) /\ m_timers[pos].timer = t
  BY <1>1, NotAtCallback
<1>3. m_timers[pos] = Key(t) /\ Filed(m_timers, t, Key(t)) /\ Absent(m_timers, Null)
  BY <1>1 DEF Called
<1>4. PICK i : i = Min(Found(t))
  OBVIOUS
<1>5. /\ Found(t) # {} /\ i \in 1..Len(m_timers) /\ m_timers[i].timer = t
  BY <1>3, <1>4, FoundIsFiled
<1>6. i = pos /\ \A j \in 1..Len(m_timers) : j # pos => m_timers[j].timer # t
  BY <1>2, <1>3, <1>5 DEF Filed
<1>7. m_timers' = Killed(i)
  BY <1>4, <1>5
<1>8. /\ Len(Killed(i)) = Len(m_timers)
      /\ \A j \in 1..Len(m_timers) : j # i => Killed(i)[j] = m_timers[j]
      /\ Killed(i)[i].timer = Null /\ Killed(i)[i].due = m_timers[i].due
  BY <1>5, KilledType
<1>9. t # Null
  BY NullAssumption
<1>10. Absent(m_timers', t)
  BY <1>2, <1>6, <1>7, <1>8, <1>9 DEF Absent
<1>11. Filed(m_timers', Null, m_timers'[pos])
  BY <1>2, <1>3, <1>6, <1>7, <1>8 DEF Absent, Filed
<1> QED
  BY <1>2, <1>6, <1>7, <1>8, <1>10, <1>11

LEMMA DestroyedMap ==
  ASSUME TimerType, MapInv, NEW t \in Timer, Guarded(t), Destroy(t) PROVE MapInv'
<1>1. /\ active = t /\ exists[t] /\ ~Compacting
      /\ exists' = [exists EXCEPT ![t] = FALSE]
      /\ m_isRunning' = [m_isRunning EXCEPT ![t] = FALSE]
      /\ m_timers' = IF Found(t) = {} THEN m_timers ELSE Killed(Min(Found(t)))
      /\ KeyReset(t)
  BY DEF Destroy, Guarded, Idle, InCallback
<1>2. UNCHANGED <<now, m_triggerTime, m_serialsCompacted, active, pos, compaction, inside>>
  BY DEF Destroy, Guarded, clockVars, runVars, watchVars
<1>3. /\ exists \in [Timer -> BOOLEAN] /\ m_isRunning \in [Timer -> BOOLEAN] /\ TypeOK
      /\ m_nextDueTime \in [Timer -> Nat] /\ m_serial \in [Timer -> 0..maxSerial]
  BY DEF TimerType, TypeOK, TimersOK
<1> SUFFICES ASSUME ~inside PROVE MapInv'
  BY <1>2 DEF MapInv
<1>4. /\ pos \in 1..Len(m_timers) /\ m_timers[pos].timer = t
      /\ Len(m_timers') = Len(m_timers)
      /\ \A j \in 1..Len(m_timers) : j # pos => m_timers'[j] = m_timers[j] /\ m_timers[j].timer # t
      /\ m_timers'[pos].timer = Null /\ m_timers'[pos].due = m_timers[pos].due
      /\ Absent(m_timers', t) /\ Filed(m_timers', Null, m_timers'[pos])
  BY <1>1, KilledMap
<1>5. ~exists'[t] /\ ~m_isRunning'[t]
      /\ \A u \in Timer \ {t} : exists'[u] = exists[u] /\ m_isRunning'[u] = m_isRunning[u]
  BY <1>1, <1>3, Zenon
<1>6. \A u \in Timer : m_isRunning'[u] => exists'[u]
  <2>1. \A u \in Timer : m_isRunning[u] => exists[u]
    BY DEF MapInv
  <2> QED
    BY <1>5, <2>1
<1>7. ASSUME NEW u \in Timer \ {t} PROVE Placed(u)'
  <2>1. Placed(u)
    BY <1>1 DEF MapInv
  <2>2. Key(u)' = Key(u) /\ Key(u).timer = u /\ u # Null
    <3>1. m_nextDueTime'[u] = m_nextDueTime[u] /\ m_serial'[u] = m_serial[u]
      BY <1>1 DEF KeyReset
    <3> QED
      BY <1>3, <3>1, KeyOf, NullAssumption DEF Key
  <2>3. Absent(m_timers, u) => Absent(m_timers', u)
    BY <1>4, <2>2 DEF Absent
  <2>4. ASSUME Filed(m_timers, u, Key(u)) PROVE Filed(m_timers', u, Key(u))
    <3>1. PICK i \in 1..Len(m_timers) : /\ m_timers[i] = Key(u)
                                        /\ \A j \in 1..Len(m_timers) : m_timers[j].timer = u => j = i
      BY <2>4 DEF Filed
    <3>2. i # pos
      BY <1>4, <2>2, <3>1
    <3> QED
      BY <1>4, <2>2, <3>1, <3>2 DEF Filed
  <2>5. m_isRunning'[u] = m_isRunning[u] /\ compaction' = compaction
    BY <1>2, <1>5
  <2> QED
    BY <2>1, <2>2, <2>3, <2>4, <2>5 DEF Placed
<1>8. m_timers'[pos'].due \in 1..m_triggerTime' /\ ~m_serialsCompacted' /\ Called(t)'
  <2>1. m_timers[pos].due \in 1..m_triggerTime /\ ~m_serialsCompacted
    BY <1>1, NullAssumption DEF MapInv
  <2>2. Called(t)'
    BY <1>2, <1>4, <1>5 DEF Called
  <2> QED
    BY <1>2, <1>4, <2>1, <2>2
<1>9. active' = t /\ t # Null /\ ~Compacting'
  BY <1>1, <1>2, NullAssumption DEF Compacting
<1>10. now' >= 1 /\ m_triggerTime' <= now'
  BY <1>2 DEF MapInv
<1> QED
  BY <1>6, <1>7, <1>8, <1>9, <1>10 DEF MapInv

\* Compaction, which runs outside of a run then.
LEMMA CompactedMap ==
  ASSUME TimerType, MapInv, CompactRound \/ CompactEnds PROVE MapInv'
<1>1. /\ Compacting /\ UNCHANGED <<now, m_triggerTime, active, exists, m_isRunning, inside>>
  BY DEF CompactRound, CompactEnds, clockVars, runVars, timerVars, watchVars
<1> SUFFICES ASSUME ~inside PROVE MapInv'
  BY <1>1 DEF MapInv
<1>2. /\ m_triggerTime = 0 /\ active = Null /\ m_isRunning[compaction.for] /\ Absent(m_timers, Null)
      /\ \A u \in Timer : Placed(u) /\ (m_isRunning[u] => exists[u])
      /\ now >= 1 /\ m_triggerTime <= now
  BY <1>1, NullAssumption DEF MapInv
<1>3. CASE CompactRound
  <2>1. PICK t : t = m_timers[compaction.at].timer
    OBVIOUS
  <2>2. /\ \E p, p2 : Carried(m_timers, p, m_timers', p2, t)
        /\ KeysKept(t) /\ compaction'.for = compaction.for /\ compaction.at \in 1..Len(m_timers)
        /\ Live(t) => /\ t \in Timer
                      /\ Filed(m_timers, t, Key(t)) => Filed(m_timers', t, Key(t)')
    BY <1>3, <2>1, CompactMoves
  <2>3. t \in Timer /\ m_isRunning[t] /\ t # compaction.for /\ Filed(m_timers, t, Key(t))
    BY <1>2, <2>1, <2>2, AtIterator
  <2>4. t # Null
    BY <2>3, NullAssumption
  <2>5. Placed(t)'
    BY <1>1, <2>2, <2>3, <2>4 DEF Live, Placed
  <2>6. ASSUME NEW u \in Timer PROVE Placed(u)'
    <3>1. CASE u # t
      <4>1. Placed(u) /\ TypeOK
        BY <1>2 DEF TimerType
      <4> QED
        BY <1>1, <2>2, <3>1, <4>1, PlacedKept
    <3> QED
      BY <2>5, <3>1
  <2>7. Absent(m_timers', Null)
    BY <1>2, <2>2, <2>4 DEF Carried
  <2> QED
    BY <1>1, <1>2, <2>2, <2>6, <2>7 DEF MapInv
<1>4. CASE CompactEnds
  <2> PICK t : t = compaction.for
    OBVIOUS
  <2>1. /\ Enter(m_timers, 0, t, m_interval[t], compaction.count)
        /\ compaction' = NoCompaction
    BY <1>4 DEF CompactEnds
  <2>2. t \in Timer /\ compaction.count \in 0..maxSerial /\ t # Null
    BY <1>1, MaxSerialsAssumption
       DEF Compacting, Compactions, TimerType, CompactionOK, TypeOK, DispatcherOK
  <2>3. /\ Carried(m_timers, 0, m_timers', pos', t) /\ KeysKept(t)
        /\ Absent(m_timers, t) => Filed(m_timers', t, Key(t)')
    <3>1. PICK p, ms : p = 0 /\ ms = m_interval[t]
      OBVIOUS
    <3>2. ms \in Nat /\ m_timers \in Seq(Nodes) /\ Sorted(m_timers)
      BY <2>2, <3>1 DEF TimerType, TypeOK, DispatcherOK, TimersOK
    <3>3. p \in Nat /\ Enter(m_timers, p, t, ms, compaction.count)
      BY <2>1, <3>1
    <3>4. /\ Carried(m_timers, p, m_timers', pos', t) /\ KeysKept(t)
          /\ Absent(m_timers, t) => Filed(m_timers', t, Key(t)')
      BY <2>2, <3>2, <3>3, EnterPuts
    <3> QED
      BY <3>1, <3>4
  <2>4. Absent(m_timers, t)
    BY <1>2, <2>2 DEF Placed
  <2>5. compaction'.for = Null
    BY <2>1 DEF NoCompaction
  <2>6. Placed(t)'
    BY <1>1, <1>2, <2>2, <2>3, <2>4, <2>5 DEF Placed
  <2>7. ASSUME NEW u \in Timer PROVE Placed(u)'
    <3>1. CASE u # t
      <4>1. Placed(u) /\ TypeOK /\ (u = compaction'.for <=> u = compaction.for)
        BY <1>2, <2>5, <3>1, NullAssumption DEF TimerType
      <4> QED
        BY <1>1, <2>3, <3>1, <4>1, PlacedKept
    <3> QED
      BY <2>6, <3>1
  <2>8. Absent(m_timers', Null) /\ ~Compacting'
    BY <1>2, <2>2, <2>3, <2>5 DEF Carried, Compacting
  <2> QED
    BY <1>1, <1>2, <2>7, <2>8 DEF MapInv
<1> QED
  BY <1>3, <1>4

LEMMA MapStep == TimerType /\ MapInv /\ [Next]_vars => MapInv'
<1> SUFFICES ASSUME TimerType, MapInv, [Next]_vars PROVE MapInv'
  OBVIOUS
<1>1. /\ m_isRunning \in [Timer -> BOOLEAN] /\ exists \in [Timer -> BOOLEAN]
      /\ now \in Nat /\ m_interval \in [Timer -> Nat] /\ active \in Timer \cup {Null}
      /\ now >= 1 /\ m_triggerTime <= now /\ m_triggerTime \in Nat
  BY DEF TimerType, TypeOK, TimersOK, DispatcherOK, MapInv
<1>2. CASE BeginRun
  <2>1. active = Null /\ ~Compacting
    BY <1>2 DEF BeginRun, Idle, TimerType, AtCallback
  <2>2. /\ UNCHANGED <<m_timers, m_nextDueTime, m_serial, exists, compaction, inside>>
        /\ active' = active /\ m_isRunning' = m_isRunning /\ now' = now /\ m_triggerTime' = now
    BY <1>2 DEF BeginRun, clockVars, timerVars
  <2> QED
    BY <1>1, <2>1, <2>2, SameMap
<1>3. CASE EndRun
  <2>1. active = Null /\ ~Compacting
    BY <1>3 DEF EndRun, InLoop, TimerType, CompactionOK
  <2>2. /\ UNCHANGED <<m_timers, m_nextDueTime, m_serial, exists, compaction, inside>>
        /\ active' = active /\ m_isRunning' = m_isRunning /\ now' = now /\ m_triggerTime' = 0
    BY <1>3 DEF EndRun, clockVars, timerVars
  <2> QED
    BY <1>1, <2>1, <2>2, SameMap
<1>4. ASSUME NEW t \in Timer, Trigger(t) \/ Unstage(t) PROVE MapInv'
  BY <1>4, TriggerMap, UnstageMap
<1>5. CASE CompactRound \/ CompactEnds
  BY <1>5, CompactedMap
<1>6. CASE LooksAtNothing \/ Tick \/ UNCHANGED vars
  <2>1. /\ UNCHANGED <<m_timers, m_nextDueTime, m_serial, exists, compaction, inside>>
        /\ UNCHANGED <<active, pos, m_serialsCompacted>>
        /\ m_isRunning' = m_isRunning /\ m_triggerTime' = m_triggerTime /\ now' \in {now, now + 1}
    BY <1>6 DEF LooksAtNothing, Tick, vars, clockVars, runVars, mapVars, timerVars, watchVars
  <2>2. ~inside /\ active # Null => (m_isRunning'[active] => exists[active])
    BY <1>1, <2>1 DEF MapInv
  <2> QED
    BY <1>1, <2>1, <2>2, SameMap
<1>7. CASE Return
  BY <1>7, ReturnMap
<1>8. CASE ReturnCompacted
  <2>1. active # Null /\ m_serialsCompacted /\ active' = Null /\ UNCHANGED <<now, m_triggerTime, inside>>
    BY <1>8 DEF ReturnCompacted, InCallback, watchVars
  <2> QED
    BY <2>1 DEF MapInv
<1>9. ASSUME NEW t \in Timer, NEW again \in BOOLEAN, NEW ms \in Nat,
             Idle \/ InCallback, exists[t], UNCHANGED <<clockVars, runVars>>,
             IF Guarded(t) THEN QueueSame ELSE Requeue(t, ms, again),
             m_isRunning' = [m_isRunning EXCEPT ![t] = again], exists' = exists
      PROVE  MapInv'
  <2>1. /\ m_isRunning'[t] = again
        /\ \A u \in Timer \ {t} : exists'[u] = exists[u] /\ m_isRunning'[u] = m_isRunning[u]
    BY <1>1, <1>9, Zenon
  <2>2. CASE Guarded(t)
    <3>1. /\ UNCHANGED <<m_timers, m_nextDueTime, m_serial, exists, compaction, inside>>
          /\ UNCHANGED <<active, pos, m_serialsCompacted>>
          /\ m_triggerTime' = m_triggerTime /\ now' = now /\ active = t
      BY <1>9, <2>2 DEF QueueSame, mapVars, watchVars, clockVars, runVars, Guarded
    <3>2. active # Null => (m_isRunning'[active] => exists[active])
      BY <1>9, <3>1
    <3> QED
      BY <1>1, <2>1, <3>1, <3>2, SameMap
  <2>3. CASE ~Guarded(t)
    <3>1. t # active /\ Requeue(t, ms, again)
      BY <1>9, <2>3 DEF Guarded
    <3> QED
      BY <1>9, <2>1, <3>1, RequeuedMap
  <2> QED
    BY <2>2, <2>3
<1>10. ASSUME NEW t \in Timer, NEW ms \in Intervals, Start(t, ms) PROVE MapInv'
  <2>1. /\ Idle \/ InCallback
        /\ exists[t] /\ UNCHANGED <<clockVars, runVars>>
        /\ IF Guarded(t) THEN QueueSame ELSE Requeue(t, ms, TRUE)
        /\ m_isRunning' = [m_isRunning EXCEPT ![t] = TRUE] /\ exists' = exists
    BY <1>10 DEF Start
  <2>2. ms \in Nat
    BY IntervalsAssumption
  <2> QED
    BY <1>9, <2>1, <2>2
<1>11. ASSUME NEW t \in Timer, NEW run \in BOOLEAN, SetRunning(t, run) PROVE MapInv'
  <2>1. /\ Idle \/ InCallback
        /\ exists[t] /\ UNCHANGED <<clockVars, runVars>>
        /\ IF Guarded(t) THEN QueueSame ELSE Requeue(t, m_interval[t], run)
        /\ m_isRunning' = [m_isRunning EXCEPT ![t] = run] /\ exists' = exists
    BY <1>11 DEF SetRunning
  <2>2. m_interval[t] \in Nat
    BY <1>1
  <2> QED
    BY <1>9, <2>1, <2>2
<1>12. ASSUME NEW t \in Timer, NEW ms \in Intervals, SetInterval(t, ms) PROVE MapInv'
  <2>1. /\ Idle \/ InCallback
        /\ exists[t] /\ UNCHANGED <<clockVars, runVars>> /\ m_isRunning' = m_isRunning /\ exists' = exists
        /\ IF m_isRunning[t] /\ ~Guarded(t) THEN Requeue(t, ms, TRUE) ELSE QueueSame
    BY <1>12 DEF SetInterval
  <2>2. ms \in Nat
    BY IntervalsAssumption
  <2>3. CASE m_isRunning[t] /\ ~Guarded(t)
    <3>1. t # active /\ Requeue(t, ms, TRUE) /\ m_isRunning'[t] = TRUE /\ exists'[t]
      BY <1>1, <2>1, <2>3, Zenon DEF Guarded
    <3>2. \A u \in Timer \ {t} : exists'[u] = exists[u] /\ m_isRunning'[u] = m_isRunning[u]
      BY <2>1
    <3> QED
      BY <2>1, <2>2, <3>1, <3>2, RequeuedMap
  <2>4. CASE QueueSame
    <3>1. /\ UNCHANGED <<m_timers, m_nextDueTime, m_serial, exists, compaction, inside>>
          /\ UNCHANGED <<active, pos, m_serialsCompacted>>
          /\ m_triggerTime' = m_triggerTime /\ now' = now /\ m_isRunning' = m_isRunning
      BY <2>1, <2>4 DEF QueueSame, mapVars, watchVars, clockVars, runVars
    <3>2. ~inside => \A u \in Timer : m_isRunning'[u] => exists[u]
      BY <3>1 DEF MapInv
    <3> QED
      BY <1>1, <3>1, <3>2, SameMap
  <2> QED
    BY <2>1, <2>3, <2>4
<1>13. ASSUME NEW t \in Timer, Destroy(t) PROVE MapInv'
  <2>1. CASE Guarded(t)
    BY <1>13, <2>1, DestroyedMap
  <2>2. CASE ~Guarded(t)
    <3>1. /\ Idle \/ InCallback
          /\ Requeue(t, 0, FALSE) /\ t # active /\ UNCHANGED <<clockVars, runVars>>
          /\ exists' = [exists EXCEPT ![t] = FALSE]
          /\ m_isRunning' = [m_isRunning EXCEPT ![t] = FALSE]
      BY <1>13, <2>2 DEF Destroy, Guarded
    <3>2. m_isRunning'[t] = FALSE
          /\ \A u \in Timer \ {t} : exists'[u] = exists[u] /\ m_isRunning'[u] = m_isRunning[u]
      BY <1>1, <3>1, Zenon
    <3> QED
      BY <3>1, <3>2, RequeuedMap
  <2> QED
    BY <2>1, <2>2
<1> QED
  BY <1>2, <1>3, <1>4, <1>5, <1>6, <1>7, <1>8, <1>10, <1>11, <1>12, <1>13
     DEF Next, Loop, CallbackEnds, Application

\* A timer with one node or none.
LEMMA NodesOfPlaced ==
  ASSUME TypeOK, NEW t \in Timer
  PROVE  /\ Filed(m_timers, t, Key(t)) => /\ Cardinality(NodesOf(t)) = 1
                                          /\ \A i \in NodesOf(t) : m_timers[i] = Key(t)
         /\ Absent(m_timers, t) => Cardinality(NodesOf(t)) = 0 /\ NodesOf(t) = {}
<1>1. ASSUME Filed(m_timers, t, Key(t))
      PROVE  Cardinality(NodesOf(t)) = 1 /\ \A i \in NodesOf(t) : m_timers[i] = Key(t)
  <2>1. PICK i \in 1..Len(m_timers) : /\ m_timers[i] = Key(t)
                                      /\ \A j \in 1..Len(m_timers) : m_timers[j].timer = t => j = i
    BY <1>1 DEF Filed
  <2>2. Key(t).timer = t
    BY KeyOf
  <2>3. NodesOf(t) = {i}
    BY <2>1, <2>2 DEF NodesOf
  <2> QED
    BY <2>1, <2>3, FS_Singleton
<1>2. ASSUME Absent(m_timers, t) PROVE Cardinality(NodesOf(t)) = 0 /\ NodesOf(t) = {}
  <2>1. NodesOf(t) = {}
    BY <1>2 DEF Absent, NodesOf
  <2> QED
    BY <2>1, FS_EmptySet
<1> QED
  BY <1>1, <1>2

LEMMA TimersInv == Spec => [](TimerType /\ MapInv)
  BY TypeInit, TypeStep, MapInit, MapStep, PTL DEF Spec

\* Between the callbacks, and in them for all timers but the one called back, a timer runs
\* if and only if it has a node, and it is under the key that removeTimer will look for
\* (l. 286-313).
THEOREM TimersAreQueued == Spec => []RunningIsQueued
<1>1. TimerType /\ MapInv => RunningIsQueued
  <2> SUFFICES ASSUME TimerType, MapInv, ~Compacting, ~inside, NEW t \in Timer \ {active}
               PROVE  /\ \A i \in NodesOf(t) : m_timers[i] = Key(t)
                      /\ Cardinality(NodesOf(t)) = IF m_isRunning[t] THEN 1 ELSE 0
                      /\ m_isRunning[t] => exists[t]
    BY DEF RunningIsQueued, Key
  <2>1. Placed(t) /\ (m_isRunning[t] => exists[t]) /\ t # compaction.for
    BY NullAssumption DEF MapInv, Compacting
  <2>2. /\ Filed(m_timers, t, Key(t)) => /\ Cardinality(NodesOf(t)) = 1
                                         /\ \A i \in NodesOf(t) : m_timers[i] = Key(t)
        /\ Absent(m_timers, t) => Cardinality(NodesOf(t)) = 0 /\ NodesOf(t) = {}
    BY NodesOfPlaced DEF TimerType
  <2>3. CASE m_isRunning[t]
    BY <2>1, <2>2, <2>3 DEF Placed
  <2>4. CASE ~m_isRunning[t]
    BY <2>1, <2>2, <2>4 DEF Placed
  <2> QED
    BY <2>3, <2>4
<1> QED
  BY <1>1, TimersInv, PTL

-----------------------------------------------------------------------------
(* A run triggers what is due, once.                                       *)

LEMMA RunInit == Init => RunInv
  BY DEF Init, RunInv

\* What is seen and owed stays so while something is done with another timer.
LEMMA RunKept ==
  ASSUME NEW t, NEW u, u # t, Carried(m_timers, pos, m_timers', pos', t), pos >= 1, NEW T
  PROVE  /\ pos' >= 1
         /\ Done(m_timers, pos, u, T) => Done(m_timers', pos', u, T)
         /\ Ahead(m_timers, pos, u, T) => Ahead(m_timers', pos', u, T)
  BY DEF Carried

LEMMA SameRun ==
  ASSUME RunInv, UNCHANGED <<m_timers, pos, m_triggerTime, active, inside, owed, seen>>
  PROVE  RunInv'
  BY DEF RunInv

LEMMA RequeuedRun ==
  ASSUME TimerType, MapInv, RunInv, NEW t \in Timer, t # active, NEW ms \in Nat,
         NEW again \in BOOLEAN, Requeue(t, ms, again), Idle \/ InCallback,
         UNCHANGED <<clockVars, runVars>>
  PROVE  RunInv'
<1>1. ~Compacting /\ t # compaction.for
  BY NullAssumption DEF Idle, InCallback, Compacting
<1>2. now' = now /\ m_triggerTime' = m_triggerTime /\ active' = active
  BY DEF clockVars, runVars
<1>3. /\ Requeued(t, again)
      /\ /\ m_isRunning[t] => Filed(m_timers, t, Key(t))
         /\ ~m_isRunning[t] => Absent(m_timers, t)
         => Replaced(t, again)
  BY <1>1, RequeueDoes
<1>4. /\ Carried(m_timers, pos, m_timers', pos', t) /\ owed' = owed \ {t}
      /\ seen' = seen \/ seen' = SeenAdding(t)
      /\ inside' = inside \/ inside' = (inside \/ m_triggerTime # 0)
  BY <1>3 DEF Requeued
<1> SUFFICES ASSUME ~inside'
             PROVE  /\ m_triggerTime # 0 =>
                         /\ pos' >= 1
                         /\ \A u \in seen' \ {active} : Done(m_timers', pos', u, m_triggerTime)
                         /\ \A u \in owed' : u # active /\ Ahead(m_timers', pos', u, m_triggerTime)
                    /\ m_triggerTime = 0 => owed' = {}
  BY <1>2 DEF RunInv
<1>5. ~inside
  BY <1>4
<1>6. m_triggerTime = 0 => owed' = {}
  BY <1>4, <1>5 DEF RunInv
<1>7. CASE m_triggerTime # 0
  <2>1. pos >= 1 /\ active # Null
    BY <1>5, <1>7 DEF RunInv, Idle, InCallback
  <2>2. Replaced(t, again)
    <3>1. Placed(t)
      BY <1>5 DEF MapInv
    <3> QED
      BY <1>1, <1>3, <3>1 DEF Placed
  <2>3. Done(m_timers', pos', t, m_triggerTime)
    <3>1. /\ m_triggerTime <= now /\ pos \in 1..Len(m_timers) /\ m_timers[pos].due >= 1
          /\ m_timers[pos].timer = IF exists[active] THEN active ELSE Null
      BY <1>5, <2>1, NotAtCallback
    <3>2. m_timers[pos].timer # t
      BY <3>1, NullAssumption
    <3> QED
      BY <1>7, <2>2, <3>1, <3>2 DEF Replaced
  <2>4. pos' >= 1
    BY <1>4, <2>1 DEF Carried
  <2>5. ASSUME NEW u \in seen' \ {active} PROVE Done(m_timers', pos', u, m_triggerTime)
    <3>1. CASE u # t
      <4>1. u \in seen \ {active}
        BY <1>4, <2>5, <3>1 DEF SeenAdding
      <4>2. Done(m_timers, pos, u, m_triggerTime)
        BY <1>5, <1>7, <4>1 DEF RunInv
      <4> QED
        BY <1>4, <2>1, <3>1, <4>2 DEF Carried
    <3> QED
      BY <2>3, <3>1
  <2>6. ASSUME NEW u \in owed' PROVE u # active /\ Ahead(m_timers', pos', u, m_triggerTime)
    <3>1. u \in owed /\ u # t
      BY <1>4, <2>6
    <3>2. u # active /\ Ahead(m_timers, pos, u, m_triggerTime)
      BY <1>5, <1>7, <3>1 DEF RunInv
    <3> QED
      BY <1>4, <2>1, <3>1, <3>2 DEF Carried
  <2> QED
    BY <1>7, <2>4, <2>5, <2>6
<1> QED
  BY <1>6, <1>7

LEMMA DestroyedRun ==
  ASSUME TimerType, MapInv, RunInv, NEW t \in Timer, Guarded(t), Destroy(t) PROVE RunInv'
<1>1. /\ active = t /\ exists[t]
      /\ m_timers' = IF Found(t) = {} THEN m_timers ELSE Killed(Min(Found(t)))
  BY DEF Destroy, Guarded
<1>2. UNCHANGED <<m_triggerTime, active, pos, inside, owed, seen>>
  BY DEF Destroy, Guarded, clockVars, runVars, watchVars
<1> SUFFICES ASSUME ~inside
             PROVE  /\ m_triggerTime # 0 =>
                         /\ pos >= 1
                         /\ \A u \in seen \ {active} : Done(m_timers', pos, u, m_triggerTime)
                         /\ \A u \in owed : u # active /\ Ahead(m_timers', pos, u, m_triggerTime)
                    /\ m_triggerTime = 0 => owed = {}
  BY <1>2 DEF RunInv
<1>3. /\ pos \in 1..Len(m_timers) /\ m_timers[pos].timer = t
      /\ Len(m_timers') = Len(m_timers)
      /\ \A j \in 1..Len(m_timers) : j # pos => m_timers'[j] = m_timers[j]
      /\ m_timers'[pos].timer = Null
  BY <1>1, KilledMap
<1>4. /\ m_triggerTime # 0 =>
           /\ pos >= 1
           /\ \A u \in seen \ {active} : Done(m_timers, pos, u, m_triggerTime)
           /\ \A u \in owed : u # active /\ Ahead(m_timers, pos, u, m_triggerTime)
      /\ m_triggerTime = 0 => owed = {}
  BY DEF RunInv
<1>5. seen \subseteq Timer
  BY DEF TimerType, TypeOK
<1>6. ASSUME NEW u \in seen \ {active}, Done(m_timers, pos, u, m_triggerTime)
      PROVE  Done(m_timers', pos, u, m_triggerTime)
  <2>1. u # Null
    BY <1>5, NullAssumption
  <2> QED
    BY <1>3, <1>6, <2>1 DEF Done
<1>7. ASSUME NEW u \in owed, u # active, Ahead(m_timers, pos, u, m_triggerTime)
      PROVE  Ahead(m_timers', pos, u, m_triggerTime)
  <2>1. PICK i \in 1..Len(m_timers) : /\ m_timers[i].timer = u /\ i >= pos
                                      /\ m_timers[i].due \in 1..m_triggerTime
    BY <1>7 DEF Ahead
  <2>2. i # pos
    BY <1>1, <1>3, <1>7, <2>1
  <2> QED
    BY <1>3, <2>1, <2>2 DEF Ahead
<1> QED
  BY <1>4, <1>6, <1>7

\* The step that takes the iterator on.
LEMMA AdvancedRun ==
  ASSUME TimerType, MapInv, RunInv, ~inside, m_triggerTime # 0,
         NEW h, NEW a, a = active, pos \in 1..Len(m_timers),
         Carried(m_timers, pos, m_timers', pos', h), h \notin owed,
         \A u \in seen : u = h \/ u = a => Done(m_timers', pos', u, m_triggerTime),
         active' = Null, UNCHANGED <<m_triggerTime, inside, owed, seen>>
  PROVE  RunInv'
<1>1. /\ pos >= 1
      /\ \A u \in seen \ {a} : Done(m_timers, pos, u, m_triggerTime)
      /\ \A u \in owed : Ahead(m_timers, pos, u, m_triggerTime)
  BY DEF RunInv
<1>2. pos' >= 1
  BY <1>1 DEF Carried
<1>3. ASSUME NEW u \in seen PROVE Done(m_timers', pos', u, m_triggerTime)
  <2>1. CASE u # h /\ u # a
    BY <1>1, <2>1 DEF Carried
  <2> QED
    BY <2>1
<1>4. ASSUME NEW u \in owed PROVE u # Null /\ Ahead(m_timers', pos', u, m_triggerTime)
  <2>1. u # h /\ Ahead(m_timers, pos, u, m_triggerTime) /\ u # Null
    BY <1>1, NullAssumption DEF TimerType, TypeOK
  <2> QED
    BY <1>1, <2>1 DEF Carried
<1> QED
  BY <1>2, <1>3, <1>4 DEF RunInv

LEMMA UnstageRun ==
  ASSUME TimerType, MapInv, RunInv, NEW t \in Timer, Unstage(t) PROVE RunInv'
<1>1. /\ active = Null /\ active' = Null /\ pos \in 1..Len(m_timers) /\ m_timers[pos].timer = t
      /\ m_timers[pos].due <= m_triggerTime /\ m_triggerTime # 0 /\ Advance /\ t = Here
      /\ m_nextDueTime[t] = 0
  BY DEF Unstage, InLoop, IsDue, AtNode, Here
<1>2. UNCHANGED <<m_triggerTime, inside, owed, seen>>
  BY DEF Unstage, clockVars, timerVars, watchVars
<1> SUFFICES ASSUME ~inside PROVE RunInv'
  BY <1>2 DEF RunInv
<1>3. Filed(m_timers, t, Key(t)) /\ m_timers[pos].due = 0
  BY <1>1, AtIterator
<1>4. Carried(m_timers, pos, m_timers', pos', t)
  BY <1>1, AdvanceMoves
<1>5. t \notin seen
  <2> SUFFICES ASSUME t \in seen PROVE FALSE
    OBVIOUS
  <2>1. Done(m_timers, pos, t, m_triggerTime)
    BY <1>1, NullAssumption DEF RunInv
  <2>2. pos \in Nat /\ m_triggerTime \in Nat
    BY DEF TimerType, TypeOK, DispatcherOK
  <2> QED
    BY <1>1, <1>3, <2>1, <2>2 DEF Done
<1>6. t \notin owed
  <2> SUFFICES ASSUME t \in owed PROVE FALSE
    OBVIOUS
  <2>1. Ahead(m_timers, pos, t, m_triggerTime)
    BY <1>1 DEF RunInv
  <2>2. PICK i \in 1..Len(m_timers) : m_timers[i].timer = t /\ m_timers[i].due \in 1..m_triggerTime
    BY <2>1 DEF Ahead
  <2>3. i = pos
    BY <1>1, <1>3, <2>2 DEF Filed
  <2> QED
    BY <1>3, <2>2, <2>3
<1>7. PICK a : a = active
  OBVIOUS
<1>8. a \notin seen
  BY <1>1, <1>7, NullAssumption DEF TimerType, TypeOK
<1> QED
  BY <1>1, <1>2, <1>4, <1>5, <1>6, <1>7, <1>8, AdvancedRun

LEMMA ReturnRun == ASSUME TimerType, MapInv, RunInv, Return PROVE RunInv'
<1> PICK h, a : h = Here /\ a = active
  OBVIOUS
<1>1. /\ active # Null /\ active' = Null /\ Advance /\ h = Here /\ a = active
      /\ UNCHANGED <<m_triggerTime, inside, owed, seen>>
  BY DEF Return, InCallback, clockVars, timerVars, watchVars
<1> SUFFICES ASSUME ~inside PROVE RunInv'
  BY <1>1 DEF RunInv
<1>2. /\ m_triggerTime # 0 /\ pos \in 1..Len(m_timers) /\ a \in Timer
      /\ m_timers[pos].due >= 1
      /\ exists[a] => h = a
      /\ ~exists[a] => h = Null
  BY <1>1, NotAtCallback DEF Here
<1>3. /\ Carried(m_timers, pos, m_timers', pos', h)
      /\ /\ \E n : Filed(m_timers, h, n)
         /\ Live(h) => m_interval[h] # 0 \/ m_nextDueTime[h] # 0
         => Done(m_timers', pos', h, m_triggerTime)
  BY <1>1, <1>2, AdvanceMoves
<1>4. Called(a)
  BY <1>1 DEF MapInv
<1>5. owed \subseteq Timer /\ seen \subseteq Timer /\ a \notin owed
  BY <1>1, <1>2 DEF TimerType, TypeOK, RunInv
<1>6. h \notin owed
  BY <1>2, <1>5, NullAssumption
<1>7. ASSUME NEW u \in seen, u = h \/ u = a PROVE Done(m_timers', pos', u, m_triggerTime)
  <2>1. CASE exists[a]
    <3>1. h = a /\ u = a /\ m_timers[pos] = Key(a) /\ Filed(m_timers, a, Key(a))
      BY <1>2, <1>4, <1>7, <2>1 DEF Called
    <3>2. m_nextDueTime[a] # 0
      <4>1. Key(a).due = m_nextDueTime[a]
        BY <1>2, KeyOf DEF TimerType
      <4> QED
        BY <1>2, <3>1, <4>1
    <3> QED
      BY <1>3, <3>1, <3>2
  <2>2. CASE ~exists[a]
    <3>1. h = Null /\ u = a /\ Absent(m_timers, a) /\ a # h
      BY <1>2, <1>4, <1>5, <1>7, <2>2, NullAssumption DEF Called
    <3>2. Absent(m_timers', a)
      BY <1>3, <3>1 DEF Carried
    <3> QED
      BY <3>1, <3>2 DEF Absent, Done
  <2> QED
    BY <2>1, <2>2
<1> QED
  BY <1>1, <1>2, <1>3, <1>6, <1>7, AdvancedRun

LEMMA BeginRunRun == ASSUME TimerType, BeginRun PROVE RunInv'
<1>1. /\ active = Null /\ active' = active /\ m_timers' = m_timers
      /\ m_triggerTime' = now /\ pos' = 1 /\ seen' = {}
      /\ owed' = {t \in Timer : \E i \in 1..Len(m_timers) :
                     m_timers[i].timer = t /\ m_timers[i].due \in 1..now}
  BY DEF BeginRun, Idle, TimerType, AtCallback
<1>2. ASSUME NEW u \in owed' PROVE u # Null /\ Ahead(m_timers', pos', u, now)
  <2>1. u \in Timer /\ \E i \in 1..Len(m_timers) : m_timers[i].timer = u /\ m_timers[i].due \in 1..now
    BY <1>1
  <2> QED
    BY <1>1, <2>1, NullAssumption DEF Ahead
<1>3. now = 0 => owed' = {}
  BY <1>1
<1> QED
  BY <1>1, <1>2, <1>3 DEF RunInv

\* When the node at the iterator is not due, none behind it is.
LEMMA EndRunRun == ASSUME TimerType, RunInv, EndRun PROVE RunInv'
<1>1. /\ m_triggerTime # 0 /\ ~IsDue /\ m_triggerTime' = 0 /\ owed' = owed /\ inside' = inside
  BY DEF EndRun, InLoop
<1> SUFFICES ASSUME ~inside, NEW t \in owed PROVE FALSE
  BY <1>1 DEF RunInv
<1>2. pos >= 1 /\ Ahead(m_timers, pos, t, m_triggerTime)
  BY <1>1 DEF RunInv
<1>3. PICK i \in 1..Len(m_timers) : i >= pos /\ m_timers[i].due \in 1..m_triggerTime
  BY <1>2 DEF Ahead
<1>4. m_timers \in Seq(Nodes) /\ pos \in Nat /\ m_triggerTime \in Nat /\ Sorted(m_timers)
  BY DEF TimerType, TypeOK, DispatcherOK
<1>5. pos \in 1..Len(m_timers)
  BY <1>2, <1>3, <1>4
<1>6. m_timers[pos] \in Nodes /\ m_timers[i] \in Nodes
  BY <1>3, <1>4, <1>5
<1>7. m_timers[pos].due <= m_timers[i].due
  <2>1. CASE i = pos
    BY <1>6, <2>1, NodeFields
  <2>2. CASE i # pos
    <3>1. NotAfter(m_timers[pos], m_timers[i])
      BY <1>3, <1>4, <1>5, <2>2 DEF Sorted
    <3> QED
      BY <1>6, <3>1, NotAfterOrder
  <2> QED
    BY <2>1, <2>2
<1>8. m_timers[pos].due <= m_triggerTime
  BY <1>3, <1>4, <1>6, <1>7, NodeFields
<1> QED
  BY <1>1, <1>5, <1>8 DEF IsDue, AtNode

LEMMA TriggerRun == ASSUME TimerType, RunInv, NEW t \in Timer, Trigger(t) PROVE RunInv'
<1>1. /\ UNCHANGED <<m_timers, pos, m_triggerTime, inside>>
      /\ active = Null /\ active' = t /\ owed' = owed \ {t} /\ seen' = seen \cup {t}
  BY DEF Trigger, InLoop, clockVars, mapVars
<1>2. Null \notin seen /\ m_triggerTime # 0
  BY NullAssumption DEF TimerType, TypeOK, Trigger, InLoop
<1> QED
  BY <1>1, <1>2 DEF RunInv

LEMMA RunStep == TimerType /\ MapInv /\ RunInv /\ [Next]_vars => RunInv'
<1> SUFFICES ASSUME TimerType, MapInv, RunInv, [Next]_vars PROVE RunInv'
  OBVIOUS
<1>1. CASE BeginRun
  BY <1>1, BeginRunRun
<1>2. CASE EndRun
  BY <1>2, EndRunRun
<1>3. ASSUME NEW t \in Timer, Trigger(t) \/ Unstage(t) PROVE RunInv'
  BY <1>3, TriggerRun, UnstageRun
<1>4. CASE CompactRound \/ CompactEnds
  <2>1. Compacting /\ UNCHANGED <<m_triggerTime, owed, inside>>
    BY <1>4 DEF CompactRound, CompactEnds, runVars, watchVars
  <2>2. ~inside => m_triggerTime = 0
    BY <2>1 DEF MapInv
  <2> QED
    BY <2>1, <2>2 DEF RunInv
<1>5. CASE LooksAtNothing \/ Tick \/ UNCHANGED vars
  <2>1. UNCHANGED <<m_timers, pos, m_triggerTime, active, inside, owed, seen>>
    BY <1>5 DEF LooksAtNothing, Tick, vars, runVars, mapVars, watchVars
  <2> QED
    BY <2>1, SameRun
<1>6. CASE Return
  BY <1>6, ReturnRun
<1>7. CASE ReturnCompacted
  <2>1. active # Null /\ m_serialsCompacted /\ inside' = inside
    BY <1>7 DEF ReturnCompacted, InCallback, watchVars
  <2> QED
    BY <2>1 DEF MapInv, RunInv
<1>8. ASSUME NEW t \in Timer, NEW again \in BOOLEAN, NEW ms \in Nat, Idle \/ InCallback,
             UNCHANGED <<clockVars, runVars>>,
             QueueSame \/ (~Guarded(t) /\ Requeue(t, ms, again))
      PROVE  RunInv'
  <2>1. CASE QueueSame
    <3>1. UNCHANGED <<m_timers, pos, m_triggerTime, active, inside, owed, seen>>
      BY <1>8, <2>1 DEF QueueSame, runVars, mapVars, watchVars
    <3> QED
      BY <3>1, SameRun
  <2>2. CASE ~Guarded(t) /\ Requeue(t, ms, again)
    BY <1>8, <2>2, RequeuedRun DEF Guarded
  <2> QED
    BY <1>8, <2>1, <2>2
<1>9. ASSUME NEW t \in Timer, NEW ms \in Intervals, Start(t, ms) PROVE RunInv'
  <2>1. /\ Idle \/ InCallback
        /\ UNCHANGED <<clockVars, runVars>>
        /\ QueueSame \/ (~Guarded(t) /\ Requeue(t, ms, TRUE))
    BY <1>9 DEF Start
  <2> QED
    BY <1>8, <2>1, IntervalsAssumption
<1>10. ASSUME NEW t \in Timer, NEW run \in BOOLEAN, SetRunning(t, run) PROVE RunInv'
  <2>1. /\ Idle \/ InCallback
        /\ UNCHANGED <<clockVars, runVars>>
        /\ QueueSame \/ (~Guarded(t) /\ Requeue(t, m_interval[t], run))
    BY <1>10 DEF SetRunning
  <2>2. m_interval[t] \in Nat
    BY DEF TimerType, TypeOK, TimersOK
  <2> QED
    BY <1>8, <2>1, <2>2
<1>11. ASSUME NEW t \in Timer, NEW ms \in Intervals, SetInterval(t, ms) PROVE RunInv'
  <2>1. /\ Idle \/ InCallback
        /\ UNCHANGED <<clockVars, runVars>>
        /\ QueueSame \/ (~Guarded(t) /\ Requeue(t, ms, TRUE))
    BY <1>11 DEF SetInterval
  <2> QED
    BY <1>8, <2>1, IntervalsAssumption
<1>12. ASSUME NEW t \in Timer, Destroy(t) PROVE RunInv'
  <2>1. CASE Guarded(t)
    BY <1>12, <2>1, DestroyedRun
  <2>2. CASE ~Guarded(t)
    <3>1. /\ Idle \/ InCallback
          /\ Requeue(t, 0, FALSE) /\ UNCHANGED <<clockVars, runVars>>
      BY <1>12, <2>2 DEF Destroy
    <3> QED
      BY <1>8, <2>2, <3>1
  <2> QED
    BY <2>1, <2>2
<1> QED
  BY <1>1, <1>2, <1>3, <1>4, <1>5, <1>6, <1>7, <1>9, <1>10, <1>11, <1>12
     DEF Next, Loop, CallbackEnds, Application

LEMMA RunsInv == Spec => [](TimerType /\ MapInv /\ RunInv)
  BY TypeInit, TypeStep, MapInit, MapStep, RunInit, RunStep, PTL DEF Spec

\* Whatever callbacks do to other timers, a run does not end before every timer that was due
\* at its start and still is has been triggered (l. 331).
THEOREM DueTimersAreTriggered == Spec => []NoneSkipped
<1>1. RunInv => NoneSkipped
  BY DEF RunInv, NoneSkipped
<1> QED
  BY <1>1, RunsInv, PTL

\* A run triggers no timer twice, and none that was added in the same run (l. 269).
THEOREM TriggeredOncePerRun == Spec => OncePerRun
<1>1. TimerType /\ RunInv /\ [Next]_vars
        => [\A t \in Timer : Trigger(t) /\ ~inside => t \notin seen]_vars
  <2> SUFFICES ASSUME TimerType, RunInv, NEW t \in Timer, Trigger(t), ~inside, t \in seen
               PROVE  FALSE
    OBVIOUS
  <2>1. /\ m_triggerTime # 0 /\ active = Null /\ pos \in 1..Len(m_timers)
        /\ m_timers[pos].timer = t /\ m_timers[pos].due <= m_triggerTime
    BY DEF Trigger, InLoop, IsDue, AtNode, Here
  <2>2. Done(m_timers, pos, t, m_triggerTime)
    BY <2>1, NullAssumption DEF RunInv
  <2>3. m_timers[pos] \in Nodes /\ m_triggerTime \in Nat /\ pos \in Nat
    BY <2>1 DEF TimerType, TypeOK, DispatcherOK
  <2> QED
    BY <2>1, <2>2, <2>3, NodeFields DEF Done
<1> QED
  BY <1>1, RunsInv, PTL DEF Spec, OncePerRun

=============================================================================
