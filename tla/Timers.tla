------------------------------- MODULE Timers -------------------------------
(***************************************************************************)
(* The timers of one EventDispatcher: Timer (src/events/timer.cpp) and     *)
(* addTimer, removeTimer, triggerDueTimers and tryCompactTimerSerials      *)
(* (src/events/eventdispatcher.cpp).                                       *)
(*                                                                         *)
(* The multimap m_timers is a sequence of nodes in the order of their keys *)
(* (due time, then serial); an equal key goes behind those already there.  *)
(* A timer callback is the time between Trigger and Return, in which the   *)
(* application may do anything to any Timer.  Compaction is a step per     *)
(* round of its loop.  Left out: nested poll() calls from a callback,      *)
(* negative intervals, the watchTimeout() of a foreign event loop.         *)
(*                                                                         *)
(* Assertions are those of a release build: the step goes on.  Undefined   *)
(* behaviour ends the behaviour in a state where "undefined" is TRUE.      *)
(***************************************************************************)
EXTENDS Naturals, Sequences, SequencesExt

CONSTANTS Timer,        \* the Timer objects the application makes
          Null,         \* a null pointer to a Timer
          Repeating,    \* those of them that are repeating
          Intervals,    \* the intervals it uses
          MaxSerials,   \* what s_maxTimerSerial may be
          MaxTime       \* bound: the clock stops there

ASSUME NullAssumption == Null \notin Timer
ASSUME RepeatingAssumption == Repeating \subseteq Timer
ASSUME IntervalsAssumption == Intervals \subseteq Nat
ASSUME MaxSerialsAssumption == MaxSerials \subseteq Nat
ASSUME MaxTimeAssumption == MaxTime \in Nat \ {0}

VARIABLES
  maxSerial,              \* s_maxTimerSerial, which never changes
  now,                    \* PlatformTime::monotonicMsecs()
  \* the EventDispatcher
  m_timers, m_triggerTime, m_currentTimerSerial, m_serialsCompacted,
  adjusted,               \* m_adjustedIteratorOfNextTimer
  pos,                    \* it, in triggerDueTimers
  active,                 \* the timer whose callback runs
  compaction,             \* the loop of tryCompactTimerSerials
  \* the Timers
  exists, m_isRunning, m_interval, m_nextDueTime, m_serial,
  \* what is observed
  undefined,              \* undefined behaviour has been reached
  owed,                   \* due when this run began, neither triggered nor changed since
  seen,                   \* triggered or added in this run
  inside                  \* serials have been compacted from a timer callback

clockVars  == <<maxSerial, now, undefined>>
runVars    == <<m_triggerTime, m_serialsCompacted, active>>
mapVars    == <<m_timers, pos, m_currentTimerSerial, m_nextDueTime, m_serial>>
timerVars  == <<exists, m_isRunning, m_interval>>
watchVars  == <<owed, seen, inside>>
vars == <<clockVars, runVars, mapVars, adjusted, compaction, timerVars, watchVars>>

Node(d, s, t) == [due |-> d, serial |-> s, timer |-> t]
Nodes == [due : Nat, serial : Nat, timer : Timer \cup {Null}]

\* The state of the loop: the timer that addTimer was called for, the number
\* of rounds, newSerial, it, and pickNextTimer.
NoCompaction == [for |-> Null, count |-> 0, newSerial |-> 0, at |-> 0, pick |-> FALSE]
Compactions  == [for : Timer \cup {Null}, count : Nat, newSerial : Nat, at : Nat,
                 pick : BOOLEAN]

DispatcherOK ==
  /\ m_timers \in Seq(Nodes) /\ pos \in Nat
  /\ m_triggerTime \in Nat /\ m_currentTimerSerial \in 0..maxSerial + 1
  /\ m_serialsCompacted \in BOOLEAN
  /\ adjusted \in Timer \cup {"end", "invalid"}
  /\ active \in Timer \cup {Null}
  /\ compaction \in Compactions

TimersOK ==
  /\ exists \in [Timer -> BOOLEAN] /\ m_isRunning \in [Timer -> BOOLEAN]
  /\ m_interval \in [Timer -> Nat]
  /\ m_nextDueTime \in [Timer -> Nat] /\ m_serial \in [Timer -> 0..maxSerial]

TypeOK == /\ maxSerial \in MaxSerials /\ now \in Nat /\ undefined \in BOOLEAN
          /\ DispatcherOK /\ TimersOK
          /\ owed \subseteq Timer /\ seen \subseteq Timer /\ inside \in BOOLEAN

\* The Timers have been constructed, and setRepeating(false) called on some.
Init ==
  /\ maxSerial \in MaxSerials /\ now = 1
  /\ m_timers = <<>> /\ pos = 0 /\ m_currentTimerSerial = 0
  /\ m_triggerTime = 0 /\ m_serialsCompacted = FALSE /\ active = Null
  /\ adjusted = "invalid" /\ compaction = NoCompaction
  /\ exists = [t \in Timer |-> TRUE]
  /\ m_isRunning = [t \in Timer |-> FALSE]
  /\ m_interval = [t \in Timer |-> 0]
  /\ m_nextDueTime = [t \in Timer |-> 0] /\ m_serial = [t \in Timer |-> 0]
  /\ undefined = FALSE /\ owed = {} /\ seen = {} /\ inside = FALSE

Compacting == compaction.for # Null
Idle       == m_triggerTime = 0 /\ ~Compacting /\ ~undefined
InCallback == active # Null /\ ~Compacting /\ ~undefined
InLoop     == m_triggerTime # 0 /\ active = Null /\ ~undefined

\* m_reentrancyGuard is not null
Guarded(t) == active = t

\* What a node points to, if it is a timer that runs.
Live(t) == t # Null /\ m_isRunning[t]

-----------------------------------------------------------------------------
(* The map.                                                                *)

NotAfter(n, k) == n.due < k.due \/ (n.due = k.due /\ n.serial <= k.serial)

\* Where a node goes: behind all whose key is not greater.
PlaceOf(q, n) == 1 + Cardinality({i \in 1..Len(q) : NotAfter(q[i], n)})
Emplaced(q, n) == InsertAt(q, PlaceOf(q, n), n)

\* An index into q keeps pointing to its node, or to the end, when n comes in.
MovedOn(i, q, n) == IF i # 0 /\ PlaceOf(q, n) <= i THEN i + 1 ELSE i

\* The nodes that removeTimer finds, of which it takes the first: the key and the pointer
\* agree.
Found(t) == {i \in 1..Len(m_timers) :
               m_timers[i] = Node(m_nextDueTime[t], m_serial[t], t)}

\* Iterators to a node that is erased are dangling.
Dangling(t) == IF adjusted = t THEN "invalid" ELSE adjusted

\* Nobody reads the key of a timer without a node, so it is reset.
KeyReset(t) == /\ m_nextDueTime' = [u \in Timer |-> IF u = t THEN 0 ELSE m_nextDueTime[u]]
               /\ m_serial' = [u \in Timer |-> IF u = t THEN 0 ELSE m_serial[u]]

-----------------------------------------------------------------------------
(* addTimer                                                                *)

\* A timer added inside a callback must wait for the next run; the mutant
\* has no staging area.
DueTime_Unstaged(ms) == now + ms
DueTime(ms) == IF ms # 0 \/ m_triggerTime = 0 THEN now + ms ELSE 0

SeenAdding(t) == IF m_triggerTime = 0 THEN seen ELSE seen \cup {t}

\* With serial s, into the map q, where the iterator of the loop is at p.
Enter(q, p, t, ms, s) ==
  LET n == Node(DueTime(ms), s, t) IN
  /\ m_timers' = Emplaced(q, n)
  /\ pos' = MovedOn(p, q, n)
  /\ m_nextDueTime' = [m_nextDueTime EXCEPT ![t] = n.due]
  /\ m_serial' = [m_serial EXCEPT ![t] = s]
  /\ m_currentTimerSerial' = s + 1

\* The next serial would not fit into the key; the mutant is off by one.
SerialsUsedUp_Late == m_currentTimerSerial > maxSerial + 1
SerialsUsedUp == m_currentTimerSerial > maxSerial

\* s_maxTimerSerial * 0.9
TooMany(q) == 10 * Len(q) >= 9 * maxSerial

Add(q, p, t, ms) ==
  \/ /\ ~SerialsUsedUp
     /\ Enter(q, p, t, ms, m_currentTimerSerial)
     /\ seen' = SeenAdding(t)
     /\ UNCHANGED <<compaction, inside>>
  \/ /\ SerialsUsedUp /\ TooMany(q)
     /\ Enter(q, p, t, ms, 0)
     /\ seen' = SeenAdding(t)
     /\ UNCHANGED <<compaction, inside>>
  \/ /\ SerialsUsedUp /\ ~TooMany(q)
     /\ compaction' = [for |-> t, count |-> Len(q), newSerial |-> 0, at |-> 1,
                       pick |-> FALSE]
     /\ m_timers' = q /\ pos' = p
     /\ inside' = (inside \/ m_triggerTime # 0)
     /\ UNCHANGED <<m_nextDueTime, m_serial, m_currentTimerSerial, seen>>

-----------------------------------------------------------------------------
(* tryCompactTimerSerials, and the rest of addTimer after it.              *)

\* The node at "at" gets newSerial.
Renumber(t) ==
  LET rest == RemoveAt(m_timers, compaction.at)
      n    == Node(m_nextDueTime[t], compaction.newSerial, t)
  IN /\ m_timers' = Emplaced(rest, n)
     /\ m_serial' = [m_serial EXCEPT ![t] = n.serial]
     /\ UNCHANGED m_nextDueTime
     /\ compaction' = [compaction EXCEPT !.newSerial = @ + 1,
                                         !.at = MovedOn(@, rest, n),
                                         !.pick = FALSE]
     /\ adjusted' = IF compaction.pick THEN t ELSE Dangling(t)

DropDead ==
  /\ m_timers' = RemoveAt(m_timers, compaction.at)
  /\ compaction' = [compaction EXCEPT !.pick = TRUE]
  /\ adjusted' = "end"
  /\ KeyReset(m_timers[compaction.at].timer)

\* There is no node to look at, or no timer that the node points to.
CompactsNothing == compaction.at \in 1..Len(m_timers) =>
                      compaction.pick /\ m_timers[compaction.at].timer = Null

CompactRound ==
  /\ Compacting /\ ~undefined /\ compaction.newSerial < compaction.count
  /\ ~CompactsNothing
  /\ LET t == m_timers[compaction.at].timer IN
     IF Live(t) \/ compaction.pick THEN Renumber(t) ELSE DropDead
  /\ UNCHANGED <<clockVars, runVars, timerVars, watchVars, pos,
                 m_currentTimerSerial>>

CompactEnds ==
  /\ Compacting /\ ~undefined /\ compaction.newSerial = compaction.count
  /\ m_serialsCompacted' = TRUE
  /\ Enter(m_timers, 0, compaction.for, m_interval[compaction.for], compaction.count)
  /\ compaction' = NoCompaction
  /\ seen' = SeenAdding(compaction.for)
  /\ UNCHANGED <<clockVars, m_triggerTime, active, adjusted, timerVars, owed, inside>>

-----------------------------------------------------------------------------
(* What the application does with a Timer, from a callback or outside.     *)

\* removeTimer of a timer that is not in its own callback, and then addTimer
\* if it is wanted ("again"): the whole of start, setRunning and setInterval.
Requeue(t, ms, again) ==
  LET found == IF m_isRunning[t] THEN Found(t) ELSE {}
      q == IF found = {} THEN m_timers
           ELSE RemoveAt(m_timers, Min(found))
      p == IF found # {} /\ Min(found) < pos THEN pos - 1 ELSE pos
  IN /\ adjusted' = IF found = {} THEN adjusted ELSE Dangling(t)
     /\ owed' = owed \ {t}
     /\ IF again THEN Add(q, p, t, ms)
        ELSE /\ m_timers' = q /\ pos' = p
             /\ KeyReset(t)
             /\ UNCHANGED <<m_currentTimerSerial, compaction, seen, inside>>

QueueSame == UNCHANGED <<mapVars, adjusted, compaction, watchVars>>

Start(t, ms) ==
  /\ Idle \/ InCallback
  /\ exists[t]
  /\ m_interval' = [m_interval EXCEPT ![t] = ms]
  /\ m_isRunning' = [m_isRunning EXCEPT ![t] = TRUE]
  /\ IF Guarded(t) THEN QueueSame ELSE Requeue(t, ms, TRUE)
  /\ UNCHANGED <<clockVars, runVars, exists>>

SetRunning(t, run) ==
  /\ Idle \/ InCallback
  /\ exists[t] /\ m_isRunning[t] # run
  /\ m_isRunning' = [m_isRunning EXCEPT ![t] = run]
  /\ IF Guarded(t) THEN QueueSame ELSE Requeue(t, m_interval[t], run)
  /\ UNCHANGED <<clockVars, runVars, exists, m_interval>>

SetInterval(t, ms) ==
  /\ Idle \/ InCallback
  /\ exists[t] /\ m_interval[t] # ms
  /\ m_interval' = [m_interval EXCEPT ![t] = ms]
  /\ IF m_isRunning[t] /\ ~Guarded(t) THEN Requeue(t, ms, TRUE) ELSE QueueSame
  /\ UNCHANGED <<clockVars, runVars, exists, m_isRunning>>

\* A timer destroyed in its own callback leaves a dead node behind.
Killed(i) == [m_timers EXCEPT ![i].timer = Null]

Destroy(t) ==
  /\ Idle \/ InCallback
  /\ exists[t]
  /\ exists' = [exists EXCEPT ![t] = FALSE]
  /\ m_isRunning' = [m_isRunning EXCEPT ![t] = FALSE]
  /\ IF Guarded(t)
       THEN /\ m_timers' = IF Found(t) = {} THEN m_timers
                           ELSE Killed(Min(Found(t)))
            /\ KeyReset(t)
            /\ UNCHANGED <<pos, m_currentTimerSerial, adjusted, compaction,
                           watchVars>>
       ELSE Requeue(t, 0, FALSE)
  /\ UNCHANGED <<clockVars, runVars, m_interval>>

-----------------------------------------------------------------------------
(* triggerDueTimers                                                        *)

AtNode == pos \in 1..Len(m_timers)
IsDue  == AtNode /\ m_timers[pos].due <= m_triggerTime
Here   == m_timers[pos].timer

BeginRun ==
  /\ Idle
  /\ m_triggerTime' = now /\ pos' = 1
  /\ seen' = {}
  /\ owed' = {t \in Timer : \E i \in 1..Len(m_timers) :
                 m_timers[i].timer = t /\ m_timers[i].due \in 1..now}
  /\ UNCHANGED <<clockVars, m_serialsCompacted, active, m_timers,
                 m_currentTimerSerial, m_nextDueTime, m_serial, adjusted,
                 compaction, timerVars, inside>>

\* The timer at the iterator is due and not in the staging area.
Trigger(t) ==
  /\ InLoop /\ IsDue /\ Here = t /\ m_nextDueTime[t] # 0
  /\ active' = t
  /\ m_serialsCompacted' = FALSE
  /\ m_isRunning' = [m_isRunning EXCEPT ![t] = @ /\ t \in Repeating]
  /\ owed' = owed \ {t} /\ seen' = seen \cup {t}
  /\ UNCHANGED <<clockVars, m_triggerTime, mapVars, adjusted, compaction,
                 exists, m_interval, inside>>

\* Erasing the node at the iterator leaves it at the next node; the mutant
\* steps over that one.
NextAfterErase_Skips == pos + 1
NextAfterErase == pos

\* A new due time needs a new place; the mutant leaves the node where it is.
Reschedule_InPlace(t) ==
  /\ m_nextDueTime' = [m_nextDueTime EXCEPT ![t] = m_triggerTime + m_interval[t]]
  /\ pos' = pos + 1
  /\ UNCHANGED <<m_timers, m_serial, adjusted>>
Reschedule(t) ==
  LET rest == RemoveAt(m_timers, pos)
      n    == Node(m_triggerTime + m_interval[t], m_serial[t], t)
  IN /\ m_timers' = Emplaced(rest, n)
     /\ m_nextDueTime' = [m_nextDueTime EXCEPT ![t] = n.due]
     /\ pos' = MovedOn(pos, rest, n)
     /\ adjusted' = Dangling(t)
     /\ UNCHANGED m_serial

\* What is done with the node at the iterator after the callback.  A timer
\* with interval 0 stays where it is.
Advance ==
  LET t == Here IN
  \/ /\ Live(t) /\ m_interval[t] = 0 /\ m_nextDueTime[t] # 0
     /\ pos' = pos + 1
     /\ UNCHANGED <<m_timers, m_nextDueTime, m_serial, adjusted>>
  \/ /\ Live(t) /\ ~(m_interval[t] = 0 /\ m_nextDueTime[t] # 0)
     /\ Reschedule(t)
  \/ /\ ~Live(t)
     /\ m_timers' = RemoveAt(m_timers, pos)
     /\ pos' = NextAfterErase
     /\ adjusted' = Dangling(t)
     /\ KeyReset(t)

\* A timer that was added in the previous run leaves the staging area.
Unstage(t) ==
  /\ InLoop /\ IsDue /\ Here = t /\ m_nextDueTime[t] = 0
  /\ m_serialsCompacted' = FALSE
  /\ Advance
  /\ UNCHANGED <<clockVars, m_triggerTime, active, m_currentTimerSerial,
                 compaction, timerVars, watchVars>>

Return ==
  /\ InCallback /\ ~m_serialsCompacted
  /\ active' = Null
  /\ Advance
  /\ UNCHANGED <<clockVars, m_triggerTime, m_serialsCompacted,
                 m_currentTimerSerial, compaction, timerVars, watchVars>>

\* The callback has compacted the serials: the loop goes on at the iterator
\* that compaction has left, if it has.
ReturnCompacted ==
  /\ InCallback /\ m_serialsCompacted
  /\ active' = Null
  /\ undefined' = (adjusted = "invalid")
  /\ pos' = IF adjusted = "end" THEN Len(m_timers) + 1
            ELSE LET at == {i \in 1..Len(m_timers) : m_timers[i].timer = adjusted}
                 IN IF at = {} THEN 0 ELSE CHOOSE i \in at : TRUE
  /\ UNCHANGED <<maxSerial, now, m_triggerTime, m_serialsCompacted, m_timers,
                 m_currentTimerSerial, m_nextDueTime, m_serial, adjusted,
                 compaction, timerVars, watchVars>>

\* Compaction makes a round too many if it has dropped a node, and looks behind the end of
\* the map.  Both loops follow the pointer of a node without looking whether it is null.
LooksAtNothing ==
  /\ ~undefined
  /\ IF Compacting THEN compaction.newSerial < compaction.count /\ CompactsNothing
                   ELSE InLoop /\ IsDue /\ Here = Null
  /\ undefined' = TRUE
  /\ UNCHANGED <<maxSerial, now, runVars, mapVars, adjusted, compaction, timerVars, watchVars>>

EndRun ==
  /\ InLoop /\ ~IsDue
  /\ m_triggerTime' = 0 /\ pos' = 0 /\ seen' = {}
  /\ UNCHANGED <<clockVars, m_serialsCompacted, active, m_timers,
                 m_currentTimerSerial, m_nextDueTime, m_serial, adjusted,
                 compaction, timerVars, owed, inside>>

Tick ==
  /\ now < MaxTime /\ ~Compacting /\ ~undefined
  /\ now' = now + 1
  /\ UNCHANGED <<maxSerial, undefined, runVars, mapVars, adjusted, compaction, timerVars,
                 watchVars>>

-----------------------------------------------------------------------------
\* The event loop, its running callback apart.
Loop == \/ BeginRun \/ EndRun
        \/ \E t \in Timer : Trigger(t) \/ Unstage(t)
        \/ CompactRound \/ CompactEnds \/ LooksAtNothing

CallbackEnds == Return \/ ReturnCompacted

Application == \E t \in Timer :
                 \/ \E ms \in Intervals : Start(t, ms) \/ SetInterval(t, ms)
                 \/ \E run \in BOOLEAN : SetRunning(t, run)
                 \/ Destroy(t)

Next == Loop \/ CallbackEnds \/ Application \/ Tick

Spec == Init /\ [][Next]_vars

-----------------------------------------------------------------------------
(* Properties.                                                             *)

NodesOf(t) == {i \in 1..Len(m_timers) : m_timers[i].timer = t}

\* Between the callbacks, and in them for all timers but the one called back,
\* a timer runs if and only if it has a node, only one, and under the key
\* by which removeTimer will look for it; the map holds no pointer to a timer
\* that is destroyed (l. 286-313, timer.cpp l. 50, 68, 89, 113).
RunningIsQueued ==
  ~Compacting /\ ~inside =>
    \A t \in Timer \ {active} :
       /\ \A i \in NodesOf(t) : m_timers[i] = Node(m_nextDueTime[t], m_serial[t], t)
       /\ Cardinality(NodesOf(t)) = IF m_isRunning[t] THEN 1 ELSE 0
       /\ m_isRunning[t] => exists[t]

\* A run triggers no timer twice, and none that was added in the same run:
\* "make sure it only runs in the *next* iteration of the event loop"
\* (l. 269).
OncePerRun == [][\A t \in Timer : Trigger(t) /\ ~inside => t \notin seen]_vars

\* Whatever the callbacks do to other timers, a run does not end before every
\* timer that was due at its start and still is has been triggered (l. 331).
NoneSkipped == m_triggerTime = 0 /\ ~inside => owed = {}
=============================================================================
