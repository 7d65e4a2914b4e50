------------------------------ MODULE Commutex ------------------------------
(***************************************************************************)
(* One Commutex, the CommutexPeers that share it, and the CommutexLockers  *)
(* and CommutexUnlinkers their owners put on the stack                     *)
(* (src/util/commutex.h).  Every end is an object on its own thread that   *)
(* owns one CommutexPeer; every compare-exchange on the shared state is    *)
(* one step.  A failed attempt of a spinning loop changes nothing, so it   *)
(* is a stuttering step.                                                   *)
(*                                                                         *)
(* The owner's program is the one of src/connection/connection.cpp: calls  *)
(* under a CommutexLocker; at most one close(), with an Unlinker that must *)
(* succeed and is destroyed while its peer exists (the secondary, l. 335)  *)
(* or with one that may fail, is finished by unlinkNow() and outlives its  *)
(* peer (the main connection, l. 349-358); calls after close(); and the    *)
(* destruction of the object, with or without a close() before.            *)
(***************************************************************************)
EXTENDS Naturals

CONSTANTS Ends,        \* the threads, each with its object and its peer
          MaxCalls     \* bound: calls that one end attempts in a behaviour

ASSUME MaxCallsAssumption == MaxCalls \in Nat

VARIABLES m_state,     \* Commutex::m_state, the one atomic
          pc,          \* where each thread is
          m_comm,      \* its peer's m_comm is not null
          peer,        \* its CommutexPeer object exists
          must,        \* mustSucceed of its CommutexUnlinker
          result,      \* m_tryLockResult of its CommutexUnlinker
          closed,      \* its close() has begun (m_closing)
          calls        \* calls it attempted so far

vars == <<m_state, pc, m_comm, peer, must, result, closed, calls>>

States  == {"Free", "Locked", "Broken"}
Results == {"TransientFailure", "PermanentFailure", "Success"}

Locations ==
  { "idle",         \* in none of the operations below
    "lock",         \* in the constructor of a CommutexLocker
    "call",         \* the Locker has the lock: touching the other object
    "tryLock",      \* in the constructor of a CommutexUnlinker
    "announce",     \* the Unlinker has the lock: touching the other object
    "erase",        \* destroying the peer while the Unlinker still exists
    "unlinkerDtor", \* in the destructor of the CommutexUnlinker
    "dtor",         \* destroying the object: in the destructor of its peer
    "free",         \* the peer is destroyed, the memory not yet released
    "gone" }        \* the object does not exist any more

TypeOK == /\ m_state \in States
          /\ pc \in [Ends -> Locations]
          /\ m_comm \in [Ends -> BOOLEAN]
          /\ peer \in [Ends -> BOOLEAN]
          /\ must \in [Ends -> BOOLEAN]
          /\ result \in [Ends -> Results]
          /\ closed \in [Ends -> BOOLEAN]
          /\ calls \in [Ends -> Nat]

\* createLink(): a free Commutex and a peer for every end.
Init == /\ m_state = "Free"
        /\ pc = [e \in Ends |-> "idle"]
        /\ m_comm = [e \in Ends |-> TRUE]
        /\ peer = [e \in Ends |-> TRUE]
        /\ must = [e \in Ends |-> FALSE]
        /\ result = [e \in Ends |-> "PermanentFailure"]
        /\ closed = [e \in Ends |-> FALSE]
        /\ calls = [e \in Ends |-> 0]

At(e, l)   == pc[e] = l
Goto(e, l) == pc' = [pc EXCEPT ![e] = l]

(* The compare-exchanges, each after the mutants the runs are tried with.  *)

\* Commutex::tryLock, the outcomes that end a loop: the compare-exchange
\* Free -> Locked succeeds, or it finds Broken and the peer drops m_comm.
CasLock_Shared == m_state # "Broken" /\ m_state' = "Locked"
CasLock        == m_state = "Free" /\ m_state' = "Locked"

LockFails_Never(e) == ~m_comm[e] /\ UNCHANGED <<m_comm, m_state>>
LockFails(e) == /\ m_comm[e] => m_state = "Broken"
                /\ m_comm' = [m_comm EXCEPT ![e] = FALSE]
                /\ UNCHANGED m_state

\* Commutex::tryUnlink, the outcome that ends the loop of unlink().
CasUnlink_Forced  == m_state' = "Broken"
CasUnlink         == m_state \in {"Free", "Broken"} /\ m_state' = "Broken"

\* Commutex::unlock: anything but Locked is left as it is.
CasUnlock == m_state' = IF m_state = "Locked" THEN "Free" ELSE m_state

\* Commutex::unlinkFromLocked: it cannot see who owns the Locked state.
CasUnlinkFromLocked ==
  m_state' = IF m_state = "Locked" THEN "Broken" ELSE m_state

-----------------------------------------------------------------------------
(* A call: CommutexLocker on the peer, the call, the Locker's destructor.  *)

LockerStart(e) ==
  /\ At(e, "idle") /\ peer[e] /\ calls[e] < MaxCalls
  /\ calls' = [calls EXCEPT ![e] = @ + 1]
  /\ Goto(e, "lock")
  /\ UNCHANGED <<m_state, m_comm, peer, must, result, closed>>

LockerLocks(e) ==
  /\ At(e, "lock") /\ m_comm[e]
  /\ CasLock
  /\ Goto(e, "call")
  /\ UNCHANGED <<m_comm, peer, must, result, closed, calls>>

LockerFails(e) ==
  /\ At(e, "lock")
  /\ LockFails(e)
  /\ Goto(e, "idle")
  /\ UNCHANGED <<peer, must, result, closed, calls>>

LockerDtor(e) ==
  /\ At(e, "call")
  /\ CasUnlock
  /\ Goto(e, "idle")
  /\ UNCHANGED <<m_comm, peer, must, result, closed, calls>>

-----------------------------------------------------------------------------
(* close(): CommutexUnlinker on the peer.                                  *)

UnlinkerStart(e) ==
  /\ At(e, "idle") /\ peer[e] /\ ~closed[e]
  /\ \E b \in BOOLEAN : must' = [must EXCEPT ![e] = b]
  /\ closed' = [closed EXCEPT ![e] = TRUE]
  /\ Goto(e, "tryLock")
  /\ UNCHANGED <<m_state, m_comm, peer, result, calls>>

UnlinkerLocks(e) ==
  /\ At(e, "tryLock") /\ m_comm[e]
  /\ CasLock
  /\ result' = [result EXCEPT ![e] = "Success"]
  /\ Goto(e, "announce")
  /\ UNCHANGED <<m_comm, peer, must, closed, calls>>

\* Already broken: there is nobody to tell, the main end erases its peer.
UnlinkerFindsBroken(e) ==
  /\ At(e, "tryLock")
  /\ LockFails(e)
  /\ result' = [result EXCEPT ![e] = "PermanentFailure"]
  /\ Goto(e, IF must[e] THEN "unlinkerDtor" ELSE "erase")
  /\ UNCHANGED <<peer, must, closed, calls>>

\* What unlinkNow() leaves for the destructor to do; the mutant forgets to
\* reset m_tryLockResult.
AfterUnlinkNow_Same(e) == UNCHANGED result
AfterUnlinkNow(e) == result' = [result EXCEPT ![e] = "PermanentFailure"]

\* unlinkNow() of the Unlinker that outlives its peer.
UnlinkNow(e) ==
  /\ At(e, "announce") /\ ~must[e]
  /\ CasUnlinkFromLocked
  /\ AfterUnlinkNow(e)
  /\ Goto(e, "erase")
  /\ UNCHANGED <<m_comm, peer, must, closed, calls>>

\* Erasing the map element destroys the peer, which unlinks.
ErasePeer(e) ==
  /\ At(e, "erase")
  /\ IF m_comm[e] THEN CasUnlink ELSE UNCHANGED m_state
  /\ m_comm' = [m_comm EXCEPT ![e] = FALSE]
  /\ peer' = [peer EXCEPT ![e] = FALSE]
  /\ Goto(e, "unlinkerDtor")
  /\ UNCHANGED <<must, result, closed, calls>>

\* The end of the scope of an Unlinker that has announced the end.
UnlinkerScopeEnds(e) ==
  /\ At(e, "announce") /\ must[e]
  /\ Goto(e, "unlinkerDtor")
  /\ UNCHANGED <<m_state, m_comm, peer, must, result, closed, calls>>

\* ~CommutexUnlinker touches the peer only after a success not yet used.
UnlinkerDtor(e) ==
  /\ At(e, "unlinkerDtor")
  /\ IF result[e] = "Success" /\ m_comm[e]
       THEN CasUnlinkFromLocked
       ELSE UNCHANGED m_state
  /\ Goto(e, "idle")
  /\ UNCHANGED <<m_comm, peer, must, result, closed, calls>>

-----------------------------------------------------------------------------
(* Destruction of the object and, with it, of the peer if it still exists. *)

DtorStart(e) ==
  /\ At(e, "idle")
  /\ Goto(e, "dtor")
  /\ UNCHANGED <<m_state, m_comm, peer, must, result, closed, calls>>

PeerDtor(e) ==
  /\ At(e, "dtor")
  /\ IF m_comm[e] THEN CasUnlink ELSE UNCHANGED m_state
  /\ m_comm' = [m_comm EXCEPT ![e] = FALSE]
  /\ peer' = [peer EXCEPT ![e] = FALSE]
  /\ Goto(e, "free")
  /\ UNCHANGED <<must, result, closed, calls>>

Release(e) ==
  /\ At(e, "free")
  /\ Goto(e, "gone")
  /\ UNCHANGED <<m_state, m_comm, peer, must, result, closed, calls>>

-----------------------------------------------------------------------------
\* The steps of an operation that has begun.
Work(e) == \/ LockerLocks(e) \/ LockerFails(e) \/ LockerDtor(e)
           \/ UnlinkerLocks(e) \/ UnlinkerFindsBroken(e) \/ UnlinkNow(e)
           \/ ErasePeer(e) \/ UnlinkerScopeEnds(e) \/ UnlinkerDtor(e)
           \/ PeerDtor(e) \/ Release(e)

Next == \E e \in Ends :
           LockerStart(e) \/ UnlinkerStart(e) \/ DtorStart(e) \/ Work(e)

\* A thread inside an operation is scheduled; it need not start one.
Fairness == \A e \in Ends : WF_vars(Work(e))

Spec == Init /\ [][Next]_vars
FairSpec == Spec /\ Fairness

-----------------------------------------------------------------------------
\* The ends that hold the lock, and so may touch the other object.
Holders == {e \in Ends : \/ pc[e] \in {"call", "announce"}
                         \/ pc[e] = "unlinkerDtor" /\ result[e] = "Success"}

\* An ongoing call blocks other calls through the same Commutex (commutex.h
\* l. 11): two ends never touch each other's object at the same time.
CallExclusion == \A e, f \in Holders : e = f

\* A call never touches a destroyed object (commutex.h l. 10-12): while an
\* end is in a call, the memory of no object of the link has been released.
NoCallIntoDestroyed == Holders # {} => \A e \in Ends : pc[e] # "gone"

\* The assertions of unlock() (l. 91) and unlinkFromLocked() (l. 118): a
\* thread that is about to give up its lock finds the state Locked, because
\* nobody else could have unlocked or broken it in the meantime.
UnlockFindsLocked == Holders # {} => m_state = "Locked"

\* ~CommutexUnlinker (l. 305) runs after map::erase in connection.cpp l. 358
\* has destroyed the peer it points to: it must not want to touch it then.
UnlinkerSparesDeadPeer ==
  \A e \in Ends :
     pc[e] = "unlinkerDtor" /\ result[e] = "Success" => peer[e]

\* Destruction of one end prevents calls forever (l. 9-10): a broken
\* Commutex is never free or locked again, whatever both threads do.
BrokenForever == [][m_state = "Broken" => m_state' = "Broken"]_vars

\* The spinning loops end (lock l. 72, the Unlinker's l. 279, unlink l. 105):
\* with finitely many calls on each side, who wants to close closes and who
\* is being destroyed goes away; no order of steps leaves both waiting.
Settled(e) == pc[e] \in {"idle", "gone"}
OperationsEnd == \A e \in Ends : ~Settled(e) ~> Settled(e)

\* The Commutex implements the link that CallGate promises: every step of
\* the threads (tryLock l. 59 to unlinkFromLocked l. 109) is a step of
\* CallGate or changes nothing that CallGate sees.
Gate == INSTANCE CallGate WITH open    <- m_state # "Broken",
                               calling <- Holders,
                               alive   <- {e \in Ends : pc[e] # "gone"}
ImplementsGate == Gate!GateSpec
=============================================================================
