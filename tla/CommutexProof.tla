---------------------------- MODULE CommutexProof ----------------------------
(***************************************************************************)
(* Proofs about Commutex, for any set of ends and any bound on the calls.  *)
(*                                                                         *)
(* Neither mutual exclusion nor the safety of a call is inductive: that    *)
(* the lock of a holder is the state Locked has to be carried along with   *)
(* "a peer without m_comm has seen, or caused, Broken", because that is    *)
(* what lets a thread without m_comm go on without looking at the state.   *)
(***************************************************************************)
EXTENDS Commutex, TLAPS

\* A peer gives up m_comm only when the Commutex is broken.
DroppedMeansBroken == \A e \in Ends : ~m_comm[e] => m_state = "Broken"

\* An object is taken apart only behind a broken Commutex.
DyingMeansBroken ==
  \A e \in Ends : pc[e] \in {"free", "gone"} => m_state = "Broken"

\* A peer exists as long as a Locker or an Unlinker may use it, and the
\* Unlinker that is about to lose its peer has nothing left to do.
PeerOutlivesUse ==
  \A e \in Ends :
     /\ pc[e] \in {"lock", "call", "tryLock", "announce"} => peer[e]
     /\ pc[e] = "announce" => result[e] = "Success"
     /\ pc[e] = "erase" => result[e] # "Success"
     /\ pc[e] = "unlinkerDtor" /\ result[e] = "Success" => peer[e]

IInv == /\ TypeOK
        /\ CallExclusion
        /\ UnlockFindsLocked
        /\ DroppedMeansBroken
        /\ DyingMeansBroken
        /\ PeerOutlivesUse

\* The initial states satisfy the inductive invariant.
LEMMA InitIInv == Init => IInv
BY DEF Init, IInv, TypeOK, CallExclusion, UnlockFindsLocked, Holders,
       DroppedMeansBroken, DyingMeansBroken, PeerOutlivesUse, States,
       Locations, Results

\* Every step of every thread keeps the types.
LEMMA TypeStep == TypeOK /\ [Next]_vars => TypeOK'
<1> SUFFICES ASSUME TypeOK, [Next]_vars PROVE TypeOK'
  OBVIOUS
<1> USE DEF TypeOK, States, Locations, Results, At, Goto
<1>1. CASE UNCHANGED vars
  BY <1>1 DEF vars
<1>0. ASSUME NEW e \in Ends, LockerStart(e) PROVE TypeOK'
  BY <1>0 DEF LockerStart
<1>2. ASSUME NEW e \in Ends, LockerLocks(e) \/ LockerFails(e) \/ LockerDtor(e)
      PROVE  TypeOK'
  BY <1>2 DEF LockerLocks, LockerFails, LockerDtor, CasLock, LockFails,
              CasUnlock
<1>3. ASSUME NEW e \in Ends, UnlinkerStart(e) \/ UnlinkerLocks(e) \/
             UnlinkerFindsBroken(e) \/ UnlinkNow(e)
      PROVE  TypeOK'
  BY <1>3 DEF UnlinkerStart, UnlinkerLocks, UnlinkerFindsBroken, UnlinkNow,
              AfterUnlinkNow,              CasLock, LockFails, CasUnlinkFromLocked
<1>4. ASSUME NEW e \in Ends, ErasePeer(e) \/ UnlinkerScopeEnds(e) \/
             UnlinkerDtor(e) \/ DtorStart(e) \/ PeerDtor(e) \/ Release(e)
      PROVE  TypeOK'
  BY <1>4 DEF ErasePeer, UnlinkerScopeEnds, UnlinkerDtor, DtorStart,
              PeerDtor, Release, CasUnlink, CasUnlinkFromLocked
<1> QED
  BY <1>0, <1>1, <1>2, <1>3, <1>4 DEF Next, Work

\* Type correctness: the compare-exchange protocol of commutex.h never
\* leaves the states the header names.
THEOREM TypeCorrect == Spec => []TypeOK
<1>1. Init => TypeOK
  BY InitIInv DEF IInv
<1> QED
  BY <1>1, TypeStep, PTL DEF Spec

\* Every step of every thread keeps the inductive invariant.
LEMMA IInvStep == IInv /\ [Next]_vars => IInv'
<1> SUFFICES ASSUME IInv, [Next]_vars PROVE IInv'
  OBVIOUS
<1>0. TypeOK'
  BY TypeStep DEF IInv
<1> USE <1>0 DEF IInv, TypeOK, States, Locations, Results, At, Goto,
        CallExclusion, UnlockFindsLocked, Holders, DroppedMeansBroken,
        DyingMeansBroken, PeerOutlivesUse
<1>1. CASE UNCHANGED vars
  BY <1>1 DEF vars
<1>2. ASSUME NEW e \in Ends, LockerStart(e) PROVE IInv'
  BY <1>2 DEF LockerStart
<1>3. ASSUME NEW e \in Ends, LockerLocks(e) PROVE IInv'
  BY <1>3 DEF LockerLocks, CasLock
<1>4. ASSUME NEW e \in Ends, LockerFails(e) PROVE IInv'
  BY <1>4 DEF LockerFails, LockFails
<1>5. ASSUME NEW e \in Ends, LockerDtor(e) PROVE IInv'
  BY <1>5 DEF LockerDtor, CasUnlock
<1>6. ASSUME NEW e \in Ends, UnlinkerStart(e) PROVE IInv'
  BY <1>6 DEF UnlinkerStart
<1>7. ASSUME NEW e \in Ends, UnlinkerLocks(e) PROVE IInv'
  BY <1>7 DEF UnlinkerLocks, CasLock
<1>8. ASSUME NEW e \in Ends, UnlinkerFindsBroken(e) PROVE IInv'
  BY <1>8 DEF UnlinkerFindsBroken, LockFails
<1>9. ASSUME NEW e \in Ends, UnlinkNow(e) PROVE IInv'
  BY <1>9 DEF UnlinkNow, AfterUnlinkNow, CasUnlinkFromLocked
<1>10. ASSUME NEW e \in Ends, ErasePeer(e) PROVE IInv'
  BY <1>10 DEF ErasePeer, CasUnlink
<1>11. ASSUME NEW e \in Ends, UnlinkerScopeEnds(e) PROVE IInv'
  BY <1>11 DEF UnlinkerScopeEnds
<1>12. ASSUME NEW e \in Ends, UnlinkerDtor(e) PROVE IInv'
  BY <1>12 DEF UnlinkerDtor, CasUnlinkFromLocked
<1>13. ASSUME NEW e \in Ends, DtorStart(e) PROVE IInv'
  BY <1>13 DEF DtorStart
<1>14. ASSUME NEW e \in Ends, PeerDtor(e) PROVE IInv'
  BY <1>14 DEF PeerDtor, CasUnlink
<1>15. ASSUME NEW e \in Ends, Release(e) PROVE IInv'
  BY <1>15 DEF Release
<1> QED
  BY <1>1, <1>2, <1>3, <1>4, <1>5, <1>6, <1>7, <1>8, <1>9, <1>10, <1>11,
     <1>12, <1>13, <1>14, <1>15 DEF Next, Work

\* The inductive invariant holds in every reachable state.
LEMMA Inductive == Spec => []IInv
BY InitIInv, IInvStep, PTL DEF Spec

\* Two ends never touch each other's object at the same time.
THEOREM ExclusiveCalls == Spec => []CallExclusion
<1>1. IInv => CallExclusion
  BY DEF IInv
<1> QED
  BY <1>1, Inductive, PTL

\* A thread that gives up its lock finds the state Locked: the assertions of
\* unlock() and unlinkFromLocked() never fail.
THEOREM LockAccounting == Spec => []UnlockFindsLocked
<1>1. IInv => UnlockFindsLocked
  BY DEF IInv
<1> QED
  BY <1>1, Inductive, PTL

\* No call touches an object whose memory has been released.
THEOREM SafeCalls == Spec => []NoCallIntoDestroyed
<1>1. IInv => NoCallIntoDestroyed
  <2> SUFFICES ASSUME IInv, Holders # {}, NEW e \in Ends PROVE pc[e] # "gone"
    BY DEF NoCallIntoDestroyed
  <2>1. m_state = "Locked"
    BY DEF IInv, UnlockFindsLocked
  <2> QED
    BY <2>1 DEF IInv, DyingMeansBroken
<1> QED
  BY <1>1, Inductive, PTL

\* The Unlinker that outlives its peer does not touch it.
THEOREM UnlinkerSafety == Spec => []UnlinkerSparesDeadPeer
<1>1. IInv => UnlinkerSparesDeadPeer
  BY DEF IInv, PeerOutlivesUse, UnlinkerSparesDeadPeer
<1> QED
  BY <1>1, Inductive, PTL

-----------------------------------------------------------------------------
\* The initial states of the Commutex are initial states of the gate.
LEMMA GateInitMap == Init => Gate!GateInit
BY DEF Init, Gate!GateInit, Holders

\* Every step of the Commutex is a step of the gate or leaves it as it is.
LEMMA GateStepMap == IInv /\ [Next]_vars => [Gate!GateNext]_Gate!gateVars
<1> SUFFICES ASSUME IInv, [Next]_vars
             PROVE  [Gate!GateNext]_Gate!gateVars
  OBVIOUS
<1> DEFINE Live == {e \in Ends : pc[e] # "gone"}
<1> DEFINE Stutter == /\ (m_state' # "Broken") = (m_state # "Broken")
                      /\ Holders' = Holders
                      /\ Live' = Live
<1>0. Stutter => UNCHANGED Gate!gateVars
  BY DEF Gate!gateVars
<1> USE DEF IInv, TypeOK, States, Locations, Results, At, Goto,
        CallExclusion, UnlockFindsLocked, Holders, DroppedMeansBroken,
        DyingMeansBroken, PeerOutlivesUse
<1>1. CASE UNCHANGED vars
  BY <1>0, <1>1 DEF vars
<1>2. ASSUME NEW e \in Ends, LockerStart(e) \/ UnlinkerStart(e) \/ DtorStart(e)
      PROVE  Stutter
  <2>1. CASE LockerStart(e)
    BY <2>1 DEF LockerStart
  <2>2. CASE UnlinkerStart(e)
    BY <2>2 DEF UnlinkerStart
  <2>3. CASE DtorStart(e)
    BY <2>3 DEF DtorStart
  <2> QED
    BY <1>2, <2>1, <2>2, <2>3
<1>3. ASSUME NEW e \in Ends, LockerLocks(e) \/ UnlinkerLocks(e)
      PROVE  Gate!Begin(e)
  <2>1. CASE LockerLocks(e)
    BY <2>1 DEF LockerLocks, CasLock, Gate!Begin
  <2>2. CASE UnlinkerLocks(e)
    BY <2>2 DEF UnlinkerLocks, CasLock, Gate!Begin
  <2> QED
    BY <1>3, <2>1, <2>2
<1>4. ASSUME NEW e \in Ends, LockerFails(e) \/ UnlinkerFindsBroken(e)
      PROVE  Stutter
  <2>1. CASE LockerFails(e)
    BY <2>1 DEF LockerFails, LockFails
  <2>2. CASE UnlinkerFindsBroken(e)
    BY <2>2 DEF UnlinkerFindsBroken, LockFails
  <2> QED
    BY <1>4, <2>1, <2>2
<1>5. ASSUME NEW e \in Ends, LockerDtor(e)
      PROVE  Gate!End(e)
  BY <1>5 DEF LockerDtor, CasUnlock, Gate!End
<1>6. ASSUME NEW e \in Ends, UnlinkNow(e)
      PROVE  Gate!Break(e)
  BY <1>6 DEF UnlinkNow, AfterUnlinkNow, CasUnlinkFromLocked, Gate!Break
<1>7. ASSUME NEW e \in Ends, UnlinkerDtor(e)
      PROVE  Gate!Break(e) \/ Stutter
  <2>1. CASE result[e] = "Success"
    BY <1>7, <2>1 DEF UnlinkerDtor, CasUnlinkFromLocked, Gate!Break
  <2>2. CASE result[e] # "Success"
    BY <1>7, <2>2 DEF UnlinkerDtor
  <2> QED
    BY <2>1, <2>2
<1>8. ASSUME NEW e \in Ends, UnlinkerScopeEnds(e)
      PROVE  Stutter
  BY <1>8 DEF UnlinkerScopeEnds
<1>9. ASSUME NEW e \in Ends, ErasePeer(e) \/ PeerDtor(e)
      PROVE  Gate!Break(e) \/ Stutter
  <2>1. CASE m_state = "Broken"
    <3>1. CASE ErasePeer(e)
      BY <2>1, <3>1 DEF ErasePeer, CasUnlink
    <3>2. CASE PeerDtor(e)
      BY <2>1, <3>2 DEF PeerDtor, CasUnlink
    <3> QED
      BY <1>9, <3>1, <3>2
  <2>2. CASE m_state # "Broken"
    <3>1. CASE ErasePeer(e)
      BY <2>2, <3>1 DEF ErasePeer, CasUnlink, Gate!Break
    <3>2. CASE PeerDtor(e)
      BY <2>2, <3>2 DEF PeerDtor, CasUnlink, Gate!Break
    <3> QED
      BY <1>9, <3>1, <3>2
  <2> QED
    BY <2>1, <2>2
<1>10. ASSUME NEW e \in Ends, Release(e)
       PROVE  Gate!Retire(e)
  BY <1>10 DEF Release, Gate!Retire
<1> HIDE DEF Stutter
<1> QED
  BY <1>0, <1>1, <1>2, <1>3, <1>4, <1>5, <1>6, <1>7, <1>8, <1>9, <1>10
     DEF Next, Work, Gate!GateNext

\* The Commutex implements the link that CallGate promises: calls exclude
\* each other and destruction, and a broken link stays broken.
THEOREM GateImplemented == Spec => ImplementsGate
BY GateInitMap, GateStepMap, Inductive, PTL
   DEF Spec, ImplementsGate, Gate!GateSpec

\* A broken Commutex stays broken: no step leads out of that state.
THEOREM StaysBroken == Spec => BrokenForever
<1>1. IInv /\ [Next]_vars => [m_state = "Broken" => m_state' = "Broken"]_vars
  <2> SUFFICES ASSUME IInv, [Next]_vars,
                      [Gate!GateNext]_Gate!gateVars, m_state = "Broken"
               PROVE  m_state' = "Broken"
    BY GateStepMap
  <2> QED
    BY DEF Gate!GateNext, Gate!Begin, Gate!End, Gate!Break, Gate!Retire,
           Gate!gateVars
<1> QED
  BY <1>1, Inductive, PTL DEF Spec, BrokenForever
=============================================================================
