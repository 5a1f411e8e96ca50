----------------------- MODULE CoordinatorLockProofs -----------------------
(***************************************************************************)
(* Proofs about journal ownership, for any number of coordinators,         *)
(* maintenance operations and recovery tools.                              *)
(***************************************************************************)
EXTENDS CoordinatorLock, TLAPS

LEMMA LockFiles == /\ \A p \in Owner : [owner |-> p, written |-> FALSE] \in LockFile
                   /\ \A p \in Owner : [owner |-> p, written |-> TRUE] \in LockFile
                   /\ \A l \in LockFile : l.owner \in Owner /\ l.written \in BOOLEAN
BY DEF LockFile

LEMMA TypeInit == Init => TypeOK
BY DEF Init, TypeOK, Place, TargetRead

LEMMA TypeStep == TypeOK /\ [Next]_vars => TypeOK'
<1> SUFFICES ASSUME TypeOK, [Next]_vars PROVE TypeOK'
  OBVIOUS
<1> USE LockAssumption, LockFiles DEF TypeOK, Goto, Process, Owner
<1>1. ASSUME NEW p \in Process, NEW q \in Place, pc' = [pc EXCEPT ![p] = q],
             UNCHANGED target,
             q \in {"inspected", "probing", "confirming", "copying", "unlinking"}
                 => target[p] # None
      PROVE  pc' \in [Process -> Place] /\ TargetRead'
  BY <1>1 DEF TargetRead
<1>2. ASSUME NEW p \in Process, TakeGuard(p) \/ GuardBusy(p) \/ LeaveGuard(p) PROVE TypeOK'
  <2>1. pc' \in [Process -> Place] /\ TargetRead'
    BY <1>1, <1>2 DEF TakeGuard, GuardBusy, LeaveGuard, Place, TargetRead
  <2> QED BY <1>2, <2>1 DEF TakeGuard, GuardBusy, LeaveGuard
<1>3. ASSUME NEW p \in Owner, CreateLock(p) \/ WriteLock(p) PROVE TypeOK'
  <2>1. pc' \in [Process -> Place] /\ TargetRead'
    BY <1>1, <1>3 DEF CreateLock, WriteLock, Place
  <2>2. lock' \in LockFile
    BY <1>3, LockFiles DEF CreateLock, WriteLock
  <2> QED BY <1>3, <2>1, <2>2 DEF CreateLock, WriteLock
<1>4. ASSUME NEW p \in Process, FindLock(p) \/ Probe(p) \/ Confirm(p) \/ UnlinkStale(p)
      PROVE  TypeOK'
  <2>1. pc' \in [Process -> Place] /\ TargetRead'
    BY <1>1, <1>4 DEF FindLock, Probe, Confirm, UnlinkStale, Place, TargetRead
  <2> QED BY <1>4, <2>1 DEF FindLock, Probe, Confirm, UnlinkStale
<1>5. ASSUME NEW p \in Coordinator, ReadLock(p) PROVE TypeOK'
  <2>1. pc' \in [Process -> Place] /\ target' \in [Process -> Owner \cup {None}]
    BY <1>5 DEF ReadLock, Readable, Place
  <2>2. TargetRead'
    BY <1>5 DEF ReadLock, Readable, TargetRead
  <2> QED BY <1>5, <2>1, <2>2 DEF ReadLock
<1>6. ASSUME NEW p \in Coordinator,
             OpenJournal(p) \/ RecordClaim(p) \/ RecordRelease(p) \/ UnlinkOwn(p) \/ Released(p)
      PROVE  TypeOK'
  <2>1. pc' \in [Process -> Place] /\ TargetRead'
    BY <1>1, <1>6 DEF OpenJournal, RecordClaim, RecordRelease, UnlinkOwn, Released, Place
  <2>2. events' \in Nat /\ seen' \in [Coordinator -> Nat]
    BY <1>6 DEF OpenJournal, RecordClaim, RecordRelease, UnlinkOwn, Released, AppendEvent
  <2> QED BY <1>6, <2>1, <2>2 DEF OpenJournal, RecordClaim, RecordRelease, UnlinkOwn, Released
<1>7. ASSUME NEW p \in Coordinator, StartRecord(p) \/ WriteRecord(p) PROVE TypeOK'
  <2>1. pc' = pc /\ target' = target /\ UNCHANGED <<lock, guard>>
    BY <1>7 DEF StartRecord, WriteRecord
  <2>2. events' \in Nat /\ seen' \in [Coordinator -> Nat]
    BY <1>7 DEF StartRecord, WriteRecord, AppendEvent
  <2>3. pending' \in [Coordinator -> BOOLEAN]
    BY <1>7 DEF StartRecord, WriteRecord
  <2> QED BY <2>1, <2>2, <2>3 DEF TargetRead
<1>8. ASSUME NEW p \in Maintainer, CheckOwnLock(p) \/ RemoveOwnLock(p) PROVE TypeOK'
  <2>1. pc' \in [Process -> Place] /\ TargetRead'
    BY <1>1, <1>8 DEF CheckOwnLock, RemoveOwnLock, Place
  <2> QED BY <1>8, <2>1 DEF CheckOwnLock, RemoveOwnLock
<1>9. ASSUME NEW p \in Recoverer, Inspect(p) PROVE TypeOK'
  <2>1. target' = [target EXCEPT ![p] = lock.owner] /\ lock.owner \in Owner
    BY <1>9 DEF Inspect
  <2>2. pc' \in [Process -> Place] /\ TargetRead'
    BY <1>9, <2>1 DEF Inspect, Place, TargetRead
  <2> QED BY <1>9, <2>1, <2>2 DEF Inspect
<1>10. ASSUME NEW p \in Recoverer, InspectAgain(p) \/ CopyEvidence(p) PROVE TypeOK'
  <2>1. pc[p] # "guarded" => target[p] # None
    BY <1>10 DEF InspectAgain, CopyEvidence, TargetRead
  <2>2. StillDead(p) => target[p] # None
    BY DEF StillDead, Names, Readable
  <2>3. pc' \in [Process -> Place] /\ TargetRead'
    BY <1>1, <1>10, <2>1, <2>2 DEF InspectAgain, CopyEvidence, Place
  <2> QED BY <1>10, <2>3 DEF InspectAgain, CopyEvidence
<1>11. ASSUME NEW p \in Process, Crash(p) PROVE TypeOK'
  <2>1. pc' \in [Process -> Place] /\ TargetRead'
    BY <1>1, <1>11 DEF Crash, Place
  <2> QED BY <1>11, <2>1 DEF Crash
<1>12. CASE UNCHANGED vars
  BY <1>12 DEF vars, TargetRead
<1> QED
  BY <1>2, <1>3, <1>4, <1>5, <1>6, <1>7, <1>8, <1>9, <1>10, <1>11, <1>12
  DEF Next, CoordinatorStep, MaintainerStep, RecovererStep

\* Every variable keeps its type, and no process acts on an owner it did not read.
THEOREM TypeCorrect == Spec => []TypeOK
BY TypeInit, TypeStep, PTL DEF Spec

-----------------------------------------------------------------------------
\* Why a live owner keeps its lock: the guard orders the processes that remove
\* a stale lock, and what they remove belongs to a process that is dead.

GuardPc == {"guarded", "created", "owned", "leaving", "contended", "probing",
            "confirming", "copying", "unlinking", "refusing"}

GuardOwned == \A p \in Process : pc[p] \in GuardPc => guard = p

\* From the creation of its lock file until it removes it.
Possesses(p) == pc[p] \in {"created", "owned", "leaving", "running", "releasing",
                           "working", "removing"}

OwnsLock == \A p \in Owner : Possesses(p) =>
    lock # None /\ lock.owner = p /\ (pc[p] # "created" => lock.written)

StaleIsDead == \A p \in Process :
    /\ pc[p] \in {"confirming", "unlinking"} => pc[target[p]] = "dead"
    /\ pc[p] = "unlinking" => Names(target[p])

LInv == TypeOK /\ GuardOwned /\ OwnsLock /\ StaleIsDead

LEMMA LInvInit == Init => LInv
<1> SUFFICES ASSUME Init PROVE LInv
  OBVIOUS
<1>1. TypeOK
  BY TypeInit
<1> QED BY <1>1 DEF Init, LInv, GuardOwned, GuardPc, OwnsLock, Possesses, StaleIsDead,
               Process, Owner

LEMMA LInvStep == LInv /\ [Next]_vars => LInv'
<1> SUFFICES ASSUME LInv, [Next]_vars PROVE LInv'
  OBVIOUS
<1>1. TypeOK'
  BY TypeStep DEF LInv
<1>2. /\ GuardOwned /\ OwnsLock /\ StaleIsDead /\ TargetRead
      /\ pc \in [Process -> Place] /\ target \in [Process -> Owner \cup {None}]
      /\ lock # None => lock.owner \in Owner
  BY LockFiles DEF LInv, TypeOK
<1> USE <1>1, <1>2, LockAssumption DEF Process, Owner, Goto
<1>3. ASSUME NEW p \in Process, TakeGuard(p) PROVE LInv'
  <2>1. GuardOwned'
    BY <1>3 DEF TakeGuard, GuardOwned, GuardPc
  <2>2. OwnsLock'
    BY <1>3 DEF TakeGuard, OwnsLock, Possesses, GuardOwned, GuardPc, StaleIsDead, Names, Readable
  <2>3. StaleIsDead'
    BY <1>3 DEF TakeGuard, OwnsLock, Possesses, GuardOwned, GuardPc, StaleIsDead, Names, Readable
  <2> QED BY <2>1, <2>2, <2>3 DEF LInv
<1>4. ASSUME NEW p \in Process, GuardBusy(p) PROVE LInv'
  <2>1. GuardOwned'
    BY <1>4 DEF GuardBusy, GuardOwned, GuardPc
  <2>2. OwnsLock'
    BY <1>4 DEF GuardBusy, OwnsLock, Possesses, GuardOwned, GuardPc, StaleIsDead, Names, Readable
  <2>3. StaleIsDead'
    <3>1. /\ pc[p] # "dead" /\ UNCHANGED <<lock, target>>
          /\ \A q \in Process : pc'[q] = IF q = p THEN "failed" ELSE pc[q]
      BY <1>4 DEF GuardBusy
    <3> QED BY <3>1 DEF StaleIsDead, Names, Readable, TargetRead
  <2> QED BY <2>1, <2>2, <2>3 DEF LInv
<1>5. ASSUME NEW p \in Process, LeaveGuard(p) PROVE LInv'
  <2>1. GuardOwned'
    BY <1>5 DEF LeaveGuard, GuardOwned, GuardPc
  <2>2. OwnsLock'
    BY <1>5 DEF LeaveGuard, OwnsLock, Possesses, GuardOwned, GuardPc, StaleIsDead, Names, Readable
  <2>3. StaleIsDead'
    BY <1>5 DEF LeaveGuard, OwnsLock, Possesses, GuardOwned, GuardPc, StaleIsDead, Names, Readable
  <2> QED BY <2>1, <2>2, <2>3 DEF LInv
<1>6. ASSUME NEW p \in Owner, CreateLock(p) PROVE LInv'
  <2>1. GuardOwned'
    BY <1>6 DEF CreateLock, GuardOwned, GuardPc
  <2>2. OwnsLock'
    <3>1. \A q \in Owner : ~Possesses(q)
      BY <1>6 DEF CreateLock, OwnsLock, Possesses, StaleIsDead, Names, Readable
    <3>2. \A q \in Owner : Possesses(q)' => q = p /\ lock' = [owner |-> p, written |-> FALSE] /\ pc'[p] = "created"
      BY <1>6, <3>1 DEF CreateLock, Possesses
    <3> QED BY <3>2, LockFiles DEF OwnsLock, Possesses
  <2>3. StaleIsDead'
    BY <1>6 DEF CreateLock, OwnsLock, Possesses, GuardOwned, GuardPc, StaleIsDead, Names, Readable
  <2> QED BY <2>1, <2>2, <2>3 DEF LInv
<1>7. ASSUME NEW p \in Owner, WriteLock(p) PROVE LInv'
  <2>1. GuardOwned'
    BY <1>7 DEF WriteLock, GuardOwned, GuardPc
  <2>2. OwnsLock'
    BY <1>7, LockFiles DEF WriteLock, OwnsLock, Possesses
  <2>3. StaleIsDead'
    BY <1>7 DEF WriteLock, OwnsLock, Possesses, GuardOwned, GuardPc, StaleIsDead, Names, Readable
  <2> QED BY <2>1, <2>2, <2>3 DEF LInv
<1>8. ASSUME NEW p \in Owner, FindLock(p) PROVE LInv'
  <2>1. GuardOwned'
    BY <1>8 DEF FindLock, GuardOwned, GuardPc
  <2>2. OwnsLock'
    BY <1>8 DEF FindLock, OwnsLock, Possesses, GuardOwned, GuardPc, StaleIsDead, Names, Readable
  <2>3. StaleIsDead'
    BY <1>8 DEF FindLock, OwnsLock, Possesses, GuardOwned, GuardPc, StaleIsDead, Names, Readable
  <2> QED BY <2>1, <2>2, <2>3 DEF LInv
<1>9. ASSUME NEW p \in Coordinator, ReadLock(p) PROVE LInv'
  <2>1. GuardOwned'
    BY <1>9 DEF ReadLock, GuardOwned, GuardPc
  <2>2. OwnsLock'
    BY <1>9 DEF ReadLock, OwnsLock, Possesses, GuardOwned, GuardPc, StaleIsDead, Names, Readable
  <2>3. StaleIsDead'
    BY <1>9 DEF ReadLock, OwnsLock, Possesses, GuardOwned, GuardPc, StaleIsDead, Names, Readable
  <2> QED BY <2>1, <2>2, <2>3 DEF LInv
<1>10. ASSUME NEW p \in Coordinator, Probe(p) PROVE LInv'
  <2>1. GuardOwned'
    BY <1>10 DEF Probe, GuardOwned, GuardPc
  <2>2. OwnsLock'
    BY <1>10 DEF Probe, OwnsLock, Possesses, GuardOwned, GuardPc, StaleIsDead, Names, Readable
  <2>3. StaleIsDead'
    BY <1>10 DEF Probe, OwnsLock, Possesses, GuardOwned, GuardPc, StaleIsDead, Names, Readable, TargetRead
  <2> QED BY <2>1, <2>2, <2>3 DEF LInv
<1>11. ASSUME NEW p \in Coordinator, Confirm(p) PROVE LInv'
  <2>1. GuardOwned'
    BY <1>11 DEF Confirm, GuardOwned, GuardPc
  <2>2. OwnsLock'
    BY <1>11 DEF Confirm, OwnsLock, Possesses, GuardOwned, GuardPc, StaleIsDead, Names, Readable
  <2>3. StaleIsDead'
    BY <1>11 DEF Confirm, OwnsLock, Possesses, GuardOwned, GuardPc, StaleIsDead, Names, Readable, TargetRead
  <2> QED BY <2>1, <2>2, <2>3 DEF LInv
<1>12. ASSUME NEW p \in Coordinator \cup Recoverer, UnlinkStale(p) PROVE LInv'
  <2>1. GuardOwned'
    BY <1>12 DEF UnlinkStale, GuardOwned, GuardPc
  <2>2. OwnsLock'
    <3>1. \A q \in Owner : ~Possesses(q)
      BY <1>12 DEF UnlinkStale, OwnsLock, Possesses, StaleIsDead, Names, Readable
    <3>2. \A q \in Owner : Possesses(q)' => FALSE
      BY <1>12, <3>1 DEF UnlinkStale, Possesses
    <3> QED BY <3>2 DEF OwnsLock, Possesses
  <2>3. StaleIsDead'
    BY <1>12 DEF UnlinkStale, OwnsLock, Possesses, GuardOwned, GuardPc, StaleIsDead, Names, Readable
  <2> QED BY <2>1, <2>2, <2>3 DEF LInv
<1>13. ASSUME NEW p \in Coordinator, OpenJournal(p) PROVE LInv'
  <2>1. GuardOwned'
    BY <1>13 DEF OpenJournal, GuardOwned, GuardPc
  <2>2. OwnsLock'
    BY <1>13 DEF OpenJournal, OwnsLock, Possesses, GuardOwned, GuardPc, StaleIsDead, Names, Readable
  <2>3. StaleIsDead'
    BY <1>13 DEF OpenJournal, OwnsLock, Possesses, GuardOwned, GuardPc, StaleIsDead, Names, Readable
  <2> QED BY <2>1, <2>2, <2>3 DEF LInv
<1>14. ASSUME NEW p \in Coordinator, RecordClaim(p) PROVE LInv'
  <2>1. GuardOwned'
    BY <1>14 DEF RecordClaim, GuardOwned, GuardPc
  <2>2. OwnsLock'
    BY <1>14 DEF RecordClaim, OwnsLock, Possesses, GuardOwned, GuardPc, StaleIsDead, Names, Readable
  <2>3. StaleIsDead'
    BY <1>14 DEF RecordClaim, OwnsLock, Possesses, GuardOwned, GuardPc, StaleIsDead, Names, Readable
  <2> QED BY <2>1, <2>2, <2>3 DEF LInv
<1>15. ASSUME NEW p \in Coordinator, StartRecord(p) PROVE LInv'
  <2>1. GuardOwned'
    BY <1>15 DEF StartRecord, GuardOwned, GuardPc
  <2>2. OwnsLock'
    BY <1>15 DEF StartRecord, OwnsLock, Possesses, GuardOwned, GuardPc, StaleIsDead, Names, Readable
  <2>3. StaleIsDead'
    BY <1>15 DEF StartRecord, OwnsLock, Possesses, GuardOwned, GuardPc, StaleIsDead, Names, Readable
  <2> QED BY <2>1, <2>2, <2>3 DEF LInv
<1>16. ASSUME NEW p \in Coordinator, WriteRecord(p) PROVE LInv'
  <2>1. GuardOwned'
    BY <1>16 DEF WriteRecord, GuardOwned, GuardPc
  <2>2. OwnsLock'
    BY <1>16 DEF WriteRecord, OwnsLock, Possesses, GuardOwned, GuardPc, StaleIsDead, Names, Readable
  <2>3. StaleIsDead'
    BY <1>16 DEF WriteRecord, OwnsLock, Possesses, GuardOwned, GuardPc, StaleIsDead, Names, Readable
  <2> QED BY <2>1, <2>2, <2>3 DEF LInv
<1>17. ASSUME NEW p \in Coordinator, RecordRelease(p) PROVE LInv'
  <2>1. GuardOwned'
    BY <1>17 DEF RecordRelease, GuardOwned, GuardPc
  <2>2. OwnsLock'
    BY <1>17 DEF RecordRelease, OwnsLock, Possesses, GuardOwned, GuardPc, StaleIsDead, Names, Readable
  <2>3. StaleIsDead'
    BY <1>17 DEF RecordRelease, OwnsLock, Possesses, GuardOwned, GuardPc, StaleIsDead, Names, Readable
  <2> QED BY <2>1, <2>2, <2>3 DEF LInv
<1>18. ASSUME NEW p \in Coordinator, UnlinkOwn(p) PROVE LInv'
  <2>1. GuardOwned'
    BY <1>18 DEF UnlinkOwn, GuardOwned, GuardPc
  <2>2. OwnsLock'
    BY <1>18 DEF UnlinkOwn, OwnsLock, Possesses, GuardOwned, GuardPc, StaleIsDead, Names, Readable
  <2>3. StaleIsDead'
    BY <1>18 DEF UnlinkOwn, OwnsLock, Possesses, GuardOwned, GuardPc, StaleIsDead, Names, Readable
  <2> QED BY <2>1, <2>2, <2>3 DEF LInv
<1>19. ASSUME NEW p \in Coordinator, Released(p) PROVE LInv'
  <2>1. GuardOwned'
    BY <1>19 DEF Released, GuardOwned, GuardPc
  <2>2. OwnsLock'
    BY <1>19 DEF Released, OwnsLock, Possesses, GuardOwned, GuardPc, StaleIsDead, Names, Readable
  <2>3. StaleIsDead'
    BY <1>19 DEF Released, OwnsLock, Possesses, GuardOwned, GuardPc, StaleIsDead, Names, Readable
  <2> QED BY <2>1, <2>2, <2>3 DEF LInv
<1>20. ASSUME NEW p \in Maintainer, CheckOwnLock(p) PROVE LInv'
  <2>1. GuardOwned'
    BY <1>20 DEF CheckOwnLock, GuardOwned, GuardPc
  <2>2. OwnsLock'
    BY <1>20 DEF CheckOwnLock, OwnsLock, Possesses, GuardOwned, GuardPc, StaleIsDead, Names, Readable
  <2>3. StaleIsDead'
    BY <1>20 DEF CheckOwnLock, OwnsLock, Possesses, GuardOwned, GuardPc, StaleIsDead, Names, Readable
  <2> QED BY <2>1, <2>2, <2>3 DEF LInv
<1>21. ASSUME NEW p \in Maintainer, RemoveOwnLock(p) PROVE LInv'
  <2>1. GuardOwned'
    BY <1>21 DEF RemoveOwnLock, GuardOwned, GuardPc
  <2>2. OwnsLock'
    BY <1>21 DEF RemoveOwnLock, OwnsLock, Possesses, GuardOwned, GuardPc, StaleIsDead, Names, Readable
  <2>3. StaleIsDead'
    BY <1>21 DEF RemoveOwnLock, OwnsLock, Possesses, GuardOwned, GuardPc, StaleIsDead, Names, Readable
  <2> QED BY <2>1, <2>2, <2>3 DEF LInv
<1>22. ASSUME NEW p \in Recoverer, Inspect(p) PROVE LInv'
  <2>1. GuardOwned'
    BY <1>22 DEF Inspect, GuardOwned, GuardPc
  <2>2. OwnsLock'
    BY <1>22 DEF Inspect, OwnsLock, Possesses, GuardOwned, GuardPc, StaleIsDead, Names, Readable
  <2>3. StaleIsDead'
    BY <1>22 DEF Inspect, OwnsLock, Possesses, GuardOwned, GuardPc, StaleIsDead, Names, Readable, TargetRead
  <2> QED BY <2>1, <2>2, <2>3 DEF LInv
<1>23. ASSUME NEW p \in Recoverer, InspectAgain(p) PROVE LInv'
  <2>1. GuardOwned'
    BY <1>23 DEF InspectAgain, GuardOwned, GuardPc
  <2>2. OwnsLock'
    BY <1>23 DEF InspectAgain, OwnsLock, Possesses, GuardOwned, GuardPc, StaleIsDead, Names, Readable
  <2>3. StaleIsDead'
    BY <1>23 DEF InspectAgain, OwnsLock, Possesses, GuardOwned, GuardPc, StaleIsDead, Names, Readable, StillDead
  <2> QED BY <2>1, <2>2, <2>3 DEF LInv
<1>24. ASSUME NEW p \in Recoverer, CopyEvidence(p) PROVE LInv'
  <2>1. GuardOwned'
    BY <1>24 DEF CopyEvidence, GuardOwned, GuardPc
  <2>2. OwnsLock'
    BY <1>24 DEF CopyEvidence, OwnsLock, Possesses, GuardOwned, GuardPc, StaleIsDead, Names, Readable
  <2>3. StaleIsDead'
    BY <1>24 DEF CopyEvidence, OwnsLock, Possesses, GuardOwned, GuardPc, StaleIsDead, Names, Readable, StillDead
  <2> QED BY <2>1, <2>2, <2>3 DEF LInv
<1>25. ASSUME NEW p \in Process, Crash(p) PROVE LInv'
  <2>1. GuardOwned'
    BY <1>25 DEF Crash, GuardOwned, GuardPc
  <2>2. OwnsLock'
    BY <1>25 DEF Crash, OwnsLock, Possesses, GuardOwned, GuardPc, StaleIsDead, Names, Readable
  <2>3. StaleIsDead'
    BY <1>25 DEF Crash, OwnsLock, Possesses, GuardOwned, GuardPc, StaleIsDead, Names, Readable
  <2> QED BY <2>1, <2>2, <2>3 DEF LInv
<1>26. CASE UNCHANGED vars
  BY <1>26 DEF vars, LInv, GuardOwned, OwnsLock, Possesses, StaleIsDead, Names, Readable
<1> QED
  BY <1>3, <1>4, <1>5, <1>6, <1>7, <1>8, <1>9, <1>10, <1>11, <1>12, <1>13, <1>14,
     <1>15, <1>16, <1>17, <1>18, <1>19, <1>20, <1>21, <1>22, <1>23, <1>24, <1>25, <1>26
  DEF Next, CoordinatorStep, MaintainerStep, RecovererStep

\* The lock of a live owner is never removed or replaced by anyone else.
THEOREM HeldMeansLockedHolds == Spec => []HeldMeansLocked
<1>1. LInv => HeldMeansLocked
  BY DEF LInv, OwnsLock, Possesses, HeldMeansLocked, Holding, Names, Readable
<1> QED BY LInvInit, LInvStep, <1>1, PTL DEF Spec

-----------------------------------------------------------------------------
\* If no record is issued while the lock is being released, a record in flight
\* belongs to a running coordinator.
InFlight == \A p \in Coordinator : pending[p] => pc[p] \in {"running", "dead"}

LEMMA InFlightStep == ASSUME ~LateRecords, LInv, InFlight, [Next]_vars PROVE InFlight'
<1> USE LockAssumption DEF LInv, TypeOK, Process, Owner, InFlight, Goto
<1>1. ASSUME NEW p \in Coordinator, StartRecord(p) \/ WriteRecord(p) PROVE InFlight'
  BY <1>1 DEF StartRecord, WriteRecord
<1>2. ASSUME NEW p \in Coordinator, RecordRelease(p) PROVE InFlight'
  BY <1>2 DEF RecordRelease
<1>3. ASSUME NEW p \in Process, NEW x, pending' = pending, pc' = [pc EXCEPT ![p] = x],
             (pc[p] # "running" /\ (pc[p] # "dead" \/ x = "dead")) \/ x = "dead"
      PROVE  InFlight'
  BY <1>3
<1>4. ASSUME NEW p \in Coordinator, OpenJournal(p) \/ CoordinatorStep(p), ~WriteRecord(p)
      PROVE  InFlight'
  BY <1>3, <1>4 DEF OpenJournal, CoordinatorStep, TakeGuard, GuardBusy, LeaveGuard,
     CreateLock, WriteLock, RecordClaim, FindLock, ReadLock, Probe, Confirm, UnlinkStale,
     UnlinkOwn, Released
<1>5. ASSUME NEW p \in Maintainer, TakeGuard(p) \/ GuardBusy(p) \/ MaintainerStep(p)
      PROVE  InFlight'
  BY <1>3, <1>5 DEF TakeGuard, GuardBusy, MaintainerStep, LeaveGuard, CreateLock,
     WriteLock, FindLock, CheckOwnLock, RemoveOwnLock
<1>6. ASSUME NEW p \in Recoverer, Inspect(p) \/ RecovererStep(p) PROVE InFlight'
  BY <1>3, <1>6 DEF Inspect, RecovererStep, TakeGuard, GuardBusy, LeaveGuard,
     InspectAgain, CopyEvidence, UnlinkStale
<1>7. ASSUME NEW p \in Process, Crash(p) PROVE InFlight'
  BY <1>3, <1>7 DEF Crash
<1>8. CASE UNCHANGED vars
  BY <1>8 DEF vars
<1> QED BY <1>1, <1>2, <1>4, <1>5, <1>6, <1>7, <1>8 DEF Next, CoordinatorStep

LEMMA AppendsAreOwned ==
    ASSUME LInv, InFlight, [Next]_vars, events' # events
    PROVE  lock # None /\ lock.owner \in Coordinator /\ seen'[lock.owner] # seen[lock.owner]
<1>1. PICK p \in Coordinator : AppendEvent(p) /\ pc[p] \in {"owned", "running"}
  <2>1. \/ \E p \in Coordinator : RecordClaim(p) \/ RecordRelease(p) \/ WriteRecord(p)
        \/ UNCHANGED events
    BY DEF Next, vars, CoordinatorStep, MaintainerStep, RecovererStep, OpenJournal,
       StartRecord, TakeGuard, GuardBusy, LeaveGuard, CreateLock, WriteLock, FindLock,
       ReadLock, Probe, Confirm, UnlinkStale, UnlinkOwn, Released, CheckOwnLock,
       RemoveOwnLock, Inspect, InspectAgain, CopyEvidence, Crash
  <2> QED BY <2>1 DEF RecordClaim, RecordRelease, WriteRecord, Goto, InFlight
<1>2. lock # None /\ lock.owner = p
  BY <1>1 DEF LInv, OwnsLock, Possesses, Owner
<1>3. seen'[p] = seen[p] + 1 /\ seen[p] \in Nat
  BY <1>1 DEF AppendEvent, LInv, TypeOK
<1> QED BY <1>1, <1>2, <1>3

\* Only the owner of the lock file appends to the journal, provided that no
\* record is issued while release() waits for its unlink.
THEOREM SoleWriterHolds == ASSUME ~LateRecords PROVE Spec => SoleWriter
<1>1. Init => LInv /\ InFlight
  BY LInvInit DEF Init, InFlight
<1>2. LInv /\ InFlight /\ [Next]_vars => LInv' /\ InFlight'
  BY LInvStep, InFlightStep
<1>3. LInv /\ InFlight /\ [Next]_vars
        => [events' # events => lock # None /\ lock.owner \in Coordinator
                                /\ seen'[lock.owner] # seen[lock.owner]]_vars
  BY AppendsAreOwned
<1> QED BY <1>1, <1>2, <1>3, PTL DEF Spec, SoleWriter
=============================================================================
