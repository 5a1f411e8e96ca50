-------------------------- MODULE CoordinatorLock --------------------------
(***************************************************************************)
(* Exclusive ownership of a factory's journal.  Three programs change the  *)
(* lock file: a coordinator that claims and releases it                    *)
(* (src/runtime/coordinator.ts), an offline maintenance operation that     *)
(* holds it while it works (src/maintenance/backup.ts), and the recovery   *)
(* tool that removes a dead owner's lock (src/maintenance/lock-recovery.ts)*)
(* They serialize through a guard file (src/runtime/ownership-lock.ts)     *)
(* which nobody reclaims.  A releasing owner does not take the guard.      *)
(*                                                                         *)
(* A process is one incarnation: it runs once, and its identity (pid,      *)
(* start time, instance id) is its name.  A lock file is therefore known   *)
(* by its owner.  The journal is reduced to the number of its records.     *)
(***************************************************************************)
EXTENDS Naturals

CONSTANTS
    Coordinator, Maintainer, Recoverer, \* incarnations of the three programs
    None,
    LateRecords, \* a record() may be issued while release() is unlinking
    MaxEvents    \* bound: records in the journal

Owner == Coordinator \cup Maintainer
Process == Owner \cup Recoverer

LockFile == [owner : Owner, written : BOOLEAN]

ASSUME LockAssumption ==
    /\ None \notin Process \cup LockFile
    /\ Coordinator \cap Maintainer = {} /\ Owner \cap Recoverer = {}
    /\ LateRecords \in BOOLEAN
    /\ MaxEvents \in Nat

VARIABLES
    lock,    \* None, or the lock file: its owner, and whether it is complete
    guard,   \* None, or the process that created the guard file
    pc,
    target,  \* the owner a process read from the lock file
    events,  \* records in the journal
    seen,    \* records in each coordinator's in-memory list
    pending  \* a record() passed assertClaimed and waits for the journal

vars == <<lock, guard, pc, target, events, seen, pending>>

Place == {"idle", "opened", "inspected", "guarded", "created", "owned", "leaving",
          "contended", "probing", "confirming", "copying", "unlinking", "refusing",
          "running", "releasing", "unlinked", "working", "removing", "done", "failed",
          "dead"}

\* A process that acts on a stale owner has read which one.
TargetRead == \A p \in Process :
    pc[p] \in {"inspected", "probing", "confirming", "copying", "unlinking"}
        => target[p] # None

TypeOK ==
    /\ lock \in {None} \cup LockFile
    /\ guard \in Process \cup {None}
    /\ pc \in [Process -> Place]
    /\ target \in [Process -> Owner \cup {None}]
    /\ events \in Nat
    /\ seen \in [Coordinator -> Nat]
    /\ pending \in [Coordinator -> BOOLEAN]
    /\ TargetRead

Init ==
    /\ lock = None /\ guard = None
    /\ pc = [p \in Process |-> "idle"]
    /\ target = [p \in Process |-> None]
    /\ events = 0
    /\ seen = [p \in Coordinator |-> 0]
    /\ pending = [p \in Coordinator |-> FALSE]

Goto(p, from, to) == pc[p] = from /\ pc' = [pc EXCEPT ![p] = to]

Readable == lock # None /\ lock.written
Names(o) == Readable /\ lock.owner = o

-----------------------------------------------------------------------------
\* withOwnershipLock

TakeGuard(p) ==
    /\ guard = None /\ guard' = p
    /\ \/ p \in Coordinator /\ Goto(p, "opened", "guarded")
       \/ p \in Maintainer /\ Goto(p, "idle", "guarded")
       \/ p \in Recoverer /\ Goto(p, "inspected", "guarded")
    /\ UNCHANGED <<lock, target, events, seen, pending>>

GuardBusy(p) ==
    /\ guard # None
    /\ \/ p \in Coordinator /\ Goto(p, "opened", "failed")
       \/ p \in Maintainer /\ Goto(p, "idle", "failed")
       \/ p \in Recoverer /\ Goto(p, "inspected", "failed")
    /\ UNCHANGED <<lock, guard, target, events, seen, pending>>

\* Slip (AttemptsSettle): a refused operation keeps its guard.
LeaveGuardOnSuccess(p) ==
    /\ \/ p \in Coordinator /\ Goto(p, "leaving", "running")
       \/ p \in Maintainer /\ Goto(p, "leaving", "working")
       \/ p \in Recoverer /\ Goto(p, "leaving", "done")
    /\ guard' = None
    /\ UNCHANGED <<lock, target, events, seen, pending>>

LeaveGuard(p) ==
    /\ \/ p \in Coordinator /\ Goto(p, "leaving", "running")
       \/ p \in Maintainer /\ Goto(p, "leaving", "working")
       \/ p \in Recoverer /\ Goto(p, "leaving", "done")
       \/ Goto(p, "refusing", "failed")
    /\ guard' = None
    /\ UNCHANGED <<lock, target, events, seen, pending>>

-----------------------------------------------------------------------------
\* DurableCoordinator.open reads the journal; claim() comes later.
OpenJournal(p) ==
    /\ Goto(p, "idle", "opened")
    /\ seen' = [seen EXCEPT ![p] = events]
    /\ UNCHANGED <<lock, guard, target, events, pending>>

\* open(lockPath, 'wx'), and then its content.
CreateLock(p) ==
    /\ lock = None
    /\ Goto(p, "guarded", "created")
    /\ lock' = [owner |-> p, written |-> FALSE]
    /\ UNCHANGED <<guard, target, events, seen, pending>>

WriteLock(p) ==
    /\ Goto(p, "created", IF p \in Coordinator THEN "owned" ELSE "leaving")
    /\ lock' = [owner |-> p, written |-> TRUE]
    /\ UNCHANGED <<guard, target, events, seen, pending>>

AppendEvent(p) ==
    /\ events' = events + 1
    /\ seen' = [seen EXCEPT ![p] = @ + 1]

\* coordinator.claimed is recorded before the guard is dropped.
RecordClaim(p) ==
    /\ Goto(p, "owned", "leaving")
    /\ AppendEvent(p)
    /\ UNCHANGED <<lock, guard, target, pending>>

\* EEXIST: maintenance gives up, a coordinator looks at the owner.
FindLock(p) ==
    /\ lock # None
    /\ Goto(p, "guarded", IF p \in Coordinator THEN "contended" ELSE "refusing")
    /\ UNCHANGED <<lock, guard, target, events, seen, pending>>

\* Slip (TypeOK): an unreadable lock is probed like any other.
ReadLockUnchecked(p) ==
    /\ Goto(p, "contended", "probing")
    /\ target' = [target EXCEPT ![p] = IF lock = None THEN None ELSE lock.owner]
    /\ UNCHANGED <<lock, guard, events, seen, pending>>

\* A missing or incomplete lock is "unreadable": ownership is unknown.
ReadLock(p) ==
    /\ \/ /\ Readable
          /\ Goto(p, "contended", "probing")
          /\ target' = [target EXCEPT ![p] = lock.owner]
       \/ /\ ~Readable
          /\ Goto(p, "contended", "refusing")
          /\ UNCHANGED target
    /\ UNCHANGED <<lock, guard, events, seen, pending>>

\* The probe reports death only of the dead; it may also not know.
Probe(p) ==
    /\ pc[p] = "probing"
    /\ \/ pc[target[p]] = "dead" /\ Goto(p, "probing", "confirming")
       \/ Goto(p, "probing", "refusing")
    /\ UNCHANGED <<lock, guard, target, events, seen, pending>>

Confirm(p) ==
    /\ Goto(p, "confirming", IF Names(target[p]) THEN "unlinking" ELSE "refusing")
    /\ UNCHANGED <<lock, guard, target, events, seen, pending>>

\* unlink() removes whatever is at the path; then claimUnderLock starts again.
UnlinkStale(p) ==
    /\ Goto(p, "unlinking", IF p \in Coordinator THEN "guarded" ELSE "leaving")
    /\ lock' = None
    /\ UNCHANGED <<guard, target, events, seen, pending>>

-----------------------------------------------------------------------------
\* A running coordinator.  record() checks #claimed, which release() clears
\* last, and then waits for its turn in the journal.

Claimed(p) == pc[p] \in {"running", "releasing", "unlinked"}

StartRecord(p) ==
    /\ IF LateRecords THEN Claimed(p) ELSE pc[p] = "running"
    /\ ~pending[p]
    /\ events < MaxEvents
    /\ pending' = [pending EXCEPT ![p] = TRUE]
    /\ UNCHANGED <<lock, guard, pc, target, events, seen>>

WriteRecord(p) ==
    /\ pending[p] /\ pc[p] # "dead"
    /\ AppendEvent(p)
    /\ pending' = [pending EXCEPT ![p] = FALSE]
    /\ UNCHANGED <<lock, guard, pc, target>>

\* Slip (SoleWriter): coordinator.released overtakes the records in flight.
RecordReleaseEarly(p) ==
    /\ Goto(p, "running", "releasing")
    /\ AppendEvent(p)
    /\ UNCHANGED <<lock, guard, target, pending>>

\* coordinator.released is queued behind the records already in flight.
RecordRelease(p) ==
    /\ ~pending[p]
    /\ Goto(p, "running", "releasing")
    /\ AppendEvent(p)
    /\ UNCHANGED <<lock, guard, target, pending>>

UnlinkOwn(p) ==
    /\ Goto(p, "releasing", "unlinked")
    /\ lock' = None
    /\ UNCHANGED <<guard, target, events, seen, pending>>

Released(p) ==
    /\ Goto(p, "unlinked", "done")
    /\ UNCHANGED <<lock, guard, target, events, seen, pending>>

\* A maintenance operation compares the file with the one it created.
CheckOwnLock(p) ==
    /\ Goto(p, "working", IF lock # None /\ lock.owner = p THEN "removing" ELSE "done")
    /\ UNCHANGED <<lock, guard, target, events, seen, pending>>

RemoveOwnLock(p) ==
    /\ Goto(p, "removing", "done")
    /\ lock' = None
    /\ UNCHANGED <<guard, target, events, seen, pending>>

-----------------------------------------------------------------------------
\* recoverCoordinatorLock: the token of a dead owner's lock is inspected
\* before the guard, under it, and once more after the evidence is copied.

Inspect(p) ==
    /\ lock # None
    /\ target' = [target EXCEPT ![p] = lock.owner]
    /\ Goto(p, "idle", IF lock.written /\ pc[lock.owner] = "dead" THEN "inspected" ELSE "failed")
    /\ UNCHANGED <<lock, guard, events, seen, pending>>

\* Slip (HeldMeansLocked): the owner inspected first is dead, whoever holds now.
StillDeadFirst(p) == Readable /\ pc[target[p]] = "dead"

StillDead(p) == Names(target[p]) /\ pc[target[p]] = "dead"

InspectAgain(p) ==
    /\ Goto(p, "guarded", IF StillDead(p) THEN "copying" ELSE "refusing")
    /\ UNCHANGED <<lock, guard, target, events, seen, pending>>

CopyEvidence(p) ==
    /\ Goto(p, "copying", IF StillDead(p) THEN "unlinking" ELSE "refusing")
    /\ UNCHANGED <<lock, guard, target, events, seen, pending>>

-----------------------------------------------------------------------------
Crash(p) ==
    /\ pc[p] \notin {"idle", "done", "failed", "dead"}
    /\ pc' = [pc EXCEPT ![p] = "dead"]
    /\ UNCHANGED <<lock, guard, target, events, seen, pending>>

CoordinatorStep(p) ==
    \/ TakeGuard(p) \/ GuardBusy(p) \/ LeaveGuard(p)
    \/ CreateLock(p) \/ WriteLock(p) \/ RecordClaim(p)
    \/ FindLock(p) \/ ReadLock(p) \/ Probe(p) \/ Confirm(p) \/ UnlinkStale(p)
    \/ WriteRecord(p) \/ UnlinkOwn(p) \/ Released(p)

MaintainerStep(p) ==
    \/ LeaveGuard(p) \/ CreateLock(p) \/ WriteLock(p) \/ FindLock(p)
    \/ CheckOwnLock(p) \/ RemoveOwnLock(p)

RecovererStep(p) ==
    \/ TakeGuard(p) \/ GuardBusy(p) \/ LeaveGuard(p)
    \/ InspectAgain(p) \/ CopyEvidence(p) \/ UnlinkStale(p)

Next ==
    \/ \E p \in Coordinator :
          OpenJournal(p) \/ StartRecord(p) \/ RecordRelease(p) \/ CoordinatorStep(p)
    \/ \E p \in Maintainer : TakeGuard(p) \/ GuardBusy(p) \/ MaintainerStep(p)
    \/ \E p \in Recoverer : Inspect(p) \/ RecovererStep(p)
    \/ \E p \in Process : Crash(p)

Spec == Init /\ [][Next]_vars

\* A process that started runs on; starting, recording and releasing are choices.
Fairness ==
    /\ \A p \in Coordinator : WF_vars(CoordinatorStep(p))
    /\ \A p \in Maintainer : WF_vars(MaintainerStep(p))
    /\ \A p \in Recoverer : WF_vars(RecovererStep(p))

FairSpec == Spec /\ Fairness

-----------------------------------------------------------------------------
\* Between its claim and its release an owner's lock file is there and is its
\* own: nobody removes or replaces the lock of a live owner, whatever races
\* with whatever crash.
Holding(p) == pc[p] \in {"owned", "running", "releasing", "working", "removing"}
HeldMeansLocked == \A p \in Owner : Holding(p) => Names(p)

\* Only the owner of the lock file appends to the journal.
SoleWriter ==
    [][events' # events => lock # None /\ lock.owner \in Coordinator
                           /\ seen'[lock.owner] # seen[lock.owner]]_vars

\* Every attempt ends: with ownership, with a refusal, or with the process.
Settled == {"idle", "running", "releasing", "unlinked", "working", "removing",
            "done", "failed", "dead"}
AttemptsSettle == \A p \in Process : pc[p] \notin Settled ~> pc[p] \in Settled
=============================================================================
