---------------------------- MODULE FactoryBackup ----------------------------
(***************************************************************************)
(* src/maintenance/backup.ts: a backup of a factory whose coordinator is   *)
(* stopped, its restoration beside it, and the decisions that unblock the  *)
(* restored one.  Of a factory's files there are the journal and the       *)
(* Console's receipts of what it had the coordinator admit; of the         *)
(* restored one the journal.                                               *)
(***************************************************************************)
EXTENDS Naturals, FiniteSets

CONSTANTS Run, None, MaxTroubles

VARIABLES
    journal,    \* of the factory: the status of each run
    receipts,   \* of the factory: the runs whose admission has a receipt
    owner,      \* coordinator-lock, of the factory and of the copy: who holds it
    backup,     \* the last one made: its files and whether it has its manifest
    copy,       \* the restored factory: journal, pending decisions, what has become of it
    job,        \* the maintenance call under way
    troubles

vars == <<journal, receipts, owner, backup, copy, job, troubles>>

InFlight == {"active", "uncertain"}
File == {"journal", "receipts"}
Idle == [at |-> "idle", todo |-> {}]
NoBackup == [journal |-> None, receipts |-> None, manifest |-> FALSE]
NoCopy == [journal |-> None, pending |-> {}, required |-> {}, decided |-> {}, done |-> FALSE, early |-> FALSE]

Init ==
    /\ journal = [r \in Run |-> "none"] /\ receipts = {}
    /\ owner = [factory |-> None, copy |-> None]
    /\ backup = NoBackup /\ copy = NoCopy
    /\ job = Idle
    /\ troubles = 0

-----------------------------------------------------------------------------
\* The coordinator of the factory, with the Console around it: they own its files while
\* they run.
Claim ==
    /\ owner.factory = None
    /\ owner' = [owner EXCEPT !.factory = "coordinator"]
    /\ UNCHANGED <<journal, receipts, backup, copy, job, troubles>>

Release ==
    /\ owner.factory = "coordinator"
    /\ owner' = [owner EXCEPT !.factory = None]
    /\ UNCHANGED <<journal, receipts, backup, copy, job, troubles>>

Works(r) ==
    /\ owner.factory = "coordinator"
    /\ \/ journal[r] = "none" /\ journal' = [journal EXCEPT ![r] = "active"] /\ UNCHANGED receipts
       \/ journal[r] = "active" /\ journal' = [journal EXCEPT ![r] = "uncertain"] /\ UNCHANGED receipts
       \/ journal[r] = "active" /\ journal' = [journal EXCEPT ![r] = "settled"] /\ UNCHANGED receipts
       \/ /\ journal[r] # "none" /\ r \notin receipts
          /\ receipts' = receipts \cup {r} /\ UNCHANGED journal
    /\ UNCHANGED <<owner, backup, copy, job, troubles>>

-----------------------------------------------------------------------------
\* Slip (BackupConsistent): the files are copied beside a running coordinator.
OfflineAnyhow(holder) == holder \in {None, "coordinator"}
Offline(holder) == holder = None

\* createFactoryBackup, into a new directory; an earlier one that was cut off is left.
BackupBegins ==
    /\ job = Idle /\ ~backup.manifest
    /\ Offline(owner.factory)
    /\ owner' = [owner EXCEPT !.factory = IF @ = None THEN "maintenance" ELSE @]
    /\ backup' = NoBackup
    /\ job' = [at |-> "backup", todo |-> File]
    /\ UNCHANGED <<journal, receipts, copy, troubles>>

\* backupBytes: a journal whose last line is complete, as it is; so are the receipts.
BackupBytes(f) == IF f = "journal" THEN journal ELSE receipts

CopyFile(f) ==
    /\ job.at = "backup" /\ f \in job.todo
    /\ backup' = [backup EXCEPT ![f] = BackupBytes(f)]
    /\ job' = [job EXCEPT !.todo = @ \ {f}]
    /\ UNCHANGED <<journal, receipts, owner, copy, troubles>>

WriteManifest ==
    /\ job.at = "backup" /\ job.todo = {}
    /\ backup' = [backup EXCEPT !.manifest = TRUE]
    /\ owner' = [owner EXCEPT !.factory = IF @ = "maintenance" THEN None ELSE @]
    /\ job' = Idle
    /\ UNCHANGED <<journal, receipts, copy, troubles>>

-----------------------------------------------------------------------------
Required(runs) == {r \in Run : runs[r] \in InFlight}

\* restoreFactoryBackup: the files, then an event for each run in flight, then the record.
\* The destination is not locked; its marker of an incomplete restore nobody reads.
RestoreBegins ==
    /\ job = Idle /\ backup.manifest /\ copy.journal = None
    /\ copy' = [copy EXCEPT !.journal = backup.journal]
    /\ job' = [at |-> "restore", todo |-> Required(backup.journal)]
    /\ UNCHANGED <<journal, receipts, owner, backup, troubles>>

Require(r) ==
    /\ job.at = "restore" /\ r \in job.todo
    /\ copy' = [copy EXCEPT !.pending = @ \cup {r}, !.required = @ \cup {r}]
    /\ job' = [job EXCEPT !.todo = @ \ {r}]
    /\ UNCHANGED <<journal, receipts, owner, backup, troubles>>

RestoreEnds ==
    /\ job.at = "restore" /\ job.todo = {}
    /\ copy' = [copy EXCEPT !.done = TRUE]
    /\ job' = Idle
    /\ UNCHANGED <<journal, receipts, owner, backup, troubles>>

\* reconcileRestoredFactory: a decision for every pending run, one after the other.
ReconcileBegins ==
    /\ job = Idle /\ copy.pending # {} /\ owner.copy = None
    /\ owner' = [owner EXCEPT !.copy = "maintenance"]
    /\ job' = [at |-> "reconcile", todo |-> copy.pending]
    /\ UNCHANGED <<journal, receipts, backup, copy, troubles>>

Decide(r) ==
    /\ job.at = "reconcile" /\ r \in job.todo
    /\ copy' = [copy EXCEPT !.pending = @ \ {r}, !.decided = @ \cup {r}, !.journal[r] = "decided"]
    /\ job' = [job EXCEPT !.todo = @ \ {r}]
    /\ UNCHANGED <<journal, receipts, owner, backup, troubles>>

ReconcileEnds ==
    /\ job.at = "reconcile" /\ job.todo = {}
    /\ owner' = [owner EXCEPT !.copy = None]
    /\ job' = Idle
    /\ UNCHANGED <<journal, receipts, backup, copy, troubles>>

-----------------------------------------------------------------------------
\* The coordinator of the copy, perhaps before the restore has ended.
CopyClaims ==
    /\ copy.journal # None /\ owner.copy = None
    /\ owner' = [owner EXCEPT !.copy = "coordinator"]
    /\ copy' = [copy EXCEPT !.early = @ \/ ~copy.done]
    /\ UNCHANGED <<journal, receipts, backup, job, troubles>>

CopyReleases ==
    /\ owner.copy = "coordinator"
    /\ owner' = [owner EXCEPT !.copy = None]
    /\ UNCHANGED <<journal, receipts, backup, copy, job, troubles>>

\* Slip (UnblockedOnce): admission asks only about the run itself.
BlockedAlone(pending, r) == r \in pending
Blocked(pending, r) == pending # {}

CopyAdmits(r) ==
    /\ owner.copy = "coordinator" /\ copy.journal[r] = "none"
    /\ ~Blocked(copy.pending, r)
    /\ copy' = [copy EXCEPT !.journal[r] = "new"]
    /\ UNCHANGED <<journal, receipts, owner, backup, job, troubles>>

-----------------------------------------------------------------------------
\* A call fails at any step, or its process dies and leaves its lock.
Stops ==
    /\ job # Idle /\ troubles < MaxTroubles
    /\ troubles' = troubles + 1
    /\ job' = Idle
    /\ owner' \in {owner, [s \in DOMAIN owner |-> IF owner[s] = "maintenance" THEN None ELSE owner[s]]}
    /\ UNCHANGED <<journal, receipts, backup, copy>>

\* The lock of a process that died is recovered.
LockRecovered ==
    /\ job = Idle
    /\ \E s \in DOMAIN owner :
          owner[s] = "maintenance" /\ owner' = [owner EXCEPT ![s] = None]
    /\ UNCHANGED <<journal, receipts, backup, copy, job, troubles>>

Next ==
    \/ Claim \/ Release \/ BackupBegins \/ WriteManifest
    \/ RestoreBegins \/ RestoreEnds \/ ReconcileBegins \/ ReconcileEnds
    \/ CopyClaims \/ CopyReleases \/ Stops \/ LockRecovered
    \/ \E f \in File : CopyFile(f)
    \/ \E r \in Run : Works(r) \/ Require(r) \/ Decide(r) \/ CopyAdmits(r)

-----------------------------------------------------------------------------
\* A backup with a manifest is of one moment: whatever has a receipt in it is in its journal.
BackupConsistent ==
    backup.manifest => \A r \in backup.receipts : backup.journal[r] # "none"

\* In a factory whose restore ended, what was in flight in the backup waits for a decision
\* or has had one, whatever was cut off in between.
RestoredBlocked ==
    copy.done => \A r \in Run :
        backup.journal[r] \in InFlight => r \in copy.pending \cup copy.decided

\* And no new run begins there until every one of them is decided, unless a coordinator
\* was started before the restore had ended.
UnblockedOnce ==
    ~copy.early => \A q, r \in Run :
        copy.journal # None /\ copy.journal[q] = "new" /\ backup.journal[r] \in InFlight =>
            r \in copy.decided
=============================================================================
