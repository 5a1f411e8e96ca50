---------------------------- MODULE RuntimeUpdate ----------------------------
(***************************************************************************)
(* src/maintenance/update.ts: an installation of releases, of which one is *)
(* active.  The owner approves the preview of a candidate; applying it     *)
(* takes update.lock, previews again, builds the release in a directory    *)
(* named by its content, and moves the manifest.  The candidate directory  *)
(* belongs to others.                                                      *)
(***************************************************************************)
EXTENDS Naturals, Sequences, SequencesExt

CONSTANTS Kit, Version, Process, None, MaxTroubles, MaxChanges

UpdateAssumption ==
    Version \in [Kit -> Nat] /\ MaxTroubles \in Nat /\ MaxChanges \in Nat

VARIABLES
    candidate,  \* the content of the candidate directory
    manifest,   \* of the installation: its releases, the last one active; <<>> before it exists
    torn,       \* the first manifest was cut off while it was written
    releases,   \* the directory of each release: "absent", "partial", "complete"
    lock, pc,
    approvals,  \* the previews the owner approved
    activated,  \* history: what was activated on which approval
    troubles, changes

vars == <<candidate, manifest, torn, releases, lock, pc, approvals, activated, troubles, changes>>

Idle == [at |-> "idle", approval |-> None, kit |-> None, base |-> <<>>, moved |-> FALSE]

Init ==
    /\ candidate \in Kit
    /\ manifest = <<>> /\ torn = FALSE
    /\ releases = [k \in Kit |-> "absent"]
    /\ lock = None /\ pc = [p \in Process |-> Idle]
    /\ approvals = {} /\ activated = {}
    /\ troubles = 0 /\ changes = 0

Moves(p, next) == pc' = [pc EXCEPT ![p] = next]

\* The lock goes with its owner; a lock that is no longer its own is left.
Leaves(p) == Moves(p, Idle) /\ lock' = IF lock = p THEN None ELSE lock

-----------------------------------------------------------------------------
\* previewRuntimeUpdate: from the active release to the candidate, never back.
Preview(of, kit) == [from |-> Last(of), to |-> kit]

Previewed(of, kit) ==
    of # <<>> /\ (kit = Last(of) \/ Version[kit] > Version[Last(of)])

OwnerApproves ==
    /\ ~torn /\ Previewed(manifest, candidate)
    /\ approvals' = approvals \cup {Preview(manifest, candidate)}
    /\ UNCHANGED <<candidate, manifest, torn, releases, lock, pc, activated, troubles, changes>>

\* Slip (HistoryKept): another update's lock is taken over.
LockFreeAlways == TRUE
LockFree == lock = None

\* acquireUpdateLock, with an approval or, to initialize, with the kit read before it.
Begin(p) ==
    /\ pc[p] = Idle /\ LockFree
    /\ lock' = p
    /\ \/ \E a \in approvals : Moves(p, [Idle EXCEPT !.at = "preview", !.approval = a])
       \/ Moves(p, [Idle EXCEPT !.at = "reserve", !.kit = candidate])
    /\ UNCHANGED <<candidate, manifest, torn, releases, approvals, activated, troubles, changes>>

\* Slip (ActivatedAsApproved): the approval is taken as it is.
ApprovalHoldsAnyhow(approval) == TRUE
ApprovalHolds(approval) == approval = Preview(manifest, candidate)

\* The preview under the lock.
Check(p) ==
    /\ pc[p].at = "preview"
    /\ IF ~torn /\ Previewed(manifest, candidate) /\ ApprovalHolds(pc[p].approval)
       THEN /\ Moves(p, [pc[p] EXCEPT !.at = "read", !.kit = candidate])
            /\ UNCHANGED lock
       ELSE Leaves(p)
    /\ UNCHANGED <<candidate, manifest, torn, releases, approvals, activated, troubles, changes>>

\* The manifest and the candidate are read once more; nothing is compared.
Read(p) ==
    /\ pc[p].at = "read"
    /\ IF pc[p].kit = Last(manifest)
       THEN Leaves(p)
       ELSE /\ Moves(p, [pc[p] EXCEPT !.at = "reserve", !.kit = candidate, !.base = manifest,
                                      !.moved = candidate # pc[p].kit])
            /\ UNCHANGED lock
    /\ UNCHANGED <<candidate, manifest, torn, releases, approvals, activated, troubles, changes>>

\* The directory of the release is made, unless there is one.  A first release
\* is made only where there is no manifest.
Reserve(p) ==
    /\ pc[p].at = "reserve"
    /\ IF /\ releases[pc[p].kit] = "absent"
          /\ pc[p].approval = None => manifest = <<>> /\ ~torn
       THEN /\ Moves(p, [pc[p] EXCEPT !.at = "copy"])
            /\ releases' = [releases EXCEPT ![pc[p].kit] = "partial"]
            /\ UNCHANGED lock
       ELSE Leaves(p) /\ UNCHANGED releases
    /\ UNCHANGED <<candidate, manifest, torn, approvals, activated, troubles, changes>>

\* Slip (ActiveComplete): the manifest moves as soon as the snapshot is made.
AfterCopyActivate == "activate"
AfterCopy == "install"

\* copyCandidate: what was copied must be what was read.
Copy(p) ==
    /\ pc[p].at = "copy"
    /\ IF candidate = pc[p].kit
       THEN Moves(p, [pc[p] EXCEPT !.at = AfterCopy]) /\ UNCHANGED lock
       ELSE Leaves(p)
    /\ UNCHANGED <<candidate, manifest, torn, releases, approvals, activated, troubles, changes>>

\* Packed, installed offline, its native dependency built, and run.
Install(p) ==
    /\ pc[p].at = "install"
    /\ Moves(p, [pc[p] EXCEPT !.at = "activate"])
    /\ releases' = [releases EXCEPT ![pc[p].kit] = "complete"]
    /\ UNCHANGED <<candidate, manifest, torn, lock, approvals, activated, troubles, changes>>

Activate(p) ==
    /\ pc[p].at = "activate"
    /\ manifest' = Append(pc[p].base, pc[p].kit)
    /\ activated' = IF pc[p].approval = None THEN activated
                    ELSE activated \cup {[approval |-> pc[p].approval, from |-> Last(pc[p].base),
                                          kit |-> pc[p].kit, moved |-> pc[p].moved]}
    /\ Leaves(p)
    /\ UNCHANGED <<candidate, torn, releases, approvals, troubles, changes>>

\* A step that fails leaves what it made and the lock goes; a crash leaves the lock,
\* and a first manifest that was being written is cut off.
Fail(p) ==
    /\ pc[p] # Idle /\ troubles < MaxTroubles
    /\ troubles' = troubles + 1
    /\ \/ Leaves(p) /\ UNCHANGED torn
       \/ /\ Moves(p, Idle) /\ UNCHANGED lock
          /\ torn' \in {torn, torn \/ (pc[p].at = "activate" /\ pc[p].approval = None)}
    /\ UNCHANGED <<candidate, manifest, releases, approvals, activated, changes>>

\* The owner, after a process that died: its lock, its unreferenced release, its manifest.
CleanedUp ==
    /\ \A p \in Process : pc[p] = Idle
    /\ \/ lock # None /\ lock' = None /\ UNCHANGED <<releases, torn>>
       \/ torn /\ torn' = FALSE /\ UNCHANGED <<lock, releases>>
       \/ \E k \in Kit \ Range(manifest) :
             /\ releases[k] # "absent"
             /\ releases' = [releases EXCEPT ![k] = "absent"] /\ UNCHANGED <<lock, torn>>
    /\ UNCHANGED <<candidate, manifest, pc, approvals, activated, troubles, changes>>

CandidateChanges ==
    /\ changes < MaxChanges /\ changes' = changes + 1
    /\ candidate' \in Kit \ {candidate}
    /\ UNCHANGED <<manifest, torn, releases, lock, pc, approvals, activated, troubles>>

Next ==
    \/ OwnerApproves \/ CleanedUp \/ CandidateChanges
    \/ \E p \in Process : \/ Begin(p) \/ Check(p) \/ Read(p) \/ Reserve(p) \/ Copy(p)
                          \/ Install(p) \/ Activate(p) \/ Fail(p)

-----------------------------------------------------------------------------
\* Every release the manifest names was built and run, over failures and crashes.
ActiveComplete == \A k \in Range(manifest) : releases[k] = "complete"

\* What is activated is what the owner approved, and newer than what it replaces, unless the
\* candidate changed between the two times it is read under the lock.
ActivatedAsApproved ==
    \A a \in activated :
        a.moved \/ (a.approval = [from |-> a.from, to |-> a.kit] /\ Version[a.kit] > Version[a.from])

\* The history of the installation only grows: no update overwrites another.
HistoryKept == [][manifest' # manifest => IsStrictPrefix(manifest, manifest')]_vars
=============================================================================
