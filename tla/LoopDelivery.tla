---------------------------- MODULE LoopDelivery ----------------------------
(***************************************************************************)
(* src/loop/delivery.ts: what the owner records of the delivery of a loop's *)
(* work, and the gates that are shown of it.  One call at a time holds     *)
(* delivery.lock; the state of the loop and the receipt of its publication *)
(* belong to others and change under it.                                   *)
(***************************************************************************)
EXTENDS Naturals, Sequences, FiniteSets

CONSTANTS Revision, None, MaxTroubles, MaxChanges

VARIABLES
    state,        \* of the loop: "running", "succeeded" (with its acceptance), "failed"
    publication,  \* of the one accepted commit: None or the status of the receipt
    delivery,     \* delivery.json: gate -> its entry
    lock, pc,
    recorded,     \* history: the revisions ever recorded as merged, deployed, verified
    troubles, changes

vars == <<state, publication, delivery, lock, pc, recorded, troubles, changes>>

Gates == <<"local_acceptance", "publication", "review", "merge", "deployment", "staging_verification">>
Recorded == {"review", "merge", "deployment", "staging_verification"}

NoEntry == [status |-> "unobserved", revision |-> None]
Idle == [at |-> "idle", document |-> None, gate |-> None]

Init ==
    /\ state \in {"running", "succeeded"} /\ publication = None
    /\ delivery = None
    /\ lock = FALSE /\ pc = Idle
    /\ recorded = {}
    /\ troubles = 0 /\ changes = 0

-----------------------------------------------------------------------------
\* publishedBinding: a receipt that proves the publication of what was accepted.
Bound(of, receipt) == of = "succeeded" /\ receipt \in {"published", "reconciled"}

Acceptance(of) ==
    CASE of = "succeeded" -> "passed" [] of = "failed" -> "failed" [] OTHER -> "pending"

PublicationGate(of, receipt) ==
    CASE Bound(of, receipt) -> "passed"
      [] ~Bound(of, receipt) /\ of = "succeeded" ->
            IF receipt \in {"blocked", "failed", "uncertain"} THEN "failed" ELSE "pending"
      [] OTHER -> "unobserved"

\* A passed delivery gate names the revision that was merged.
MatchesRevision(document, gate) ==
    /\ document["merge"].revision # None
    /\ document[gate].revision = document["merge"].revision

\* Slip (StagedAsMerged): an entry counts whatever was merged.
EntryCountsAnyRevision(document, gate, before) ==
    document[gate].status = "passed" /\ gate # "review" => before

\* Slip (InOrder): an entry counts whatever precedes it.
EntryCountsAlone(document, gate, before) ==
    document[gate].status = "passed" /\ gate # "review" => MatchesRevision(document, gate)

\* before: all the gates before this one are shown as passed.
EntryCounts(document, gate, before) ==
    document[gate].status = "passed" /\ gate # "review" =>
        before /\ MatchesRevision(document, gate)

\* projectLoopDelivery: the status of each gate.
Shown(of, receipt, document) ==
    LET shown[i \in 1 .. 6] ==
        CASE i = 1 -> Acceptance(of)
          [] i = 2 -> PublicationGate(of, receipt)
          [] i > 2 /\ document # None /\ Bound(of, receipt) ->
                IF EntryCounts(document, Gates[i], \A j \in 1 .. i - 1 : shown[j] = "passed")
                THEN document[Gates[i]].status ELSE "unobserved"
          [] OTHER -> "unobserved"
    IN shown

\* One entry per gate: a new one replaces it.
Recording(document, gate, entry) ==
    [g \in Recorded |-> IF g = gate THEN entry ELSE IF document = None THEN NoEntry ELSE document[g]]

Index(gate) == CHOOSE i \in 1 .. 6 : Gates[i] = gate

-----------------------------------------------------------------------------
\* recordLoopDeliveryEvidence reads all it needs, refuses a "passed" that would not
\* be shown, and then writes.
Record(gate, entry) ==
    LET document == Recording(delivery, gate, entry) IN
    /\ ~lock
    /\ entry.status = "passed" /\ gate # "review" => entry.revision # None
    /\ Bound(state, publication)
    /\ entry.status = "passed" => Shown(state, publication, document)[Index(gate)] = "passed"
    /\ lock' = TRUE
    /\ pc' = [at |-> "write", document |-> document, gate |-> gate]
    /\ UNCHANGED <<state, publication, delivery, recorded, troubles, changes>>

Rename ==
    /\ pc.at = "write"
    /\ delivery' = pc.document
    /\ recorded' = IF pc.document[pc.gate].revision # None
                   THEN recorded \cup {<<pc.gate, pc.document[pc.gate].revision>>} ELSE recorded
    /\ lock' = FALSE
    /\ pc' = Idle
    /\ UNCHANGED <<state, publication, troubles, changes>>

\* A refused write removes the lock; a killed process leaves it, for somebody's hand.
Stops ==
    /\ pc.at = "write"
    /\ troubles < MaxTroubles
    /\ troubles' = troubles + 1
    /\ pc' = Idle
    /\ lock' \in {FALSE, TRUE}
    /\ UNCHANGED <<state, publication, delivery, recorded, changes>>

LockRemoved ==
    /\ lock /\ pc.at = "idle"
    /\ lock' = FALSE
    /\ UNCHANGED <<state, publication, delivery, pc, recorded, troubles, changes>>

\* The loop ends, and a publication of its work is tried, retried and observed.
OthersChange ==
    /\ changes < MaxChanges
    /\ changes' = changes + 1
    /\ \/ state = "running" /\ state' \in {"succeeded", "failed"} /\ UNCHANGED publication
       \/ /\ state = "succeeded" /\ UNCHANGED state
          /\ publication' \in {"intended", "published", "reconciled", "blocked", "failed", "uncertain"}
    /\ UNCHANGED <<delivery, lock, pc, recorded, troubles>>

\* A gate that is recorded as pending is as one that failed.
Entries ==
    {[status |-> "failed", revision |-> None]} \cup
    [status : {"passed"}, revision : Revision \cup {None}]

Next ==
    \/ \E gate \in Recorded, entry \in Entries : Record(gate, entry)
    \/ Rename \/ Stops \/ LockRemoved \/ OthersChange

Spec == Init /\ [][Next]_vars

-----------------------------------------------------------------------------
Now == Shown(state, publication, delivery)

\* Whatever was recorded, in which order, and corrected since: merge, deployment and
\* staging are shown as passed only behind passed gates.
InOrder == \A i \in 4 .. 6 : Now[i] = "passed" => \A j \in 1 .. i - 1 : Now[j] = "passed"

\* Staging is shown as passed only of a revision that the owner recorded as merged,
\* as deployed and as verified, and that is the one now on record as merged.
StagedAsMerged ==
    Now[6] = "passed" =>
        \A gate \in {"merge", "deployment", "staging_verification"} :
            <<gate, delivery["merge"].revision>> \in recorded

=============================================================================
