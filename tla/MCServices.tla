------------------------------ MODULE MCServices ------------------------------
(* How work gets to the owner, and how the factory around it is kept, one   *)
(* part at a time; part says which of them is at work:                      *)
(*   control     the receipts of the Console's commands;                    *)
(*   preview     one preview;                                               *)
(*   managed, repairing, implementing, validating  a verification loop;     *)
(*   freezing, publishing, gates  what becomes of what a loop accepted;     *)
(*   sprinting, requesting, deciding  the store of a connected manager;     *)
(*   backup, update, adding, importing  the upkeep of a factory;            *)
(*   sharing, consulting  turns over the Cursor transport.                  *)
(* The parts share no variable but bounds; the others rest while one is at  *)
(* work.                                                                    *)
EXTENDS DeliveryControl

CONSTANTS
    c1, c2, l1, l2, v1, v2, a, b, d, e, Other,
    f1, f2, k1, k2, m1, m2,
    n1, n2, u1, u2, u3, q1, q2, s1, s2, o1, o2, F, A, B, C, x, y

VARIABLES
    part,
    up, entry, task, writes, saved, proc, built, inputs, witness,
    content, running, disk, mem, turn, launched, verified, reviewed,
    changed, back, collected, handoff, scan, bundle, mirror, publishing, call, branch, prs,
    state, publication, delivery, recording, record, recorded,
    calls, faults, edits, changes,
    events, torn, unseen, memory, opened, poisoned, owning, configured, operation, ready, shown, handed,
    runs, receipts, owner, backup, copy, job,
    candidate, manifest, releases, updating, step, approvals, activated,
    config, leaf, source, operations, tail, caller,
    slot, cursor, worker, conn, inbound

previews == <<up, entry, task, writes, saved, proc, built, inputs, witness>>
loop == <<content, running, disk, mem, turn, launched, verified, reviewed>>
publishings == <<changed, back, collected, handoff, scan, bundle, mirror, publishing, call,
                 branch, prs>>
gates == <<state, publication, delivery, recording, record, recorded>>
limits == <<calls, faults, edits, changes>>
store == <<events, unseen, memory, opened, poisoned, owning, configured, operation, ready, shown, handed>>
backups == <<runs, receipts, owner, backup, copy, job>>
updates == <<candidate, manifest, releases, updating, step, approvals, activated>>
provisionings == <<config, leaf, source, operations, tail, caller>>
connections == <<slot, cursor, worker, conn, inbound>>

-----------------------------------------------------------------------------
Previewing == INSTANCE Preview WITH Call <- {c1, c2}, Launch <- {l1, l2}, Revision <- {v1, v2}, MaxInputs <- 3

ASSUME Previewing!PreviewAssumption

-----------------------------------------------------------------------------
\* A manager's loop of two phases, and one that may repair once.
Managed == INSTANCE VerificationLoop WITH
    Profile <- "manager", Phases <- 2, RequiredPasses <- 1, MaxRepairRounds <- 0,
    RepairApproved <- FALSE, Subscription <- FALSE, MaxCalls <- 2, MaxTroubles <- 1, MaxWrites <- 1,
    lock <- running, pc <- turn, writes <- edits, troubles <- faults

Repairing == INSTANCE VerificationLoop WITH
    Profile <- "manager", Phases <- 1, RequiredPasses <- 1, MaxRepairRounds <- 1,
    RepairApproved <- FALSE, Subscription <- FALSE, MaxCalls <- 1, MaxTroubles <- 1, MaxWrites <- 1,
    lock <- running, pc <- turn, writes <- edits, troubles <- faults

\* An implementation by subscription that two reviews must pass.
Implementing == INSTANCE VerificationLoop WITH
    Profile <- "implementation", Phases <- 1, RequiredPasses <- 2, MaxRepairRounds <- 1,
    RepairApproved <- FALSE, Subscription <- TRUE, MaxCalls <- 1, MaxTroubles <- 1, MaxWrites <- 1,
    lock <- running, pc <- turn, writes <- edits, troubles <- faults

\* A validation whose repair is approved.
Validating == INSTANCE VerificationLoop WITH
    Profile <- "validation_only", Phases <- 1, RequiredPasses <- 1, MaxRepairRounds <- 1,
    RepairApproved <- TRUE, Subscription <- FALSE, MaxCalls <- 2, MaxTroubles <- 1, MaxWrites <- 1,
    lock <- running, pc <- turn, writes <- edits, troubles <- faults

ASSUME /\ Managed!LoopAssumption /\ Repairing!LoopAssumption
       /\ Implementing!LoopAssumption /\ Validating!LoopAssumption

-----------------------------------------------------------------------------
\* Two files that others change and put back while they are frozen.
Freezing == INSTANCE Publication WITH
    File <- {f1, f2}, Commits <- {}, Tree <- [k \in {} |-> {}],
    MaxCalls <- 2, MaxWrites <- 4, MaxTroubles <- 1, MaxChanges <- 0,
    lock <- publishing, pc <- call, writes <- edits, troubles <- faults

\* Two commits, of which one has the frozen content, published again and again.
Publishing == INSTANCE Publication WITH
    File <- {f1}, Commits <- {k1, k2}, Tree <- [k \in {k1, k2} |-> IF k = k1 THEN {} ELSE {f1}],
    MaxCalls <- 4, MaxWrites <- 0, MaxTroubles <- 2, MaxChanges <- 2,
    lock <- publishing, pc <- call, writes <- edits, troubles <- faults

ASSUME Freezing!PublicationAssumption /\ Publishing!PublicationAssumption

-----------------------------------------------------------------------------
Gates == INSTANCE LoopDelivery WITH
    Revision <- {m1, m2}, MaxTroubles <- 1, MaxChanges <- 1,
    lock <- recording, pc <- record, troubles <- faults

-----------------------------------------------------------------------------
Works(t, k, byCode) == [task |-> t, ticket |-> k, coding |-> byCode]

\* Two sessions at work on two tickets; the same after one left and the other took over
\* its ticket; and the first under another manager.
Two == [manager |-> q1, sessions |-> [s \in {s1, s2} |-> IF s = s1 THEN Works(q1, F, TRUE) ELSE Works(q2, A, TRUE)]]
TakenOver == [manager |-> q1, sessions |-> [s \in {s1, s2} |-> IF s = s1 THEN None ELSE Works(q2, F, FALSE)]]
Another == [Two EXCEPT !.manager = q2]

Sprinting == INSTANCE ManagerConnected WITH
    Request <- {n1, n2}, Session <- {s1, s2}, Configs <- {Two, TakenOver}, Option <- {}, Key <- {},
    Sprint <- TRUE, Binding <- {d}, CodingLimit <- 1, MaxTroubles <- 2, MaxChanges <- 1,
    saved <- events, mem <- memory, up <- opened, lock <- owning, config <- configured, op <- operation,
    seen <- shown, troubles <- faults

\* One request, over restarts and a change of manager.
Requesting == INSTANCE ManagerConnected WITH
    Request <- {n1}, Session <- {s1, s2}, Configs <- {Two, Another}, Option <- {}, Key <- {},
    Sprint <- FALSE, Binding <- {}, CodingLimit <- 1, MaxTroubles <- 3, MaxChanges <- 0,
    saved <- events, mem <- memory, up <- opened, lock <- owning, config <- configured, op <- operation,
    seen <- shown, troubles <- faults

Deciding == INSTANCE ManagerConnected WITH
    Request <- {}, Session <- {s1, s2}, Configs <- {Two}, Option <- {o1, o2}, Key <- {a, b},
    Sprint <- FALSE, Binding <- {}, CodingLimit <- 1, MaxTroubles <- 3, MaxChanges <- 0,
    saved <- events, mem <- memory, up <- opened, lock <- owning, config <- configured, op <- operation,
    seen <- shown, troubles <- faults

ASSUME Sprinting!StoreAssumption /\ Requesting!StoreAssumption /\ Deciding!StoreAssumption

-----------------------------------------------------------------------------
Backups == INSTANCE FactoryBackup WITH
    Run <- {n1, n2}, MaxTroubles <- 1, journal <- runs, troubles <- faults

\* An installed version, and two candidates of the next one.
Updates == INSTANCE RuntimeUpdate WITH
    Kit <- {u1, u2, u3}, Version <- [k \in {u1, u2, u3} |-> IF k = u1 THEN 1 ELSE 2],
    Process <- {q1, q2}, MaxTroubles <- 1, MaxChanges <- 3,
    lock <- updating, pc <- step, troubles <- faults

ASSUME Updates!UpdateAssumption

-----------------------------------------------------------------------------
\* A factory, two products to be added to it, and one to be added after the first.
Additions == {F, A, B, C}
Adding == INSTANCE Provisioning WITH
    Plan <- Additions, Product <- {x, y}, File <- {}, Process <- {q1, q2},
    Base <- [p \in Additions |-> CASE p = F -> None [] p \in {A, B} -> 1 [] p = C -> 2],
    Revision <- [p \in Additions |-> CASE p = F -> 1 [] p = A -> 2 [] p = B -> 3 [] p = C -> 4],
    Adds <- [p \in Additions |-> IF p = F THEN x ELSE y], Imports <- [p \in Additions |-> None],
    MaxCalls <- 3, MaxTroubles <- 0, MaxChanges <- 0,
    journal <- operations, pc <- caller, troubles <- faults

\* A factory whose product is imported while others write and processes end.
Importing == INSTANCE Provisioning WITH
    Plan <- {F}, Product <- {x}, File <- {f1, f2}, Process <- {q1},
    Base <- [p \in {F} |-> None], Revision <- [p \in {F} |-> 1],
    Adds <- [p \in {F} |-> x], Imports <- [p \in {F} |-> {f1}],
    MaxCalls <- 3, MaxTroubles <- 2, MaxChanges <- 1,
    journal <- operations, pc <- caller, troubles <- faults

ASSUME Adding!ProvisioningAssumption /\ Importing!ProvisioningAssumption

-----------------------------------------------------------------------------
\* Two turns over one transport, and one whose provider asks the owner.
Sharing == INSTANCE CursorTurn WITH
    Run <- {1, 2}, MaxSent <- 0, MaxTroubles <- 0, turn <- cursor, troubles <- faults
Consulting == INSTANCE CursorTurn WITH
    Run <- {1}, MaxSent <- 2, MaxTroubles <- 1, turn <- cursor, troubles <- faults

ASSUME Sharing!TurnAssumption /\ Consulting!TurnAssumption

-----------------------------------------------------------------------------
Loops == {"managed", "repairing", "implementing", "validating"}
Publications == {"freezing", "publishing"}
Stores == {"sprinting", "requesting", "deciding"}
Upkeep == {"backup", "update", "adding", "importing"}
Turns == {"sharing", "consulting"}

ServicesInit ==
    /\ part \in {"control", "preview", "gates"} \cup Loops \cup Publications \cup Stores \cup Upkeep \cup Turns
    /\ Init /\ Previewing!Init /\ Managed!Init /\ Gates!Init
    /\ IF part = "freezing" THEN Freezing!Init ELSE Publishing!Init
    /\ IF part = "sprinting" THEN Sprinting!Init ELSE IF part = "deciding" THEN Deciding!Init ELSE Requesting!Init
    /\ Backups!Init /\ Updates!Init /\ Sharing!Init
    /\ IF part = "adding" THEN Adding!Init ELSE Importing!Init
    /\ part # "preview" => ~saved.item.requested
    /\ part \notin Publications => changed = {}
    /\ part # "gates" => state = "running"
    /\ part # "update" => candidate = u1

\* A command or a preview of the Console.
ConsoleStep ==
    /\ \/ part = "control" /\ Next /\ UNCHANGED previews
       \/ part = "preview" /\ Previewing!Next /\ UNCHANGED vars
    /\ UNCHANGED <<loop, publishings, gates, limits>>

\* What is worked out in a loop, and what becomes of it.
DeliveryStep ==
    /\ \/ /\ \/ part = "managed" /\ Managed!Next
             \/ part = "repairing" /\ Repairing!Next
             \/ part = "implementing" /\ Implementing!Next
             \/ part = "validating" /\ Validating!Next
          /\ UNCHANGED <<publishings, gates, changes>>
       \/ /\ \/ part = "freezing" /\ Freezing!Next
             \/ part = "publishing" /\ Publishing!Next
          /\ UNCHANGED <<loop, gates>>
       \/ part = "gates" /\ Gates!Next /\ UNCHANGED <<loop, publishings, calls, edits>>
    /\ UNCHANGED <<vars, previews>>

UpkeepStep ==
    /\ \/ /\ \/ part = "sprinting" /\ Sprinting!Next
             \/ part = "requesting" /\ Requesting!Next
             \/ part = "deciding" /\ Deciding!Next
          /\ UNCHANGED <<backups, updates, provisionings, calls>>
       \/ part = "backup" /\ Backups!Next /\ UNCHANGED <<store, torn, updates, provisionings, calls, changes>>
       \/ part = "update" /\ Updates!Next /\ UNCHANGED <<store, backups, provisionings, calls>>
       \/ /\ \/ part = "adding" /\ Adding!Next
             \/ part = "importing" /\ Importing!Next
          /\ UNCHANGED <<store, torn, backups, updates>>
    /\ UNCHANGED <<edits, connections>>

TurnStep ==
    /\ \/ part = "sharing" /\ Sharing!Next
       \/ part = "consulting" /\ Consulting!Next
    /\ UNCHANGED <<edits, calls, changes, store, torn, backups, updates, provisionings>>

ServicesNext ==
    /\ UNCHANGED part
    /\ \/ /\ ConsoleStep \/ DeliveryStep
          /\ UNCHANGED <<store, torn, backups, updates, provisionings, connections>>
       \/ /\ UpkeepStep \/ TurnStep
          /\ UNCHANGED <<vars, previews, loop, publishings, gates>>

ServicesSpec ==
    ServicesInit
    /\ [][ServicesNext]_<<part, vars, previews, loop, publishings, gates, limits, store, torn, backups, updates,
                       provisionings, connections>>

-----------------------------------------------------------------------------
(***************************************************************************)
(* Preview: the final review is ready only on an answer of the registered  *)
(* revision, and a preview is stopped only when its process group is gone. *)
(***************************************************************************)
PreviewSafe ==
    /\ [](Previewing!TypeOK /\ Previewing!ReviewRestsOnAnswer)
    /\ Previewing!StoppedMeansGone

(***************************************************************************)
(* A loop and what becomes of it.  What is accepted was reviewed and       *)
(* verified exactly as it is; a turn is not repeated before an earlier one *)
(* left a receipt, nor for a phase that is done.  A bundle holds what was  *)
(* accepted, unless a file was changed and put back twice; one pull        *)
(* request is opened for it, over retries and crashes, and once a receipt  *)
(* names it, a receipt does for good; what a receipt proves is the draft   *)
(* of the frozen content.  Gates are shown as passed in their order, and   *)
(* staging only of what was merged, deployed and verified.                 *)
(***************************************************************************)
AcceptedAsChecked ==
    /\ part \in {"managed", "repairing"} => Managed!AcceptedAsChecked
    /\ part = "implementing" => Implementing!AcceptedAsChecked
    /\ part = "validating" => Validating!AcceptedAsChecked

PublishedAsFrozen ==
    /\ part = "freezing" => Freezing!FrozenAsAccepted
    /\ part = "publishing" => Publishing!OneRequest /\ Publishing!ProvenExactly
    /\ part = "gates" => Gates!InOrder /\ Gates!StagedAsMerged

DeliverySafe ==
    /\ [](AcceptedAsChecked /\ PublishedAsFrozen)
    /\ Managed!NoBlindRelaunch /\ Managed!DoneStaysDone
    /\ Publishing!RequestKept

(***************************************************************************)
(* The connected manager.  Its events replay, and an open store knows what *)
(* they say; in a sprint a session and a ticket have one piece of work out *)
(* at a time, and no more than the limit is coding; a request is handed    *)
(* over once; what the owner answered stands, and who acts on a decision   *)
(* saw the answer it then has.                                             *)
(***************************************************************************)
StoreSafe ==
    /\ [](/\ part \in Stores => Deciding!Replays
          /\ part = "sprinting" => Sprinting!OneOutstanding /\ Sprinting!CodingWithinLimit
          /\ part = "requesting" => Requesting!HandedOnce)
    /\ Deciding!ResponseKept /\ Deciding!ActedOnAsSeen


(***************************************************************************)
(* Turns over the Cursor transport.  Whoever finds the slot free finds     *)
(* nothing of an earlier turn at work; a decided outcome means that the    *)
(* worker's group is gone; a worker is signalled only behind the           *)
(* revocation of its run on record; a provider's question has one reply,   *)
(* and approval is one the owner gave on record.                           *)
(***************************************************************************)
TurnsSafe == Sharing!TurnsSafe
=============================================================================
