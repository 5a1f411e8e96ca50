---------------------------- MODULE Delegation ----------------------------
(***************************************************************************)
(* DurableDelegationService of src/runtime/delegation.ts: one parent run   *)
(* delegates parts of its work to child runs.  A child is admitted in      *)
(* three records (the coordinator's intent, the ownership envelope, the    *)
(* first message), with waits between them, and only the journal survives  *)
(* a crash.  Operations of the service run one after the other; the        *)
(* workers, the parent's revocation and crashes fall between their steps.  *)
(*                                                                         *)
(* The digest of a request is the request; a child is named for the        *)
(* delegation it carries out; an artifact is named for the child that made *)
(* it.  Of the text checks on requests and results only their verdict is   *)
(* kept.  The coordinator, the allocator and the authorization of shared   *)
(* ownership are answers the service gets.                                 *)
(***************************************************************************)
EXTENDS Naturals, FiniteSets

CONSTANTS
    Child,        \* the delegations of the parent
    Request,      \* the requests a provider turn may make: see RequestShape
    Workspace,    \* the places the allocator can hand out
    None,
    MaxCalls,     \* operations called
    MaxTroubles   \* crashes and failed records

RequestShape == [id : Child, paths : SUBSET STRING \ {{}}, after : SUBSET Child,
                 needs : SUBSET Child, text : STRING]

\* What the definitions below assume of the constants: what parseRequest lets pass.
DelegationAssumption ==
    /\ \A q \in Request : /\ q.id \in Child
                          /\ q.paths # {}
                          /\ q.after \cup q.needs \subseteq Child
    /\ None \notin Request /\ \A artifacts \in SUBSET Child : artifacts # None
    /\ MaxCalls \in Nat /\ MaxTroubles \in Nat

VARIABLES
    parent,      \* the parent run: revoked, over
    child,       \* its children as the ledger tells: intent, state, revoked, worker, hold
    alive,       \* the children whose worker process runs
    envelope,    \* the ownership envelope on record (delegation.child-admitted)
    initial,     \* the first message queued for the child
    submitted,   \* the result on record: the artifacts handed off with it
    inbox,       \* the results queued for the parent: <<child, artifacts>>
    op,          \* the operation in progress, and its locals
    reconciled,  \* a reconciliation of the children came to its end
    calls, troubles

vars == <<parent, child, alive, envelope, initial, submitted, inbox, op,
          reconciled, calls, troubles>>

Unadmitted == [intent |-> None, place |-> None, state |-> "none", revoked |-> FALSE,
               worker |-> FALSE, hold |-> "none"]

Ended == {"ended"}

NoOp == [at |-> "idle", request |-> None, place |-> None, left |-> {}, seen |-> None]

Init ==
    /\ parent = [revoked |-> FALSE, over |-> FALSE]
    /\ child = [c \in Child |-> Unadmitted]
    /\ alive = {}
    /\ envelope = [c \in Child |-> None]
    /\ initial = [c \in Child |-> None]
    /\ submitted = [c \in Child |-> None]
    /\ inbox = {}
    /\ op = NoOp
    /\ reconciled = FALSE
    /\ calls = 0
    /\ troubles = 0

-----------------------------------------------------------------------------
\* What the service reads from the journal.

\* Slip (CancelledTogether): a revoked parent delegates on.
DelegatesRevoked == ~parent.over

Delegates == ~parent.revoked /\ ~parent.over

\* children(): the admitted runs whose envelope or first message is on record.
Attributed == {c \in Child : /\ child[c].state # "none"
                             /\ envelope[c] # None \/ initial[c] # None}

Live(c) == child[c].state \notin Ended

\* Slip (ChildrenApart): a child whose envelope never landed is overlooked.
OrphansOverlooked == {}

Orphans == {c \in Child \ Attributed : child[c].state # "none" /\ Live(c)}

EnvelopeOf(c) == IF envelope[c] # None THEN envelope[c] ELSE initial[c]

\* An artifact of a sibling: submitted with its result, and forwarded to this parent.
ArtifactAllowed(c) ==
    /\ submitted[c] # None
    /\ c \in submitted[c]
    /\ <<c, submitted[c]>> \in inbox

Overlap(q, c) == q.paths \cap EnvelopeOf(c).paths # {}

\* Slip (OneAtWork): an admitted predecessor is enough.
CanLaunchBeside(c) == EnvelopeOf(c).after \subseteq Attributed

CanLaunch(c) == \A p \in EnvelopeOf(c).after : p \in Attributed /\ ~Live(p)

-----------------------------------------------------------------------------
\* The service's operations: one at a time (serial).

Begin(next) ==
    /\ op.at = "idle"
    /\ calls < MaxCalls
    /\ calls' = calls + 1
    /\ op' = next

Same == UNCHANGED <<parent, child, alive, envelope, initial, submitted, inbox,
                    reconciled, troubles>>

At(step) == op.at = step /\ UNCHANGED <<parent, alive, calls, troubles>>

\* rejected(): a note for the owner in the parent's journal, which nothing reads back.
Reject ==
    /\ op' = NoOp
    /\ UNCHANGED <<child, envelope, initial, submitted, inbox, reconciled>>

\* May the request share with c what it would otherwise own alone?
Named(q, c) == c \in q.after

AdmitCalled(q) ==
    /\ Begin([NoOp EXCEPT !.at = "admit", !.request = q])
    /\ Delegates
    /\ Same

\* A prior admission of the same delegation is the same request or a conflict.
Matches(c, q) == (IF c \in Attributed THEN EnvelopeOf(c) ELSE child[c].intent) = q

\* A child that was admitted before: what is missing of its records is made up.
AdmitKnown ==
    LET q == op.request IN
    /\ At("admit")
    /\ q.needs \subseteq {c \in Child : ArtifactAllowed(c)}
    /\ child[q.id].state # "none"
    /\ Matches(q.id, q)
    /\ op' = [op EXCEPT !.at = IF q.id \in Attributed THEN "greet" ELSE "attribute"]
    /\ UNCHANGED <<child, envelope, initial, submitted, inbox, reconciled>>

\* Every live sibling whose paths overlap is named, and sharing with it authorized.
OwnershipFree(q) == \A c \in Attributed : Live(c) /\ Overlap(q, c) => Named(q, c)

\* The checks before the allocator is asked; the siblings are read here, once.
AdmitNew ==
    LET q == op.request IN
    /\ At("admit")
    /\ q.needs \subseteq {c \in Child : ArtifactAllowed(c)}
    /\ child[q.id].state = "none"
    /\ Orphans = {}
    /\ q.after \subseteq Attributed
    /\ OwnershipFree(q)
    /\ op' = [op EXCEPT !.at = "allocate", !.seen = {c \in Attributed : Live(c)}]
    /\ UNCHANGED <<child, envelope, initial, submitted, inbox, reconciled>>

\* An artifact of nobody, a conflict with a prior request, an orphaned admission, an
\* unknown predecessor, or ownership that is taken or not authorized to be shared.
AdmitRejected ==
    LET q == op.request
        known == child[q.id].state # "none" IN
    /\ At("admit")
    /\ \/ ~(q.needs \subseteq {c \in Child : ArtifactAllowed(c)})
       \/ known /\ ~Matches(q.id, q)
       \/ ~known /\ \/ Orphans # {}
                    \/ ~(q.after \subseteq Attributed)
                    \/ \E c \in Attributed : Live(c) /\ Overlap(q, c)
    /\ Reject

\* validateAllocation, and no live sibling seen before in that place, or one named.
PlaceFree(w) ==
    \A c \in op.seen : child[c].place = w => Named(op.request, c)

Allocated(w) ==
    /\ At("allocate")
    /\ \/ /\ PlaceFree(w)
          /\ op' = [op EXCEPT !.at = "intend", !.place = w]
          /\ UNCHANGED <<child, envelope, initial, submitted, inbox, reconciled>>
       \/ (\E c \in op.seen : child[c].place = w) /\ Reject

\* DurableCoordinator.admit: the run, with the tokens it holds.
CoordinatorAdmits ==
    /\ At("intend")
    /\ child' = [child EXCEPT ![op.request.id] =
                    [Unadmitted EXCEPT !.intent = op.request, !.place = op.place,
                                       !.state = "admitted", !.hold = "held"]]
    /\ op' = [op EXCEPT !.at = "attribute"]
    /\ UNCHANGED <<envelope, initial, submitted, inbox, reconciled>>

CoordinatorRefuses == At("intend") /\ Reject

\* recordAdmission: the envelope that says whose child this is and what it owns.
RecordAdmission ==
    /\ At("attribute")
    /\ envelope' = [envelope EXCEPT ![op.request.id] = IF @ = None THEN op.request ELSE @]
    /\ op' = [op EXCEPT !.at = "greet"]
    /\ UNCHANGED <<child, initial, submitted, inbox, reconciled>>

\* queueOnce: the first message, under an id that is derived from the child.
QueueInitial ==
    /\ At("greet")
    /\ initial' = [initial EXCEPT ![op.request.id] = IF @ = None THEN op.request ELSE @]
    /\ op' = NoOp
    /\ UNCHANGED <<child, envelope, submitted, inbox, reconciled>>

-----------------------------------------------------------------------------
\* handoff, recoverHandoffs

\* Slip (OneStory): the last handoff counts.
HandoffAgain(c, artifacts) ==
    /\ Begin([NoOp EXCEPT !.at = "forward", !.left = {c}])
    /\ Delegates /\ c \in Attributed /\ ~Live(c)
    /\ submitted' = [submitted EXCEPT ![c] = artifacts]
    /\ UNCHANGED <<parent, child, alive, envelope, initial, inbox, reconciled,
                   troubles>>

\* The result is on record before the parent hears of it; another handoff of the
\* same child must be the same.
HandoffCalled(c, artifacts) ==
    /\ Begin([NoOp EXCEPT !.at = "forward", !.left = {c}])
    /\ Delegates
    /\ c \in Attributed
    /\ ~Live(c)
    /\ submitted[c] \in {None, artifacts}
    /\ submitted' = [submitted EXCEPT ![c] = artifacts]
    /\ UNCHANGED <<parent, child, alive, envelope, initial, inbox, reconciled,
                   troubles>>

RecoverHandoffsCalled ==
    /\ Begin([NoOp EXCEPT !.at = "forward", !.left = {c \in Attributed : submitted[c] # None}])
    /\ Delegates
    /\ \E c \in Attributed : submitted[c] # None
    /\ Same

\* forwardSubmittedResult: once per content, and never for a parent that may no
\* longer delegate.
ForwardSubmittedResult(c) ==
    /\ At("forward")
    /\ c \in op.left
    /\ Delegates
    /\ inbox' = inbox \cup {<<c, submitted[c]>>}
    /\ op' = IF op.left = {c} THEN NoOp ELSE [op EXCEPT !.left = @ \ {c}]
    /\ UNCHANGED <<child, envelope, initial, submitted, reconciled>>

ForwardRefused ==
    /\ At("forward")
    /\ ~Delegates
    /\ op' = NoOp
    /\ UNCHANGED <<child, envelope, initial, submitted, inbox, reconciled>>

-----------------------------------------------------------------------------
\* reconcileCancelledParent: the children are read once, and worked through.

ReconcileCalled ==
    /\ Begin([NoOp EXCEPT !.at = "next", !.left = {c \in Attributed : Live(c)}, !.seen = child])
    /\ parent.revoked
    /\ Same

\* authority.revoked, then by what was read: the worker is left to the terminate
\* hook, or the child is taken for one that never started.
RevokeChild(c) ==
    /\ At("next")
    /\ c \in op.left
    /\ child' = IF op.seen[c].revoked THEN child
                ELSE [child EXCEPT ![c].revoked = TRUE, ![c].state = "cancelling"]
    /\ op' = [op EXCEPT !.left = (@ \ {c}),
                        !.request = [id |-> c],
                        !.at = IF op.seen[c].worker THEN "next" ELSE "cancel"]
    /\ UNCHANGED <<envelope, initial, submitted, inbox, reconciled>>

\* provider.final "cancelled before child worker launch"
CancelUnstarted ==
    /\ At("cancel")
    /\ child' = [child EXCEPT ![op.request.id].state = "ended"]
    /\ op' = [op EXCEPT !.at = "release"]
    /\ UNCHANGED <<envelope, initial, submitted, inbox, reconciled>>

\* reservation.released
ReleaseUnstarted ==
    /\ At("release")
    /\ child' = [child EXCEPT ![op.request.id].hold = "released"]
    /\ op' = [op EXCEPT !.at = "next"]
    /\ UNCHANGED <<envelope, initial, submitted, inbox, reconciled>>

ReconcileDone ==
    /\ At("next")
    /\ op.left = {}
    /\ op' = NoOp
    /\ reconciled' = TRUE
    /\ UNCHANGED <<child, envelope, initial, submitted, inbox>>

-----------------------------------------------------------------------------
\* What the rest of the program does meanwhile.

Beside == UNCHANGED <<parent, envelope, initial, submitted, inbox, op, reconciled,
                      calls, troubles>>

\* The host delivers a child when canLaunch lets it and its authority stands.
Launch(c) ==
    /\ c \in Attributed
    /\ child[c].state = "admitted"
    /\ CanLaunch(c)
    /\ child' = [child EXCEPT ![c].state = "launching"]
    /\ alive' = alive \cup {c}
    /\ Beside

Identify(c) ==
    /\ c \in alive
    /\ ~child[c].worker
    /\ child' = [child EXCEPT ![c].worker = TRUE, ![c].state = "running"]
    /\ UNCHANGED alive
    /\ Beside

Finish(c) ==
    /\ c \in alive
    /\ child[c].worker
    /\ alive' = alive \ {c}
    /\ child' = [child EXCEPT ![c].state = "ended", ![c].hold = "consumed"]
    /\ Beside

\* The owner cancels the parent, or its own turn ends.
ParentChanges ==
    /\ parent' \in {[parent EXCEPT !.revoked = TRUE], [parent EXCEPT !.over = TRUE]}
    /\ parent' # parent
    /\ UNCHANGED <<child, alive, envelope, initial, submitted, inbox, op,
                   reconciled, calls, troubles>>

\* The process dies, or a record is refused and the operation throws.
OperationLost ==
    /\ op.at # "idle"
    /\ troubles < MaxTroubles
    /\ troubles' = troubles + 1
    /\ op' = NoOp
    /\ UNCHANGED <<parent, child, alive, envelope, initial, submitted, inbox,
                   reconciled, calls>>

Next ==
    \/ \E q \in Request : AdmitCalled(q)
    \/ AdmitKnown
    \/ AdmitNew
    \/ AdmitRejected
    \/ \E w \in Workspace : Allocated(w)
    \/ CoordinatorAdmits
    \/ CoordinatorRefuses
    \/ RecordAdmission
    \/ QueueInitial
    \/ \E c \in Child, artifacts \in SUBSET Child : HandoffCalled(c, artifacts)
    \/ RecoverHandoffsCalled
    \/ \E c \in Child : ForwardSubmittedResult(c)
    \/ ForwardRefused
    \/ ReconcileCalled
    \/ \E c \in Child : RevokeChild(c)
    \/ CancelUnstarted
    \/ ReleaseUnstarted
    \/ ReconcileDone
    \/ \E c \in Child : Launch(c) \/ Identify(c) \/ Finish(c)
    \/ ParentChanges
    \/ OperationLost

Spec == Init /\ [][Next]_vars

-----------------------------------------------------------------------------
\* Two children the ledger takes for at work never own the same file or share a
\* workspace, unless the later one was admitted to wait behind the other: also with
\* admissions repeated after a crash between their records.
ChildrenApart ==
    \A c, k \in Attributed :
        c # k /\ Live(c) /\ Live(k)
        => \/ Named(EnvelopeOf(c), k) \/ Named(EnvelopeOf(k), c)
           \/ /\ EnvelopeOf(c).paths \cap EnvelopeOf(k).paths = {}
              /\ child[c].place # child[k].place

\* Children that share ownership are not at work together while the parent may
\* delegate: the later one waits for the earlier one's end.
OneAtWork ==
    Delegates => \A c, k \in alive :
        c # k => EnvelopeOf(c).paths \cap EnvelopeOf(k).paths = {}

\* What the parent hears of a child is the one result the child submitted, and the
\* three records of an admission are about one request.
OneStory ==
    /\ \A m \in inbox : m[2] = submitted[m[1]]
    /\ \A c \in Child : {envelope[c], initial[c]} \subseteq {None, child[c].intent}

\* Once the children of a cancelled parent were reconciled, every attributed child has
\* lost its authority or has ended: none is admitted or launched afterwards.
CancelledTogether ==
    reconciled => \A c \in Attributed : child[c].revoked \/ child[c].state = "ended"

\* What delegation promises: live children apart, one at work on a file, records that
\* agree, and a cancellation that reaches every child.
DelegatedSafely == ChildrenApart /\ OneAtWork /\ OneStory /\ CancelledTogether
=============================================================================
