------------------------------ MODULE WorkProofs ------------------------------
(***************************************************************************)
(* Theorems about work: how it is delegated, done and handed over.         *)
(*                                                                         *)
(* Of the delegation of one parent's work, for any requests, children,     *)
(* places and numbers of calls and crashes: the records of an admission    *)
(* tell one story, children stay apart from each other, no two of them are *)
(* at work on one file while the parent may delegate, and a cancellation   *)
(* that was reconciled holds.  Of the consultations (Consulting) over      *)
(* which a parent waits: each is sent, and resumed, at most once, and only *)
(* resumed on its result.  Of the loop (Looping) in which the work is done *)
(* and verified: what it accepts was checked, and no turn of it is started *)
(* again blindly.  Of the publication of what was accepted (Publishing):   *)
(* it is frozen as it was accepted, and requested once.                    *)
(***************************************************************************)
EXTENDS Delegation, Sequences, FiniteSetTheorems, TLAPS

CONSTANTS Evidence, Authority, MaxAsks
VARIABLES requested, result, effect, at, called, asks

Consulting == INSTANCE Consultation

CONSTANTS Profile, Phases, RequiredPasses, MaxRepairRounds, RepairApproved, Subscription, MaxWrites
VARIABLES content, lock, disk, mem, pc, launched, verified, reviewed, writes

Looping == INSTANCE VerificationLoop

CONSTANTS File, Commits, Tree, Other, MaxChanges
VARIABLES changed, back, collected, handoff, scan, bundle, mirror, branch, prs, changes

Publishing == INSTANCE Publication

-----------------------------------------------------------------------------
\* The inductive invariant.

Admitting == {"admit", "allocate", "intend", "attribute", "greet"}
Reconciling == {"next", "cancel", "release"}
Steps == Admitting \cup Reconciling \cup {"idle", "forward"}

ChildState == [intent : Request \cup {None}, place : Workspace \cup {None},
               state : {"none", "admitted", "launching", "running", "cancelling", "ended"},
               revoked : BOOLEAN, worker : BOOLEAN, hold : {"none", "held", "released", "consumed"}]

TypeInv ==
    /\ parent \in [revoked : BOOLEAN, over : BOOLEAN]
    /\ child \in [Child -> ChildState]
    /\ alive \subseteq Child
    /\ envelope \in [Child -> Request \cup {None}]
    /\ initial \in [Child -> Request \cup {None}]
    /\ submitted \in [Child -> (SUBSET Child) \cup {None}]
    /\ inbox \subseteq Child \X (SUBSET Child)
    /\ reconciled \in BOOLEAN
    /\ op.at \in Steps
    /\ op.left \subseteq Child
    /\ op = [at |-> op.at, request |-> op.request, place |-> op.place,
             left |-> op.left, seen |-> op.seen]
    /\ op.at \in Admitting => op.request \in Request
    /\ op.at = "intend" => op.place \in Workspace
    /\ op.at = "allocate" => op.seen \in SUBSET Child
    /\ op.at \in Reconciling => op.seen \in [Child -> ChildState]
    /\ op.at \in {"cancel", "release"} => op.request \in [id : Child]

\* A child has a name and a request of its own from its intent on; its records agree.
RecordsInv ==
    /\ \A c \in Child :
          /\ child[c].state = "none" <=> child[c].intent = None
          /\ child[c].intent # None => child[c].intent.id = c
          /\ envelope[c] \in {None, child[c].intent}
          /\ initial[c] \in {None, child[c].intent}
    /\ alive \cup op.left \subseteq Attributed
    /\ op.at \in {"allocate", "intend"} => child[op.request.id].state = "none"
    /\ op.at \in {"attribute", "greet"} => child[op.request.id].intent = op.request
    /\ op.at \in {"cancel", "release"} => child[op.request.id].state # "none"

\* The parent hears of what is on record.
StoryInv ==
    /\ \A m \in inbox : m[2] = submitted[m[1]]
    /\ op.at = "forward" => \A c \in op.left : submitted[c] # None

\* A reconciliation follows the parent's revocation, and no admission follows it.
CancelledInv ==
    /\ op.at \in Reconciling => /\ parent.revoked
                                /\ \A c \in Child : op.seen[c].revoked => child[c].revoked
    /\ op.at = "cancel" => child[op.request.id].revoked
    /\ reconciled => parent.revoked /\ op.at \notin Admitting
    /\ op.at \in Reconciling \/ reconciled =>
          \A c \in Attributed : \/ op.at \in Reconciling /\ ~reconciled /\ c \in op.left
                                \/ child[c].revoked
                                \/ child[c].state = "ended"

\* Only the end that a reconciliation records can come while the worker lives.
AliveInv ==
    \A c \in alive : child[c].state = "ended" =>
        parent.revoked /\ op.at \notin Admitting /\ child[c].revoked

\* The children that are live, or that a worker or a reconciliation may bring back.
MayLive == {c \in Child : /\ child[c].state # "none"
                          /\ \/ Live(c)
                             \/ c \in alive
                             \/ op.at \in Reconciling /\ c \in op.left}

Apart(c, k) ==
    \/ k \in child[c].intent.after \/ c \in child[k].intent.after
    \/ /\ child[c].intent.paths \cap child[k].intent.paths = {}
       /\ child[c].place # child[k].place

ApartInv == \A c, k \in MayLive : c # k => Apart(c, k)

\* What was read of the siblings still holds when the child is admitted.
SeenInv ==
    /\ op.at \in {"allocate", "intend"} =>
          \A k \in MayLive : /\ op.at = "allocate" => k \in op.seen
                             /\ \/ k \in op.request.after
                                \/ op.request.paths \cap child[k].intent.paths = {}
    /\ op.at = "intend" =>
          \A k \in MayLive : child[k].place = op.place => k \in op.request.after

\* Whoever was launched to follow another does so after its end.
BehindInv ==
    ~parent.revoked =>
        \A c \in alive : \A p \in child[c].intent.after :
            p \in Child /\ child[p].state = "ended" /\ p \notin alive

IInv == /\ TypeInv /\ RecordsInv /\ StoryInv /\ CancelledInv /\ AliveInv
        /\ ApartInv /\ SeenInv /\ BehindInv

-----------------------------------------------------------------------------
LEMMA InitSound == DelegationAssumption /\ Init => IInv
<1> SUFFICES ASSUME DelegationAssumption, Init PROVE IInv
  OBVIOUS
<1>1. TypeInv
  BY DEF Init, TypeInv, Unadmitted, NoOp, ChildState, Steps, Admitting, Reconciling
<1>2. RecordsInv /\ StoryInv
  BY DEF Init, RecordsInv, StoryInv, Unadmitted, NoOp, Attributed
<1>3. CancelledInv /\ AliveInv /\ SeenInv /\ BehindInv
  BY DEF Init, CancelledInv, AliveInv, SeenInv, BehindInv, Unadmitted, NoOp, Reconciling
<1>4. ApartInv
  BY DEF Init, ApartInv, MayLive, Unadmitted
<1> QED BY <1>1, <1>2, <1>3, <1>4 DEF IInv

LEMMA AdmitCalledSound ==
    ASSUME DelegationAssumption, IInv, NEW q \in Request, AdmitCalled(q)
    PROVE  IInv'
<1>0. TypeInv /\ RecordsInv /\ StoryInv /\ CancelledInv /\ AliveInv /\ ApartInv /\ BehindInv
  BY DEF IInv
<1>1. /\ op' = [at |-> "admit", request |-> q, place |-> None, left |-> {}, seen |-> None]
      /\ op.at = "idle" /\ ~parent.revoked
      /\ UNCHANGED <<parent, child, alive, envelope, initial, submitted, inbox, reconciled>>
  BY DEF AdmitCalled, Begin, Same, NoOp, Delegates
<1>2. TypeInv'
  BY <1>0, <1>1 DEF TypeInv, Steps, Admitting, Reconciling
<1>3. RecordsInv' /\ StoryInv'
  BY <1>0, <1>1 DEF RecordsInv, StoryInv, Attributed
<1>4. CancelledInv' /\ AliveInv' /\ SeenInv' /\ BehindInv'
  BY <1>0, <1>1 DEF CancelledInv, AliveInv, SeenInv, BehindInv, Admitting, Reconciling
<1>5. ApartInv'
  BY <1>0, <1>1 DEF ApartInv, Apart, MayLive, Live, Reconciling
<1> QED BY <1>2, <1>3, <1>4, <1>5 DEF IInv

LEMMA AdmitNewSound ==
    ASSUME DelegationAssumption, IInv, AdmitNew
    PROVE  IInv'
<1>0. TypeInv /\ RecordsInv /\ StoryInv /\ CancelledInv /\ AliveInv /\ ApartInv /\ BehindInv
  BY DEF IInv
<1>1. /\ op.at = "admit" /\ child[op.request.id].state = "none" /\ Orphans = {}
      /\ OwnershipFree(op.request)
      /\ op' = [at |-> "allocate", request |-> op.request, place |-> op.place, left |-> op.left,
                seen |-> {c \in Attributed : Live(c)}]
      /\ UNCHANGED <<parent, child, alive, envelope, initial, submitted, inbox, reconciled>>
  BY <1>0 DEF AdmitNew, At, TypeInv
<1>2. TypeInv'
  BY <1>0, <1>1 DEF TypeInv, Steps, Admitting, Reconciling, Attributed
<1>3. RecordsInv' /\ StoryInv'
  BY <1>0, <1>1 DEF RecordsInv, StoryInv, Attributed
<1>4. CancelledInv' /\ AliveInv' /\ BehindInv'
  BY <1>0, <1>1 DEF CancelledInv, AliveInv, BehindInv, Admitting, Reconciling
<1>5. ApartInv'
  BY <1>0, <1>1 DEF ApartInv, Apart, MayLive, Live, Reconciling
<1>6. SeenInv'
  <2>1. \A k \in MayLive : k \in Attributed /\ Live(k)
    BY <1>0, <1>1 DEF MayLive, Orphans, Live, Ended, AliveInv, RecordsInv, Admitting, Reconciling
  <2>2. MayLive' = MayLive
    BY <1>0, <1>1 DEF MayLive, Live, Reconciling
  <2>3. \A k \in Attributed : EnvelopeOf(k) = child[k].intent
    BY <1>0 DEF RecordsInv, Attributed, EnvelopeOf
  <2> QED BY <1>1, <2>1, <2>2, <2>3 DEF SeenInv, OwnershipFree, Overlap, Named
<1> QED BY <1>2, <1>3, <1>4, <1>5, <1>6 DEF IInv

\* Whoever an operation is about is a child.
LEMMA RequestNamed ==
    ASSUME DelegationAssumption, TypeInv,
           op.at \in {"allocate", "intend", "attribute", "greet", "cancel", "release"}
    PROVE  op.request.id \in Child
BY DEF DelegationAssumption, TypeInv, Admitting

\* An operation that ends leaves the records as they are.

LEMMA OpEnds ==
    ASSUME DelegationAssumption, IInv, op' = NoOp,
           UNCHANGED <<parent, child, alive, envelope, initial, submitted, inbox, reconciled>>
    PROVE  IInv'
<1>0. /\ TypeInv /\ RecordsInv /\ StoryInv /\ CancelledInv
      /\ AliveInv /\ ApartInv /\ SeenInv /\ BehindInv
  BY DEF IInv
<1>1. op' = [at |-> "idle", request |-> None, place |-> None, left |-> {}, seen |-> None]
  BY DEF NoOp
<1>2. TypeInv'
  BY <1>0, <1>1 DEF TypeInv, Steps, Admitting, Reconciling
<1>3. RecordsInv' /\ StoryInv'
  BY <1>0, <1>1 DEF RecordsInv, StoryInv, Attributed
<1>4. CancelledInv' /\ AliveInv' /\ SeenInv' /\ BehindInv'
  BY <1>0, <1>1 DEF CancelledInv, AliveInv, SeenInv, BehindInv, Attributed, Admitting, Reconciling
<1>5. ApartInv'
  BY <1>0, <1>1 DEF ApartInv, Apart, MayLive, Live, Reconciling
<1> QED BY <1>2, <1>3, <1>4, <1>5 DEF IInv

LEMMA AdmitKnownSound ==
    ASSUME DelegationAssumption, IInv, AdmitKnown
    PROVE  IInv'
<1>0. /\ TypeInv /\ RecordsInv /\ StoryInv /\ CancelledInv
      /\ AliveInv /\ ApartInv /\ SeenInv /\ BehindInv
  BY DEF IInv
<1>1. PICK step \in {"greet", "attribute"} :
        op' = [at |-> step, request |-> op.request, place |-> op.place,
               left |-> op.left, seen |-> op.seen]
  BY <1>0 DEF AdmitKnown, TypeInv
<1>2. /\ op.at = "admit" /\ Matches(op.request.id, op.request)
      /\ child[op.request.id].state # "none"
      /\ UNCHANGED <<parent, child, alive, envelope, initial, submitted, inbox, reconciled>>
  BY DEF AdmitKnown, At
<1>3. op.request \in Request /\ op.request.id \in Child
  BY <1>0, <1>2 DEF TypeInv, Admitting, DelegationAssumption
<1>4. child[op.request.id].intent = op.request
  BY <1>0, <1>2, <1>3 DEF Matches, RecordsInv, Attributed, EnvelopeOf
<1>5. TypeInv'
  BY <1>0, <1>1, <1>2 DEF TypeInv, Steps, Admitting, Reconciling
<1>6. RecordsInv' /\ StoryInv'
  BY <1>0, <1>1, <1>2, <1>4 DEF RecordsInv, StoryInv, Attributed
<1>7. CancelledInv' /\ AliveInv' /\ SeenInv' /\ BehindInv'
  BY <1>0, <1>1, <1>2 DEF CancelledInv, AliveInv, SeenInv, BehindInv, Attributed, Admitting, Reconciling
<1>8. ApartInv'
  BY <1>0, <1>1, <1>2 DEF ApartInv, Apart, MayLive, Live, Reconciling
<1> QED BY <1>5, <1>6, <1>7, <1>8 DEF IInv

LEMMA AllocatedSound ==
    ASSUME DelegationAssumption, IInv, NEW w \in Workspace, Allocated(w)
    PROVE  IInv'
<1>0. /\ TypeInv /\ RecordsInv /\ StoryInv /\ CancelledInv
      /\ AliveInv /\ ApartInv /\ SeenInv /\ BehindInv
  BY DEF IInv
<1>1. CASE Reject
  BY <1>1, OpEnds DEF Allocated, At, Reject
<1>2. CASE PlaceFree(w) /\ op' = [op EXCEPT !.at = "intend", !.place = w]
  <2>1. /\ op.at = "allocate"
        /\ op' = [at |-> "intend", request |-> op.request, place |-> w,
                  left |-> op.left, seen |-> op.seen]
        /\ UNCHANGED <<parent, child, alive, envelope, initial, submitted, inbox, reconciled>>
    BY <1>0, <1>2 DEF Allocated, At, Reject, TypeInv
  <2>2. TypeInv'
    BY <1>0, <2>1 DEF TypeInv, Steps, Admitting, Reconciling
  <2>3. RecordsInv' /\ StoryInv'
    BY <1>0, <2>1 DEF RecordsInv, StoryInv, Attributed
  <2>4. CancelledInv' /\ AliveInv' /\ BehindInv'
    BY <1>0, <2>1 DEF CancelledInv, AliveInv, BehindInv, Attributed, Admitting, Reconciling
  <2>5. MayLive' = MayLive /\ ApartInv'
    BY <1>0, <2>1 DEF ApartInv, Apart, MayLive, Live, Reconciling
  <2>6. SeenInv'
    BY <1>0, <1>2, <2>1, <2>5 DEF SeenInv, PlaceFree, Named
  <2> QED BY <2>2, <2>3, <2>4, <2>5, <2>6 DEF IInv
<1> QED BY <1>1, <1>2 DEF Allocated

LEMMA CoordinatorAdmitsSound ==
    ASSUME DelegationAssumption, IInv, CoordinatorAdmits
    PROVE  IInv'
<1>0. /\ TypeInv /\ RecordsInv /\ StoryInv /\ CancelledInv
      /\ AliveInv /\ ApartInv /\ SeenInv /\ BehindInv
  BY DEF IInv
<1>n. PICK n \in Child : n = op.request.id
  BY <1>0 DEF CoordinatorAdmits, At, TypeInv, Admitting, DelegationAssumption
<1>1. /\ op.at = "intend" /\ op.request \in Request /\ op.place \in Workspace
      /\ child[n].state = "none" /\ op.request # None
  BY <1>0, <1>n DEF CoordinatorAdmits, At, TypeInv, RecordsInv, Admitting, DelegationAssumption
<1>2. /\ op' = [at |-> "attribute", request |-> op.request, place |-> op.place,
                left |-> op.left, seen |-> op.seen]
      /\ UNCHANGED <<parent, alive, envelope, initial, submitted, inbox, reconciled>>
  BY <1>0 DEF CoordinatorAdmits, At, TypeInv
<1>3. /\ child' = [child EXCEPT ![n] =
              [intent |-> op.request, place |-> op.place, state |-> "admitted",
               revoked |-> FALSE, worker |-> FALSE, hold |-> "held"]]
      /\ child'[n] = [intent |-> op.request, place |-> op.place, state |-> "admitted",
                      revoked |-> FALSE, worker |-> FALSE, hold |-> "held"]
      /\ \A c \in Child \ {n} : child'[c] = child[c]
  <2>1. child' = [child EXCEPT ![n] =
              [intent |-> op.request, place |-> op.place, state |-> "admitted",
               revoked |-> FALSE, worker |-> FALSE, hold |-> "held"]]
    <3>1. ASSUME NEW new,
                 new = [Unadmitted EXCEPT !.intent = op.request, !.place = op.place,
                                          !.state = "admitted", !.hold = "held"]
          PROVE  new = [intent |-> op.request, place |-> op.place, state |-> "admitted",
                        revoked |-> FALSE, worker |-> FALSE, hold |-> "held"]
      BY <3>1 DEF Unadmitted
    <3> QED BY <1>n, <3>1, Zenon DEF CoordinatorAdmits
  <2> QED BY <1>0, <1>1, <2>1 DEF TypeInv
<1>4. n \notin alive /\ envelope[n] = None /\ initial[n] = None
  BY <1>0, <1>1 DEF RecordsInv, Attributed
<1>5. TypeInv'
  <2>1. child' \in [Child -> ChildState]
    BY <1>0, <1>1, <1>3 DEF TypeInv, ChildState
  <2> QED BY <1>0, <1>1, <1>2, <2>1 DEF TypeInv, Steps, Admitting, Reconciling
<1>6. Attributed' = Attributed
  BY <1>1, <1>2, <1>3, <1>4 DEF Attributed
<1>7. RecordsInv' /\ StoryInv'
  BY <1>0, <1>n, <1>1, <1>2, <1>3, <1>4, <1>6 DEF RecordsInv, StoryInv
<1>8. CancelledInv' /\ AliveInv'
  BY <1>0, <1>1, <1>2, <1>3, <1>4, <1>6 DEF CancelledInv, AliveInv, Admitting, Reconciling, TypeInv
<1>9. BehindInv'
  BY <1>0, <1>1, <1>2, <1>3, <1>4 DEF BehindInv, TypeInv, DelegationAssumption
<1>10. MayLive' = MayLive \cup {n}
  BY <1>0, <1>1, <1>2, <1>3 DEF MayLive, Live, Ended, Reconciling
<1>11. ApartInv'
  <2>1. \A k \in MayLive : k # n => /\ Apart(n, k)'
                                     /\ Apart(k, n)'
    BY <1>0, <1>n, <1>1, <1>2, <1>3 DEF SeenInv, Apart, MayLive
  <2>2. \A c, k \in MayLive : c # n /\ k # n /\ c # k => Apart(c, k)'
    BY <1>0, <1>3 DEF ApartInv, Apart, MayLive
  <2> SUFFICES ASSUME NEW c \in MayLive', NEW k \in MayLive', c # k PROVE Apart(c, k)'
    BY DEF ApartInv
  <2>3. CASE c = n
    BY <1>10, <2>1, <2>3
  <2>4. CASE k = n
    BY <1>10, <2>1, <2>4
  <2> QED BY <1>10, <2>2, <2>3, <2>4
<1>12. SeenInv'
  BY <1>2 DEF SeenInv
<1> QED BY <1>5, <1>7, <1>8, <1>9, <1>11, <1>12 DEF IInv

LEMMA RecordAdmissionSound ==
    ASSUME DelegationAssumption, IInv, RecordAdmission
    PROVE  IInv'
<1>0. /\ TypeInv /\ RecordsInv /\ StoryInv /\ CancelledInv
      /\ AliveInv /\ ApartInv /\ SeenInv /\ BehindInv
  BY DEF IInv
<1> DEFINE n == op.request.id
<1>1. op.request \in Request /\ n \in Child /\ child[n].intent = op.request
  BY <1>0 DEF RecordAdmission, At, TypeInv, RecordsInv, Admitting, DelegationAssumption
<1>2. /\ op' = [at |-> "greet", request |-> op.request, place |-> op.place,
                left |-> op.left, seen |-> op.seen]
      /\ envelope' = [envelope EXCEPT ![n] = IF @ = None THEN op.request ELSE @]
      /\ op.at = "attribute"
      /\ UNCHANGED <<parent, child, alive, initial, submitted, inbox, reconciled>>
  BY <1>0 DEF RecordAdmission, At, TypeInv, NoOp
<1>3. TypeInv'
  <2>1. envelope' \in [Child -> Request \cup {None}]
    BY <1>0, <1>1, <1>2 DEF TypeInv
  <2> QED BY <1>0, <1>1, <1>2, <2>1 DEF TypeInv, Steps, Admitting, Reconciling
<1>4. RecordsInv' /\ StoryInv'
  BY <1>0, <1>1, <1>2 DEF RecordsInv, StoryInv, Attributed, TypeInv
<1>5. CancelledInv' /\ AliveInv' /\ BehindInv' /\ SeenInv'
  BY <1>0, <1>2 DEF CancelledInv, AliveInv, BehindInv, SeenInv, Admitting, Reconciling
<1>6. ApartInv'
  BY <1>0, <1>2 DEF ApartInv, Apart, MayLive, Live, Reconciling
<1> QED BY <1>3, <1>4, <1>5, <1>6 DEF IInv

LEMMA QueueInitialSound ==
    ASSUME DelegationAssumption, IInv, QueueInitial
    PROVE  IInv'
<1>0. /\ TypeInv /\ RecordsInv /\ StoryInv /\ CancelledInv
      /\ AliveInv /\ ApartInv /\ SeenInv /\ BehindInv
  BY DEF IInv
<1> DEFINE n == op.request.id
<1>1. op.request \in Request /\ n \in Child /\ child[n].intent = op.request
  BY <1>0 DEF QueueInitial, At, TypeInv, RecordsInv, Admitting, DelegationAssumption
<1>2. /\ op' = [at |-> "idle", request |-> None, place |-> None, left |-> {}, seen |-> None]
      /\ initial' = [initial EXCEPT ![n] = IF @ = None THEN op.request ELSE @]
      /\ op.at = "greet"
      /\ UNCHANGED <<parent, child, alive, envelope, submitted, inbox, reconciled>>
  BY <1>0 DEF QueueInitial, At, TypeInv, NoOp
<1>3. TypeInv'
  <2>1. initial' \in [Child -> Request \cup {None}]
    BY <1>0, <1>1, <1>2 DEF TypeInv
  <2> QED BY <1>0, <1>1, <1>2, <2>1 DEF TypeInv, Steps, Admitting, Reconciling
<1>4. RecordsInv' /\ StoryInv'
  BY <1>0, <1>1, <1>2 DEF RecordsInv, StoryInv, Attributed, TypeInv
<1>5. CancelledInv' /\ AliveInv' /\ BehindInv' /\ SeenInv'
  BY <1>0, <1>2 DEF CancelledInv, AliveInv, BehindInv, SeenInv, Admitting, Reconciling
<1>6. ApartInv'
  BY <1>0, <1>2 DEF ApartInv, Apart, MayLive, Live, Reconciling
<1> QED BY <1>3, <1>4, <1>5, <1>6 DEF IInv

LEMMA HandoffCalledSound ==
    ASSUME DelegationAssumption, IInv, NEW c \in Child, NEW artifacts \in SUBSET Child,
           HandoffCalled(c, artifacts)
    PROVE  IInv'
<1>0. /\ TypeInv /\ RecordsInv /\ StoryInv /\ CancelledInv
      /\ AliveInv /\ ApartInv /\ SeenInv /\ BehindInv
  BY DEF IInv
<1>1. /\ op' = [at |-> "forward", request |-> None, place |-> None, left |-> {c}, seen |-> None]
      /\ op.at = "idle" /\ c \in Attributed /\ submitted[c] \in {None, artifacts}
      /\ submitted' = [submitted EXCEPT ![c] = artifacts]
      /\ UNCHANGED <<parent, child, alive, envelope, initial, inbox, reconciled>>
  BY DEF HandoffCalled, Begin, NoOp
<1>2. artifacts # None
  BY DEF DelegationAssumption
<1>3. TypeInv'
  BY <1>0, <1>1 DEF TypeInv, Steps, Admitting, Reconciling
<1>4. StoryInv'
  <2>1. ASSUME NEW m \in inbox PROVE m[2] = submitted'[m[1]]
    <3>1. m[1] \in Child /\ m[2] \in SUBSET Child /\ m[2] = submitted[m[1]] /\ m[2] # None
      BY <1>0, <2>1 DEF TypeInv, StoryInv, DelegationAssumption
    <3> QED BY <1>0, <1>1, <3>1 DEF TypeInv
  <2>2. submitted'[c] = artifacts
    BY <1>0, <1>1 DEF TypeInv
  <2> QED BY <1>1, <1>2, <2>1, <2>2 DEF StoryInv
<1>5. RecordsInv'
  BY <1>0, <1>1 DEF RecordsInv, Attributed
<1>6. CancelledInv' /\ AliveInv' /\ BehindInv' /\ SeenInv'
  BY <1>0, <1>1 DEF CancelledInv, AliveInv, BehindInv, SeenInv, Attributed, Admitting, Reconciling
<1>7. ApartInv'
  BY <1>0, <1>1 DEF ApartInv, Apart, MayLive, Live, Reconciling
<1> QED BY <1>3, <1>4, <1>5, <1>6, <1>7 DEF IInv

LEMMA RecoverHandoffsCalledSound ==
    ASSUME DelegationAssumption, IInv, RecoverHandoffsCalled
    PROVE  IInv'
<1>0. /\ TypeInv /\ RecordsInv /\ StoryInv /\ CancelledInv
      /\ AliveInv /\ ApartInv /\ SeenInv /\ BehindInv
  BY DEF IInv
<1>1. /\ op' = [at |-> "forward", request |-> None, place |-> None,
                left |-> {c \in Attributed : submitted[c] # None}, seen |-> None]
      /\ op.at = "idle"
      /\ UNCHANGED <<parent, child, alive, envelope, initial, submitted, inbox, reconciled>>
  BY DEF RecoverHandoffsCalled, Begin, Same, NoOp
<1>2. TypeInv'
  BY <1>0, <1>1 DEF TypeInv, Steps, Admitting, Reconciling, Attributed
<1>3. RecordsInv' /\ StoryInv'
  BY <1>0, <1>1 DEF RecordsInv, StoryInv, Attributed
<1>4. CancelledInv' /\ AliveInv' /\ BehindInv' /\ SeenInv'
  BY <1>0, <1>1 DEF CancelledInv, AliveInv, BehindInv, SeenInv, Attributed, Admitting, Reconciling
<1>5. ApartInv'
  BY <1>0, <1>1 DEF ApartInv, Apart, MayLive, Live, Reconciling
<1> QED BY <1>2, <1>3, <1>4, <1>5 DEF IInv

LEMMA ForwardSound ==
    ASSUME DelegationAssumption, IInv, NEW c \in Child, ForwardSubmittedResult(c)
    PROVE  IInv'
<1>0. /\ TypeInv /\ RecordsInv /\ StoryInv /\ CancelledInv
      /\ AliveInv /\ ApartInv /\ SeenInv /\ BehindInv
  BY DEF IInv
<1>1. /\ op.at = "forward" /\ c \in op.left
      /\ inbox' = inbox \cup {<<c, submitted[c]>>}
      /\ UNCHANGED <<parent, child, alive, envelope, initial, submitted, reconciled>>
  BY DEF ForwardSubmittedResult, At
<1>2. \/ op' = [at |-> "forward", request |-> op.request, place |-> op.place,
                left |-> op.left \ {c}, seen |-> op.seen]
      \/ op' = [at |-> "idle", request |-> None, place |-> None, left |-> {}, seen |-> None]
  <2>1. CASE op.left = {c}
    BY <2>1 DEF ForwardSubmittedResult, NoOp
  <2>2. CASE op.left # {c}
    BY <1>0, <1>1, <2>2 DEF ForwardSubmittedResult, TypeInv
  <2> QED BY <2>1, <2>2
<1>3. submitted[c] \in SUBSET Child
  BY <1>0, <1>1 DEF TypeInv, StoryInv
<1>4. TypeInv'
  BY <1>0, <1>1, <1>2, <1>3 DEF TypeInv, Steps, Admitting, Reconciling
<1>5. RecordsInv' /\ StoryInv'
  BY <1>0, <1>1, <1>2 DEF RecordsInv, StoryInv, Attributed
<1>6. CancelledInv' /\ AliveInv' /\ BehindInv' /\ SeenInv'
  BY <1>0, <1>1, <1>2 DEF CancelledInv, AliveInv, BehindInv, SeenInv, Attributed, Admitting, Reconciling
<1>7. ApartInv'
  BY <1>0, <1>1, <1>2 DEF ApartInv, Apart, MayLive, Live, Reconciling
<1> QED BY <1>4, <1>5, <1>6, <1>7 DEF IInv

LEMMA ReconcileCalledSound ==
    ASSUME DelegationAssumption, IInv, ReconcileCalled
    PROVE  IInv'
<1>0. /\ TypeInv /\ RecordsInv /\ StoryInv /\ CancelledInv
      /\ AliveInv /\ ApartInv /\ SeenInv /\ BehindInv
  BY DEF IInv
<1>1. /\ op' = [at |-> "next", request |-> None, place |-> None,
                left |-> {c \in Attributed : Live(c)}, seen |-> child]
      /\ op.at = "idle" /\ parent.revoked
      /\ UNCHANGED <<parent, child, alive, envelope, initial, submitted, inbox, reconciled>>
  BY DEF ReconcileCalled, Begin, Same, NoOp
<1>2. TypeInv'
  BY <1>0, <1>1 DEF TypeInv, Steps, Admitting, Reconciling, Attributed
<1>3. RecordsInv' /\ StoryInv'
  BY <1>0, <1>1 DEF RecordsInv, StoryInv, Attributed
<1>4. AliveInv' /\ BehindInv' /\ SeenInv'
  BY <1>0, <1>1 DEF AliveInv, BehindInv, SeenInv, Admitting, Reconciling
<1>5. CancelledInv'
  BY <1>0, <1>1 DEF CancelledInv, Attributed, Live, Ended, Admitting, Reconciling
<1>6. ApartInv'
  <2>1. MayLive' \subseteq MayLive
    BY <1>0, <1>1 DEF MayLive, Live, Attributed, Reconciling
  <2> QED BY <1>0, <1>1, <2>1 DEF ApartInv, Apart
<1> QED BY <1>2, <1>3, <1>4, <1>5, <1>6 DEF IInv

LEMMA RevokeChildSound ==
    ASSUME DelegationAssumption, IInv, NEW c \in Child, RevokeChild(c)
    PROVE  IInv'
<1>0. /\ TypeInv /\ RecordsInv /\ StoryInv /\ CancelledInv
      /\ AliveInv /\ ApartInv /\ SeenInv /\ BehindInv
  BY DEF IInv
<1>1. /\ op.at = "next" /\ c \in op.left /\ parent.revoked /\ child[c].state # "none"
      /\ UNCHANGED <<parent, alive, envelope, initial, submitted, inbox, reconciled>>
  BY <1>0 DEF RevokeChild, At, RecordsInv, Attributed, CancelledInv, Reconciling
<1>2. PICK step \in {"next", "cancel"} :
        op' = [at |-> step, request |-> [id |-> c], place |-> op.place,
               left |-> op.left \ {c}, seen |-> op.seen]
  <2>1. op' = [op EXCEPT !.left = (@ \ {c}), !.request = [id |-> c],
                         !.at = IF op.seen[c].worker THEN "next" ELSE "cancel"]
    BY DEF RevokeChild
  <2>2. CASE op.seen[c].worker
    BY <1>0, <2>1, <2>2 DEF TypeInv
  <2>3. CASE ~op.seen[c].worker
    BY <1>0, <2>1, <2>3 DEF TypeInv
  <2> QED BY <2>2, <2>3
<1>3. /\ child' \in [Child -> ChildState]
      /\ child'[c].revoked
      /\ child[c].state = "none" <=> child'[c].state = "none"
      /\ \A k \in Child : /\ child'[k].intent = child[k].intent
                          /\ child'[k].place = child[k].place
                          /\ child[k].revoked => child'[k].revoked
                          /\ k # c => child'[k] = child[k]
                          /\ child[k].state = "none" <=> child'[k].state = "none"
  <2>0. op.seen[c].revoked => child[c].revoked
    BY <1>0, <1>1 DEF CancelledInv, Reconciling
  <2>1. CASE child' = child /\ op.seen[c].revoked
    BY <1>0, <2>0, <2>1 DEF TypeInv
  <2>2. CASE child' = [child EXCEPT ![c].revoked = TRUE, ![c].state = "cancelling"]
    <3>1. child' = [child EXCEPT ![c] = [child[c] EXCEPT !.revoked = TRUE, !.state = "cancelling"]]
      BY <1>0, <2>2 DEF TypeInv, ChildState
    <3>2. child[c] \in ChildState
      BY <1>0 DEF TypeInv
    <3>3. ASSUME NEW new, new = [child[c] EXCEPT !.revoked = TRUE, !.state = "cancelling"]
          PROVE  /\ new \in ChildState /\ new.revoked /\ new.state = "cancelling"
                 /\ new.intent = child[c].intent /\ new.place = child[c].place
      BY <3>2, <3>3 DEF ChildState
    <3> QED BY <1>0, <1>1, <3>1, <3>3 DEF TypeInv
  <2> QED BY <2>1, <2>2 DEF RevokeChild
<1>4. TypeInv'
  BY <1>0, <1>1, <1>2, <1>3 DEF TypeInv, Steps, Admitting, Reconciling
<1>5. Attributed' = Attributed
  BY <1>1, <1>3 DEF Attributed
<1>6. RecordsInv' /\ StoryInv'
  BY <1>0, <1>1, <1>2, <1>3, <1>5 DEF RecordsInv, StoryInv, TypeInv
<1>7. CancelledInv'
  BY <1>0, <1>1, <1>2, <1>3, <1>5 DEF CancelledInv, TypeInv, Admitting, Reconciling, Attributed
<1>8. AliveInv' /\ BehindInv' /\ SeenInv'
  BY <1>0, <1>1, <1>2, <1>3 DEF AliveInv, BehindInv, SeenInv, TypeInv, Admitting, Reconciling
<1>9. ApartInv'
  <2>1. MayLive' \subseteq MayLive
    BY <1>0, <1>1, <1>2, <1>3 DEF MayLive, Live, Reconciling
  <2>2. \A k, m \in Child : Apart(k, m) => Apart(k, m)'
    BY <1>3 DEF Apart
  <2> QED BY <1>0, <2>1, <2>2 DEF ApartInv, MayLive
<1> QED BY <1>4, <1>6, <1>7, <1>8, <1>9 DEF IInv

LEMMA CancelUnstartedSound ==
    ASSUME DelegationAssumption, IInv, CancelUnstarted
    PROVE  IInv'
<1>0. /\ TypeInv /\ RecordsInv /\ StoryInv /\ CancelledInv
      /\ AliveInv /\ ApartInv /\ SeenInv /\ BehindInv
  BY DEF IInv
<1>1. PICK c \in Child : op.request = [id |-> c] /\ child[c].revoked
  BY <1>0 DEF CancelUnstarted, At, TypeInv, CancelledInv
<1>2. /\ op.at = "cancel" /\ parent.revoked
      /\ op' = [at |-> "release", request |-> op.request, place |-> op.place,
                left |-> op.left, seen |-> op.seen]
      /\ UNCHANGED <<parent, alive, envelope, initial, submitted, inbox, reconciled>>
  BY <1>0 DEF CancelUnstarted, At, TypeInv, CancelledInv, Reconciling
<1>3. /\ child' \in [Child -> ChildState]
      /\ child'[c].state = "ended"
      /\ \A k \in Child : /\ child'[k].intent = child[k].intent
                          /\ child'[k].place = child[k].place
                          /\ child'[k].revoked = child[k].revoked
                          /\ k # c => child'[k] = child[k]
  <2>1. child' = [child EXCEPT ![c] = [child[c] EXCEPT !.state = "ended"]]
    BY <1>0, <1>1 DEF CancelUnstarted, TypeInv, ChildState
  <2>2. child[c] \in ChildState
    BY <1>0 DEF TypeInv
  <2>3. ASSUME NEW new, new = [child[c] EXCEPT !.state = "ended"]
        PROVE  /\ new \in ChildState /\ new.state = "ended"
               /\ new.intent = child[c].intent /\ new.place = child[c].place
               /\ new.revoked = child[c].revoked
    BY <2>2, <2>3 DEF ChildState
  <2> QED BY <1>0, <2>1, <2>3 DEF TypeInv
<1>4. child[c].state # "none"
  BY <1>0, <1>1, <1>2 DEF RecordsInv
<1>5. TypeInv'
  BY <1>0, <1>1, <1>2, <1>3, <1>4 DEF TypeInv, Steps, Admitting, Reconciling
<1>6. Attributed' = Attributed
  BY <1>1, <1>2, <1>3, <1>4 DEF Attributed
<1>7. RecordsInv' /\ StoryInv'
  BY <1>0, <1>1, <1>2, <1>3, <1>4, <1>6 DEF RecordsInv, StoryInv, TypeInv
<1>8. CancelledInv'
  BY <1>0, <1>1, <1>2, <1>3, <1>4, <1>6 DEF CancelledInv, TypeInv, Admitting, Reconciling, Attributed, AliveInv
<1>9. AliveInv' /\ BehindInv' /\ SeenInv'
  BY <1>0, <1>1, <1>2, <1>3, <1>4 DEF AliveInv, BehindInv, SeenInv, TypeInv, Admitting, Reconciling
<1>10. ApartInv'
  <2>1. MayLive' \subseteq MayLive
    BY <1>0, <1>1, <1>2, <1>3, <1>4 DEF MayLive, Live, Ended, Reconciling
  <2>2. \A k, m \in Child : Apart(k, m) => Apart(k, m)'
    BY <1>3 DEF Apart
  <2> QED BY <1>0, <2>1, <2>2 DEF ApartInv, MayLive
<1> QED BY <1>5, <1>7, <1>8, <1>9, <1>10 DEF IInv

LEMMA ReleaseUnstartedSound ==
    ASSUME DelegationAssumption, IInv, ReleaseUnstarted
    PROVE  IInv'
<1>0. /\ TypeInv /\ RecordsInv /\ StoryInv /\ CancelledInv
      /\ AliveInv /\ ApartInv /\ SeenInv /\ BehindInv
  BY DEF IInv
<1>1. PICK c \in Child : op.request = [id |-> c]
  BY <1>0 DEF ReleaseUnstarted, At, TypeInv
<1>2. /\ op.at = "release" /\ parent.revoked
      /\ op' = [at |-> "next", request |-> op.request, place |-> op.place,
                left |-> op.left, seen |-> op.seen]
      /\ UNCHANGED <<parent, alive, envelope, initial, submitted, inbox, reconciled>>
  BY <1>0 DEF ReleaseUnstarted, At, TypeInv, CancelledInv, Reconciling
<1>3. /\ child' \in [Child -> ChildState]
      /\ child'[c].state = child[c].state
      /\ \A k \in Child : /\ child'[k].intent = child[k].intent
                          /\ child'[k].place = child[k].place
                          /\ child'[k].revoked = child[k].revoked
                          /\ k # c => child'[k] = child[k]
  <2>1. child' = [child EXCEPT ![c] = [child[c] EXCEPT !.hold = "released"]]
    BY <1>0, <1>1 DEF ReleaseUnstarted, TypeInv, ChildState
  <2>2. child[c] \in ChildState
    BY <1>0 DEF TypeInv
  <2>3. ASSUME NEW new, new = [child[c] EXCEPT !.hold = "released"]
        PROVE  /\ new \in ChildState /\ new.state = child[c].state
               /\ new.intent = child[c].intent /\ new.place = child[c].place
               /\ new.revoked = child[c].revoked
    BY <2>2, <2>3 DEF ChildState
  <2> QED BY <1>0, <2>1, <2>3 DEF TypeInv
<1>4. child[c].state # "none"
  BY <1>0, <1>1, <1>2 DEF RecordsInv
<1>5. TypeInv'
  BY <1>0, <1>1, <1>2, <1>3, <1>4 DEF TypeInv, Steps, Admitting, Reconciling
<1>6. Attributed' = Attributed
  BY <1>1, <1>2, <1>3, <1>4 DEF Attributed
<1>7. RecordsInv' /\ StoryInv'
  BY <1>0, <1>1, <1>2, <1>3, <1>4, <1>6 DEF RecordsInv, StoryInv, TypeInv
<1>8. CancelledInv'
  BY <1>0, <1>1, <1>2, <1>3, <1>4, <1>6 DEF CancelledInv, TypeInv, Admitting, Reconciling, Attributed, AliveInv
<1>9. AliveInv' /\ BehindInv' /\ SeenInv'
  BY <1>0, <1>1, <1>2, <1>3, <1>4 DEF AliveInv, BehindInv, SeenInv, TypeInv, Admitting, Reconciling
<1>10. ApartInv'
  <2>1. MayLive' \subseteq MayLive
    BY <1>0, <1>1, <1>2, <1>3, <1>4 DEF MayLive, Live, Ended, Reconciling
  <2>2. \A k, m \in Child : Apart(k, m) => Apart(k, m)'
    BY <1>3 DEF Apart
  <2> QED BY <1>0, <2>1, <2>2 DEF ApartInv, MayLive
<1> QED BY <1>5, <1>7, <1>8, <1>9, <1>10 DEF IInv

LEMMA ReconcileDoneSound ==
    ASSUME DelegationAssumption, IInv, ReconcileDone
    PROVE  IInv'
<1>0. /\ TypeInv /\ RecordsInv /\ StoryInv /\ CancelledInv
      /\ AliveInv /\ ApartInv /\ SeenInv /\ BehindInv
  BY DEF IInv
<1>1. /\ op.at = "next" /\ op.left = {} /\ reconciled' = TRUE
      /\ op' = [at |-> "idle", request |-> None, place |-> None, left |-> {}, seen |-> None]
      /\ UNCHANGED <<parent, child, alive, envelope, initial, submitted, inbox>>
  BY DEF ReconcileDone, At, NoOp
<1>2. TypeInv'
  BY <1>0, <1>1 DEF TypeInv, Steps, Admitting, Reconciling
<1>3. RecordsInv' /\ StoryInv'
  BY <1>0, <1>1 DEF RecordsInv, StoryInv, Attributed
<1>4. CancelledInv' /\ AliveInv' /\ SeenInv' /\ BehindInv'
  BY <1>0, <1>1 DEF CancelledInv, AliveInv, SeenInv, BehindInv, Attributed, Admitting, Reconciling
<1>5. ApartInv'
  BY <1>0, <1>1 DEF ApartInv, Apart, MayLive, Live, Reconciling
<1> QED BY <1>2, <1>3, <1>4, <1>5 DEF IInv

LEMMA LaunchSound ==
    ASSUME DelegationAssumption, IInv, NEW c \in Child, Launch(c)
    PROVE  IInv'
<1>0. /\ TypeInv /\ RecordsInv /\ StoryInv /\ CancelledInv
      /\ AliveInv /\ ApartInv /\ SeenInv /\ BehindInv
  BY DEF IInv
<1>1. /\ alive' = alive \cup {c} /\ c \in Attributed /\ child[c].state = "admitted" /\ CanLaunch(c)
      /\ UNCHANGED <<parent, envelope, initial, submitted, inbox, op, reconciled>>
  BY DEF Launch, Beside
<1>2. EnvelopeOf(c) = child[c].intent /\ child[c].intent.after \subseteq Child
  <2>1. child[c].intent \in Request
    BY <1>0, <1>1 DEF TypeInv, ChildState, RecordsInv
  <2> QED BY <1>0, <1>1, <2>1 DEF EnvelopeOf, RecordsInv, Attributed, DelegationAssumption
<1>3. /\ child' \in [Child -> ChildState]
      /\ child'[c].state = "launching"
      /\ \A k \in Child : /\ child'[k].intent = child[k].intent
                          /\ child'[k].place = child[k].place
                          /\ child'[k].revoked = child[k].revoked
                          /\ k # c => child'[k] = child[k]
  <2>1. child' = [child EXCEPT ![c] = [child[c] EXCEPT !.state = "launching"]]
    BY <1>0, <1>1 DEF Launch, TypeInv, ChildState
  <2>2. child[c] \in ChildState
    BY <1>0 DEF TypeInv
  <2>3. ASSUME NEW new, new = [child[c] EXCEPT !.state = "launching"]
        PROVE  /\ new \in ChildState /\ new.state = "launching"
               /\ new.intent = child[c].intent /\ new.place = child[c].place
               /\ new.revoked = child[c].revoked
    BY <2>2, <2>3 DEF ChildState
  <2> QED BY <1>0, <2>1, <2>3 DEF TypeInv
<1>4. TypeInv'
  BY <1>0, <1>1, <1>3 DEF TypeInv
<1>5. Attributed' = Attributed
  BY <1>1, <1>3 DEF Attributed
<1>6. RecordsInv' /\ StoryInv'
  BY <1>0, <1>1, <1>3, <1>5, RequestNamed DEF RecordsInv, StoryInv, TypeInv
<1>7. CancelledInv' /\ AliveInv'
  BY <1>0, <1>1, <1>3, <1>5 DEF CancelledInv, AliveInv, TypeInv, Attributed
<1>8. MayLive' = MayLive
  BY <1>0, <1>1, <1>3 DEF MayLive, Live, Ended, Attributed
<1>9. ApartInv' /\ SeenInv'
  BY <1>0, <1>1, <1>3, <1>8 DEF ApartInv, Apart, SeenInv, MayLive
<1>10. BehindInv'
  <2> SUFFICES ASSUME ~parent.revoked, NEW k \in alive', NEW p \in child'[k].intent.after
               PROVE  p \in Child /\ child'[p].state = "ended" /\ p \notin alive'
    BY <1>1 DEF BehindInv
  <2>1. k \in Child /\ p \in child[k].intent.after
    BY <1>0, <1>1, <1>3 DEF TypeInv
  <2>2. p \in Child /\ child[p].state = "ended" /\ p \notin alive
    <3>1. CASE k \in alive
      BY <1>0, <2>1, <3>1 DEF BehindInv
    <3>2. CASE k = c
      <4>1. p \in Child /\ p \in Attributed /\ ~Live(p)
        BY <1>1, <1>2, <2>1, <3>2 DEF CanLaunch
      <4> QED BY <1>0, <4>1 DEF Live, Ended, AliveInv
    <3> QED BY <1>1, <3>1, <3>2
  <2> QED BY <1>1, <1>3, <2>2
<1> QED BY <1>4, <1>6, <1>7, <1>9, <1>10 DEF IInv


LEMMA IdentifySound ==
    ASSUME DelegationAssumption, IInv, NEW c \in Child, Identify(c)
    PROVE  IInv'
<1>0. /\ TypeInv /\ RecordsInv /\ StoryInv /\ CancelledInv
      /\ AliveInv /\ ApartInv /\ SeenInv /\ BehindInv
  BY DEF IInv
<1>1. /\ c \in alive /\ alive' = alive /\ child[c].state # "none"
      /\ UNCHANGED <<parent, envelope, initial, submitted, inbox, op, reconciled>>
  BY <1>0 DEF Identify, Beside, RecordsInv, Attributed
<1>2. /\ child' \in [Child -> ChildState]
      /\ child'[c].state = "running"
      /\ \A k \in Child : /\ child'[k].intent = child[k].intent
                          /\ child'[k].place = child[k].place
                          /\ child'[k].revoked = child[k].revoked
                          /\ k # c => child'[k] = child[k]
  <2>1. child' = [child EXCEPT ![c] = [child[c] EXCEPT !.worker = TRUE, !.state = "running"]]
    BY <1>0, <1>1 DEF Identify, TypeInv, ChildState
  <2>2. child[c] \in ChildState
    BY <1>0 DEF TypeInv
  <2>3. ASSUME NEW new, new = [child[c] EXCEPT !.worker = TRUE, !.state = "running"]
        PROVE  /\ new \in ChildState /\ new.state = "running"
               /\ new.intent = child[c].intent /\ new.place = child[c].place
               /\ new.revoked = child[c].revoked
    BY <2>2, <2>3 DEF ChildState
  <2> QED BY <1>0, <2>1, <2>3 DEF TypeInv
<1>3. TypeInv'
  BY <1>0, <1>1, <1>2 DEF TypeInv
<1>4. Attributed' = Attributed
  BY <1>1, <1>2 DEF Attributed
<1>5. RecordsInv' /\ StoryInv'
  BY <1>0, <1>1, <1>2, <1>4, RequestNamed DEF RecordsInv, StoryInv, TypeInv
<1>6. CancelledInv' /\ AliveInv'
  BY <1>0, <1>1, <1>2, <1>4, RequestNamed DEF CancelledInv, AliveInv, TypeInv, Attributed
<1>7. MayLive' \subseteq MayLive
  BY <1>0, <1>1, <1>2 DEF MayLive, Live, Ended
<1>8. ApartInv' /\ SeenInv'
  BY <1>0, <1>1, <1>2, <1>7 DEF ApartInv, Apart, SeenInv, MayLive
<1>9. BehindInv'
  BY <1>0, <1>1, <1>2 DEF BehindInv, TypeInv
<1> QED BY <1>3, <1>5, <1>6, <1>8, <1>9 DEF IInv

LEMMA FinishSound ==
    ASSUME DelegationAssumption, IInv, NEW c \in Child, Finish(c)
    PROVE  IInv'
<1>0. /\ TypeInv /\ RecordsInv /\ StoryInv /\ CancelledInv
      /\ AliveInv /\ ApartInv /\ SeenInv /\ BehindInv
  BY DEF IInv
<1>1. /\ c \in alive /\ alive' = alive \ {c} /\ child[c].state # "none"
      /\ UNCHANGED <<parent, envelope, initial, submitted, inbox, op, reconciled>>
  BY <1>0 DEF Finish, Beside, RecordsInv, Attributed
<1>2. /\ child' \in [Child -> ChildState]
      /\ child'[c].state = "ended"
      /\ \A k \in Child : /\ child'[k].intent = child[k].intent
                          /\ child'[k].place = child[k].place
                          /\ child'[k].revoked = child[k].revoked
                          /\ k # c => child'[k] = child[k]
  <2>1. child' = [child EXCEPT ![c] = [child[c] EXCEPT !.state = "ended", !.hold = "consumed"]]
    BY <1>0, <1>1 DEF Finish, TypeInv, ChildState
  <2>2. child[c] \in ChildState
    BY <1>0 DEF TypeInv
  <2>3. ASSUME NEW new, new = [child[c] EXCEPT !.state = "ended", !.hold = "consumed"]
        PROVE  /\ new \in ChildState /\ new.state = "ended"
               /\ new.intent = child[c].intent /\ new.place = child[c].place
               /\ new.revoked = child[c].revoked
    BY <2>2, <2>3 DEF ChildState
  <2> QED BY <1>0, <2>1, <2>3 DEF TypeInv
<1>3. TypeInv'
  BY <1>0, <1>1, <1>2 DEF TypeInv
<1>4. Attributed' = Attributed
  BY <1>1, <1>2 DEF Attributed
<1>5. RecordsInv' /\ StoryInv'
  BY <1>0, <1>1, <1>2, <1>4, RequestNamed DEF RecordsInv, StoryInv, TypeInv
<1>6. CancelledInv' /\ AliveInv'
  BY <1>0, <1>1, <1>2, <1>4, RequestNamed DEF CancelledInv, AliveInv, TypeInv, Attributed
<1>7. MayLive' \subseteq MayLive
  BY <1>0, <1>1, <1>2 DEF MayLive, Live, Ended
<1>8. ApartInv' /\ SeenInv'
  BY <1>0, <1>1, <1>2, <1>7 DEF ApartInv, Apart, SeenInv, MayLive
<1>9. BehindInv'
  BY <1>0, <1>1, <1>2 DEF BehindInv, TypeInv
<1> QED BY <1>3, <1>5, <1>6, <1>8, <1>9 DEF IInv

LEMMA ParentChangesSound ==
    ASSUME DelegationAssumption, IInv, ParentChanges
    PROVE  IInv'
<1>0. /\ TypeInv /\ RecordsInv /\ StoryInv /\ CancelledInv
      /\ AliveInv /\ ApartInv /\ SeenInv /\ BehindInv
  BY DEF IInv
<1>1. /\ parent' \in [revoked : BOOLEAN, over : BOOLEAN]
      /\ parent.revoked => parent'.revoked
      /\ UNCHANGED <<child, alive, envelope, initial, submitted, inbox, op, reconciled>>
  BY <1>0 DEF ParentChanges, TypeInv
<1>2. TypeInv'
  BY <1>0, <1>1 DEF TypeInv
<1>3. RecordsInv' /\ StoryInv'
  BY <1>0, <1>1 DEF RecordsInv, StoryInv, Attributed
<1>4. CancelledInv' /\ AliveInv' /\ SeenInv' /\ BehindInv'
  BY <1>0, <1>1 DEF CancelledInv, AliveInv, SeenInv, BehindInv, Attributed, MayLive, Live
<1>5. ApartInv'
  BY <1>0, <1>1 DEF ApartInv, Apart, MayLive, Live
<1> QED BY <1>2, <1>3, <1>4, <1>5 DEF IInv

LEMMA NextSound == DelegationAssumption /\ IInv /\ [Next]_vars => IInv'
<1> SUFFICES ASSUME DelegationAssumption, IInv, [Next]_vars PROVE IInv'
  OBVIOUS
<1>1. ASSUME NEW q \in Request, AdmitCalled(q) PROVE IInv'
  BY <1>1, AdmitCalledSound
<1>2. CASE AdmitKnown
  BY <1>2, AdmitKnownSound
<1>3. CASE AdmitNew
  BY <1>3, AdmitNewSound
<1>4. CASE AdmitRejected \/ CoordinatorRefuses
  BY <1>4, OpEnds DEF AdmitRejected, CoordinatorRefuses, At, Reject
<1>5. ASSUME NEW w \in Workspace, Allocated(w) PROVE IInv'
  BY <1>5, AllocatedSound
<1>6. CASE CoordinatorAdmits
  BY <1>6, CoordinatorAdmitsSound
<1>7. CASE RecordAdmission
  BY <1>7, RecordAdmissionSound
<1>8. CASE QueueInitial
  BY <1>8, QueueInitialSound
<1>9. ASSUME NEW c \in Child, NEW artifacts \in SUBSET Child, HandoffCalled(c, artifacts)
      PROVE  IInv'
  BY <1>9, HandoffCalledSound
<1>10. CASE RecoverHandoffsCalled
  BY <1>10, RecoverHandoffsCalledSound
<1>11. ASSUME NEW c \in Child, ForwardSubmittedResult(c) PROVE IInv'
  BY <1>11, ForwardSound
<1>12. CASE ForwardRefused
  BY <1>12, OpEnds DEF ForwardRefused, At
<1>13. CASE ReconcileCalled
  BY <1>13, ReconcileCalledSound
<1>14. ASSUME NEW c \in Child, RevokeChild(c) PROVE IInv'
  BY <1>14, RevokeChildSound
<1>15. CASE CancelUnstarted
  BY <1>15, CancelUnstartedSound
<1>16. CASE ReleaseUnstarted
  BY <1>16, ReleaseUnstartedSound
<1>17. CASE ReconcileDone
  BY <1>17, ReconcileDoneSound
<1>18. ASSUME NEW c \in Child, Launch(c) \/ Identify(c) \/ Finish(c) PROVE IInv'
  BY <1>18, LaunchSound, IdentifySound, FinishSound
<1>19. CASE ParentChanges
  BY <1>19, ParentChangesSound
<1>20. CASE OperationLost
  BY <1>20, OpEnds DEF OperationLost
<1>21. CASE UNCHANGED vars
  <2>1. UNCHANGED <<parent, child, alive, envelope, initial, submitted, inbox, op, reconciled>>
    BY <1>21 DEF vars
  <2>2. TypeInv' /\ RecordsInv' /\ StoryInv'
    BY <2>1 DEF IInv, TypeInv, RecordsInv, StoryInv, Attributed
  <2>3. CancelledInv' /\ AliveInv' /\ BehindInv'
    BY <2>1 DEF IInv, CancelledInv, AliveInv, BehindInv, Attributed
  <2>4. ApartInv' /\ SeenInv'
    BY <2>1 DEF IInv, ApartInv, Apart, SeenInv, MayLive, Live
  <2> QED BY <2>2, <2>3, <2>4 DEF IInv
<1> QED BY <1>1, <1>2, <1>3, <1>4, <1>5, <1>6, <1>7, <1>8, <1>9, <1>10, <1>11, <1>12, <1>13,
           <1>14, <1>15, <1>16, <1>17, <1>18, <1>19, <1>20, <1>21 DEF Next

-----------------------------------------------------------------------------
\* What the invariant says.

LEMMA InvApart == IInv => ChildrenApart
<1> SUFFICES ASSUME IInv, NEW c \in Attributed, NEW k \in Attributed, c # k, Live(c), Live(k)
             PROVE  \/ Named(EnvelopeOf(c), k) \/ Named(EnvelopeOf(k), c)
                    \/ /\ EnvelopeOf(c).paths \cap EnvelopeOf(k).paths = {}
                       /\ child[c].place # child[k].place
  BY DEF ChildrenApart
<1>1. c \in MayLive /\ k \in MayLive
  BY DEF MayLive, Attributed
<1>2. EnvelopeOf(c) = child[c].intent /\ EnvelopeOf(k) = child[k].intent
  BY DEF IInv, RecordsInv, EnvelopeOf, Attributed
<1> QED BY <1>1, <1>2 DEF IInv, ApartInv, Apart, Named

LEMMA InvAtWork == IInv => OneAtWork
<1> SUFFICES ASSUME IInv, Delegates, NEW c \in alive, NEW k \in alive, c # k
             PROVE  EnvelopeOf(c).paths \cap EnvelopeOf(k).paths = {}
  BY DEF OneAtWork
<1>1. /\ ~parent.revoked /\ c \in Attributed /\ k \in Attributed
  BY DEF Delegates, IInv, RecordsInv
<1>2. c \in MayLive /\ k \in MayLive
  BY <1>1 DEF MayLive, Attributed
<1>3. k \notin child[c].intent.after /\ c \notin child[k].intent.after
  BY <1>1 DEF IInv, BehindInv
<1>4. EnvelopeOf(c) = child[c].intent /\ EnvelopeOf(k) = child[k].intent
  BY <1>1 DEF IInv, RecordsInv, EnvelopeOf, Attributed
<1> QED BY <1>2, <1>3, <1>4 DEF IInv, ApartInv, Apart

LEMMA InvStory == IInv => OneStory /\ CancelledTogether
<1>1. IInv => OneStory
  BY DEF IInv, RecordsInv, StoryInv, OneStory
<1>2. IInv => CancelledTogether
  BY DEF IInv, CancelledInv, CancelledTogether
<1> QED BY <1>1, <1>2

\* The invariant holds throughout.
THEOREM Invariant == ASSUME DelegationAssumption PROVE Spec => []IInv
<1>1. Init => IInv
  BY InitSound
<1>2. IInv /\ [Next]_vars => IInv'
  BY NextSound
<1> QED BY <1>1, <1>2, PTL DEF Spec

(***************************************************************************)
(* Children the ledger takes for live never share a file or a workspace,   *)
(* unless one was admitted to wait behind the other: for any requests,     *)
(* repeated admissions, crashes and cancellations (runtime/delegation.ts). *)
(***************************************************************************)
THEOREM ChildrenApartHolds == ASSUME DelegationAssumption PROVE Spec => []ChildrenApart
<1>1. IInv => ChildrenApart
  BY InvApart
<1> QED BY <1>1, Invariant, PTL

(***************************************************************************)
(* While the parent may delegate no two of its children are at work on one *)
(* file: whoever waits behind another is launched after the other's end,   *)
(* which is on record only when its worker is gone.                        *)
(***************************************************************************)
THEOREM OneAtWorkHolds == ASSUME DelegationAssumption PROVE Spec => []OneAtWork
<1>1. IInv => OneAtWork
  BY InvAtWork
<1> QED BY <1>1, Invariant, PTL

(***************************************************************************)
(* Delegation keeps what it promises: the two above; the records of an     *)
(* admission and what the parent hears agree; and once a cancellation was  *)
(* reconciled every child has lost its authority or has ended.             *)
(***************************************************************************)
THEOREM DelegatedSafelyHolds == ASSUME DelegationAssumption PROVE Spec => []DelegatedSafely
<1>1. IInv => DelegatedSafely
  BY InvApart, InvAtWork, InvStory DEF DelegatedSafely
<1> QED BY <1>1, Invariant, PTL

-----------------------------------------------------------------------------
\* Consultations: the inductive invariant.

Effects == Consulting!Packet \X Consulting!Effect
Asking == {"intend", "dispatch", "dispatched", "lost", "submit", "plan", "resume", "resumed", "astray"}
ConsultState == [step : Asking \cup {"idle"}, of : Consulting!Packet \cup {None}]

ConsultTypeInv ==
    /\ requested \subseteq Consulting!Packet
    /\ result \in [Consulting!Packet -> {"completed", "failed", None}]
    /\ effect \in [Effects -> {"none", "intended", "completed", "uncertain"}]
    /\ called \in [Effects -> Nat]
    /\ at \in ConsultState
    /\ at.step = "idle" => at = Consulting!Idle
    /\ at.step # "idle" => at.of \in Consulting!Packet

\* What is under way was not called before, but for what it has passed; and every call has its intent.
UnderWay(c, steps) == at.of = c /\ at.step \in steps

StageInv(c) ==
    /\ UnderWay(c, Asking) => c \in requested
    /\ called[<<c, "dispatch">>] <= 1 /\ called[<<c, "resume">>] <= 1
    /\ c \notin requested \/ UnderWay(c, {"intend", "dispatch"}) => called[<<c, "dispatch">>] = 0
    /\ c \notin requested \/ UnderWay(c, Asking \ {"resumed", "astray"}) => called[<<c, "resume">>] = 0
    /\ UnderWay(c, Asking \ {"intend", "dispatch"}) => called[<<c, "dispatch">>] = 1
    /\ UnderWay(c, {"plan", "resume", "resumed", "astray"}) \/ called[<<c, "resume">>] > 0 =>
          result[c] = "completed" /\ called[<<c, "dispatch">>] = 1
    /\ UnderWay(c, {"dispatch"}) \/ called[<<c, "dispatch">>] > 0 => effect[<<c, "dispatch">>] # "none"
    /\ UnderWay(c, {"resume"}) \/ called[<<c, "resume">>] > 0 => effect[<<c, "resume">>] # "none"

ConsultInv == ConsultTypeInv /\ \A c \in Consulting!Packet : StageInv(c)

-----------------------------------------------------------------------------
LEMMA PairsApart ==
    ASSUME NEW c \in Consulting!Packet, NEW d \in Consulting!Packet
    PROVE  /\ <<c, "dispatch">> \in Effects /\ <<c, "resume">> \in Effects /\ <<c, "dispatch">> # <<d, "resume">>
           /\ c # d => <<c, "dispatch">> # <<d, "dispatch">> /\ <<c, "resume">> # <<d, "resume">>
  BY DEF Effects, Consulting!Effect

\* The consultation in progress goes on to another step.
LEMMA StepTyped ==
    ASSUME ConsultTypeInv, NEW step \in Asking, at.step # "idle", Consulting!Go(step)
    PROVE  at' \in ConsultState /\ at'.step = step /\ at'.of = at.of /\ at.of \in Consulting!Packet
  BY DEF ConsultTypeInv, ConsultState, Consulting!Go

LEMMA ConsultBegins ==
    ASSUME ConsultInv, NEW c \in Consulting!Packet, Consulting!Consult(c)
    PROVE  ConsultInv'
<1>1. /\ at = Consulting!Idle /\ UNCHANGED <<result, effect, called>>
      /\ \/ requested' = requested /\ at' = at
         \/ /\ c \notin requested /\ requested' = requested \cup {c}
            /\ at' = [step |-> "intend", of |-> c]
  BY DEF Consulting!Consult
<1>2. at.step = "idle"
  BY <1>1 DEF Consulting!Idle
<1>3. ConsultTypeInv'
  BY <1>1 DEF ConsultInv, ConsultTypeInv, ConsultState, Asking
<1>4. ASSUME NEW d \in Consulting!Packet PROVE StageInv(d)'
  <2>1. StageInv(d) /\ StageInv(c) BY DEF ConsultInv
  <2> QED BY <1>1, <1>2, <2>1, PairsApart DEF StageInv, UnderWay, Asking
<1> QED BY <1>3, <1>4 DEF ConsultInv

LEMMA ConsultIntends ==
    ASSUME ConsultInv, NEW kind, NEW from, NEW to, Consulting!Intend(kind, from, to),
           \/ kind = "dispatch" /\ from = "intend" /\ to = "dispatch"
           \/ kind = "resume" /\ from = "plan" /\ to = "resume"
    PROVE  ConsultInv'
<1>1. /\ at.step = from /\ Consulting!Go(to) /\ UNCHANGED <<requested, result, called>>
      /\ effect' = [effect EXCEPT ![<<at.of, kind>>] = "intended"]
  BY DEF Consulting!Intend
<1>2. ConsultTypeInv /\ to \in Asking /\ at.step # "idle"
  BY <1>1 DEF ConsultInv, Asking
<1>3. at' \in ConsultState /\ at'.step = to /\ at'.of = at.of /\ at.of \in Consulting!Packet
  BY <1>1, <1>2, StepTyped
<1>4. ConsultTypeInv'
  <2>1. effect' \in [Effects -> {"none", "intended", "completed", "uncertain"}]
    BY <1>1, <1>2 DEF ConsultTypeInv
  <2>2. at'.step # "idle"
    BY <1>2, <1>3 DEF Asking
  <2> QED BY <1>1, <1>2, <1>3, <2>1, <2>2 DEF ConsultTypeInv
<1>5. ASSUME NEW d \in Consulting!Packet PROVE StageInv(d)'
  <2>1. StageInv(d) BY DEF ConsultInv
  <2> QED BY <1>1, <1>2, <1>3, <2>1, PairsApart DEF StageInv, UnderWay, Asking, ConsultTypeInv
<1> QED BY <1>4, <1>5 DEF ConsultInv

LEMMA ConsultCalls ==
    ASSUME ConsultInv, NEW kind, NEW from, NEW to, NEW unknown, Consulting!Call(kind, from, to, unknown),
           \/ kind = "dispatch" /\ from = "dispatch" /\ to = "dispatched" /\ unknown = "lost"
           \/ kind = "resume" /\ from = "resume" /\ to = "resumed" /\ unknown = "astray"
    PROVE  ConsultInv'
<1>1. PICK next \in {to, unknown} :
        /\ at.step = from /\ Consulting!Go(next) /\ UNCHANGED <<requested, result, effect>>
        /\ called' = [called EXCEPT ![<<at.of, kind>>] = @ + 1]
  BY DEF Consulting!Call
<1>2. ConsultTypeInv /\ next \in Asking /\ at.step # "idle"
  BY <1>1 DEF ConsultInv, Asking
<1>3. at' \in ConsultState /\ at'.step = next /\ at'.of = at.of /\ at.of \in Consulting!Packet
  BY <1>1, <1>2, StepTyped
<1>4. ConsultTypeInv'
  <2>1. called' \in [Effects -> Nat]
    <3>1. <<at.of, kind>> \in Effects BY <1>3, PairsApart
    <3> QED BY <1>1, <1>2, <3>1 DEF ConsultTypeInv
  <2>2. at'.step # "idle"
    BY <1>2, <1>3 DEF Asking
  <2> QED BY <1>1, <1>2, <1>3, <2>1, <2>2 DEF ConsultTypeInv
<1>5. ASSUME NEW d \in Consulting!Packet PROVE StageInv(d)'
  <2>1. StageInv(d) BY DEF ConsultInv
  <2> QED BY <1>1, <1>2, <1>3, <2>1, PairsApart DEF StageInv, UnderWay, Asking, ConsultTypeInv
<1> QED BY <1>4, <1>5 DEF ConsultInv

LEMMA ConsultReceipts ==
    ASSUME ConsultInv, NEW kind \in {"dispatch", "resume"}, NEW from, NEW as \in {"completed", "uncertain"}, NEW to,
           Consulting!Receipt(kind, from, as, to), from \in {"dispatched", "lost", "resumed", "astray"},
           to = "idle" \/ (to = "submit" /\ from = "dispatched")
    PROVE  ConsultInv'
<1>1. /\ at.step = from /\ UNCHANGED <<requested, result, called>>
      /\ effect' = [effect EXCEPT ![<<at.of, kind>>] = as]
      /\ at' = Consulting!Idle \/ (to = "submit" /\ from = "dispatched" /\ at' = [at EXCEPT !.step = to])
  BY DEF Consulting!Receipt
<1>2. ConsultTypeInv /\ at.step # "idle" /\ at.of \in Consulting!Packet
  BY <1>1 DEF ConsultInv, ConsultTypeInv
<1>3. /\ at' \in ConsultState
      /\ \/ at'.step = "idle" /\ at' = Consulting!Idle
         \/ from = "dispatched" /\ at'.step = "submit" /\ at'.of = at.of
  BY <1>1, <1>2 DEF ConsultTypeInv, ConsultState, Consulting!Idle, Asking
<1>4. ConsultTypeInv'
  BY <1>1, <1>2, <1>3 DEF ConsultTypeInv
<1>5. ASSUME NEW d \in Consulting!Packet PROVE StageInv(d)'
  <2>1. StageInv(d) BY DEF ConsultInv
  <2>2. effect'[<<d, "dispatch">>] \in {effect[<<d, "dispatch">>], as}
    BY <1>1, <1>2, PairsApart DEF ConsultTypeInv
  <2>3. effect'[<<d, "resume">>] \in {effect[<<d, "resume">>], as}
    BY <1>1, <1>2, PairsApart DEF ConsultTypeInv
  <2> QED BY <1>1, <1>3, <2>1, <2>2, <2>3 DEF StageInv, UnderWay, Asking
<1> QED BY <1>4, <1>5 DEF ConsultInv

LEMMA ConsultSubmits ==
    ASSUME ConsultInv, Consulting!Submit
    PROVE  ConsultInv'
<1>1. /\ at.step = "submit" /\ UNCHANGED <<requested, effect, called>>
      /\ \/ /\ result' = [result EXCEPT ![at.of] = "completed"] /\ at' = [at EXCEPT !.step = "plan"]
         \/ /\ result' = [result EXCEPT ![at.of] = "failed"] /\ at' = Consulting!Idle
         \/ result' = result /\ at' = Consulting!Idle
  BY DEF Consulting!Submit
<1>2. ConsultTypeInv /\ at.of \in Consulting!Packet
  BY <1>1 DEF ConsultInv, ConsultTypeInv
<1>3. /\ at' \in ConsultState
      /\ \/ at'.step = "idle" /\ at' = Consulting!Idle
         \/ at'.step = "plan" /\ at'.of = at.of /\ result'[at.of] = "completed"
  BY <1>1, <1>2 DEF ConsultTypeInv, ConsultState, Consulting!Idle, Asking
<1>4. ConsultTypeInv'
  BY <1>1, <1>2, <1>3 DEF ConsultTypeInv
<1>5. ASSUME NEW d \in Consulting!Packet PROVE StageInv(d)'
  <2>1. StageInv(d) BY DEF ConsultInv
  <2>2. d # at.of => result'[d] = result[d] BY <1>1, <1>2 DEF ConsultTypeInv
  <2>3. called[<<d, "resume">>] \in Nat BY <1>2, PairsApart DEF ConsultTypeInv
  <2> QED BY <1>1, <1>3, <2>1, <2>2, <2>3 DEF StageInv, UnderWay, Asking
<1> QED BY <1>4, <1>5 DEF ConsultInv

LEMMA ConsultBreaks ==
    ASSUME ConsultInv, Consulting!Broken
    PROVE  ConsultInv'
<1>1. at' = Consulting!Idle /\ at'.step = "idle" /\ UNCHANGED <<requested, result, effect, called>>
  BY DEF Consulting!Broken, Consulting!Idle
<1>2. ConsultTypeInv'
  BY <1>1 DEF ConsultInv, ConsultTypeInv, ConsultState, Consulting!Idle
<1>3. ASSUME NEW d \in Consulting!Packet PROVE StageInv(d)'
  <2>1. StageInv(d) BY DEF ConsultInv
  <2> QED BY <1>1, <2>1 DEF StageInv, UnderWay, Asking
<1> QED BY <1>2, <1>3 DEF ConsultInv

LEMMA ConsultInitSound == Consulting!Init => ConsultInv
<1> SUFFICES ASSUME Consulting!Init PROVE ConsultInv
  OBVIOUS
<1>1. ConsultTypeInv
  BY DEF Consulting!Init, ConsultTypeInv, ConsultState, Consulting!Idle, Effects
<1>2. ASSUME NEW d \in Consulting!Packet PROVE StageInv(d)
  BY PairsApart DEF Consulting!Init, StageInv, UnderWay, Asking, Effects, Consulting!Idle
<1> QED BY <1>1, <1>2 DEF ConsultInv

LEMMA ConsultNextSound == ConsultInv /\ [Consulting!Next]_(Consulting!vars) => ConsultInv'
<1> SUFFICES ASSUME ConsultInv, [Consulting!Next]_(Consulting!vars) PROVE ConsultInv'
  OBVIOUS
<1>1. CASE Consulting!ConsultStep
  <2>1. CASE Consulting!Intend("dispatch", "intend", "dispatch") \/ Consulting!Intend("resume", "plan", "resume")
    BY <2>1, ConsultIntends
  <2>2. CASE \/ Consulting!Call("dispatch", "dispatch", "dispatched", "lost")
             \/ Consulting!Call("resume", "resume", "resumed", "astray")
    BY <2>2, ConsultCalls
  <2>3. CASE \/ Consulting!Receipt("dispatch", "dispatched", "completed", "submit")
             \/ Consulting!Receipt("dispatch", "lost", "uncertain", "idle")
             \/ Consulting!Receipt("resume", "resumed", "completed", "idle")
             \/ Consulting!Receipt("resume", "astray", "uncertain", "idle")
    BY <2>3, ConsultReceipts
  <2> QED BY <1>1, <2>1, <2>2, <2>3, ConsultSubmits DEF Consulting!ConsultStep
<1>2. CASE UNCHANGED Consulting!vars
  BY <1>2 DEF Consulting!vars, ConsultInv, ConsultTypeInv, StageInv, UnderWay
<1> QED BY <1>1, <1>2, ConsultBegins, ConsultBreaks DEF Consulting!Next

\* However consultations break off, no senior and no builder is called twice for one, a builder only
\* with advice on record, and what was called without a receipt is listed for recovery.
THEOREM ConsultedOnceHolds ==
    Consulting!Spec => [](Consulting!CalledOnce /\ Consulting!ResumedOnResult /\ Consulting!CutOffListed)
<1>1. Consulting!Init => ConsultInv BY ConsultInitSound
<1>2. ConsultInv /\ [Consulting!Next]_(Consulting!vars) => ConsultInv' BY ConsultNextSound
<1>3. ConsultInv => Consulting!CalledOnce /\ Consulting!ResumedOnResult /\ Consulting!CutOffListed
  <2> SUFFICES ASSUME ConsultInv PROVE Consulting!CalledOnce /\ Consulting!ResumedOnResult /\ Consulting!CutOffListed
    OBVIOUS
  <2>1. ASSUME NEW e \in Effects PROVE called[e] <= 1 /\ (called[e] > 0 => effect[e] # "none")
    <3>1. PICK c \in Consulting!Packet, kind \in Consulting!Effect : e = <<c, kind>>
      BY DEF Effects
    <3>2. StageInv(c) BY DEF ConsultInv
    <3> QED BY <3>1, <3>2 DEF StageInv, Consulting!Effect
  <2>2. Consulting!CalledOnce
    BY <2>1 DEF Consulting!CalledOnce, Effects
  <2>3. Consulting!ResumedOnResult
    BY DEF ConsultInv, StageInv, Consulting!ResumedOnResult
  <2>4. Consulting!CutOffListed
    <3>1. \A e \in Effects : effect[e] \in {"none", "intended", "completed", "uncertain"}
      BY DEF ConsultInv, ConsultTypeInv
    <3> QED BY <2>1, <3>1 DEF Consulting!CutOffListed, Consulting!Recover, Effects
  <2> QED BY <2>2, <2>3, <2>4
<1> QED BY <1>1, <1>2, <1>3, PTL DEF Consulting!Spec

-----------------------------------------------------------------------------
\* Verification loops: the inductive invariant.

Standing == {"idle", "return", "uncertain", "preflight", "save"}
Turning == {"intend", "launch", "turn", "turned", "answered"}
Checking == {"verify", "verifying", "review", "accept"}
LoopSteps == Standing \cup Turning \cup Checking \cup {"phase", "failing", "accepted"}

Reply == {"ready", "blocked", "invalid", "implemented", "pass", "repair", "accepted", "declined"}

LocalState ==
    [at : LoopSteps, phase : Nat, kind : Looping!Kind \cup {None}, round : Nat, before : Nat, after : Nat,
     answer : Reply \cup {None}, checked : Nat, expected : Nat, passes : Seq(Nat), finding : Nat,
     why : {"blocked", "failed", "uncertain", None}]

LoopTypeInv ==
    /\ content \in Nat /\ lock \in BOOLEAN
    /\ disk \in Looping!LoopState \cup {None} /\ mem \in Looping!LoopState
    /\ pc \in LocalState
    /\ launched \in Seq(Looping!Stage) /\ verified \in SUBSET Nat /\ reviewed \in Seq(Nat)
    /\ pc.at \in Turning => pc.kind \in Looping!Kind
    /\ pc.at \in {"turned", "answered"} => pc.answer \in Looping!Answers(pc.kind)
    /\ pc.at = "answered" => pc.answer # "invalid"
    /\ pc.at = "failing" => pc.why \in {"blocked", "failed", "uncertain"}

\* An invocation at work has on record what it knows, but for an acceptance.
Saved == mem.stages = disk.stages /\ mem.done = disk.done /\ mem.stage = disk.stage /\ mem.retry = disk.retry

KnownInv ==
    /\ pc.at \notin Standing =>
          /\ disk # None /\ Saved /\ ~disk.retry
          /\ disk.status = "running" /\ mem.status = "running"
    /\ pc.at = "save" =>
          /\ mem.stage = None /\ ~mem.retry /\ mem.status = "running"
          /\ mem.stages = launched
    /\ pc.at = "preflight" => mem.stage = None /\ mem.stages = launched /\ launched = <<>>
    /\ pc.at = "uncertain" => disk # None

\* Every turn has a receipt, but the one that is under way and the one after which the loop is cut off.
LaunchInv ==
    /\ disk = None => launched = <<>>
    /\ disk # None /\ disk.retry => launched = <<>>
    /\ disk # None /\ ~Looping!CutOff => launched = disk.stages
    /\ pc.at \in {"launch", "turn", "turned"} => disk.stage = Looping!Id
    /\ pc.at = "launch" => launched = disk.stages
    /\ pc.at \in {"turn", "turned"} => launched = Append(disk.stages, Looping!Id)
    /\ pc.at \notin Standing \cup {"launch", "turn", "turned", "failing"} => disk.stage = None
    /\ pc.at = "failing" => pc.why = "uncertain" \/ launched = disk.stages

\* What is worked on is not done.
DoneInv == pc.at \in Turning \cup Checking => pc.phase \notin mem.done

\* What was passed was reviewed, as often; what is to be accepted, by as many as are asked for.
Reviews(x) == Looping!Count(x, reviewed)
Agreed(x) == Reviews(x) >= RequiredPasses /\ (Looping!Lean => x \in verified)

AgreedInv ==
    /\ mem.accepted # None => Agreed(mem.accepted)
    /\ disk # None /\ disk.accepted # None => Agreed(disk.accepted)

PassesInv ==
    /\ \A x \in Nat : Looping!Count(x, pc.passes) <= Reviews(x)
    /\ pc.at = "answered" /\ pc.kind = "review" /\ pc.answer = "pass" =>
          \A x \in Nat : Looping!Count(x, Append(pc.passes, pc.after)) <= Reviews(x)
    /\ pc.at = "accept" => Len(pc.passes) >= RequiredPasses

AskedInv ==
    /\ pc.at \in {"review", "accept"} \/ (pc.at \in Turning /\ pc.kind = "review") =>
          (Looping!Lean => pc.checked \in verified)
    /\ pc.at \in Turning /\ pc.kind = "manager_accept" => ~Looping!Lean /\ Reviews(pc.expected) >= RequiredPasses

LoopInv == LoopTypeInv /\ KnownInv /\ LaunchInv /\ DoneInv /\ AgreedInv /\ PassesInv /\ AskedInv

-----------------------------------------------------------------------------
-----------------------------------------------------------------------------
\* Counts over one more element, and over equal ones.
LEMMA CountMore ==
    ASSUME NEW S, NEW s \in Seq(S), NEW x, NEW y
    PROVE  /\ Looping!Count(x, s) \in Nat
           /\ Looping!Count(x, Append(s, y)) = IF x = y THEN Looping!Count(x, s) + 1 ELSE Looping!Count(x, s)
<1> DEFINE I == {i \in DOMAIN s : s[i] = x}
           J == {i \in DOMAIN Append(s, y) : Append(s, y)[i] = x}
<1>1. DOMAIN s = 1 .. Len(s) /\ Len(s) \in Nat /\ DOMAIN Append(s, y) = 1 .. Len(s) + 1
  OBVIOUS
<1>2. IsFiniteSet(1 .. Len(s)) /\ I \in SUBSET (1 .. Len(s))
  BY <1>1, FS_Interval
<1>3. IsFiniteSet(I) /\ Cardinality(I) \in Nat
  BY <1>2, FS_Subset, FS_CardinalityType
<1>4. J = IF x = y THEN I \cup {Len(s) + 1} ELSE I
  BY <1>1
<1>5. Len(s) + 1 \notin I
  BY <1>1
<1>6. Cardinality(J) = IF x = y THEN Cardinality(I) + 1 ELSE Cardinality(I)
  BY <1>3, <1>4, <1>5, FS_AddElement
<1>7. Looping!Count(x, s) = Cardinality(I) /\ Looping!Count(x, Append(s, y)) = Cardinality(J)
  BY DEF Looping!Count, Looping!Cardinality, Cardinality
<1> QED BY <1>3, <1>6, <1>7

LEMMA CountAll ==
    ASSUME NEW S, NEW s \in Seq(S), NEW x, \A i \in DOMAIN s : s[i] = x
    PROVE  Looping!Count(x, s) = Len(s)
<1> DEFINE I == {i \in DOMAIN s : s[i] = x}
<1>1. DOMAIN s = 1 .. Len(s) /\ Len(s) \in Nat
  OBVIOUS
<1>2. I = 1 .. Len(s)
  BY <1>1
<1>3. Cardinality(1 .. Len(s)) = Len(s)
  BY <1>1, FS_Interval
<1>4. Looping!Count(x, s) = Cardinality(I)
  BY DEF Looping!Count, Looping!Cardinality, Cardinality
<1> QED BY <1>2, <1>3, <1>4

LEMMA CountNone == \A x : Looping!Count(x, <<>>) = 0
<1> SUFFICES ASSUME NEW x PROVE Looping!Count(x, <<>>) = 0
  OBVIOUS
<1>1. {i \in DOMAIN <<>> : <<>>[i] = x} = {}
  OBVIOUS
<1>2. Looping!Count(x, <<>>) = Cardinality({})
  BY <1>1 DEF Looping!Count, Looping!Cardinality, Cardinality
<1> QED BY <1>2, FS_EmptySet

LEMMA FreshTyped == Looping!Fresh \in Looping!LoopState /\ Looping!Idle \in LocalState
  BY DEF Looping!Fresh, Looping!Idle, Looping!LoopState, LocalState, LoopSteps, Standing

\* What nobody reviewed or verified anew stays agreed on as it was.
LEMMA ReviewsStay ==
    ASSUME UNCHANGED <<verified, reviewed>>
    PROVE  \A x : Reviews(x)' = Reviews(x) /\ Agreed(x)' = Agreed(x)
  BY DEF Reviews, Agreed, Looping!Count, Looping!Lean

\* An invocation is left, by itself or by force, with something on record that stands.
LEMMA LeftSound ==
    ASSUME LoopInv, mem' = Looping!Fresh, pc' = Looping!Idle, Looping!History,
           content' \in Nat, lock' \in BOOLEAN, disk' \in Looping!LoopState \cup {None},
           disk' = None => launched = <<>>,
           disk' # None =>
               /\ disk'.retry => launched = <<>>
               /\ disk'.stage = None /\ disk'.status # "uncertain" => launched = disk'.stages
               /\ disk'.accepted # None => Agreed(disk'.accepted)
    PROVE  LoopInv'
<1>1. /\ pc'.at = "idle" /\ pc'.passes = <<>> /\ mem'.accepted = None
      /\ UNCHANGED <<launched, verified, reviewed>>
  BY DEF Looping!Idle, Looping!Fresh, Looping!History
<1>2. pc'.at \in Standing /\ pc'.at \notin Turning \cup Checking /\ pc'.at \notin {"failing", "save", "preflight", "uncertain"}
  BY <1>1 DEF Standing, Turning, Checking
<1>3. LoopTypeInv'
  BY <1>1, <1>2, FreshTyped DEF LoopInv, LoopTypeInv, Turning
<1>4. KnownInv'
  BY <1>1, <1>2 DEF KnownInv
<1>5. LaunchInv'
  BY <1>1, <1>2 DEF LaunchInv, Looping!CutOff
<1>6. DoneInv'
  BY <1>2 DEF DoneInv
<1>7. AgreedInv'
  BY <1>1, ReviewsStay DEF AgreedInv
<1>8. PassesInv'
  <2>1. \A x \in Nat : Looping!Count(x, pc.passes)' = 0
    BY <1>1, CountNone DEF Looping!Count
  <2>2. \A x \in Nat : Reviews(x)' \in Nat
    BY <1>1, CountMore, ReviewsStay DEF Reviews, LoopInv, LoopTypeInv
  <2> QED BY <1>1, <2>1, <2>2 DEF PassesInv
<1>9. AskedInv'
  BY <1>1, <1>2 DEF AskedInv
<1> QED BY <1>3, <1>4, <1>5, <1>6, <1>7, <1>8, <1>9 DEF LoopInv

\* Whatever is on record stands.
LEMMA RecordStands ==
    ASSUME LoopInv, disk # None
    PROVE  /\ disk \in Looping!LoopState
           /\ disk.retry => launched = <<>>
           /\ disk.stage = None /\ disk.status # "uncertain" => launched = disk.stages
           /\ disk.accepted # None => Agreed(disk.accepted)
  BY DEF LoopInv, LoopTypeInv, LaunchInv, AgreedInv, Looping!CutOff

LEMMA ReturnSound == ASSUME LoopInv, Looping!Return PROVE LoopInv'
  BY LeftSound, RecordStands DEF Looping!Return, Looping!Leave, LoopInv, LoopTypeInv, LaunchInv

LEMMA UncertainSound == ASSUME Looping!LoopAssumption, LoopInv, Looping!Uncertain PROVE LoopInv'
<1>1. disk # None /\ disk' = [disk EXCEPT !.status = "uncertain"] /\ Looping!Leave /\ Looping!History /\ content' = content
  BY DEF Looping!Uncertain, LoopInv, KnownInv
<1>2. /\ disk' \in Looping!LoopState /\ disk'.status = "uncertain"
      /\ disk'.retry = disk.retry /\ disk'.accepted = disk.accepted
  BY <1>1, RecordStands DEF Looping!LoopState
<1>3. disk' # None
  BY <1>2 DEF Looping!LoopAssumption
<1> QED BY <1>1, <1>2, <1>3, LeftSound, RecordStands DEF Looping!Leave, LoopInv, LoopTypeInv

\* An invocation at work goes on, with nothing more on record.
LEMMA MovesOn ==
    ASSUME LoopInv, UNCHANGED <<disk, launched, reviewed, lock>>,
           content' \in Nat, mem' \in Looping!LoopState, pc' \in LocalState,
           verified \subseteq verified', verified' \in SUBSET Nat,
           pc.at \notin Standing, pc'.at \notin Standing, pc'.at \notin {"launch", "turn", "turned", "answered"},
           \/ mem' = mem
           \/ \E x \in Nat : mem' = [mem EXCEPT !.accepted = x] /\ Agreed(x)',
           pc'.at = "intend" => pc'.kind \in Looping!Kind,
           IF pc'.at = "failing" THEN pc'.why = "uncertain" \/ (pc'.why \in {"blocked", "failed"} /\ launched = disk.stages)
                                 ELSE disk.stage = None,
           pc'.at \in Turning \cup Checking => pc'.phase \notin mem.done,
           \A x \in Nat : Looping!Count(x, pc'.passes) <= Reviews(x),
           pc'.at = "accept" => Len(pc'.passes) >= RequiredPasses,
           AskedInv'
    PROVE  LoopInv'
<1>1. \A x \in Nat : Reviews(x)' = Reviews(x) /\ (Agreed(x) => Agreed(x)')
  BY DEF Reviews, Agreed, Looping!Count, Looping!Lean
<1>2. /\ mem'.stages = mem.stages /\ mem'.done = mem.done /\ mem'.stage = mem.stage
      /\ mem'.retry = mem.retry /\ mem'.status = mem.status
      /\ mem'.accepted = mem.accepted \/ \E x \in Nat : mem'.accepted = x /\ Agreed(x)'
  <2>1. mem \in Looping!LoopState
    BY DEF LoopInv, LoopTypeInv
  <2>2. CASE mem' = mem
    BY <2>2
  <2>3. CASE \E x \in Nat : mem' = [mem EXCEPT !.accepted = x] /\ Agreed(x)'
    <3>1. PICK x \in Nat : mem' = [mem EXCEPT !.accepted = x] /\ Agreed(x)'
      BY <2>3
    <3> QED BY <2>1, <3>1 DEF Looping!LoopState
  <2> QED BY <2>2, <2>3
<1>3. disk # None /\ Saved /\ ~disk.retry /\ disk.status = "running" /\ mem.status = "running"
  BY DEF LoopInv, KnownInv
<1>4. LoopTypeInv'
  BY DEF LoopInv, LoopTypeInv, Turning
<1>5. KnownInv'
  BY <1>2, <1>3 DEF KnownInv, Saved, Standing
<1>6. LaunchInv'
  <2>1. disk.stage = None => launched = disk.stages
    BY <1>3, RecordStands
  <2> QED BY <1>3, <2>1 DEF LaunchInv, Looping!CutOff
<1>7. DoneInv'
  BY <1>2 DEF DoneInv
<1>8. AgreedInv'
  <2>1. disk.accepted # None => disk.accepted \in Nat /\ Agreed(disk.accepted)
    BY <1>3, RecordStands DEF Looping!LoopState
  <2>2. mem.accepted # None => mem.accepted \in Nat /\ Agreed(mem.accepted)
    BY DEF LoopInv, LoopTypeInv, AgreedInv, Looping!LoopState
  <2>3. ASSUME NEW x \in Nat, Agreed(x) PROVE Agreed(x)'
    BY <1>1, <2>3
  <2>4. \A x : disk'.accepted = x /\ x # None => Agreed(x)'
    BY <2>1, <2>3
  <2>5. \A x : mem'.accepted = x /\ x # None => Agreed(x)'
    BY <1>2, <2>2, <2>3
  <2> QED BY <1>3, <2>4, <2>5 DEF AgreedInv
<1>9. PassesInv'
  BY <1>1 DEF PassesInv, Looping!Count
<1> QED BY <1>4, <1>5, <1>6, <1>7, <1>8, <1>9 DEF LoopInv

\* What an invocation at work has on record.
LEMMA AtWork ==
    ASSUME LoopInv, pc.at \notin Standing
    PROVE  /\ disk \in Looping!LoopState /\ disk # None /\ mem \in Looping!LoopState /\ Saved
           /\ ~disk.retry /\ disk.status = "running" /\ mem.status = "running"
           /\ pc \in LocalState /\ content \in Nat /\ verified \in SUBSET Nat
           /\ \A x \in Nat : Looping!Count(x, pc.passes) <= Reviews(x) /\ 0 <= Reviews(x) /\ Reviews(x) \in Nat
           /\ pc.at \notin {"launch", "turn", "turned", "failing"} =>
                  disk.stage = None /\ mem.stage = None /\ launched = disk.stages /\ launched = mem.stages
<1>1. disk # None /\ Saved /\ ~disk.retry /\ disk.status = "running" /\ mem.status = "running"
  BY DEF LoopInv, KnownInv
<1>2. \A x \in Nat : Looping!Count(x, pc.passes) <= Reviews(x) /\ Reviews(x) \in Nat
  BY CountMore DEF LoopInv, LoopTypeInv, PassesInv, Reviews
<1>3. pc.at \notin {"launch", "turn", "turned", "failing"} => disk.stage = None
  BY DEF LoopInv, LaunchInv
<1> QED BY <1>1, <1>2, <1>3, RecordStands DEF LoopInv, LoopTypeInv, Saved

LEMMA LocalTyped == ASSUME LoopInv PROVE pc \in LocalState /\ mem \in Looping!LoopState
  BY DEF LoopInv, LoopTypeInv

LEMMA SkipPhaseSound == ASSUME LoopInv, Looping!SkipPhase PROVE LoopInv'
<1>1. /\ pc.at = "phase" /\ pc' = [pc EXCEPT !.phase = @ + 1]
      /\ UNCHANGED <<disk, mem, launched, verified, reviewed, content, lock>>
  BY DEF Looping!SkipPhase, Looping!Inside, Looping!History
<1>2. pc.at \notin Standing /\ pc.at \notin Turning \cup Checking
  BY <1>1 DEF Standing, Turning, Checking
<1>3. pc' \in LocalState /\ pc'.at = "phase" /\ pc'.passes = pc.passes
  <2>1. pc \in LocalState
    BY LocalTyped
  <2> QED BY <1>1, <2>1 DEF LocalState
<1>4. AskedInv'
  BY <1>2, <1>3 DEF AskedInv, Turning
<1> QED BY <1>1, <1>2, <1>3, <1>4, MovesOn, AtWork DEF Turning, Checking

LEMMA PhaseStartsSound == ASSUME Looping!LoopAssumption, LoopInv, Looping!PhaseStarts PROVE LoopInv'
<1>1. /\ pc.at = "phase" /\ pc.phase \notin mem.done
      /\ UNCHANGED <<disk, mem, launched, verified, reviewed, content, lock>>
      /\ \/ pc' = [pc EXCEPT !.at = "intend", !.kind = "manager_brief", !.round = 0]
         \/ pc' = [pc EXCEPT !.at = "intend", !.kind = "implement", !.round = 0]
         \/ pc' = [pc EXCEPT !.at = "verify", !.round = 0]
  BY DEF Looping!PhaseStarts, Looping!Inside, Looping!History, Looping!NextStage, Looping!Completed, Looping!LoopAssumption
<1>2. pc.at \notin Standing
  BY <1>1 DEF Standing
<1>3. /\ pc' \in LocalState /\ pc'.passes = pc.passes /\ pc'.phase = pc.phase
      /\ (pc'.at = "intend" /\ pc'.kind \in {"manager_brief", "implement"}) \/ pc'.at = "verify"
  <2>1. pc \in LocalState
    BY LocalTyped
  <2>2. CASE pc' = [pc EXCEPT !.at = "verify", !.round = 0]
    BY <2>1, <2>2 DEF LocalState, LoopSteps, Checking
  <2>3. ASSUME NEW k \in {"manager_brief", "implement"}, pc' = [pc EXCEPT !.at = "intend", !.kind = k, !.round = 0]
        PROVE  pc' \in LocalState /\ pc'.passes = pc.passes /\ pc'.phase = pc.phase /\ pc'.at = "intend" /\ pc'.kind = k
    BY <2>1, <2>3 DEF LocalState, LoopSteps, Turning, Looping!Kind
  <2> QED BY <1>1, <2>2, <2>3
<1>4. AskedInv'
  BY <1>3 DEF AskedInv, Turning
<1>5. pc'.at \notin Standing \cup {"launch", "turn", "turned", "answered", "failing", "accept"} /\ (pc'.at = "intend" => pc'.kind \in Looping!Kind)
  BY <1>3 DEF Standing, Looping!Kind
<1> QED BY <1>1, <1>2, <1>3, <1>4, <1>5, MovesOn, AtWork

\* It stops, with a status that is going to be saved.
LEMMA StopSound ==
    ASSUME LoopInv, NEW why \in {"blocked", "failed", "uncertain"}, Looping!Stop(why), pc.at \notin Standing,
           UNCHANGED <<disk, mem, launched, reviewed, lock>>, content' \in Nat,
           verified \subseteq verified', verified' \in SUBSET Nat,
           why = "uncertain" \/ launched = disk.stages
    PROVE  LoopInv'
<1>1. pc' = [pc EXCEPT !.at = "failing", !.why = why]
  BY DEF Looping!Stop
<1>2. pc \in LocalState /\ mem \in Looping!LoopState
  BY LocalTyped
<1>3. pc' \in LocalState /\ pc'.at = "failing" /\ pc'.why = why /\ pc'.passes = pc.passes
  BY <1>1, <1>2 DEF LocalState, LoopSteps
<1>4. pc'.at \notin Standing /\ pc'.at \notin Turning \cup Checking /\ pc'.at \notin {"review", "accept"}
  BY <1>3 DEF Standing, Turning, Checking
<1>5. AskedInv'
  BY <1>4 DEF AskedInv
<1>6. \A x \in Nat : Looping!Count(x, pc'.passes) <= Reviews(x)
  BY <1>3, AtWork
<1> QED BY <1>2, <1>3, <1>4, <1>5, <1>6, MovesOn

LEMMA RoutingRefusesSound == ASSUME LoopInv, Looping!RoutingRefuses PROVE LoopInv'
<1>1. PICK status \in {"blocked", "uncertain"} : Looping!Stop(status)
  BY DEF Looping!RoutingRefuses
<1>2. pc.at = "launch" /\ UNCHANGED <<disk, mem, launched, verified, reviewed, content, lock>>
  BY DEF Looping!RoutingRefuses, Looping!Inside, Looping!History
<1>3. pc.at \notin Standing /\ launched = disk.stages
  BY <1>2 DEF Standing, LoopInv, LaunchInv
<1>4. content' \in Nat /\ verified' \in SUBSET Nat
  BY <1>2, <1>3, AtWork
<1> QED BY <1>1, <1>2, <1>3, <1>4, StopSound

LEMMA VerifyStartsSound == ASSUME LoopInv, Looping!VerifyStarts PROVE LoopInv'
<1>1. /\ pc.at = "verify" /\ pc' = [pc EXCEPT !.at = "verifying", !.checked = content, !.passes = <<>>]
      /\ UNCHANGED <<disk, mem, launched, verified, reviewed, content, lock>>
  BY DEF Looping!VerifyStarts, Looping!Inside, Looping!History, Looping!Captured
<1>2. pc.at \notin Standing /\ pc.at \in Checking
  BY <1>1 DEF Standing, Checking
<1>3. pc \in LocalState /\ content \in Nat /\ verified \in SUBSET Nat /\ mem \in Looping!LoopState /\ disk.stage = None
  BY <1>1, <1>2, AtWork
<1>4. pc' \in LocalState /\ pc'.at = "verifying" /\ pc'.passes = <<>> /\ pc'.phase = pc.phase
  <2>1. pc' = [pc EXCEPT !.at = "verifying", !.checked = content, !.passes = <<>>] /\ pc \in LocalState /\ content \in Nat
    BY <1>1, <1>3
  <2>2. "verifying" \in LoopSteps /\ <<>> \in Seq(Nat)
    BY DEF LoopSteps, Checking
  <2> QED BY <2>1, <2>2 DEF LocalState
<1>5. pc'.at \notin Standing \cup Turning \cup {"review", "accept", "failing"}
  BY <1>4 DEF Standing, Turning
<1>6. AskedInv'
  BY <1>5 DEF AskedInv
<1>7. pc.phase \notin mem.done
  BY <1>2 DEF LoopInv, DoneInv
<1>8. \A x \in Nat : Looping!Count(x, pc'.passes) <= Reviews(x)
  BY <1>2, <1>4, CountNone, AtWork
<1> QED BY <1>1, <1>2, <1>3, <1>4, <1>5, <1>6, <1>7, <1>8, MovesOn DEF Turning

\* On to a turn of a kind.
LEMMA NextStageSound ==
    ASSUME LoopInv, pc.at \notin Standing \cup {"launch", "turn", "turned", "failing"}, UNCHANGED <<disk, mem, launched, reviewed, lock, content>>,
           verified \subseteq verified', verified' \in SUBSET Nat,
           pc' \in LocalState, pc'.at = "intend", pc'.kind \in Looping!Kind, pc'.phase = pc.phase, pc'.passes = pc.passes,
           pc.phase \notin mem.done, AskedInv'
    PROVE  LoopInv'
<1>1. pc'.at \notin Standing \cup {"launch", "turn", "turned", "answered", "failing", "accept"}
  BY DEF Standing
<1>2. mem \in Looping!LoopState /\ content \in Nat /\ disk.stage = None
  BY AtWork
<1>3. \A x \in Nat : Looping!Count(x, pc'.passes) <= Reviews(x)
  BY AtWork
<1> QED BY <1>1, <1>2, <1>3, MovesOn

LEMMA ExpectReviewSound == ASSUME LoopInv, Looping!ExpectReview PROVE LoopInv'
<1>1. /\ pc.at = "review" /\ pc' = [pc EXCEPT !.at = "intend", !.kind = "review", !.expected = content]
      /\ UNCHANGED <<disk, mem, launched, verified, reviewed, content, lock>>
  BY DEF Looping!ExpectReview, Looping!Inside, Looping!History, Looping!Captured
<1>2. pc.at \notin Standing \cup {"launch", "turn", "turned", "failing"} /\ pc.at \in Checking
  BY <1>1 DEF Standing, Checking
<1>3. pc \in LocalState /\ content \in Nat /\ verified \in SUBSET Nat
  BY <1>2, AtWork
<1>4. /\ pc' \in LocalState /\ pc'.at = "intend" /\ pc'.kind = "review" /\ pc'.phase = pc.phase
      /\ pc'.passes = pc.passes /\ pc'.checked = pc.checked
  BY <1>1, <1>3 DEF LocalState, LoopSteps, Turning, Looping!Kind
<1>5. Looping!Lean => pc.checked \in verified
  BY <1>1 DEF LoopInv, AskedInv
<1>6. AskedInv'
  BY <1>1, <1>4, <1>5 DEF AskedInv, Looping!Lean
<1>7. pc.phase \notin mem.done
  BY <1>2 DEF LoopInv, DoneInv
<1>8. pc'.kind \in Looping!Kind
  BY <1>4 DEF Looping!Kind
<1> QED BY <1>1, <1>2, <1>3, <1>4, <1>6, <1>7, <1>8, NextStageSound

\* A repair is asked for, or the loop stops.
LEMMA RepairSound ==
    ASSUME Looping!LoopAssumption, LoopInv, Looping!Repair, pc.at = "verifying", UNCHANGED <<disk, mem, launched, reviewed, lock, content>>,
           verified \subseteq verified', verified' \in SUBSET Nat
    PROVE  LoopInv'
<1>1. pc.at \notin Standing \cup {"launch", "turn", "turned", "failing"} /\ pc.at \in Checking
  BY DEF Standing, Checking
<1>2. pc \in LocalState /\ content \in Nat /\ launched = disk.stages
  BY <1>1, AtWork
<1>3. CASE \E why \in {"blocked", "failed"} : Looping!Stop(why)
  BY <1>1, <1>2, <1>3, StopSound
<1>4. CASE pc' = [pc EXCEPT !.at = "intend", !.kind = "repair", !.round = pc.round + 1]
  <2>1. /\ pc' \in LocalState /\ pc'.at = "intend" /\ pc'.kind = "repair" /\ pc'.phase = pc.phase
        /\ pc'.passes = pc.passes
    <3>1. pc.round + 1 \in Nat
      BY <1>2 DEF LocalState
    <3> QED BY <1>2, <1>4, <3>1 DEF LocalState, LoopSteps, Turning, Looping!Kind
  <2>2. AskedInv'
    BY <2>1 DEF AskedInv
  <2>3. pc.phase \notin mem.done
    BY <1>1 DEF LoopInv, DoneInv
  <2>4. pc'.kind \in Looping!Kind
    BY <2>1 DEF Looping!Kind
  <2> QED BY <1>1, <1>2, <2>1, <2>2, <2>3, <2>4, NextStageSound
<1> QED BY <1>3, <1>4 DEF Looping!Repair, Looping!NextStage

LEMMA VerifyEndsSound == ASSUME Looping!LoopAssumption, LoopInv, NEW passed \in BOOLEAN, Looping!VerifyEnds(passed) PROVE LoopInv'
<1>1. /\ pc.at = "verifying" /\ UNCHANGED <<disk, mem, launched, reviewed, content, lock>>
      /\ verified' = IF passed /\ content = pc.checked THEN verified \cup {content} ELSE verified
      /\ IF Looping!OnlyChecks THEN Looping!VerifiedForManager(passed) ELSE Looping!Stop("failed")
  BY DEF Looping!VerifyEnds, Looping!Inside, Looping!Captured
<1>2. pc.at \notin Standing /\ pc.at \in Checking
  BY <1>1 DEF Standing, Checking
<1>3. pc \in LocalState /\ content \in Nat /\ verified \in SUBSET Nat /\ launched = disk.stages /\ disk.stage = None /\ mem \in Looping!LoopState
  BY <1>1, <1>2, AtWork
<1>4. verified \subseteq verified' /\ verified' \in SUBSET Nat
  BY <1>1, <1>3
<1>5. CASE Looping!Stop("failed")
  BY <1>1, <1>2, <1>3, <1>4, <1>5, StopSound
<1>6. CASE Looping!Repair
  BY <1>1, <1>4, <1>6, RepairSound
<1>7. CASE Looping!OnlyChecks /\ passed /\ Looping!Go("review")
  <2>1. pc' = [pc EXCEPT !.at = "review"]
    BY <1>7 DEF Looping!Go
  <2>2. pc' \in LocalState /\ pc'.at = "review" /\ pc'.passes = pc.passes /\ pc'.phase = pc.phase /\ pc'.checked = pc.checked
    BY <1>3, <2>1 DEF LocalState, LoopSteps, Checking
  <2>3. pc'.at \notin Standing \cup Turning \cup {"launch", "turn", "turned", "answered", "intend", "failing", "accept"}
    BY <2>2 DEF Standing, Turning
  <2>4. Looping!Lean => pc.checked \in verified'
    BY <1>1, <1>7 DEF Looping!OnlyChecks, Looping!Captured
  <2>5. AskedInv'
    BY <2>2, <2>3, <2>4 DEF AskedInv, Looping!Lean
  <2>6. pc.phase \notin mem.done
    BY <1>2 DEF LoopInv, DoneInv
  <2>7. \A x \in Nat : Looping!Count(x, pc'.passes) <= Reviews(x)
    BY <1>2, <2>2, AtWork
  <2> QED BY <1>1, <1>2, <1>3, <1>4, <2>2, <2>3, <2>5, <2>6, <2>7, MovesOn
<1> QED BY <1>1, <1>5, <1>6, <1>7 DEF Looping!VerifiedForManager

LEMMA AcceptSound == ASSUME Looping!LoopAssumption, LoopInv, Looping!Accept PROVE LoopInv'
<1>1. pc.at = "accept" /\ UNCHANGED <<disk, launched, reviewed, verified, content, lock>>
  BY DEF Looping!Accept, Looping!Inside, Looping!History
<1>2. pc.at \notin Standing \cup {"launch", "turn", "turned", "failing"} /\ pc.at \in Checking
  BY <1>1 DEF Standing, Checking
<1>3. pc \in LocalState /\ content \in Nat /\ verified \in SUBSET Nat /\ launched = disk.stages /\ disk.stage = None /\ mem \in Looping!LoopState
  BY <1>1, <1>2, AtWork
<1>4. CASE Looping!Stop("failed") /\ UNCHANGED mem
  BY <1>1, <1>2, <1>3, <1>4, StopSound
<1>5. Looping!Same => Agreed(content)
  <2>1. SUFFICES ASSUME Looping!Same PROVE Agreed(content)
    OBVIOUS
  <2>2. \A i \in DOMAIN pc.passes : pc.passes[i] = content
    BY <2>1 DEF Looping!Same, Looping!Captured
  <2>3. pc.passes \in Seq(Nat)
    BY <1>3 DEF LocalState
  <2>4. Looping!Count(content, pc.passes) = Len(pc.passes) /\ Len(pc.passes) \in Nat
    BY <2>2, <2>3, CountAll
  <2>5. Len(pc.passes) >= RequiredPasses /\ (Looping!Lean => pc.checked \in verified)
    BY <1>1 DEF LoopInv, PassesInv, AskedInv
  <2>6. Looping!Count(content, pc.passes) <= Reviews(content) /\ Reviews(content) \in Nat
    BY <1>2, <1>3, AtWork
  <2>7. RequiredPasses \in Nat
    BY DEF Looping!LoopAssumption
  <2>8. Looping!Lean => content \in verified
    BY <2>1, <2>5 DEF Looping!Same, Looping!Captured
  <2> QED BY <2>4, <2>5, <2>6, <2>7, <2>8 DEF Agreed
<1>6. pc.phase \notin mem.done
  BY <1>2 DEF LoopInv, DoneInv
<1>7. CASE Looping!Same /\ mem' = [mem EXCEPT !.accepted = content] /\ Looping!Go("accepted")
  <2>1. pc' = [pc EXCEPT !.at = "accepted"]
    BY <1>7 DEF Looping!Go
  <2>2. pc' \in LocalState /\ pc'.at = "accepted" /\ pc'.passes = pc.passes
    BY <1>3, <2>1 DEF LocalState, LoopSteps
  <2>3. pc'.at \notin Standing \cup Turning \cup Checking \cup {"launch", "turn", "turned", "answered", "intend", "failing", "accept"}
    BY <2>2 DEF Standing, Turning, Checking
  <2>4. AskedInv'
    BY <2>2, <2>3 DEF AskedInv
  <2>5. mem' \in Looping!LoopState /\ \E x \in Nat : mem' = [mem EXCEPT !.accepted = x] /\ Agreed(x)'
    BY <1>1, <1>3, <1>5, <1>7, ReviewsStay DEF Looping!LoopState
  <2>6. \A x \in Nat : Looping!Count(x, pc'.passes) <= Reviews(x)
    BY <1>2, <2>2, AtWork
  <2> QED BY <1>1, <1>2, <1>3, <2>2, <2>3, <2>4, <2>5, <2>6, MovesOn
<1>8. CASE Looping!Same /\ ~Looping!Lean /\ Looping!AskManager
  <2>1. pc' = [pc EXCEPT !.at = "intend", !.kind = "manager_accept", !.round = 0, !.expected = content] /\ mem' = mem
    BY <1>8 DEF Looping!AskManager, Looping!Captured
  <2>2. /\ pc' \in LocalState /\ pc'.at = "intend" /\ pc'.kind = "manager_accept" /\ pc'.phase = pc.phase
        /\ pc'.passes = pc.passes /\ pc'.expected = content
    BY <1>3, <2>1 DEF LocalState, LoopSteps, Turning, Looping!Kind
  <2>3. \A x : x = content => Reviews(x)' >= RequiredPasses
    BY <1>1, <1>5, <1>8, ReviewsStay DEF Agreed
  <2>4. ~Looping!Lean
    BY <1>8
  <2>5. AskedInv'
    BY <2>2, <2>3, <2>4 DEF AskedInv, Looping!Lean
  <2>6. pc'.kind \in Looping!Kind
    BY <2>2 DEF Looping!Kind
  <2> QED BY <1>1, <1>2, <1>3, <1>6, <2>1, <2>2, <2>5, <2>6, NextStageSound
<1> QED BY <1>4, <1>7, <1>8 DEF Looping!Accept, Looping!Captured

\* A review's answer: a pass that counts, a repair, or the end.
LEMMA ReviewAnswerSound ==
    ASSUME Looping!LoopAssumption, LoopInv, Looping!AnswerOfReview, pc.at = "answered", pc.kind = "review",
           pc.answer \in {"pass", "repair"}, UNCHANGED <<disk, mem, launched, reviewed, verified, lock, content>>
    PROVE  LoopInv'
<1>1. pc.at \notin Standing \cup {"launch", "turn", "turned", "failing"} /\ pc.at \in Turning
  BY DEF Standing, Turning
<1>2. pc \in LocalState /\ content \in Nat /\ verified \in SUBSET Nat /\ launched = disk.stages /\ disk.stage = None /\ mem \in Looping!LoopState
  BY <1>1, AtWork
<1>3. pc.phase \notin mem.done
  BY <1>1 DEF LoopInv, DoneInv
<1>4. CASE \E why \in {"blocked", "failed"} : Looping!Stop(why)
  BY <1>1, <1>2, <1>4, StopSound
<1>5. CASE pc' = [pc EXCEPT !.at = "intend", !.kind = "repair", !.round = pc.round + 1, !.finding = pc.after]
  <2>1. pc.round + 1 \in Nat
    BY <1>2 DEF LocalState
  <2>2. /\ pc' \in LocalState /\ pc'.at = "intend" /\ pc'.kind = "repair" /\ pc'.phase = pc.phase
        /\ pc'.passes = pc.passes
    BY <1>2, <1>5, <2>1 DEF LocalState, LoopSteps, Turning, Looping!Kind
  <2>3. AskedInv'
    BY <2>2 DEF AskedInv
  <2>4. pc'.kind \in Looping!Kind
    BY <2>2 DEF Looping!Kind
  <2> QED BY <1>1, <1>2, <1>3, <2>2, <2>3, <2>4, NextStageSound
<1>6. CASE pc.answer = "pass" /\ pc' = [pc EXCEPT !.passes = Append(pc.passes, pc.after),
                                            !.at = IF Len(Append(pc.passes, pc.after)) < RequiredPasses THEN "review" ELSE "accept"]
  <2> DEFINE passes == Append(pc.passes, pc.after)
  <2>1. passes \in Seq(Nat) /\ Len(passes) \in Nat
    BY <1>2 DEF LocalState
  <2>2. /\ pc' \in LocalState /\ pc'.passes = passes /\ pc'.phase = pc.phase /\ pc'.checked = pc.checked
        /\ pc'.at = IF Len(passes) < RequiredPasses THEN "review" ELSE "accept"
    BY <1>2, <1>6, <2>1 DEF LocalState, LoopSteps, Checking
  <2>3. pc'.at \notin Standing \cup Turning \cup {"launch", "turn", "turned", "answered", "intend", "failing"}
    BY <2>2 DEF Standing, Turning
  <2>4. Looping!Lean => pc.checked \in verified
    BY <1>1 DEF LoopInv, AskedInv
  <2>5. AskedInv'
    BY <2>2, <2>3, <2>4 DEF AskedInv, Looping!Lean
  <2>6. \A x \in Nat : Looping!Count(x, pc'.passes) <= Reviews(x)
    BY <1>6, <2>2 DEF LoopInv, PassesInv
  <2>7. pc'.at = "accept" => Len(pc'.passes) >= RequiredPasses
    BY <2>1, <2>2 DEF Looping!LoopAssumption
  <2> QED BY <1>1, <1>2, <1>3, <2>2, <2>3, <2>5, <2>6, <2>7, MovesOn
<1> QED
  <2>1. \/ \E why \in {"blocked", "failed"} : Looping!Stop(why)
        \/ pc' = [pc EXCEPT !.at = "intend", !.kind = "repair", !.round = pc.round + 1, !.finding = pc.after]
        \/ pc.answer = "pass" /\ pc' = [pc EXCEPT !.passes = Append(pc.passes, pc.after),
                                            !.at = IF Len(Append(pc.passes, pc.after)) < RequiredPasses THEN "review" ELSE "accept"]
    BY DEF Looping!AnswerOfReview
  <2> QED BY <1>4, <1>5, <1>6, <2>1

\* What an answer may be, and what follows it.
LEMMA AnswerCases ==
    ASSUME LoopInv, Looping!Answered
    PROVE  /\ pc.at = "answered" /\ UNCHANGED <<disk, launched, reviewed, verified, lock, content>>
           /\ \/ pc.answer # "accepted" /\ mem' = mem /\
                    \/ \E why \in {"blocked", "failed"} : Looping!Stop(why)
                    \/ Looping!NextStage("implement", 0)
                    \/ Looping!Verify(0)
                    \/ pc.kind = "repair" /\ Looping!AnswerOfRepair
                    \/ pc.kind = "review" /\ pc.answer \in {"pass", "repair"} /\ Looping!AnswerOfReview
              \/ pc.kind = "manager_accept" /\ Looping!OnOneDigest /\ Looping!Go("accepted") /\ mem' = [mem EXCEPT !.accepted = pc.after]
              \/ Looping!Stop("failed") /\ mem' = mem
<1>1. pc.at = "answered" /\ UNCHANGED <<disk, launched, reviewed, verified, lock, content>>
  BY DEF Looping!Answered, Looping!Inside, Looping!History
<1>2. pc.kind \in Looping!Kind /\ pc.answer \in Looping!Answers(pc.kind) /\ pc.answer # "invalid"
  BY <1>1 DEF LoopInv, LoopTypeInv, Turning
<1>3. \/ pc.kind = "manager_brief" /\ pc.answer \in {"ready", "blocked"}
      \/ pc.kind \in {"implement", "repair"} /\ pc.answer \in {"implemented", "blocked"}
      \/ pc.kind = "review" /\ pc.answer \in {"pass", "repair"}
      \/ pc.kind = "manager_accept" /\ pc.answer \in {"accepted", "declined"}
  BY <1>2 DEF Looping!Kind, Looping!Answers
<1> QED BY <1>1, <1>3 DEF Looping!Answered, Looping!AnswerOfBrief, Looping!AnswerOfAcceptance

LEMMA AnsweredSound == ASSUME Looping!LoopAssumption, LoopInv, Looping!Answered PROVE LoopInv'
<1>1. pc.at = "answered" /\ UNCHANGED <<disk, launched, reviewed, verified, lock, content>>
  BY AnswerCases
<1>2. pc.at \notin Standing \cup {"launch", "turn", "turned", "failing"} /\ pc.at \in Turning
  BY <1>1 DEF Standing, Turning
<1>3. pc \in LocalState /\ content \in Nat /\ verified \in SUBSET Nat /\ launched = disk.stages /\ disk.stage = None /\ mem \in Looping!LoopState
  BY <1>1, <1>2, AtWork
<1>4. pc.phase \notin mem.done
  BY <1>2 DEF LoopInv, DoneInv
<1>5. CASE mem' = mem /\ \E why \in {"blocked", "failed"} : Looping!Stop(why)
  BY <1>1, <1>2, <1>3, <1>5, StopSound
<1>6. CASE mem' = mem /\ Looping!NextStage("implement", 0)
  <2>1. pc' = [pc EXCEPT !.at = "intend", !.kind = "implement", !.round = 0]
    BY <1>6 DEF Looping!NextStage
  <2>2. /\ pc' \in LocalState /\ pc'.at = "intend" /\ pc'.kind = "implement" /\ pc'.phase = pc.phase
        /\ pc'.passes = pc.passes
    BY <1>3, <2>1 DEF LocalState, LoopSteps, Turning, Looping!Kind
  <2>3. AskedInv' /\ pc'.kind \in Looping!Kind
    BY <2>2 DEF AskedInv, Looping!Kind
  <2> QED BY <1>1, <1>2, <1>3, <1>4, <1>6, <2>2, <2>3, NextStageSound
<1>7. CASE mem' = mem /\ (Looping!Verify(0) \/ pc' = [pc EXCEPT !.at = "verify", !.finding = 0, !.passes = <<>>])
  <2>1. \/ pc' = [pc EXCEPT !.at = "verify", !.round = 0]
        \/ pc' = [pc EXCEPT !.at = "verify", !.finding = 0, !.passes = <<>>]
    BY <1>7 DEF Looping!Verify
  <2>2. "verify" \in LoopSteps /\ <<>> \in Seq(Nat)
    BY DEF LoopSteps, Checking
  <2>3. pc' \in LocalState /\ pc'.at = "verify" /\ pc'.phase = pc.phase /\ pc'.passes \in {pc.passes, <<>>}
    <3>1. CASE pc' = [pc EXCEPT !.at = "verify", !.round = 0]
      BY <1>3, <2>2, <3>1 DEF LocalState
    <3>2. CASE pc' = [pc EXCEPT !.at = "verify", !.finding = 0, !.passes = <<>>]
      BY <1>3, <2>2, <3>2 DEF LocalState
    <3> QED BY <2>1, <3>1, <3>2
  <2>4. pc'.at \notin Standing \cup Turning \cup {"launch", "turn", "turned", "answered", "intend", "failing", "review", "accept"}
    BY <2>3 DEF Standing, Turning
  <2>5. AskedInv'
    BY <2>4 DEF AskedInv
  <2>6. \A x \in Nat : Looping!Count(x, pc'.passes) <= Reviews(x)
    BY <1>2, <2>3, CountNone, AtWork
  <2> QED BY <1>1, <1>2, <1>3, <1>4, <1>7, <2>3, <2>4, <2>5, <2>6, MovesOn
<1>8. CASE mem' = mem /\ pc.kind = "repair" /\ Looping!AnswerOfRepair
  BY <1>5, <1>7, <1>8 DEF Looping!AnswerOfRepair
<1>9. CASE mem' = mem /\ pc.kind = "review" /\ pc.answer \in {"pass", "repair"} /\ Looping!AnswerOfReview
  BY <1>1, <1>9, ReviewAnswerSound
<1>10. CASE pc.kind = "manager_accept" /\ Looping!OnOneDigest /\ Looping!Go("accepted") /\ mem' = [mem EXCEPT !.accepted = pc.after]
  <2>1. pc' = [pc EXCEPT !.at = "accepted"]
    BY <1>10 DEF Looping!Go
  <2>2. pc' \in LocalState /\ pc'.at = "accepted" /\ pc'.passes = pc.passes /\ pc.after \in Nat
    BY <1>3, <2>1 DEF LocalState, LoopSteps
  <2>3. pc'.at \notin Standing \cup Turning \cup Checking \cup {"launch", "turn", "turned", "answered", "intend", "failing", "accept"}
    BY <2>2 DEF Standing, Turning, Checking
  <2>4. AskedInv'
    BY <2>2, <2>3 DEF AskedInv
  <2>5. ~Looping!Lean /\ Reviews(pc.expected) >= RequiredPasses /\ pc.after = pc.expected
    BY <1>2, <1>10 DEF LoopInv, AskedInv, Looping!OnOneDigest
  <2>6. Agreed(pc.after)
    BY <2>5 DEF Agreed
  <2>7. mem' \in Looping!LoopState /\ \E x \in Nat : mem' = [mem EXCEPT !.accepted = x] /\ Agreed(x)'
    BY <1>1, <1>3, <1>10, <2>2, <2>6, ReviewsStay DEF Looping!LoopState
  <2>8. \A x \in Nat : Looping!Count(x, pc'.passes) <= Reviews(x)
    BY <1>2, <2>2, AtWork
  <2> QED BY <1>1, <1>2, <1>3, <2>2, <2>3, <2>4, <2>7, <2>8, MovesOn
<1> QED BY <1>5, <1>6, <1>7, <1>8, <1>9, <1>10, AnswerCases

-----------------------------------------------------------------------------
\* A stage.

LEMMA IdTyped == ASSUME LoopInv, pc.at \in Turning PROVE Looping!Id \in Looping!Stage
<1>1. pc \in LocalState /\ pc.kind \in Looping!Kind
  BY DEF LoopInv, LoopTypeInv
<1>2. pc.phase \in Nat /\ pc.round \in Nat /\ Len(pc.passes) \in Nat
  BY <1>1 DEF LocalState
<1>3. pc.round * 10 + Len(pc.passes) \in Nat
  BY <1>2
<1> QED BY <1>1, <1>2, <1>3 DEF Looping!Id, Looping!Stage

LEMMA IntendSound == ASSUME Looping!LoopAssumption, LoopInv, Looping!Intend PROVE LoopInv'
<1>1. /\ pc.at = "intend" /\ mem' = [mem EXCEPT !.stage = Looping!Id] /\ disk' = mem'
      /\ pc' = [pc EXCEPT !.at = "launch", !.before = content]
      /\ UNCHANGED <<launched, verified, reviewed, content, lock>>
  BY DEF Looping!Intend, Looping!Inside, Looping!History, Looping!Captured
<1>2. pc.at \notin Standing \cup {"launch", "turn", "turned", "failing"} /\ pc.at \in Turning
  BY <1>1 DEF Standing, Turning
<1>3. /\ pc \in LocalState /\ content \in Nat /\ verified \in SUBSET Nat /\ launched = mem.stages /\ mem \in Looping!LoopState
      /\ mem.retry = FALSE /\ mem.status = "running"
      /\ \A x \in Nat : Looping!Count(x, pc.passes) <= Reviews(x)
  BY <1>2, AtWork DEF Saved
<1>4. Looping!Id \in Looping!Stage
  BY <1>2, IdTyped
<1>5. /\ mem' \in Looping!LoopState /\ mem'.stage = Looping!Id /\ mem'.stages = mem.stages /\ mem'.done = mem.done
      /\ mem'.retry = FALSE /\ mem'.status = "running" /\ mem'.accepted = mem.accepted
  BY <1>1, <1>3, <1>4 DEF Looping!LoopState
<1>6. /\ pc' \in LocalState /\ pc'.at = "launch" /\ pc'.kind = pc.kind /\ pc'.phase = pc.phase /\ pc'.round = pc.round
      /\ pc'.passes = pc.passes /\ pc'.checked = pc.checked /\ pc'.expected = pc.expected
  BY <1>1, <1>3 DEF LocalState, LoopSteps, Turning
<1>7. Looping!Id' = Looping!Id
  BY <1>6 DEF Looping!Id, Looping!Lean
<1>8. disk' # None
  BY <1>1, <1>5 DEF Looping!LoopAssumption
<1>9. LoopTypeInv'
  BY <1>1, <1>2, <1>5, <1>6 DEF LoopInv, LoopTypeInv
<1>10. KnownInv'
  BY <1>1, <1>5, <1>6, <1>8 DEF KnownInv, Saved, Standing
<1>11. LaunchInv'
  BY <1>1, <1>3, <1>5, <1>6, <1>7, <1>8 DEF LaunchInv, Standing
<1>12. DoneInv'
  BY <1>2, <1>5, <1>6 DEF LoopInv, DoneInv
<1>13. AgreedInv'
  BY <1>1, <1>5, ReviewsStay DEF LoopInv, AgreedInv
<1>14. PassesInv'
  BY <1>1, <1>3, <1>6, ReviewsStay DEF PassesInv, Looping!Count
<1>15. AskedInv'
  <2>1. \A x : Reviews(x)' = Reviews(x)
    BY <1>1, ReviewsStay
  <2> QED BY <1>1, <1>2, <1>6, <2>1 DEF LoopInv, AskedInv, Looping!Lean
<1> QED BY <1>9, <1>10, <1>11, <1>12, <1>13, <1>14, <1>15 DEF LoopInv

LEMMA LaunchTurnSound == ASSUME Looping!LoopAssumption, LoopInv, Looping!LaunchTurn PROVE LoopInv'
<1>1. /\ pc.at = "launch" /\ UNCHANGED <<disk, mem, verified, reviewed, content, lock>>
      /\ \/ launched' = Append(launched, Looping!Id) /\ Looping!Go("turn")
         \/ Looping!Stop("blocked") /\ UNCHANGED launched
  BY DEF Looping!LaunchTurn, Looping!Inside
<1>2. pc.at \notin Standing /\ pc.at \in Turning
  BY <1>1 DEF Standing, Turning
<1>3. launched = disk.stages /\ disk.stage = Looping!Id
  BY <1>1 DEF LoopInv, LaunchInv
<1>4. /\ pc \in LocalState /\ content \in Nat /\ verified \in SUBSET Nat /\ mem \in Looping!LoopState
      /\ disk # None /\ ~disk.retry /\ disk.status = "running" /\ mem.status = "running" /\ Saved
      /\ \A x \in Nat : Looping!Count(x, pc.passes) <= Reviews(x)
  BY <1>2, AtWork
<1>5. CASE Looping!Stop("blocked") /\ UNCHANGED launched
  BY <1>1, <1>2, <1>3, <1>4, <1>5, StopSound
<1>6. CASE launched' = Append(launched, Looping!Id) /\ Looping!Go("turn")
  <2>1. pc' = [pc EXCEPT !.at = "turn"]
    BY <1>6 DEF Looping!Go
  <2>2. /\ pc' \in LocalState /\ pc'.at = "turn" /\ pc'.kind = pc.kind /\ pc'.phase = pc.phase /\ pc'.round = pc.round
        /\ pc'.passes = pc.passes /\ pc'.checked = pc.checked /\ pc'.expected = pc.expected
    BY <1>4, <2>1 DEF LocalState, LoopSteps, Turning
  <2>3. Looping!Id' = Looping!Id /\ Looping!Id \in Looping!Stage
    BY <1>2, <2>2, IdTyped DEF Looping!Id, Looping!Lean
  <2>4. launched' \in Seq(Looping!Stage)
    BY <1>6, <2>3 DEF LoopInv, LoopTypeInv
  <2>5. LoopTypeInv'
    BY <1>1, <1>2, <1>4, <2>2, <2>4 DEF LoopInv, LoopTypeInv
  <2>6. KnownInv'
    BY <1>1, <1>4, <2>2 DEF KnownInv, Saved, Standing
  <2>7. LaunchInv'
    <3>1. Looping!Id # None
      BY <2>3 DEF Looping!LoopAssumption
    <3> QED BY <1>1, <1>3, <1>4, <1>6, <2>2, <2>3, <3>1 DEF LaunchInv, Looping!CutOff, Standing
  <2>8. DoneInv'
    BY <1>1, <1>2, <2>2 DEF LoopInv, DoneInv
  <2>9. AgreedInv'
    BY <1>1, ReviewsStay DEF LoopInv, AgreedInv
  <2>10. PassesInv'
    BY <1>1, <1>4, <2>2, ReviewsStay DEF PassesInv, Looping!Count
  <2>11. AskedInv'
    <3>1. \A x : Reviews(x)' = Reviews(x)
      BY <1>1, ReviewsStay
    <3> QED BY <1>1, <1>2, <2>2, <3>1 DEF LoopInv, AskedInv, Looping!Lean
  <2> QED BY <2>5, <2>6, <2>7, <2>8, <2>9, <2>10, <2>11 DEF LoopInv
<1> QED BY <1>1, <1>5, <1>6

LEMMA TurnEndsSound == ASSUME LoopInv, Looping!TurnEnds PROVE LoopInv'
<1>1. PICK answer \in Looping!Answers(pc.kind) : pc' = [pc EXCEPT !.at = "turned", !.answer = answer]
  BY DEF Looping!TurnEnds
<1>2. /\ pc.at = "turn" /\ content' \in {content, content + 1}
      /\ UNCHANGED <<disk, mem, launched, verified, reviewed, lock>>
  BY DEF Looping!TurnEnds, Looping!Changes, Looping!History
<1>3. pc.at \notin Standing /\ pc.at \in Turning
  BY <1>2 DEF Standing, Turning
<1>4. /\ pc \in LocalState /\ content \in Nat /\ content' \in Nat
      /\ \A x \in Nat : Looping!Count(x, pc.passes) <= Reviews(x)
  BY <1>2, <1>3, AtWork
<1>5. answer \in Reply /\ pc.kind \in Looping!Kind
  BY <1>3 DEF LoopInv, LoopTypeInv, Looping!Kind, Looping!Answers, Reply
<1>6. /\ pc' \in LocalState /\ pc'.at = "turned" /\ pc'.kind = pc.kind /\ pc'.phase = pc.phase /\ pc'.round = pc.round
      /\ pc'.passes = pc.passes /\ pc'.checked = pc.checked /\ pc'.expected = pc.expected /\ pc'.answer = answer
  BY <1>1, <1>4, <1>5 DEF LocalState, LoopSteps, Turning
<1>7. Looping!Id' = Looping!Id
  BY <1>6 DEF Looping!Id, Looping!Lean
<1>8. LoopTypeInv'
  BY <1>2, <1>4, <1>5, <1>6 DEF LoopInv, LoopTypeInv, Looping!Answers
<1>9. KnownInv'
  BY <1>2, <1>3, <1>6 DEF LoopInv, KnownInv, Saved, Standing
<1>10. LaunchInv'
  BY <1>2, <1>6, <1>7 DEF LoopInv, LaunchInv, Looping!CutOff, Standing
<1>11. DoneInv'
  BY <1>2, <1>3, <1>6 DEF LoopInv, DoneInv
<1>12. AgreedInv'
  BY <1>2, ReviewsStay DEF LoopInv, AgreedInv
<1>13. PassesInv'
  BY <1>2, <1>4, <1>6, ReviewsStay DEF PassesInv, Looping!Count
<1>14. AskedInv'
  <2>1. \A x : Reviews(x)' = Reviews(x)
    BY <1>2, ReviewsStay
  <2> QED BY <1>2, <1>3, <1>6, <2>1 DEF LoopInv, AskedInv, Looping!Lean
<1> QED BY <1>8, <1>9, <1>10, <1>11, <1>12, <1>13, <1>14 DEF LoopInv

LEMMA TurnThrowsSound == ASSUME LoopInv, Looping!TurnThrows PROVE LoopInv'
<1>1. /\ pc.at = "turn" /\ content' \in {content, content + 1} /\ Looping!History /\ disk' = disk
      /\ \/ Looping!Stop("uncertain") /\ UNCHANGED <<lock, mem>>
         \/ Looping!Leave
  BY DEF Looping!TurnThrows, Looping!Changes
<1>2. pc.at \notin Standing /\ UNCHANGED <<launched, verified, reviewed>>
  BY <1>1 DEF Standing, Looping!History
<1>3. content' \in Nat /\ verified' \in SUBSET Nat /\ disk # None
  BY <1>1, <1>2, AtWork
<1>4. CASE Looping!Stop("uncertain") /\ UNCHANGED <<lock, mem>>
  BY <1>1, <1>2, <1>3, <1>4, StopSound
<1>5. CASE Looping!Leave
  BY <1>1, <1>3, <1>5, LeftSound, RecordStands DEF Looping!Leave
<1> QED BY <1>1, <1>4, <1>5

\* What was reviewed once more was reviewed no less often.
LEMMA ReviewsGrow ==
    ASSUME LoopInv, verified' = verified, content \in Nat, reviewed' = reviewed \/ reviewed' = Append(reviewed, content)
    PROVE  /\ \A x : Reviews(x) \in Nat /\ Reviews(x)' \in Nat /\ Reviews(x) <= Reviews(x)'
           /\ Looping!LoopAssumption => \A x : Agreed(x) => Agreed(x)'
           /\ reviewed' \in Seq(Nat)
<1>1. reviewed \in Seq(Nat) /\ reviewed' \in Seq(Nat)
  BY DEF LoopInv, LoopTypeInv
<1>2. ASSUME NEW x PROVE Reviews(x) \in Nat /\ Reviews(x)' \in Nat /\ Reviews(x) <= Reviews(x)'
  <2>1. Reviews(x) = Looping!Count(x, reviewed) /\ Reviews(x)' = Looping!Count(x, reviewed')
    BY DEF Reviews, Looping!Count
  <2>2. Looping!Count(x, reviewed) \in Nat /\ Looping!Count(x, reviewed') \in Nat
    BY <1>1, CountMore
  <2>3. Looping!Count(x, Append(reviewed, content)) >= Looping!Count(x, reviewed)
    BY <1>1, <2>2, CountMore
  <2>4. CASE reviewed' = reviewed
    BY <2>1, <2>2, <2>4
  <2>5. CASE reviewed' = Append(reviewed, content)
    BY <2>1, <2>2, <2>3, <2>5
  <2> QED BY <2>4, <2>5
<1>3. Looping!LoopAssumption => \A x : Agreed(x) => Agreed(x)'
  BY <1>2 DEF Agreed, Looping!LoopAssumption, Looping!Lean
<1> QED BY <1>1, <1>2, <1>3

LEMMA ReceiptSound == ASSUME Looping!LoopAssumption, LoopInv, Looping!Receipt PROVE LoopInv'
<1> DEFINE disturbed == pc.kind \in Looping!ReadOnly /\ content # pc.before
           counts == pc.kind = "review" /\ pc.answer = "pass" /\ ~disturbed
<1>1. /\ pc.at = "turned" /\ disk' = mem' /\ UNCHANGED <<launched, verified, content, lock>>
      /\ reviewed' = IF counts THEN Append(reviewed, content) ELSE reviewed
  BY DEF Looping!Receipt, Looping!Inside, Looping!Captured
<1>2. PICK session \in {{}, {pc.phase}} :
          mem' = [mem EXCEPT !.stages = Append(@, Looping!Id), !.stage = None, !.session = @ \cup session]
  BY DEF Looping!Receipt
<1>3. \/ \E status \in {"failed", "uncertain"} : Looping!Stop(status)
      \/ pc.answer # "invalid" /\ ~disturbed /\ pc' = [pc EXCEPT !.at = "answered", !.after = content]
  BY DEF Looping!Receipt, Looping!Captured
<1>4. pc.at \notin Standing /\ pc.at \in Turning
  BY <1>1 DEF Standing, Turning
<1>5. /\ pc \in LocalState /\ content \in Nat /\ verified \in SUBSET Nat /\ mem \in Looping!LoopState
      /\ ~disk.retry /\ mem.status = "running" /\ Saved
      /\ \A x \in Nat : Looping!Count(x, pc.passes) <= Reviews(x)
  BY <1>4, AtWork
<1>6. launched = Append(mem.stages, Looping!Id) /\ Looping!Id \in Looping!Stage
  BY <1>1, <1>4, <1>5, IdTyped DEF LoopInv, LaunchInv, Saved
<1>7. pc.phase \in Nat
  BY <1>5 DEF LocalState
<1>8. /\ mem' \in Looping!LoopState /\ mem'.stages = launched /\ mem'.stage = None /\ mem'.done = mem.done
      /\ mem'.retry = mem.retry /\ mem'.status = "running" /\ mem'.accepted = mem.accepted
  <2>1. mem.stages \in Seq(Looping!Stage) /\ mem.session \in SUBSET Nat
    BY <1>5 DEF Looping!LoopState
  <2>2. Append(mem.stages, Looping!Id) \in Seq(Looping!Stage) /\ mem.session \cup session \in SUBSET Nat
    BY <1>6, <1>7, <2>1
  <2>3. mem' = [mem EXCEPT !.stages = launched, !.stage = None, !.session = mem.session \cup session]
    BY <1>2, <1>5, <1>6 DEF Looping!LoopState
  <2>4. mem \in Looping!LoopState /\ mem.status = "running" /\ launched \in Seq(Looping!Stage)
    BY <1>5, <1>6, <2>2
  <2> QED BY <2>2, <2>3, <2>4 DEF Looping!LoopState
<1>9. disk' # None /\ ~mem'.retry
  BY <1>1, <1>5, <1>8 DEF Looping!LoopAssumption, Saved
<1>10. /\ pc' \in LocalState /\ pc'.kind = pc.kind /\ pc'.phase = pc.phase /\ pc'.answer = pc.answer
       /\ pc'.passes = pc.passes /\ pc'.checked = pc.checked /\ pc'.expected = pc.expected
       /\ \/ pc'.at = "failing" /\ pc'.why \in {"failed", "uncertain"}
          \/ pc'.at = "answered" /\ pc'.after = content /\ pc.answer # "invalid" /\ ~disturbed
  <2>1. CASE \E status \in {"failed", "uncertain"} : Looping!Stop(status)
    <3>1. PICK status \in {"failed", "uncertain"} : pc' = [pc EXCEPT !.at = "failing", !.why = status]
      BY <2>1 DEF Looping!Stop
    <3> QED BY <1>5, <3>1 DEF LocalState, LoopSteps
  <2>2. CASE pc.answer # "invalid" /\ ~disturbed /\ pc' = [pc EXCEPT !.at = "answered", !.after = content]
    BY <1>5, <2>2 DEF LocalState, LoopSteps, Turning
  <2> QED BY <1>3, <2>1, <2>2
<1>11. /\ \A x : Reviews(x) \in Nat /\ Reviews(x)' \in Nat /\ Reviews(x) <= Reviews(x)' /\ (Agreed(x) => Agreed(x)')
       /\ reviewed' \in Seq(Nat)
  BY <1>1, <1>5, ReviewsGrow
<1>12. LoopTypeInv'
  <2>1. pc.kind \in Looping!Kind /\ pc.answer \in Looping!Answers(pc.kind)
    BY <1>1, <1>4 DEF LoopInv, LoopTypeInv
  <2> QED BY <1>1, <1>8, <1>10, <1>11, <2>1 DEF LoopInv, LoopTypeInv, Looping!Answers
<1>13. KnownInv'
  BY <1>1, <1>8, <1>9, <1>10 DEF KnownInv, Saved, Standing
<1>14. LaunchInv'
  BY <1>1, <1>8, <1>9, <1>10 DEF LaunchInv, Standing
<1>15. DoneInv'
  BY <1>4, <1>8, <1>10 DEF LoopInv, DoneInv, Turning, Checking
<1>16. AgreedInv'
  <2>1. mem.accepted # None => Agreed(mem.accepted)
    BY DEF LoopInv, AgreedInv
  <2>2. \A x : mem'.accepted = x /\ x # None => Agreed(x)'
    BY <1>8, <1>11, <2>1
  <2> QED BY <1>1, <2>2 DEF AgreedInv
<1>17. PassesInv'
  <2>1. ASSUME NEW x \in Nat PROVE Looping!Count(x, pc.passes)' <= Reviews(x)'
    <3>1. Looping!Count(x, pc.passes)' = Looping!Count(x, pc.passes) /\ Looping!Count(x, pc.passes) \in Nat
      <4>1. pc'.passes = pc.passes /\ pc.passes \in Seq(Nat)
        BY <1>5, <1>10 DEF LocalState
      <4> QED BY <4>1, CountMore DEF Looping!Count
    <3> QED BY <1>5, <1>11, <3>1
  <2>2. ASSUME counts, NEW x \in Nat PROVE Looping!Count(x, Append(pc.passes, content)) <= Looping!Count(x, Append(reviewed, content))
    <3>1. pc.passes \in Seq(Nat) /\ reviewed \in Seq(Nat)
      BY <1>5 DEF LocalState, LoopInv, LoopTypeInv
    <3>2. Looping!Count(x, pc.passes) <= Looping!Count(x, reviewed)
      BY <1>5 DEF Reviews
    <3>3. /\ Looping!Count(x, pc.passes) \in Nat /\ Looping!Count(x, reviewed) \in Nat
          /\ Looping!Count(x, Append(pc.passes, content)) = IF x = content THEN Looping!Count(x, pc.passes) + 1 ELSE Looping!Count(x, pc.passes)
          /\ Looping!Count(x, Append(reviewed, content)) = IF x = content THEN Looping!Count(x, reviewed) + 1 ELSE Looping!Count(x, reviewed)
      BY <3>1, CountMore
    <3> QED BY <3>2, <3>3
  <2>3. ASSUME pc'.at = "answered", pc'.kind = "review", pc'.answer = "pass", NEW x \in Nat
        PROVE  Looping!Count(x, Append(pc.passes, pc.after))' <= Reviews(x)'
    <3>1. counts /\ reviewed' = Append(reviewed, content) /\ pc'.after = content
      BY <1>1, <1>10, <2>3
    <3>2. Looping!Count(x, Append(pc.passes, pc.after))' = Looping!Count(x, Append(pc.passes, content))
      BY <1>10, <3>1 DEF Looping!Count
    <3>3. Reviews(x)' = Looping!Count(x, Append(reviewed, content))
      BY <3>1 DEF Reviews, Looping!Count
    <3> QED BY <2>2, <3>1, <3>2, <3>3
  <2>4. pc'.at # "accept"
    BY <1>10
  <2> QED BY <2>1, <2>3, <2>4 DEF PassesInv
<1>18. AskedInv'
  <2>1. pc'.at = "answered" /\ pc'.kind = "review" => (Looping!Lean => pc.checked \in verified)
    BY <1>4, <1>10 DEF LoopInv, AskedInv
  <2>2. pc'.at = "answered" /\ pc'.kind = "manager_accept" => ~Looping!Lean /\ Reviews(pc.expected) >= RequiredPasses
    BY <1>4, <1>10 DEF LoopInv, AskedInv
  <2>3. \A x : x = pc.expected /\ Reviews(x) >= RequiredPasses => Reviews(x)' >= RequiredPasses
    BY <1>11 DEF Looping!LoopAssumption
  <2>4. pc'.at \in {"answered", "failing"} /\ "failing" \notin Turning
    BY <1>10 DEF Turning
  <2> QED BY <1>1, <1>10, <2>1, <2>2, <2>3, <2>4 DEF AskedInv, Looping!Lean
<1> QED BY <1>12, <1>13, <1>14, <1>15, <1>16, <1>17, <1>18 DEF LoopInv

LEMMA FailSound == ASSUME Looping!LoopAssumption, LoopInv, Looping!Fail PROVE LoopInv'
<1>1. pc.at = "failing" /\ disk' = [mem EXCEPT !.status = pc.why, !.stage = None] /\ Looping!Leave /\ Looping!History /\ content' = content
  BY DEF Looping!Fail
<1>2. pc.why \in {"blocked", "failed", "uncertain"} /\ pc.at \notin Standing
  BY <1>1 DEF LoopInv, LoopTypeInv, Standing
<1>3. mem \in Looping!LoopState /\ Saved /\ ~disk.retry /\ content \in Nat
  BY <1>2, AtWork
<1>4. /\ disk' \in Looping!LoopState /\ disk'.status = pc.why /\ disk'.stages = mem.stages
      /\ disk'.retry = mem.retry /\ disk'.accepted = mem.accepted
  BY <1>1, <1>2, <1>3 DEF Looping!LoopState
<1>5. disk' # None
  BY <1>4 DEF Looping!LoopAssumption
<1>6. pc.why = "uncertain" \/ launched = mem.stages
  BY <1>1, <1>3 DEF LoopInv, LaunchInv, Saved
<1>7. mem.accepted # None => Agreed(mem.accepted)
  BY DEF LoopInv, AgreedInv
<1> QED BY <1>1, <1>3, <1>4, <1>5, <1>6, <1>7, LeftSound DEF Looping!Leave, Saved

-----------------------------------------------------------------------------
\* Between two stages.

LEMMA SavePhaseSound == ASSUME Looping!LoopAssumption, LoopInv, Looping!SavePhase PROVE LoopInv'
<1>1. /\ pc.at = "accepted" /\ mem' = [mem EXCEPT !.done = @ \cup {pc.phase}] /\ disk' = mem'
      /\ pc' = [Looping!Idle EXCEPT !.at = "phase", !.phase = pc.phase + 1]
      /\ UNCHANGED <<launched, verified, reviewed, content, lock>>
  BY DEF Looping!SavePhase, Looping!Inside, Looping!History
<1>2. pc.at \notin Standing \cup {"launch", "turn", "turned", "failing"}
  BY <1>1 DEF Standing
<1>3. /\ pc \in LocalState /\ launched = mem.stages /\ mem.stage = None /\ mem \in Looping!LoopState
      /\ mem.retry = FALSE /\ mem.status = "running"
      /\ \A x \in Nat : 0 <= Reviews(x)
  BY <1>2, AtWork DEF Saved
<1>4. pc.phase \in Nat
  BY <1>3 DEF LocalState
<1>5. /\ mem' \in Looping!LoopState /\ mem'.stages = mem.stages /\ mem'.stage = None
      /\ mem'.retry = FALSE /\ mem'.status = "running" /\ mem'.accepted = mem.accepted
  BY <1>1, <1>3, <1>4 DEF Looping!LoopState
<1>6. pc' \in LocalState /\ pc'.at = "phase" /\ pc'.passes = <<>>
  <2>1. Looping!Idle \in LocalState /\ Looping!Idle.passes = <<>> /\ pc.phase + 1 \in Nat
    BY <1>4, FreshTyped DEF Looping!Idle
  <2>2. pc' = [Looping!Idle EXCEPT !.at = "phase", !.phase = pc.phase + 1]
    BY <1>1
  <2> QED BY <2>1, <2>2 DEF LocalState, LoopSteps
<1>7. disk' # None
  BY <1>1, <1>5 DEF Looping!LoopAssumption
<1>8. pc'.at \notin Standing \cup Turning \cup Checking
  BY <1>6 DEF Standing, Turning, Checking
<1>9. LoopTypeInv'
  BY <1>1, <1>5, <1>6, <1>8 DEF LoopInv, LoopTypeInv
<1>10. KnownInv'
  BY <1>1, <1>5, <1>6, <1>7 DEF KnownInv, Saved
<1>11. LaunchInv'
  BY <1>1, <1>3, <1>5, <1>6, <1>7 DEF LaunchInv
<1>12. DoneInv'
  BY <1>8 DEF DoneInv
<1>13. AgreedInv'
  BY <1>1, <1>5, ReviewsStay DEF LoopInv, AgreedInv
<1>14. PassesInv'
  <2>1. \A x : Looping!Count(x, pc.passes)' = 0
    BY <1>6, CountNone DEF Looping!Count
  <2> QED BY <1>1, <1>3, <1>6, <2>1, ReviewsStay DEF PassesInv
<1>15. AskedInv'
  BY <1>6, <1>8 DEF AskedInv
<1> QED BY <1>9, <1>10, <1>11, <1>12, <1>13, <1>14, <1>15 DEF LoopInv

LEMMA SucceedSound == ASSUME Looping!LoopAssumption, LoopInv, Looping!Succeed PROVE LoopInv'
<1>1. /\ pc.at = "phase" /\ mem' = [mem EXCEPT !.status = "succeeded"] /\ disk' = mem'
      /\ pc' = [pc EXCEPT !.at = "return"]
      /\ UNCHANGED <<launched, verified, reviewed, content, lock>>
  BY DEF Looping!Succeed, Looping!Inside, Looping!History, Looping!Go
<1>2. pc.at \notin Standing \cup {"launch", "turn", "turned", "failing"}
  BY <1>1 DEF Standing
<1>3. /\ pc \in LocalState /\ launched = mem.stages /\ mem.stage = None /\ mem \in Looping!LoopState
      /\ mem.retry = FALSE
      /\ \A x \in Nat : Looping!Count(x, pc.passes) <= Reviews(x)
  BY <1>2, AtWork DEF Saved
<1>4. /\ mem' \in Looping!LoopState /\ mem'.stages = mem.stages /\ mem'.stage = None
      /\ mem'.retry = FALSE /\ mem'.accepted = mem.accepted
  BY <1>1, <1>3 DEF Looping!LoopState
<1>5. pc' \in LocalState /\ pc'.at = "return" /\ pc'.passes = pc.passes
  BY <1>1, <1>3 DEF LocalState, LoopSteps, Standing
<1>6. disk' # None
  BY <1>1, <1>4 DEF Looping!LoopAssumption
<1>7. pc'.at \in Standing /\ pc'.at \notin Turning \cup Checking
  BY <1>5 DEF Standing, Turning, Checking
<1>8. LoopTypeInv'
  BY <1>1, <1>4, <1>5, <1>7 DEF LoopInv, LoopTypeInv
<1>9. KnownInv'
  BY <1>5, <1>7 DEF KnownInv
<1>10. LaunchInv'
  BY <1>1, <1>3, <1>4, <1>5, <1>6, <1>7 DEF LaunchInv
<1>11. DoneInv'
  BY <1>7 DEF DoneInv
<1>12. AgreedInv'
  BY <1>1, <1>4, ReviewsStay DEF LoopInv, AgreedInv
<1>13. PassesInv'
  BY <1>1, <1>3, <1>5, ReviewsStay DEF PassesInv, Looping!Count
<1>14. AskedInv'
  BY <1>5, <1>7 DEF AskedInv
<1> QED BY <1>8, <1>9, <1>10, <1>11, <1>12, <1>13, <1>14 DEF LoopInv

LEMMA ThrowsSound == ASSUME LoopInv, Looping!Throws PROVE LoopInv'
  BY LeftSound, RecordStands DEF Looping!Throws, Looping!Leave, LoopInv, LoopTypeInv, LaunchInv

LEMMA CrashSound == ASSUME LoopInv, Looping!Crash PROVE LoopInv'
  BY LeftSound, RecordStands DEF Looping!Crash, LoopInv, LoopTypeInv, LaunchInv

\* What is said of a loop does not speak of its lock, and of the content only that it is a digest.
LEMMA OthersSound == ASSUME LoopInv, Looping!LockRemoved \/ Looping!OthersWrite \/ UNCHANGED Looping!vars PROVE LoopInv'
<1>1. UNCHANGED <<disk, mem, pc, launched, verified, reviewed>> /\ content' \in Nat /\ lock' \in BOOLEAN
  <2>1. content \in Nat /\ lock \in BOOLEAN
    BY DEF LoopInv, LoopTypeInv
  <2>2. CASE Looping!LockRemoved
    BY <2>1, <2>2 DEF Looping!LockRemoved, Looping!History
  <2>3. CASE Looping!OthersWrite
    BY <2>1, <2>3 DEF Looping!OthersWrite, Looping!History
  <2>4. CASE UNCHANGED Looping!vars
    BY <2>1, <2>4 DEF Looping!vars
  <2> QED BY <2>2, <2>3, <2>4
<1>2. LoopTypeInv' /\ KnownInv' /\ DoneInv'
  BY <1>1 DEF LoopInv, LoopTypeInv, KnownInv, Saved, DoneInv
<1>3. LaunchInv'
  BY <1>1 DEF LoopInv, LaunchInv, Looping!Id, Looping!Lean, Looping!CutOff
<1>4. \A x : Reviews(x)' = Reviews(x) /\ Agreed(x)' = Agreed(x)
  BY <1>1, ReviewsStay
<1>5. AgreedInv'
  BY <1>1, <1>4 DEF LoopInv, AgreedInv
<1>6. PassesInv'
  BY <1>1, <1>4 DEF LoopInv, PassesInv, Looping!Count
<1>7. AskedInv'
  BY <1>1, <1>4 DEF LoopInv, AskedInv, Looping!Lean
<1> QED BY <1>2, <1>3, <1>5, <1>6, <1>7 DEF LoopInv

-----------------------------------------------------------------------------
\* The start of an invocation.

\* It finds its place, with nothing under way.
LEMMA StartsSound ==
    ASSUME LoopInv, UNCHANGED <<disk, launched, verified, reviewed, content>>, lock' \in BOOLEAN,
           pc' \in LocalState, pc'.at \in Standing, pc'.passes \in {<<>>, pc.passes}, mem' \in Looping!LoopState,
           mem'.accepted # None => Agreed(mem'.accepted), KnownInv'
    PROVE  LoopInv'
<1>1. pc'.at \notin Turning \cup Checking /\ pc'.at \notin {"launch", "turn", "turned", "failing", "answered"}
  BY DEF Standing, Turning, Checking
<1>2. LoopTypeInv'
  BY <1>1 DEF LoopInv, LoopTypeInv
<1>3. LaunchInv'
  BY <1>1 DEF LoopInv, LaunchInv, Looping!CutOff
<1>4. DoneInv'
  BY <1>1 DEF DoneInv
<1>5. \A x : Reviews(x)' = Reviews(x) /\ Agreed(x)' = Agreed(x) /\ Reviews(x) \in Nat
  BY ReviewsStay, CountMore DEF Reviews, LoopInv, LoopTypeInv
<1>6. AgreedInv'
  BY <1>5 DEF LoopInv, AgreedInv
<1>7. PassesInv'
  <2>1. CASE pc'.passes = <<>>
    <3>1. \A x : Looping!Count(x, pc.passes)' = 0
      BY <2>1, CountNone DEF Looping!Count
    <3> QED BY <1>1, <1>5, <3>1 DEF PassesInv, Checking
  <2>2. CASE pc'.passes = pc.passes
    BY <1>1, <1>5, <2>2 DEF LoopInv, PassesInv, Checking, Looping!Count
  <2> QED BY <2>1, <2>2
<1>8. AskedInv'
  BY <1>1 DEF AskedInv, Checking
<1> QED BY <1>2, <1>3, <1>4, <1>6, <1>7, <1>8 DEF LoopInv

LEMMA InvokeSound == ASSUME LoopInv, Looping!Invoke PROVE LoopInv'
<1>1. /\ mem' = IF disk = None THEN Looping!Fresh ELSE disk
      /\ pc' = [Looping!Idle EXCEPT !.at = Looping!ResumesAt]
      /\ UNCHANGED <<disk, launched, verified, reviewed, content>> /\ lock' = TRUE
  BY DEF Looping!Invoke, Looping!History
<1>2. Looping!ResumesAt \in Standing
  BY DEF Looping!ResumesAt, Standing
<1>3. pc' \in LocalState /\ pc'.at = Looping!ResumesAt /\ pc'.passes = <<>>
  <2>1. Looping!Idle \in LocalState /\ Looping!Idle.passes = <<>> /\ Looping!ResumesAt \in LoopSteps
    BY <1>2, FreshTyped DEF Looping!Idle, LoopSteps
  <2>2. pc' = [Looping!Idle EXCEPT !.at = Looping!ResumesAt]
    BY <1>1
  <2> QED BY <2>1, <2>2 DEF LocalState
<1>4. mem' \in Looping!LoopState /\ (mem'.accepted # None => Agreed(mem'.accepted))
  BY <1>1, FreshTyped, RecordStands DEF Looping!Fresh
<1>5. KnownInv'
  <2>1. CASE disk = None
    <3>1. launched = <<>> /\ Looping!ResumesAt \in {"preflight", "save"} /\ mem' = Looping!Fresh
      BY <1>1, <2>1 DEF LoopInv, LaunchInv, Looping!ResumesAt
    <3> QED BY <1>1, <1>3, <3>1 DEF KnownInv, Looping!Fresh, Standing
  <2>2. CASE disk # None /\ Looping!CutOff
    <3>1. Looping!ResumesAt = "uncertain"
      BY <2>2 DEF Looping!ResumesAt
    <3> QED BY <1>1, <1>3, <2>2, <3>1 DEF KnownInv, Standing
  <2>3. CASE disk # None /\ ~Looping!CutOff
    <3>1. launched = disk.stages /\ disk.stage = None /\ mem' = disk /\ (disk.retry => launched = <<>>)
      BY <1>1, <2>3 DEF LoopInv, LaunchInv, Looping!CutOff
    <3>2. \/ Looping!ResumesAt = "preflight" /\ disk.retry
          \/ Looping!ResumesAt = "save" /\ ~disk.retry /\ disk.status = "running"
          \/ Looping!ResumesAt = "return"
      BY <2>3 DEF Looping!ResumesAt
    <3> QED BY <1>1, <1>3, <3>1, <3>2 DEF KnownInv, Standing
  <2> QED BY <2>1, <2>2, <2>3
<1> QED BY <1>1, <1>2, <1>3, <1>4, <1>5, StartsSound

LEMMA PreflightSound == ASSUME Looping!LoopAssumption, LoopInv, Looping!Preflight PROVE LoopInv'
<1>1. /\ pc.at = "preflight" /\ Looping!History /\ UNCHANGED content
      /\ \/ disk' = [Looping!Fresh EXCEPT !.status = "blocked", !.retry = TRUE] /\ Looping!Leave
         \/ Looping!Retried
  BY DEF Looping!Preflight
<1>2. mem.stage = None /\ mem.stages = launched /\ launched = <<>> /\ content \in Nat
  BY <1>1 DEF LoopInv, KnownInv, LoopTypeInv
<1>3. CASE disk' = [Looping!Fresh EXCEPT !.status = "blocked", !.retry = TRUE] /\ Looping!Leave
  <2>1. /\ disk' \in Looping!LoopState /\ disk'.accepted = None /\ disk'.stages = <<>>
    BY <1>3, FreshTyped DEF Looping!Fresh, Looping!LoopState
  <2>2. disk' # None
    BY <2>1 DEF Looping!LoopAssumption
  <2> QED BY <1>1, <1>2, <1>3, <2>1, <2>2, LeftSound DEF Looping!Leave
<1>4. CASE Looping!Retried
  <2>1. /\ mem' = [mem EXCEPT !.status = "running", !.retry = FALSE] /\ pc' = [pc EXCEPT !.at = "save"]
        /\ UNCHANGED <<disk, lock, launched, verified, reviewed, content>>
    BY <1>1, <1>4 DEF Looping!Retried, Looping!Go, Looping!History
  <2>2. pc \in LocalState /\ mem \in Looping!LoopState
    BY LocalTyped
  <2>3. /\ mem' \in Looping!LoopState /\ mem'.stage = mem.stage /\ mem'.stages = mem.stages /\ mem'.status = "running"
        /\ mem'.retry = FALSE /\ mem'.accepted = mem.accepted
    BY <2>1, <2>2 DEF Looping!LoopState
  <2>4. pc' \in LocalState /\ pc'.at = "save" /\ pc'.passes = pc.passes
    BY <2>1, <2>2 DEF LocalState, LoopSteps, Standing
  <2>5. KnownInv'
    BY <1>2, <2>1, <2>3, <2>4 DEF KnownInv, Standing
  <2>6. mem.accepted # None => Agreed(mem.accepted)
    BY DEF LoopInv, AgreedInv
  <2>7. pc'.at \in Standing /\ lock' \in BOOLEAN
    BY <2>1, <2>4 DEF Standing, LoopInv, LoopTypeInv
  <2> QED BY <2>1, <2>3, <2>4, <2>5, <2>6, <2>7, StartsSound
<1> QED BY <1>1, <1>3, <1>4

LEMMA SaveSound == ASSUME Looping!LoopAssumption, LoopInv, Looping!Save PROVE LoopInv'
<1>1. /\ pc.at = "save" /\ disk' = mem /\ pc' = [pc EXCEPT !.at = "phase"]
      /\ UNCHANGED <<mem, launched, verified, reviewed, content, lock>>
  BY DEF Looping!Save, Looping!Inside, Looping!History, Looping!Go
<1>2. mem.stage = None /\ ~mem.retry /\ mem.status = "running" /\ mem.stages = launched
  BY <1>1 DEF LoopInv, KnownInv
<1>3. pc \in LocalState /\ mem \in Looping!LoopState
  BY LocalTyped
<1>4. mem # None
  BY <1>3 DEF Looping!LoopAssumption
<1>5. pc' \in LocalState /\ pc'.at = "phase" /\ pc'.passes = pc.passes
  BY <1>1, <1>3 DEF LocalState, LoopSteps
<1>6. pc'.at \notin Standing \cup Turning \cup Checking
  BY <1>5 DEF Standing, Turning, Checking
<1>7. LoopTypeInv'
  BY <1>1, <1>3, <1>5, <1>6 DEF LoopInv, LoopTypeInv
<1>8. KnownInv'
  BY <1>1, <1>2, <1>4, <1>5 DEF KnownInv, Saved
<1>9. LaunchInv'
  BY <1>1, <1>2, <1>4, <1>5 DEF LaunchInv
<1>10. DoneInv'
  BY <1>6 DEF DoneInv
<1>11. AgreedInv'
  BY <1>1, ReviewsStay DEF LoopInv, AgreedInv
<1>12. PassesInv'
  BY <1>1, <1>5, ReviewsStay DEF LoopInv, PassesInv, Looping!Count
<1>13. AskedInv'
  BY <1>5, <1>6 DEF AskedInv
<1> QED BY <1>7, <1>8, <1>9, <1>10, <1>11, <1>12, <1>13 DEF LoopInv

LEMMA LoopInitSound == Looping!Init => LoopInv
<1> SUFFICES ASSUME Looping!Init PROVE LoopInv
  OBVIOUS
<1> USE DEF Looping!Init
<1>1. pc.at = "idle" /\ pc.passes = <<>> /\ mem.accepted = None
  BY DEF Looping!Idle, Looping!Fresh
<1>2. pc.at \in Standing /\ pc.at \notin Turning \cup Checking
  BY <1>1 DEF Standing, Turning, Checking
<1>3. LoopTypeInv
  <2>1. mem \in Looping!LoopState /\ pc \in LocalState
    BY FreshTyped
  <2>2. launched \in Seq(Looping!Stage) /\ verified \in SUBSET Nat /\ reviewed \in Seq(Nat)
    OBVIOUS
  <2>3. pc.at \notin {"turned", "answered", "failing"}
    BY <1>1
  <2> QED BY <1>2, <2>1, <2>2, <2>3 DEF LoopTypeInv
<1>4. KnownInv /\ LaunchInv /\ DoneInv /\ AgreedInv /\ AskedInv
  BY <1>1, <1>2 DEF KnownInv, LaunchInv, DoneInv, AgreedInv, AskedInv
<1>5. PassesInv
  BY <1>1, CountNone DEF PassesInv, Reviews
<1> QED BY <1>3, <1>4, <1>5 DEF LoopInv

LEMMA LoopNextSound == Looping!LoopAssumption /\ LoopInv /\ [Looping!Next]_(Looping!vars) => LoopInv'
<1> SUFFICES ASSUME Looping!LoopAssumption, LoopInv, [Looping!Next]_(Looping!vars) PROVE LoopInv'
  OBVIOUS
<1>1. CASE Looping!Invoke \/ Looping!Return \/ Looping!Uncertain \/ Looping!Preflight \/ Looping!Save
  BY <1>1, InvokeSound, ReturnSound, UncertainSound, PreflightSound, SaveSound
<1>2. CASE Looping!SkipPhase \/ Looping!PhaseStarts \/ Looping!Intend \/ Looping!RoutingRefuses \/ Looping!LaunchTurn
  BY <1>2, SkipPhaseSound, PhaseStartsSound, IntendSound, RoutingRefusesSound, LaunchTurnSound
<1>3. CASE Looping!TurnEnds \/ Looping!TurnThrows \/ Looping!Receipt \/ Looping!Fail \/ Looping!Answered
  BY <1>3, TurnEndsSound, TurnThrowsSound, ReceiptSound, FailSound, AnsweredSound
<1>4. CASE Looping!VerifyStarts \/ (\E passed \in BOOLEAN : Looping!VerifyEnds(passed)) \/ Looping!ExpectReview
  BY <1>4, VerifyStartsSound, VerifyEndsSound, ExpectReviewSound
<1>5. CASE Looping!Accept \/ Looping!SavePhase \/ Looping!Succeed \/ Looping!Throws \/ Looping!Crash
  BY <1>5, AcceptSound, SavePhaseSound, SucceedSound, ThrowsSound, CrashSound
<1>6. CASE Looping!LockRemoved \/ Looping!OthersWrite \/ UNCHANGED Looping!vars
  BY <1>6, OthersSound
<1> QED BY <1>1, <1>2, <1>3, <1>4, <1>5, <1>6 DEF Looping!Next

\* The inductive invariant of a verification loop, for every profile and whatever others write.
THEOREM LoopInvariant == ASSUME Looping!LoopAssumption PROVE Looping!Spec => []LoopInv
<1>1. Looping!Init => LoopInv
  BY LoopInitSound
<1>2. LoopInv /\ [Looping!Next]_(Looping!vars) => LoopInv'
  BY LoopNextSound
<1> QED BY <1>1, <1>2, PTL DEF Looping!Spec

\* What state.json has as accepted was passed by as many reviews as are required, each of which left
\* it alone, and in a lean loop has passed the verification (runManagerLoop).
THEOREM AcceptedAsCheckedHolds == ASSUME Looping!LoopAssumption PROVE Looping!Spec => []Looping!AcceptedAsChecked
<1>1. LoopInv => Looping!AcceptedAsChecked
  BY DEF LoopInv, AgreedInv, Agreed, Reviews, Looping!AcceptedAsChecked
<1> QED BY <1>1, LoopInvariant, PTL

LEMMA LaunchesOnly ==
    ASSUME LoopInv, [Looping!Next]_(Looping!vars), launched' # launched
    PROVE  pc.at = "launch" /\ launched' = Append(launched, Looping!Id) /\ launched = disk.stages
<1>1. Looping!LaunchTurn
  BY DEF Looping!Next, Looping!vars, Looping!History, Looping!Invoke, Looping!Return, Looping!Uncertain, Looping!Preflight,
     Looping!Save, Looping!SkipPhase, Looping!PhaseStarts, Looping!Intend, Looping!RoutingRefuses, Looping!TurnEnds,
     Looping!TurnThrows, Looping!Receipt, Looping!Fail, Looping!Answered, Looping!VerifyStarts, Looping!VerifyEnds,
     Looping!ExpectReview, Looping!Accept, Looping!SavePhase, Looping!Succeed, Looping!Throws, Looping!Crash,
     Looping!LockRemoved, Looping!OthersWrite
<1> QED BY <1>1 DEF Looping!LaunchTurn, LoopInv, LaunchInv

\* A stage is launched again only when each earlier turn of it left a receipt, whatever threw or died.
THEOREM NoBlindRelaunchHolds == ASSUME Looping!LoopAssumption PROVE Looping!Spec => Looping!NoBlindRelaunch
<1>1. ASSUME LoopInv, [Looping!Next]_(Looping!vars), launched' # launched,
             NEW id \in Looping!Range(launched'), Looping!Count(id, launched') > Looping!Count(id, launched)
      PROVE  Looping!Count(id, launched) = Looping!Count(id, disk.stages)
  BY <1>1, LaunchesOnly
<1>2. ASSUME LoopInv, launched' = launched, NEW id
      PROVE  ~(Looping!Count(id, launched') > Looping!Count(id, launched))
  <2>1. launched \in Seq(Looping!Stage)
    BY <1>2 DEF LoopInv, LoopTypeInv
  <2>2. Looping!Count(id, launched) \in Nat
    BY <2>1, CountMore
  <2> QED BY <1>2, <2>2
<1>3. LoopInv /\ [Looping!Next]_(Looping!vars) =>
        [\A id \in Looping!Range(launched') :
            Looping!Count(id, launched') > Looping!Count(id, launched)
            => Looping!Count(id, launched) = Looping!Count(id, disk.stages)]_(Looping!vars)
  BY <1>1, <1>2
<1> QED BY <1>3, LoopInvariant, PTL DEF Looping!Spec, Looping!NoBlindRelaunch

\* No turn is started for a phase that is on record as completed.
THEOREM DoneStaysDoneHolds == ASSUME Looping!LoopAssumption PROVE Looping!Spec => Looping!DoneStaysDone
<1>1. ASSUME LoopInv, [Looping!Next]_(Looping!vars), launched' # launched
      PROVE  Looping!Last(launched')[1] \notin disk.done
  <2>1. pc.at = "launch" /\ launched' = Append(launched, Looping!Id)
    BY <1>1, LaunchesOnly
  <2>2. launched \in Seq(Looping!Stage)
    BY <1>1 DEF LoopInv, LoopTypeInv
  <2>3. Looping!Last(launched') = Looping!Id /\ Looping!Id[1] = pc.phase
    BY <2>1, <2>2 DEF Looping!Last, Looping!Id
  <2>4. pc.phase \notin mem.done /\ mem.done = disk.done
    BY <1>1, <2>1 DEF LoopInv, DoneInv, KnownInv, Saved, Standing, Turning
  <2> QED BY <2>3, <2>4
<1>2. LoopInv /\ [Looping!Next]_(Looping!vars) => [launched' # launched => Looping!Last(launched')[1] \notin disk.done]_(Looping!vars)
  BY <1>1
<1> QED BY <1>2, LoopInvariant, PTL DEF Looping!Spec, Looping!DoneStaysDone

-----------------------------------------------------------------------------
\* Publication: the inductive invariant.

Looks == {"evidence", "capture", "captured", "verify", "verified"}
Publications == {"observe", "permit", "again", "write", "mirror", "search", "push", "pushed", "create", "confirm"}

PublisherState ==
    [at : Publications \cup {"idle"}, commit : Commits \cup {None},
     prior : Publishing!PublicationReceipt \cup {None}, write : Publishing!PublicationReceipt \cup {None},
     then : {"idle", "search", "again"}, aborted : BOOLEAN]

PublisherTypeInv ==
    /\ bundle \in Publishing!PublicationReceipt \cup {None}
    /\ mirror \in Publishing!PublicationReceipt \cup {None}
    /\ pc \in PublisherState
    /\ prs \in Seq(Publishing!PullRequest) /\ branch \in Commits \cup {Other, None}
    /\ pc.at # "idle" => pc.commit \in Commits
    /\ pc.at \in {"write", "mirror"} => pc.write \in Publishing!PublicationReceipt

\* What a scan saw of a file, and what must have become of the file since.
Differed(f, times) == f \in changed \/ back[f] >= times

FreezeInv ==
    /\ back \in [File -> Nat] /\ collected \in BOOLEAN
    /\ scan.at \in Looks \cup {None}
    /\ handoff # None => collected /\ scan.at \in {None, "evidence"}
    /\ scan.at \notin {None, "evidence"} => collected
    /\ DOMAIN scan.seen \subseteq File
    /\ \A f \in DOMAIN scan.seen :
          /\ scan.at = "capture" /\ scan.seen[f] => Differed(f, 1)
          /\ scan.at = "verify" /\ scan.seen[f] /\ f \in scan.manifest => Differed(f, 2)
          /\ scan.at = "captured" /\ ~scan.seen[f] /\ f \in scan.manifest => back[f] >= 1
          /\ scan.at = "verified" /\ ~scan.seen[f] /\ f \in scan.manifest => back[f] >= 2
    /\ scan.manifest \subseteq File
    /\ \A f \in scan.manifest :
          /\ scan.at = "captured" => Differed(f, 1)
          /\ scan.at \in {"verify", "verified"} => back[f] >= 1
          /\ scan.at = "verified" => Differed(f, 2)
    /\ handoff # None => \A f \in handoff : f \in File /\ back[f] >= 2

\* Every receipt, on record or to be written, is of a commit with the frozen content.
Records == ({bundle, mirror} \cup (IF pc.at \in {"write", "mirror"} THEN {pc.write} ELSE {})) \ {None}

Made(commit) == \E i \in DOMAIN prs : prs[i].op = commit

ReceiptsInv ==
    /\ pc.at # "idle" => Publishing!IsReviewed(pc.commit)
    /\ \A r \in Records :
          /\ Publishing!IsReviewed(r.commit)
          /\ r.status \in Publishing!Final =>
                r.pr # None /\ r.pr.draft /\ r.pr.head = r.commit /\ Made(r.commit)
    /\ pc.at \in {"write", "mirror"} => pc.write.commit = pc.commit

\* Between the search and the creation of the request there is none.
RequestInv ==
    /\ pc.at \in {"push", "pushed", "create"} => ~Made(pc.commit)
    /\ \A i, j \in DOMAIN prs : prs[i].op = prs[j].op => i = j

\* A publication that began with a known request writes one; else none was known.
NamedInv ==
    /\ pc.at = "observe" => pc.prior # None /\ pc.prior.pr # None
    /\ pc.at \in {"write", "mirror"} /\ pc.then # "idle" => pc.write.pr = None
    /\ pc.at = "write" /\ pc.write.pr = None => ~Publishing!Named
    /\ pc.at = "mirror" /\ pc.write.pr = None => ~Publishing!Named
    /\ pc.at = "mirror" => bundle = pc.write
    /\ pc.at \notin {"idle", "observe", "write", "mirror"} => ~Publishing!Named

PublishInv == PublisherTypeInv /\ FreezeInv /\ ReceiptsInv /\ RequestInv /\ NamedInv

LEMMA ScansInOrder ==
    /\ Publishing!ScanAfter("evidence") = "capture" /\ Publishing!ScanAfter("capture") = "captured"
    /\ Publishing!ScanAfter("captured") = "verify" /\ Publishing!ScanAfter("verify") = "verified"
    /\ Publishing!ScanAfter("verified") = None
<1> DEFINE Place(look) == CHOOSE i \in 1 .. 4 : Publishing!Scans[i] = look
<1>1. /\ Publishing!Scans[1] = "evidence" /\ Publishing!Scans[2] = "capture" /\ Publishing!Scans[3] = "captured"
      /\ Publishing!Scans[4] = "verify" /\ Publishing!Last(Publishing!Scans) = "verified"
      /\ Publishing!Scans[5] = "verified"
  BY DEF Publishing!Scans, Publishing!Last
<1>2. \A i \in 1 .. 4 : i = 1 \/ i = 2 \/ i = 3 \/ i = 4
  OBVIOUS
<1>3. Place("evidence") = 1 /\ Place("capture") = 2 /\ Place("captured") = 3 /\ Place("verify") = 4
  <2>1. Place("evidence") = 1
    BY <1>1, <1>2
  <2>2. Place("capture") = 2
    BY <1>1, <1>2
  <2>3. Place("captured") = 3
    BY <1>1, <1>2
  <2>4. Place("verify") = 4
    BY <1>1, <1>2
  <2> QED BY <2>1, <2>2, <2>3, <2>4
<1> QED BY <1>1, <1>3 DEF Publishing!ScanAfter

-----------------------------------------------------------------------------
\* Preparation, and those who write to the workspace meanwhile.

LEMMA FreezeStays == ASSUME FreezeInv, UNCHANGED Publishing!workspace PROVE FreezeInv'
  BY DEF FreezeInv, Publishing!workspace, Differed

\* It leaves the records and the requests alone, and a handoff as it is.
LEMMA BesideScan ==
    ASSUME PublishInv, FreezeInv', handoff # None => handoff' = handoff,
           UNCHANGED <<bundle, mirror, pc, branch, prs>>
    PROVE  PublishInv'
<1>1. PublisherTypeInv' /\ RequestInv'
  BY DEF PublishInv, PublisherTypeInv, RequestInv, Made
<1>2. \A c : Publishing!IsReviewed(c) => Publishing!IsReviewed(c)'
  BY DEF Publishing!IsReviewed
<1>3. ReceiptsInv'
  BY <1>2 DEF PublishInv, ReceiptsInv, Records, Made
<1>4. NamedInv'
  BY DEF PublishInv, NamedInv, Publishing!Named
<1> QED BY <1>1, <1>3, <1>4 DEF PublishInv

LEMMA PrepareSound == ASSUME PublishInv, Publishing!Prepare PROVE PublishInv'
<1>1. /\ scan.at = None /\ scan' = [at |-> "evidence", seen |-> << >>, manifest |-> {}]
      /\ back' = IF collected THEN back ELSE [f \in File |-> 0]
      /\ UNCHANGED <<changed, collected, handoff, bundle, mirror, pc, branch, prs>>
  BY DEF Publishing!Prepare, Publishing!NoScan, Publishing!remote
<1>2. FreezeInv'
  BY <1>1 DEF PublishInv, FreezeInv, Looks, Differed
<1> QED BY <1>1, <1>2, BesideScan

LEMMA ReadFileSound ==
    ASSUME Publishing!PublicationAssumption, PublishInv, NEW f \in File, Publishing!ReadFile(f) PROVE PublishInv'
<1>1. /\ scan.at # None /\ f \notin DOMAIN scan.seen
      /\ scan' = [scan EXCEPT !.seen = [g \in DOMAIN scan.seen \cup {f} |->
                                          IF g = f THEN f \in changed ELSE scan.seen[g]]]
      /\ UNCHANGED <<changed, back, collected, handoff, bundle, mirror, pc, branch, prs>>
  BY DEF Publishing!ReadFile, Publishing!remote
<1>2. scan'.at = scan.at /\ scan'.manifest = scan.manifest
      /\ scan'.seen = [g \in DOMAIN scan.seen \cup {f} |-> IF g = f THEN f \in changed ELSE scan.seen[g]]
  BY <1>1 DEF PublishInv, FreezeInv
<1>3. FreezeInv'
  BY <1>1, <1>2 DEF PublishInv, FreezeInv, Differed
<1> QED BY <1>1, <1>3, BesideScan

\* The next look begins with nothing seen.
LEMMA LooksAgain ==
    ASSUME FreezeInv, UNCHANGED <<changed, back, handoff>>, collected', handoff = None,
           NEW look \in Looks, NEW manifest \in SUBSET File, scan' = [at |-> look, seen |-> << >>, manifest |-> manifest],
           \A f \in manifest : /\ look = "captured" => Differed(f, 1)
                               /\ look \in {"verify", "verified"} => back[f] >= 1
                               /\ look = "verified" => Differed(f, 2)
    PROVE  FreezeInv'
<1>1. scan'.at = look /\ scan'.manifest = manifest /\ DOMAIN scan'.seen = {}
  OBVIOUS
<1>2. collected' \in BOOLEAN /\ collected' /\ back' = back /\ changed' = changed /\ handoff' = None /\ back \in [File -> Nat]
  BY DEF FreezeInv
<1>3. \A f \in manifest : /\ look = "captured" => Differed(f, 1)'
                          /\ look \in {"verify", "verified"} => back'[f] >= 1
                          /\ look = "verified" => Differed(f, 2)'
  BY <1>2 DEF Differed
<1>4. /\ back' \in [File -> Nat] /\ collected' \in BOOLEAN /\ scan'.at \in Looks \cup {None} /\ collected' /\ handoff' = None
      /\ DOMAIN scan'.seen \subseteq File /\ scan'.manifest \subseteq File /\ DOMAIN scan'.seen = {}
  BY <1>1, <1>2
<1>5. \A f \in scan'.manifest : /\ scan'.at = "captured" => Differed(f, 1)'
                                /\ scan'.at \in {"verify", "verified"} => back'[f] >= 1
                                /\ scan'.at = "verified" => Differed(f, 2)'
  BY <1>1, <1>3
<1> QED BY <1>4, <1>5 DEF FreezeInv

LEMMA ScanEndsSound ==
    ASSUME Publishing!PublicationAssumption, PublishInv, Publishing!ScanEnds PROVE PublishInv'
<1> DEFINE over == ~Publishing!ScanHolds \/ (scan.at = "evidence" /\ (handoff # None \/ collected))
           next == Publishing!ScanAfter(scan.at)
<1>1. /\ scan.at # None /\ DOMAIN scan.seen = File
      /\ collected' = (collected \/ (scan.at = "evidence" /\ ~over))
      /\ handoff' = IF ~over /\ next = None THEN scan.manifest ELSE handoff
      /\ scan' = IF over \/ next = None THEN Publishing!NoScan
                 ELSE [at |-> next, seen |-> << >>,
                       manifest |-> IF scan.at = "capture" THEN Publishing!Seen ELSE scan.manifest]
      /\ UNCHANGED <<changed, back, bundle, mirror, pc, branch, prs>>
  BY DEF Publishing!ScanEnds, Publishing!remote
<1>2. FreezeInv
  BY DEF PublishInv
<1>3. CASE over
  <2>1. scan' = Publishing!NoScan /\ UNCHANGED <<collected, handoff, back, changed>>
    BY <1>1, <1>2, <1>3 DEF FreezeInv
  <2>2. FreezeInv'
    BY <1>2, <2>1 DEF FreezeInv, Publishing!NoScan, Differed
  <2> QED BY <1>1, <2>1, <2>2, BesideScan
<1>4. CASE ~over
  <2>1. CASE scan.at = "evidence"
    <3>1. /\ handoff = None /\ ~collected /\ collected' /\ handoff' = handoff
          /\ scan' = [at |-> "capture", seen |-> << >>, manifest |-> scan.manifest]
      BY <1>1, <1>4, <2>1, ScansInOrder DEF Publishing!PublicationAssumption
    <3>2. FreezeInv'
      BY <1>1, <1>2, <3>1, LooksAgain DEF FreezeInv, Looks
    <3> QED BY <1>1, <3>1, <3>2, BesideScan
  <2>2. CASE scan.at = "capture"
    <3>1. /\ collected' = collected /\ handoff' = handoff
          /\ scan' = [at |-> "captured", seen |-> << >>, manifest |-> Publishing!Seen]
      BY <1>1, <1>2, <1>4, <2>2, ScansInOrder DEF FreezeInv, Publishing!PublicationAssumption
    <3>2. Publishing!Seen \subseteq File /\ \A f \in Publishing!Seen : Differed(f, 1)
      BY <1>1, <1>2, <2>2 DEF FreezeInv, Publishing!Seen
    <3>3. handoff = None /\ collected
      BY <1>2, <1>1, <2>2 DEF FreezeInv
    <3>4. FreezeInv'
      BY <1>1, <1>2, <3>1, <3>2, <3>3, LooksAgain DEF FreezeInv, Looks
    <3> QED BY <1>1, <3>1, <3>4, BesideScan
  <2>3. CASE scan.at = "captured"
    <3>1. /\ collected' = collected /\ handoff' = handoff
          /\ scan' = [at |-> "verify", seen |-> << >>, manifest |-> scan.manifest]
      BY <1>1, <1>2, <1>4, <2>3, ScansInOrder DEF FreezeInv, Publishing!PublicationAssumption
    <3>2. \A f \in scan.manifest : back[f] >= 1
      <4>1. Publishing!Seen = {}
        BY <1>4, <2>3 DEF Publishing!ScanHolds
      <4> QED BY <1>1, <1>2, <2>3, <4>1 DEF FreezeInv, Publishing!Seen
    <3>3. handoff = None /\ collected
      BY <1>2, <1>1, <2>3 DEF FreezeInv
    <3>4. FreezeInv'
      BY <1>1, <1>2, <3>1, <3>2, <3>3, LooksAgain DEF FreezeInv, Looks
    <3> QED BY <1>1, <3>1, <3>4, BesideScan
  <2>4. CASE scan.at = "verify"
    <3>1. /\ collected' = collected /\ handoff' = handoff
          /\ scan' = [at |-> "verified", seen |-> << >>, manifest |-> scan.manifest]
      BY <1>1, <1>2, <1>4, <2>4, ScansInOrder DEF FreezeInv, Publishing!PublicationAssumption
    <3>2. \A f \in scan.manifest : Differed(f, 2) /\ back[f] >= 1
      <4>1. Publishing!Seen = scan.manifest
        BY <1>4, <2>4 DEF Publishing!ScanHolds
      <4> QED BY <1>1, <1>2, <2>4, <4>1 DEF FreezeInv, Publishing!Seen
    <3>3. handoff = None /\ collected
      BY <1>2, <1>1, <2>4 DEF FreezeInv
    <3>4. FreezeInv'
      BY <1>1, <1>2, <3>1, <3>2, <3>3, LooksAgain DEF FreezeInv, Looks
    <3> QED BY <1>1, <3>1, <3>4, BesideScan
  <2>5. CASE scan.at = "verified"
    <3>1. collected' = collected /\ handoff' = scan.manifest /\ scan' = Publishing!NoScan
      BY <1>1, <1>2, <1>4, <2>5, ScansInOrder DEF FreezeInv
    <3>2. \A f \in scan.manifest : back[f] >= 2
      <4>1. Publishing!Seen = {}
        BY <1>4, <2>5 DEF Publishing!ScanHolds
      <4> QED BY <1>1, <1>2, <2>5, <4>1 DEF FreezeInv, Publishing!Seen
    <3>3. handoff = None /\ collected
      BY <1>2, <1>1, <2>5 DEF FreezeInv
    <3>4. scan'.at = None /\ scan'.manifest = {} /\ DOMAIN scan'.seen = {}
      BY <3>1 DEF Publishing!NoScan
    <3>5. FreezeInv'
      BY <1>1, <1>2, <3>1, <3>2, <3>3, <3>4 DEF FreezeInv
    <3> QED BY <1>1, <3>3, <3>5, BesideScan
  <2> QED BY <1>1, <1>2, <2>1, <2>2, <2>3, <2>4, <2>5 DEF FreezeInv, Looks
<1> QED BY <1>3, <1>4

LEMMA OthersPublishSound ==
    ASSUME Publishing!PublicationAssumption, PublishInv, NEW f \in File, Publishing!OthersWrite(f) PROVE PublishInv'
<1>1. /\ changed' = IF f \in changed THEN changed \ {f} ELSE changed \cup {f}
      /\ back' = IF f \in changed /\ scan.at # None THEN [back EXCEPT ![f] = @ + 1] ELSE back
      /\ UNCHANGED <<collected, handoff, scan, bundle, mirror, pc, branch, prs>>
  BY DEF Publishing!OthersWrite, Publishing!remote
<1>2. FreezeInv
  BY DEF PublishInv
<1>3. back' \in [File -> Nat] /\ \A g \in File : back'[g] >= back[g]
  BY <1>1, <1>2 DEF FreezeInv
<1>4. \A g \in File, n \in Nat : scan.at # None /\ Differed(g, n) /\ back[g] + 1 >= n => Differed(g, n)'
  BY <1>1, <1>2 DEF FreezeInv, Differed
<1>5. \A g : Differed(g, 1)' \/ ~Differed(g, 1) \/ g \notin File \/ scan.at = None
  BY <1>2, <1>3, <1>4 DEF FreezeInv
<1>6. \A g : g \in File /\ back[g] >= 1 /\ Differed(g, 2) /\ scan.at # None => Differed(g, 2)'
  BY <1>2, <1>3, <1>4 DEF FreezeInv
<1>7. \A g : g \in File => /\ back[g] >= 1 => back'[g] >= 1
                           /\ back[g] >= 2 => back'[g] >= 2
  BY <1>2, <1>3 DEF FreezeInv
<1>8. \A g : g \in DOMAIN scan.seen => g \in File
  BY <1>2 DEF FreezeInv
<1>9. FreezeInv'
  BY <1>1, <1>2, <1>3, <1>5, <1>6, <1>7, <1>8 DEF FreezeInv, Looks, Publishing!PublicationAssumption
<1> QED BY <1>1, <1>9, BesideScan

LEMMA PrepareStopsSound == ASSUME PublishInv, Publishing!PrepareStops PROVE PublishInv'
<1>1. /\ scan' = Publishing!NoScan
      /\ UNCHANGED <<changed, back, collected, handoff, bundle, mirror, pc, branch, prs>>
  BY DEF Publishing!PrepareStops, Publishing!remote
<1>2. FreezeInv'
  BY <1>1 DEF PublishInv, FreezeInv, Publishing!NoScan, Differed
<1> QED BY <1>1, <1>2, BesideScan

-----------------------------------------------------------------------------
\* Publication: what a step says of itself, and what it leaves.

LEMMA RequestsTyped ==
    ASSUME PublishInv, UNCHANGED <<branch, prs>>
    PROVE  /\ prs' \in Seq(Publishing!PullRequest) /\ branch' \in Commits \cup {Other, None}
           /\ \A c : Made(c)' = Made(c)
           /\ \A i, j \in DOMAIN prs' : prs'[i].op = prs'[j].op => i = j
  BY DEF PublishInv, PublisherTypeInv, RequestInv, Made

LEMMA RecordsKept ==
    ASSUME PublishInv, UNCHANGED <<handoff, bundle, mirror>>, \A c : Made(c) => Made(c)'
    PROVE  \A r \in {bundle', mirror'} \ {None} :
              /\ Publishing!IsReviewed(r.commit)'
              /\ r.status \in Publishing!Final =>
                    r.pr # None /\ r.pr.draft /\ r.pr.head = r.commit /\ Made(r.commit)'
  BY DEF PublishInv, ReceiptsInv, Records, Publishing!IsReviewed

\* A step to another, which writes nothing.
LEMMA GoSound ==
    ASSUME PublishInv, pc.at \in Publications \ {"observe", "write", "mirror"},
           UNCHANGED <<Publishing!workspace, bundle, mirror>>,
           prs' \in Seq(Publishing!PullRequest), branch' \in Commits \cup {Other, None},
           \A c : Made(c) => Made(c)',
           \A i, j \in DOMAIN prs' : prs'[i].op = prs'[j].op => i = j,
           NEW k \in {"search", "push", "pushed", "create", "confirm"}, pc' = [pc EXCEPT !.at = k],
           k \in {"push", "pushed", "create"} => prs' = prs /\ ~Made(pc.commit)
    PROVE  PublishInv'
<1>1. pc \in PublisherState
  BY DEF PublishInv, PublisherTypeInv
<1>2. /\ pc'.at = k /\ pc'.commit = pc.commit /\ pc'.at \notin {"idle", "observe", "permit", "again", "write", "mirror"}
      /\ pc' \in PublisherState
  BY <1>1 DEF PublisherState, Publications
<1>3. PublisherTypeInv'
  BY <1>2 DEF PublishInv, PublisherTypeInv, Publications
<1>4. FreezeInv'
  BY FreezeStays DEF PublishInv
<1>5. UNCHANGED <<handoff, bundle, mirror>>
  BY DEF Publishing!workspace
<1>6. ReceiptsInv'
  <2>1. Records' = {bundle', mirror'} \ {None}
    BY <1>2 DEF Records
  <2>2. Publishing!IsReviewed(pc.commit)
    BY DEF PublishInv, ReceiptsInv, Publications
  <2>3. Publishing!IsReviewed(pc.commit)'
    BY <1>2, <1>5, <2>2 DEF Publishing!IsReviewed
  <2> QED BY <1>2, <1>5, <2>1, <2>3, RecordsKept DEF ReceiptsInv
<1>7. RequestInv'
  BY <1>2 DEF RequestInv, Made
<1>8. ~Publishing!Named
  BY DEF PublishInv, NamedInv, Publications
<1>9. NamedInv'
  BY <1>2, <1>5, <1>8 DEF NamedInv, Publishing!Named
<1> QED BY <1>3, <1>4, <1>6, <1>7, <1>9 DEF PublishInv

\* A receipt that is to be written.
LEMMA WriteSound ==
    ASSUME PublishInv, Publishing!PublicationAssumption, pc.at \in Publications \ {"write", "mirror"},
           UNCHANGED <<Publishing!workspace, bundle, mirror>>,
           prs' \in Seq(Publishing!PullRequest), branch' \in Commits \cup {Other, None},
           \A c : Made(c) => Made(c)',
           \A i, j \in DOMAIN prs' : prs'[i].op = prs'[j].op => i = j,
           NEW status \in {"intended", "blocked", "failed", "uncertain", "published", "reconciled"},
           NEW pr \in Publishing!PullRequest \cup {None}, NEW then \in {"idle", "search", "again"},
           Publishing!Write(status, pr, then),
           status \in Publishing!Final => pr # None /\ pr.draft /\ pr.head = pc.commit /\ Made(pc.commit),
           then # "idle" => pr = None, pr = None => pc.at # "observe"
    PROVE  PublishInv'
<1> DEFINE receipt == [status |-> status, commit |-> pc.commit, pr |-> pr]
<1>1. pc \in PublisherState /\ pc.commit \in Commits
  BY DEF PublishInv, PublisherTypeInv, Publications
<1>2. receipt \in Publishing!PublicationReceipt
  BY <1>1 DEF Publishing!PublicationReceipt
<1>3. receipt # None
  BY <1>2 DEF Publishing!PublicationAssumption
<1>4. pc' = [pc EXCEPT !.at = "write", !.write = receipt, !.then = then]
  BY DEF Publishing!Write, Publishing!Receipt
<1>5. pc'.at = "write" /\ pc'.write = receipt /\ pc'.then = then /\ pc'.commit = pc.commit /\ pc' \in PublisherState
  BY <1>1, <1>2, <1>4 DEF PublisherState, Publications
<1>6. PublisherTypeInv'
  BY <1>1, <1>2, <1>5 DEF PublishInv, PublisherTypeInv
<1>7. FreezeInv'
  BY FreezeStays DEF PublishInv
<1>8. UNCHANGED <<handoff, bundle, mirror>>
  BY DEF Publishing!workspace
<1>9. ReceiptsInv'
  <2>1. Records' = ({bundle', mirror'} \ {None}) \cup {receipt}
    BY <1>3, <1>5 DEF Records
  <2>2. Publishing!IsReviewed(pc.commit)
    BY DEF PublishInv, ReceiptsInv, Publications
  <2>4. Publishing!IsReviewed(pc.commit)'
    BY <1>5, <1>8, <2>2 DEF Publishing!IsReviewed
  <2>3. receipt.commit = pc.commit /\ receipt.status = status /\ receipt.pr = pr
    OBVIOUS
  <2> HIDE DEF receipt
  <2> QED BY <1>5, <1>8, <2>1, <2>3, <2>4, RecordsKept DEF ReceiptsInv
<1>10. RequestInv'
  BY <1>5 DEF RequestInv
<1>11. NamedInv'
  <2>1. receipt.pr = pr
    OBVIOUS
  <2>2. pr = None => ~Publishing!Named
    BY DEF PublishInv, NamedInv, Publications
  <2>3. pr = None => ~Publishing!Named'
    BY <1>8, <2>2 DEF Publishing!Named
  <2> HIDE DEF receipt
  <2> QED BY <1>5, <2>1, <2>3 DEF NamedInv
<1> QED BY <1>6, <1>7, <1>9, <1>10, <1>11 DEF PublishInv

\* The end of a call, whether the lock goes or stays.
LEMMA EndSound ==
    ASSUME PublishInv, pc' = Publishing!Idle, UNCHANGED <<Publishing!workspace, branch, prs>>,
           \/ UNCHANGED <<bundle, mirror>>
           \/ pc.at = "mirror" /\ bundle' = bundle /\ mirror' = pc.write
    PROVE  PublishInv'
<1>1. pc' \in PublisherState /\ pc'.at = "idle"
  BY DEF Publishing!Idle, PublisherState
<1>2. PublisherTypeInv'
  BY <1>1 DEF PublishInv, PublisherTypeInv
<1>3. FreezeInv'
  BY FreezeStays DEF PublishInv
<1>4. handoff' = handoff
  BY DEF Publishing!workspace
<1>5. Records' \subseteq Records
  BY <1>1 DEF Records
<1>6. ReceiptsInv'
  BY <1>1, <1>4, <1>5 DEF PublishInv, ReceiptsInv, Publishing!IsReviewed, Made
<1>7. RequestInv'
  BY <1>1 DEF PublishInv, RequestInv, Made
<1>8. NamedInv'
  BY <1>1 DEF NamedInv
<1> QED BY <1>2, <1>3, <1>6, <1>7, <1>8 DEF PublishInv

-----------------------------------------------------------------------------
\* The steps of a publication.

LEMMA PublishSound ==
    ASSUME PublishInv, Publishing!PublicationAssumption, NEW commit \in Commits, Publishing!Publish(commit)
    PROVE  PublishInv'
<1> DEFINE prior == Publishing!Prior
           first == IF prior # None /\ prior.pr # None THEN "observe" ELSE "permit"
<1>1. /\ Publishing!IsReviewed(commit)
      /\ pc' = [Publishing!Idle EXCEPT !.commit = commit, !.prior = prior, !.at = first]
      /\ UNCHANGED <<Publishing!workspace, bundle, mirror, branch, prs>>
  BY DEF Publishing!Publish, Publishing!remote
<1>2. prior \in Publishing!PublicationReceipt \cup {None}
  BY DEF PublishInv, PublisherTypeInv, Publishing!Prior
<1>3. /\ pc' \in PublisherState /\ pc'.at = first /\ pc'.commit = commit /\ pc'.prior = prior
      /\ pc'.at \in {"observe", "permit"}
  BY <1>1, <1>2 DEF Publishing!Idle, PublisherState, Publications
<1>4. PublisherTypeInv'
  BY <1>1, <1>3 DEF PublishInv, PublisherTypeInv
<1>5. FreezeInv'
  BY <1>1, FreezeStays DEF PublishInv
<1>6. handoff' = handoff
  BY <1>1 DEF Publishing!workspace
<1>7. ReceiptsInv'
  <2>1. Records' = {bundle', mirror'} \ {None} /\ \A c : Made(c)' = Made(c)
    BY <1>1, <1>3 DEF Records, Made
  <2>2. Publishing!IsReviewed(commit)'
    BY <1>1, <1>6 DEF Publishing!IsReviewed
  <2> QED BY <1>1, <1>3, <1>6, <2>1, <2>2, RecordsKept DEF ReceiptsInv
<1>8. RequestInv'
  BY <1>1, <1>3 DEF PublishInv, RequestInv, Made
<1>9. prior = None \/ prior.pr = None => ~Publishing!Named
  <2>1. bundle = None \/ mirror = None \/ \A r \in {bundle, mirror} : r \in Publishing!PublicationReceipt
    BY DEF PublishInv, PublisherTypeInv
  <2>2. ASSUME NEW r \in Publishing!PublicationReceipt
        PROVE  /\ r.pr = None => Publishing!receiptRank(r) \in {0, 1}
               /\ r.pr # None => Publishing!receiptRank(r) \in {2, 3}
    BY DEF Publishing!receiptRank
  <2>3. CASE bundle = None \/ mirror = None
    BY <2>3 DEF Publishing!Prior, Publishing!Named
  <2>4. CASE bundle # None /\ mirror # None
    BY <2>1, <2>2, <2>4 DEF Publishing!Prior, Publishing!Named
  <2> QED BY <2>3, <2>4
<1>10. NamedInv'
  <2>1. Publishing!Named' = Publishing!Named
    BY <1>1 DEF Publishing!Named
  <2>2. first = "permit" <=> prior = None \/ prior.pr = None
    OBVIOUS
  <2>3. first \in {"observe", "permit"}
    OBVIOUS
  <2> HIDE DEF first, prior
  <2> QED BY <1>3, <1>9, <2>1, <2>2, <2>3 DEF NamedInv
<1> QED BY <1>4, <1>5, <1>7, <1>8, <1>10 DEF PublishInv

LEMMA ObservedSound ==
    ASSUME PublishInv, Publishing!PublicationAssumption, pc.at \in {"observe", "again"},
           NEW known \in Publishing!PullRequest \cup {None}, pc.at = "observe" => known # None,
           Publishing!Observed(known, Publishing!Found(pc.commit)),
           UNCHANGED <<Publishing!workspace, bundle, mirror, branch, prs>>
    PROVE  PublishInv'
<1>1. pc.at \in Publications \ {"write", "mirror"}
  BY DEF Publications
<1>2. CASE Publishing!Write("uncertain", known, "idle")
  BY <1>1, <1>2, RequestsTyped, WriteSound DEF Publishing!Final
<1>3. CASE pc' = [pc EXCEPT !.at = "search"] /\ known = None
  <2>1. pc.at \in Publications \ {"observe", "write", "mirror"}
    BY <1>1, <1>3
  <2> QED BY <1>3, <2>1, RequestsTyped, GoSound
<1>4. ASSUME NEW i \in Publishing!Found(pc.commit),
             Publishing!Write(IF prs[i].state = "OPEN" /\ Publishing!Matches(prs[i], pc.commit)
                              THEN "reconciled" ELSE "uncertain", prs[i], "idle")
      PROVE  PublishInv'
  <2>1. i \in DOMAIN prs /\ prs[i] \in Publishing!PullRequest /\ Made(pc.commit)
    BY DEF PublishInv, PublisherTypeInv, Publishing!Found, Made
  <2>2. prs[i] # None
    BY <2>1 DEF Publishing!PublicationAssumption
  <2>3. CASE prs[i].state = "OPEN" /\ Publishing!Matches(prs[i], pc.commit)
    <3>1. Publishing!Write("reconciled", prs[i], "idle") /\ prs[i].draft /\ prs[i].head = pc.commit
      BY <1>4, <2>3 DEF Publishing!Matches
    <3> QED BY <1>1, <2>1, <2>2, <3>1, RequestsTyped, WriteSound
  <2>4. CASE ~(prs[i].state = "OPEN" /\ Publishing!Matches(prs[i], pc.commit))
    <3>1. Publishing!Write("uncertain", prs[i], "idle")
      BY <1>4, <2>4
    <3> QED BY <1>1, <2>1, <2>2, <3>1, RequestsTyped, WriteSound DEF Publishing!Final
  <2> QED BY <2>3, <2>4
<1> QED BY <1>2, <1>3, <1>4 DEF Publishing!Observed

LEMMA ObservePriorSound ==
    ASSUME PublishInv, Publishing!PublicationAssumption, Publishing!ObservePrior PROVE PublishInv'
<1>1. pc.prior # None /\ pc.prior.pr # None /\ pc.prior \in Publishing!PublicationReceipt \cup {None}
  BY DEF Publishing!ObservePrior, PublishInv, NamedInv, PublisherTypeInv, PublisherState
<1>2. pc.prior.pr \in Publishing!PullRequest \cup {None}
  BY <1>1 DEF Publishing!PublicationReceipt
<1> QED BY <1>1, <1>2, ObservedSound DEF Publishing!ObservePrior, Publishing!Beside, Publishing!remote

LEMMA ObserveAgainSound ==
    ASSUME PublishInv, Publishing!PublicationAssumption, Publishing!ObserveAgain PROVE PublishInv'
  BY ObservedSound DEF Publishing!ObserveAgain, Publishing!Beside, Publishing!remote

LEMMA PermitSound == ASSUME PublishInv, Publishing!PublicationAssumption, Publishing!Permit PROVE PublishInv'
<1>1. pc.at \in Publications \ {"write", "mirror"} /\ pc.at # "observe"
  BY DEF Publishing!Permit, Publications
<1>2. \E then \in {"search", "again"} : Publishing!Write("intended", None, then)
  BY DEF Publishing!Permit
<1>3. UNCHANGED <<Publishing!workspace, bundle, mirror, branch, prs>>
  BY DEF Publishing!Permit, Publishing!Local, Publishing!Beside, Publishing!remote
<1> QED BY <1>1, <1>2, <1>3, RequestsTyped, WriteSound DEF Publishing!Final

LEMMA WriteBundleSound ==
    ASSUME PublishInv, Publishing!PublicationAssumption, Publishing!WriteBundle PROVE PublishInv'
<1>1. /\ pc.at = "write" /\ bundle' = pc.write /\ pc' = [pc EXCEPT !.at = "mirror"] /\ mirror' = mirror
      /\ UNCHANGED <<Publishing!workspace, branch, prs>>
  BY DEF Publishing!WriteBundle, Publishing!Beside, Publishing!remote
<1>2. pc \in PublisherState /\ pc.write \in Publishing!PublicationReceipt /\ pc.commit \in Commits
  BY <1>1 DEF PublishInv, PublisherTypeInv
<1>3. pc'.at = "mirror" /\ pc'.write = pc.write /\ pc'.then = pc.then /\ pc'.commit = pc.commit /\ pc' \in PublisherState
  BY <1>1, <1>2 DEF PublisherState, Publications
<1>4. PublisherTypeInv'
  BY <1>1, <1>2, <1>3 DEF PublishInv, PublisherTypeInv
<1>5. FreezeInv'
  BY <1>1, FreezeStays DEF PublishInv
<1>6. handoff' = handoff
  BY <1>1 DEF Publishing!workspace
<1>7. Records' \subseteq Records
  BY <1>1, <1>3 DEF Records
<1>8. ReceiptsInv'
  BY <1>1, <1>3, <1>6, <1>7 DEF PublishInv, ReceiptsInv, Publishing!IsReviewed, Made
<1>9. RequestInv'
  BY <1>1, <1>3 DEF PublishInv, RequestInv, Made
<1>10. NamedInv'
  BY <1>1, <1>3 DEF PublishInv, NamedInv, Publishing!Named
<1> QED BY <1>4, <1>5, <1>8, <1>9, <1>10 DEF PublishInv

LEMMA WriteMirrorSound ==
    ASSUME PublishInv, Publishing!PublicationAssumption, Publishing!WriteMirror PROVE PublishInv'
<1>1. /\ pc.at = "mirror" /\ bundle' = bundle /\ mirror' = pc.write
      /\ pc' = IF pc.then = "idle" THEN Publishing!Idle ELSE [pc EXCEPT !.at = pc.then, !.write = None]
      /\ UNCHANGED <<Publishing!workspace, branch, prs>>
  BY DEF Publishing!WriteMirror, Publishing!Beside, Publishing!remote
<1>2. CASE pc.then = "idle"
  BY <1>1, <1>2, EndSound
<1>3. CASE pc.then # "idle"
  <2>1. pc \in PublisherState /\ pc.write \in Publishing!PublicationReceipt /\ pc.commit \in Commits
    BY <1>1 DEF PublishInv, PublisherTypeInv
  <2>2. pc.then \in {"search", "again"}
    BY <1>3, <2>1 DEF PublisherState
  <2>3. pc'.at \in {"search", "again"} /\ pc'.commit = pc.commit /\ pc' \in PublisherState
    BY <1>1, <1>3, <2>1, <2>2 DEF PublisherState, Publications
  <2>4. PublisherTypeInv'
    BY <1>1, <2>1, <2>3 DEF PublishInv, PublisherTypeInv
  <2>5. FreezeInv'
    BY <1>1, FreezeStays DEF PublishInv
  <2>6. handoff' = handoff
    BY <1>1 DEF Publishing!workspace
  <2>7. Records' \subseteq Records
    BY <1>1, <2>3 DEF Records
  <2>8. ReceiptsInv'
    BY <1>1, <2>3, <2>6, <2>7 DEF PublishInv, ReceiptsInv, Publishing!IsReviewed, Made
  <2>9. RequestInv'
    BY <1>1, <2>3 DEF PublishInv, RequestInv, Made
  <2>10. pc.write.pr = None /\ ~Publishing!Named
    BY <1>1, <1>3 DEF PublishInv, NamedInv
  <2>11. NamedInv'
    BY <1>1, <2>3, <2>10 DEF NamedInv, Publishing!Named
  <2> QED BY <2>4, <2>5, <2>8, <2>9, <2>11 DEF PublishInv
<1> QED BY <1>2, <1>3

LEMMA ThrowWrites ==
    ASSUME Publishing!Throw PROVE \E status \in {"blocked", "uncertain"} : Publishing!Write(status, None, "idle")
  BY DEF Publishing!Throw

\* Whatever ends a call without a request in hand.
LEMMA GivesUpSound ==
    ASSUME PublishInv, Publishing!PublicationAssumption, pc.at \in {"search", "push", "pushed", "create", "confirm"},
           NEW status \in {"blocked", "failed", "uncertain"}, Publishing!Write(status, None, "idle"),
           UNCHANGED <<Publishing!workspace, bundle, mirror>>,
           prs' \in Seq(Publishing!PullRequest), branch' \in Commits \cup {Other, None},
           \A c : Made(c) => Made(c)',
           \A i, j \in DOMAIN prs' : prs'[i].op = prs'[j].op => i = j
    PROVE  PublishInv'
<1>1. pc.at \in Publications \ {"write", "mirror"} /\ pc.at # "observe" /\ status \notin Publishing!Final
  BY DEF Publications, Publishing!Final
<1> QED BY <1>1, WriteSound

LEMMA SearchFailsSound ==
    ASSUME PublishInv, Publishing!PublicationAssumption, Publishing!SearchFails PROVE PublishInv'
<1>1. UNCHANGED <<Publishing!workspace, bundle, mirror, branch, prs>> /\ pc.at \in {"search", "confirm"} /\ Publishing!Throw
  BY DEF Publishing!SearchFails, Publishing!Beside, Publishing!remote
<1> QED BY <1>1, ThrowWrites, RequestsTyped, GivesUpSound

LEMMA GuardedSound ==
    ASSUME PublishInv, Publishing!PublicationAssumption, NEW step \in {"push", "create"}, Publishing!Guarded(step) PROVE PublishInv'
<1>1. UNCHANGED <<Publishing!workspace, bundle, mirror, branch, prs>> /\ pc.at = step /\ Publishing!Throw
  BY DEF Publishing!Guarded, Publishing!Local, Publishing!Beside, Publishing!remote
<1> QED BY <1>1, ThrowWrites, RequestsTyped, GivesUpSound

LEMMA BlockedSound ==
    ASSUME PublishInv, Publishing!PublicationAssumption, Publishing!Blocked PROVE PublishInv'
<1>1. /\ UNCHANGED <<Publishing!workspace, bundle, mirror, branch, prs>>
      /\ pc.at \in {"push", "pushed"} /\ Publishing!Write("blocked", None, "idle")
  BY DEF Publishing!Blocked, Publishing!Local, Publishing!Beside, Publishing!remote
<1> QED BY <1>1, RequestsTyped, GivesUpSound

LEMMA SearchSound == ASSUME PublishInv, Publishing!PublicationAssumption, Publishing!Search PROVE PublishInv'
<1>1. UNCHANGED <<Publishing!workspace, bundle, mirror, branch, prs>> /\ pc.at \in {"search", "confirm"}
  BY DEF Publishing!Search, Publishing!Local, Publishing!Beside, Publishing!remote
<1>2. CASE Publishing!Found(pc.commit) = {} /\ pc' = [pc EXCEPT !.at = "push"]
  <2>1. ~Made(pc.commit)
    BY <1>2 DEF Publishing!Found, Made
  <2> QED BY <1>1, <1>2, <2>1, RequestsTyped, GoSound DEF Publications
<1>3. CASE Publishing!Write("uncertain", None, "idle")
  BY <1>1, <1>3, RequestsTyped, GivesUpSound
<1>4. ASSUME NEW i \in Publishing!Found(pc.commit), Publishing!Matches(prs[i], pc.commit),
             NEW status \in Publishing!Final, Publishing!Write(status, prs[i], "idle")
      PROVE  PublishInv'
  <2>1. i \in DOMAIN prs /\ prs[i] \in Publishing!PullRequest /\ Made(pc.commit)
    BY DEF PublishInv, PublisherTypeInv, Publishing!Found, Made
  <2>2. prs[i] # None
    BY <2>1 DEF Publishing!PublicationAssumption
  <2>3. prs[i].draft /\ prs[i].head = pc.commit
    BY <1>4 DEF Publishing!Matches
  <2>4. pc.at \in Publications \ {"write", "mirror"} /\ status \in {"published", "reconciled"}
    BY <1>1 DEF Publications, Publishing!Final
  <2> QED BY <1>1, <1>4, <2>1, <2>2, <2>3, <2>4, RequestsTyped, WriteSound
<1> QED BY <1>1, <1>2, <1>3, <1>4 DEF Publishing!Search, Publishing!Final

LEMMA PushSound == ASSUME PublishInv, Publishing!PublicationAssumption, Publishing!Push PROVE PublishInv'
<1>1. pc.at = "push" /\ pc.commit \in Commits
  BY DEF Publishing!Push, PublishInv, PublisherTypeInv
<1>2. UNCHANGED <<Publishing!workspace, bundle, mirror, prs>> /\ branch' \in {branch, pc.commit}
  BY DEF Publishing!Push, Publishing!Beside
<1>3. /\ prs' \in Seq(Publishing!PullRequest) /\ branch' \in Commits \cup {Other, None}
      /\ \A c : Made(c)' = Made(c)
      /\ \A i, j \in DOMAIN prs' : prs'[i].op = prs'[j].op => i = j
  BY <1>1, <1>2 DEF PublishInv, PublisherTypeInv, RequestInv, Made
<1>4. CASE pc' = [pc EXCEPT !.at = "pushed"]
  <2>1. ~Made(pc.commit)
    BY <1>1 DEF PublishInv, RequestInv
  <2> QED BY <1>1, <1>2, <1>3, <1>4, <2>1, GoSound DEF Publications
<1>5. CASE Publishing!Write("failed", None, "idle")
  BY <1>1, <1>2, <1>3, <1>5, GivesUpSound
<1> QED BY <1>4, <1>5 DEF Publishing!Push

LEMMA PushedSound == ASSUME PublishInv, Publishing!PublicationAssumption, Publishing!Pushed PROVE PublishInv'
<1>1. UNCHANGED <<Publishing!workspace, bundle, mirror, branch, prs>> /\ pc.at = "pushed"
  BY DEF Publishing!Pushed, Publishing!Local, Publishing!Beside, Publishing!remote
<1>2. CASE pc' = [pc EXCEPT !.at = "create"]
  <2>1. ~Made(pc.commit)
    BY <1>1 DEF PublishInv, RequestInv
  <2> QED BY <1>1, <1>2, <2>1, RequestsTyped, GoSound DEF Publications
<1>3. CASE Publishing!Write("uncertain", None, "idle")
  BY <1>1, <1>3, RequestsTyped, GivesUpSound
<1> QED BY <1>2, <1>3 DEF Publishing!Pushed

\* The one step that makes a request: of a commit of which there was none.
LEMMA CreateSound == ASSUME PublishInv, Publishing!PublicationAssumption, Publishing!Create PROVE PublishInv'
<1> DEFINE made == [op |-> pc.commit, head |-> branch, draft |-> TRUE, state |-> "OPEN"]
<1>1. /\ pc.at = "create" /\ prs' = Append(prs, made)
      /\ UNCHANGED <<Publishing!workspace, bundle, mirror, branch>>
  BY DEF Publishing!Create, Publishing!Beside
<1>2. prs \in Seq(Publishing!PullRequest) /\ branch \in Commits \cup {Other, None} /\ pc.commit \in Commits
  BY <1>1 DEF PublishInv, PublisherTypeInv
<1>3. made \in Publishing!PullRequest /\ made.op = pc.commit
  BY <1>2 DEF Publishing!PullRequest
<1> HIDE DEF made
<1>4. prs' \in Seq(Publishing!PullRequest) /\ branch' \in Commits \cup {Other, None}
  BY <1>1, <1>2, <1>3
<1>5. /\ DOMAIN prs = 1 .. Len(prs) /\ DOMAIN prs' = 1 .. Len(prs) + 1 /\ Len(prs) \in Nat
      /\ \A i \in DOMAIN prs : prs'[i] = prs[i]
      /\ prs'[Len(prs) + 1] = made
  BY <1>1, <1>2, <1>3
<1>6. \A c : Made(c) => Made(c)'
  BY <1>5 DEF Made
<1>7. \A i \in DOMAIN prs : prs[i].op # pc.commit
  BY <1>1 DEF PublishInv, RequestInv, Made
<1>8. \A i, j \in DOMAIN prs : prs[i].op = prs[j].op => i = j
  BY DEF PublishInv, RequestInv
<1>9. \A i \in DOMAIN prs' : i \in DOMAIN prs \/ i = Len(prs) + 1
  BY <1>5
<1>10. \A i, j \in DOMAIN prs' : prs'[i].op = prs'[j].op => i = j
  BY <1>3, <1>5, <1>7, <1>8, <1>9
<1>11. CASE pc' = [pc EXCEPT !.at = "confirm"]
  BY <1>1, <1>4, <1>6, <1>10, <1>11, GoSound DEF Publications
<1>12. CASE Publishing!Write("failed", None, "idle")
  BY <1>1, <1>4, <1>6, <1>10, <1>12, GivesUpSound
<1> QED BY <1>11, <1>12 DEF Publishing!Create

LEMMA AbortSound == ASSUME PublishInv, Publishing!Abort PROVE PublishInv'
<1>1. pc' = [pc EXCEPT !.aborted = TRUE] /\ UNCHANGED <<Publishing!workspace, bundle, mirror, branch, prs>>
  BY DEF Publishing!Abort, Publishing!Beside, Publishing!remote
<1>2. pc \in PublisherState
  BY DEF PublishInv, PublisherTypeInv
<1>3. /\ pc'.at = pc.at /\ pc'.commit = pc.commit /\ pc'.prior = pc.prior /\ pc'.write = pc.write /\ pc'.then = pc.then
      /\ pc' \in PublisherState
  BY <1>1, <1>2 DEF PublisherState
<1>4. PublisherTypeInv' /\ RequestInv'
  BY <1>1, <1>3 DEF PublishInv, PublisherTypeInv, RequestInv, Made
<1>5. FreezeInv'
  BY <1>1, FreezeStays DEF PublishInv
<1>6. handoff' = handoff
  BY <1>1 DEF Publishing!workspace
<1>7. ReceiptsInv'
  BY <1>1, <1>3, <1>6 DEF PublishInv, ReceiptsInv, Records, Publishing!IsReviewed, Made
<1>8. NamedInv'
  BY <1>1, <1>3 DEF PublishInv, NamedInv, Publishing!Named
<1> QED BY <1>4, <1>5, <1>7, <1>8 DEF PublishInv

LEMMA PublishStopsSound == ASSUME PublishInv, Publishing!PublishStops PROVE PublishInv'
<1>1. pc' = Publishing!Idle /\ UNCHANGED <<Publishing!workspace, bundle, mirror, branch, prs>>
  BY DEF Publishing!PublishStops, Publishing!Beside, Publishing!remote
<1> QED BY <1>1, EndSound

\* Requests change, but for what they are of.
LEMMA RemoteChangesSound == ASSUME PublishInv, Publishing!RemoteChanges PROVE PublishInv'
<1>1. UNCHANGED <<Publishing!workspace, bundle, mirror, pc>> /\ branch' \in {branch, Other}
  BY DEF Publishing!RemoteChanges
<1>2. prs \in Seq(Publishing!PullRequest) /\ branch \in Commits \cup {Other, None}
  BY DEF PublishInv, PublisherTypeInv
<1>3. prs' \in Seq(Publishing!PullRequest) /\ DOMAIN prs' = DOMAIN prs /\ \A i \in DOMAIN prs : prs'[i].op = prs[i].op
  <2>1. CASE prs' = [i \in DOMAIN prs |-> IF prs[i].state = "OPEN"
                                          THEN [prs[i] EXCEPT !.head = Other] ELSE prs[i]]
    <3>1. \A i \in DOMAIN prs : prs[i] \in Publishing!PullRequest
      BY <1>2
    <3>2. \A i \in DOMAIN prs : /\ [prs[i] EXCEPT !.head = Other] \in Publishing!PullRequest
                                /\ [prs[i] EXCEPT !.head = Other].op = prs[i].op
      BY <3>1 DEF Publishing!PullRequest
    <3>3. DOMAIN prs = 1 .. Len(prs) /\ Len(prs) \in Nat
      BY <1>2
    <3>4. \A i \in DOMAIN prs : prs'[i] \in Publishing!PullRequest /\ prs'[i].op = prs[i].op
      BY <2>1, <3>1, <3>2
    <3>5. DOMAIN prs' = 1 .. Len(prs) /\ prs' = [i \in 1 .. Len(prs) |-> prs'[i]]
      BY <2>1, <3>3
    <3> QED BY <3>3, <3>4, <3>5
  <2>2. ASSUME NEW i \in DOMAIN prs, NEW state \in {"CLOSED", "MERGED"}, prs' = [prs EXCEPT ![i].state = state]
        PROVE  prs' \in Seq(Publishing!PullRequest) /\ DOMAIN prs' = DOMAIN prs
               /\ \A j \in DOMAIN prs : prs'[j].op = prs[j].op
    <3>1. [prs[i] EXCEPT !.state = state] \in Publishing!PullRequest /\ [prs[i] EXCEPT !.state = state].op = prs[i].op
      <4>1. prs[i] \in Publishing!PullRequest
        BY <1>2
      <4> QED BY <4>1 DEF Publishing!PullRequest
    <3> QED BY <1>2, <2>2, <3>1
  <2>3. ASSUME NEW i \in DOMAIN prs, prs' = [prs EXCEPT ![i].draft = ~@]
        PROVE  prs' \in Seq(Publishing!PullRequest) /\ DOMAIN prs' = DOMAIN prs
               /\ \A j \in DOMAIN prs : prs'[j].op = prs[j].op
    <3>1. [prs[i] EXCEPT !.draft = ~@] \in Publishing!PullRequest /\ [prs[i] EXCEPT !.draft = ~@].op = prs[i].op
      <4>1. prs[i] \in Publishing!PullRequest
        BY <1>2
      <4> QED BY <4>1 DEF Publishing!PullRequest
    <3> QED BY <1>2, <2>3, <3>1
  <2> QED BY <2>1, <2>2, <2>3 DEF Publishing!RemoteChanges
<1>4. \A c : Made(c)' = Made(c)
  BY <1>3 DEF Made
<1>5. PublisherTypeInv'
  BY <1>1, <1>2, <1>3 DEF PublishInv, PublisherTypeInv
<1>6. RequestInv'
  BY <1>1, <1>3, <1>4 DEF PublishInv, RequestInv
<1>7. FreezeInv'
  BY <1>1, FreezeStays DEF PublishInv
<1>8. handoff' = handoff
  BY <1>1 DEF Publishing!workspace
<1>9. ReceiptsInv'
  BY <1>1, <1>4, <1>8 DEF PublishInv, ReceiptsInv, Records, Publishing!IsReviewed
<1>10. NamedInv'
  BY <1>1 DEF PublishInv, NamedInv, Publishing!Named
<1> QED BY <1>5, <1>6, <1>7, <1>9, <1>10 DEF PublishInv

LEMMA AsideSound == ASSUME PublishInv, Publishing!LockRemoved \/ UNCHANGED Publishing!vars PROVE PublishInv'
<1>1. UNCHANGED <<Publishing!workspace, bundle, mirror, pc, branch, prs>>
  BY DEF Publishing!LockRemoved, Publishing!vars, Publishing!Beside, Publishing!remote
<1>2. FreezeInv' /\ handoff' = handoff
  BY <1>1, FreezeStays DEF PublishInv, Publishing!workspace
<1> QED BY <1>1, <1>2, BesideScan

-----------------------------------------------------------------------------
LEMMA PublishInitSound == Publishing!Init => PublishInv
<1> SUFFICES ASSUME Publishing!Init PROVE PublishInv
  OBVIOUS
<1> USE DEF Publishing!Init
<1>1. pc.at = "idle" /\ pc \in PublisherState
  BY DEF Publishing!Idle, PublisherState
<1>2. bundle = None /\ mirror = None /\ prs = <<>> /\ handoff = None /\ branch = None
  OBVIOUS
<1>3. PublisherTypeInv
  BY <1>1, <1>2 DEF PublisherTypeInv
<1>4. FreezeInv
  <2>1. scan.at = None /\ scan.manifest = {} /\ DOMAIN scan.seen = {}
    BY DEF Publishing!NoScan
  <2> QED BY <1>2, <2>1 DEF FreezeInv
<1>5. ReceiptsInv /\ NamedInv
  BY <1>1, <1>2 DEF ReceiptsInv, Records, NamedInv
<1>6. RequestInv
  BY <1>1, <1>2 DEF RequestInv
<1> QED BY <1>3, <1>4, <1>5, <1>6 DEF PublishInv

LEMMA PublishNextSound == Publishing!PublicationAssumption /\ PublishInv /\ [Publishing!Next]_(Publishing!vars) => PublishInv'
<1> SUFFICES ASSUME Publishing!PublicationAssumption, PublishInv, [Publishing!Next]_(Publishing!vars) PROVE PublishInv'
  OBVIOUS
<1>1. CASE Publishing!Prepare \/ Publishing!ScanEnds
  BY <1>1, PrepareSound, ScanEndsSound
<1>2. CASE \E f \in File : Publishing!ReadFile(f) \/ Publishing!OthersWrite(f)
  BY <1>2, ReadFileSound, OthersPublishSound
<1>3. CASE \E commit \in Commits : Publishing!Publish(commit)
  BY <1>3, PublishSound
<1>4. CASE Publishing!PublishStep
  BY <1>4, ObservePriorSound, PermitSound, ObserveAgainSound, WriteBundleSound, WriteMirrorSound, SearchFailsSound,
     SearchSound, GuardedSound, BlockedSound, PushSound, PushedSound, CreateSound DEF Publishing!PublishStep
<1>5. CASE Publishing!Abort \/ Publishing!PublishStops \/ Publishing!PrepareStops
  BY <1>5, AbortSound, PublishStopsSound, PrepareStopsSound
<1>6. CASE Publishing!RemoteChanges
  BY <1>6, RemoteChangesSound
<1>7. CASE Publishing!LockRemoved \/ UNCHANGED Publishing!vars
  BY <1>7, AsideSound
<1> QED BY <1>1, <1>2, <1>3, <1>4, <1>5, <1>6, <1>7 DEF Publishing!Next

\* The inductive invariant of preparation and publication, whatever others write and change.
THEOREM PublishInvariant == ASSUME Publishing!PublicationAssumption PROVE Publishing!Spec => []PublishInv
<1>1. Publishing!Init => PublishInv
  BY PublishInitSound
<1>2. PublishInv /\ [Publishing!Next]_(Publishing!vars) => PublishInv'
  BY PublishNextSound
<1> QED BY <1>1, <1>2, PTL DEF Publishing!Spec

\* What a bundle froze is what was accepted, unless a file that differs was changed and put back
\* twice in time with the reading (prepareLoopPublicationHandoff).
THEOREM FrozenAsAcceptedHolds == ASSUME Publishing!PublicationAssumption PROVE Publishing!Spec => []Publishing!FrozenAsAccepted
<1>1. PublishInv => Publishing!FrozenAsAccepted
  BY DEF PublishInv, FreezeInv, Publishing!FrozenAsAccepted
<1> QED BY <1>1, PublishInvariant, PTL

\* An operation has one pull request, however often its publication is cut off and repeated.
THEOREM OneRequestHolds == ASSUME Publishing!PublicationAssumption PROVE Publishing!Spec => []Publishing!OneRequest
<1>1. PublishInv => Publishing!OneRequest
  BY DEF PublishInv, RequestInv, Publishing!OneRequest
<1> QED BY <1>1, PublishInvariant, PTL

\* A receipt that proves the publication names a draft of exactly the commit with the frozen content.
THEOREM ProvenExactlyHolds == ASSUME Publishing!PublicationAssumption PROVE Publishing!Spec => []Publishing!ProvenExactly
<1>1. PublishInv => Publishing!ProvenExactly
  BY DEF PublishInv, ReceiptsInv, Records, Made, Publishing!IsReviewed, Publishing!ProvenExactly
<1> QED BY <1>1, PublishInvariant, PTL

\* Once a receipt names the pull request, a receipt does for good.
THEOREM RequestKeptHolds == ASSUME Publishing!PublicationAssumption PROVE Publishing!Spec => Publishing!RequestKept
<1>1. ASSUME Publishing!PublicationAssumption, PublishInv, [Publishing!Next]_(Publishing!vars), Publishing!Named
      PROVE  Publishing!Named'
  <2>1. CASE UNCHANGED <<bundle, mirror>>
    BY <1>1, <2>1 DEF Publishing!Named
  <2>2. CASE Publishing!WriteBundle
    <3>1. pc.at = "write" /\ bundle' = pc.write /\ pc.write.pr # None
      BY <1>1, <2>2 DEF Publishing!WriteBundle, PublishInv, NamedInv
    <3>2. pc.write # None
      BY <1>1, <3>1 DEF PublishInv, PublisherTypeInv, Publishing!PublicationAssumption
    <3> QED BY <3>1, <3>2 DEF Publishing!Named
  <2>3. CASE Publishing!WriteMirror
    <3>1. pc.at = "mirror" /\ mirror' = pc.write /\ pc.write.pr # None
      BY <1>1, <2>3 DEF Publishing!WriteMirror, PublishInv, NamedInv
    <3>2. pc.write # None
      BY <1>1, <3>1 DEF PublishInv, PublisherTypeInv, Publishing!PublicationAssumption
    <3> QED BY <3>1, <3>2 DEF Publishing!Named
  <2>4. UNCHANGED <<bundle, mirror>> \/ Publishing!WriteBundle \/ Publishing!WriteMirror
    BY <1>1 DEF Publishing!Next, Publishing!vars, Publishing!PublishStep, Publishing!Prepare, Publishing!ScanEnds,
       Publishing!ReadFile, Publishing!OthersWrite, Publishing!Publish, Publishing!ObservePrior, Publishing!Permit,
       Publishing!ObserveAgain, Publishing!SearchFails, Publishing!Search, Publishing!Guarded, Publishing!Blocked,
       Publishing!Push, Publishing!Pushed, Publishing!Create, Publishing!Abort, Publishing!PublishStops,
       Publishing!PrepareStops, Publishing!LockRemoved, Publishing!RemoteChanges, Publishing!Local
  <2> QED BY <2>1, <2>2, <2>3, <2>4
<1>2. PublishInv /\ [Publishing!Next]_(Publishing!vars) => [Publishing!Named => Publishing!Named']_(Publishing!vars)
  BY <1>1
<1> QED BY <1>2, PublishInvariant, PTL DEF Publishing!Spec, Publishing!RequestKept
=============================================================================
