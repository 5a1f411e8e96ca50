---------------------------- MODULE NativeRelease ----------------------------
(***************************************************************************)
(* src/production/native-release.ts: a native application is built and     *)
(* signed, then uploaded to its store, each phase once under an approval   *)
(* of its own; what cannot be told afterwards is inspected, never done     *)
(* again.  The store, the commands and the owner are external.             *)
(*                                                                         *)
(* The digests that a plan binds (candidate, configuration, commands,      *)
(* approval) are as sealed or not; the signed artifact is what the build   *)
(* made, other bytes, or absent.                                           *)
(***************************************************************************)
EXTENDS Naturals, FiniteSets

CONSTANTS
    Caller, Directory,      \* who calls the controller; receipt directories
    None, Left,             \* nothing or nobody; a guard whose process is gone
    MaxChanges, MaxTroubles

VARIABLES
    sealed,     \* the plan's bindings are as sealed
    artifact,   \* the bytes at the plan's artifact path
    store,      \* what the store has of it: bytes and state
    custody,    \* per phase: the receipt directory that claimed it
    intent,     \* per phase: the directories with its intent
    seen,       \* per phase: the file its observer wrote
    receipt,    \* per phase and directory
    recovery,   \* per directory: a reconciliation, intended or done
    guard,      \* per phase, and per directory of a reconciliation: the ownership guard
    call,       \* per caller
    ran,        \* per phase: how many times its command was started
    changes, troubles

world == <<sealed, artifact, store>>
files == <<custody, intent, seen, receipt, recovery>>
vars == <<world, files, guard, call, ran, changes, troubles>>

Phase == {"build", "upload"}
Absent == [bytes |-> None, state |-> None]
Idle == [at |-> "idle", phase |-> None, directory |-> None, of |-> None, result |-> Absent]

ReleaseAssumption == Phase \cap Directory = {}

Init ==
    /\ sealed = TRUE /\ artifact = None /\ store = Absent
    /\ custody = [p \in Phase |-> None]
    /\ intent = [p \in Phase |-> {}]
    /\ seen = [p \in Phase |-> Absent]
    /\ receipt = [p \in Phase |-> [d \in Directory |-> Absent]]
    /\ recovery = [d \in Directory |-> Absent]
    /\ guard = [g \in Phase \cup Directory |-> None]
    /\ call = [c \in Caller |-> Idle]
    /\ ran = [p \in Phase |-> 0]
    /\ changes = 0 /\ troubles = 0

Goes(c, where) == call' = [call EXCEPT ![c].at = where]

Leave(c, g) ==
    /\ call' = [call EXCEPT ![c] = Idle]
    /\ guard' = [guard EXCEPT ![g] = None]

-----------------------------------------------------------------------------
\* Slip (UploadOfPrepared): any receipt of the build will do.
PreparedAnyhow(d) == receipt["build"][d] # Absent

\* The build's receipt says prepared, and its artifact is still there.
Prepared(d) == receipt["build"][d].state = "prepared" /\ artifact = receipt["build"][d].bytes

\* loadPlan and loadUploadPlan: everything is derived again from its sources.
PlanHolds(p) == sealed /\ (p = "upload" => \E d \in Directory : Prepared(d))

\* What the store is expected to have is what the build's receipt sealed.
Target == CHOOSE b \in {receipt["build"][d].bytes : d \in Directory} \ {None} : TRUE

\* executeNativeRelease: the plan and its approval are checked, then the phase is guarded.
Begin(c) ==
    /\ call[c].at = "idle"
    /\ \E p \in Phase, d \in Directory :
         /\ PlanHolds(p) /\ guard[p] = None
         /\ guard' = [guard EXCEPT ![p] = c]
         /\ call' = [call EXCEPT ![c] = [Idle EXCEPT !.at = "consult", !.phase = p, !.directory = d]]
    /\ UNCHANGED <<world, files, ran, changes, troubles>>

\* Slip (EffectsOnce): only the caller's own directory is looked at.
FreshHere(p, d) == receipt[p][d] = Absent /\ d \notin intent[p]

\* No receipt here, no intent here, no claim from another directory, no old observation.
Fresh(p, d) ==
    /\ receipt[p][d] = Absent /\ d \notin intent[p]
    /\ custody[p] = None /\ seen[p] = Absent

Consult(c) ==
    LET p == call[c].phase IN
    /\ call[c].at = "consult"
    /\ IF Fresh(p, call[c].directory)
       THEN Goes(c, "claim") /\ UNCHANGED guard
       ELSE Leave(c, p)
    /\ UNCHANGED <<world, files, ran, changes, troubles>>

WriteCustody(c) ==
    /\ call[c].at = "claim"
    /\ custody' = [custody EXCEPT ![call[c].phase] = call[c].directory]
    /\ Goes(c, "intend")
    /\ UNCHANGED <<world, intent, seen, receipt, recovery, guard, ran, changes, troubles>>

WriteIntent(c) ==
    /\ call[c].at = "intend"
    /\ intent' = [intent EXCEPT ![call[c].phase] = @ \cup {call[c].directory}]
    /\ Goes(c, "guard")
    /\ UNCHANGED <<world, custody, seen, receipt, recovery, guard, ran, changes, troubles>>

Uncertain(b) == [bytes |-> b, state |-> "uncertain"]
Concludes(c, r) == call' = [call EXCEPT ![c].at = "write", ![c].result = r]

\* The executor asks the guard before the command and before its observer.
Check(c) ==
    /\ call[c].at \in {"guard", "recheck"}
    /\ IF PlanHolds(call[c].phase)
       THEN Goes(c, IF call[c].at = "guard" THEN "command" ELSE "observe")
       ELSE Concludes(c, Uncertain(None))
    /\ UNCHANGED <<world, files, guard, ran, changes, troubles>>

Effect(p) ==
    IF p = "build" THEN artifact' = "built" /\ UNCHANGED store
    ELSE store' \in {[bytes |-> artifact, state |-> s] : s \in {"pending", "available"}} /\ UNCHANGED artifact

\* The command does its work, or fails before it, or after it.
Command(c) ==
    LET p == call[c].phase IN
    /\ call[c].at = "command"
    /\ ran' = [ran EXCEPT ![p] = @ + 1]
    /\ \/ Effect(p) /\ Goes(c, "recheck") /\ UNCHANGED troubles
       \/ /\ troubles < MaxTroubles /\ troubles' = troubles + 1
          /\ Effect(p) \/ UNCHANGED <<artifact, store>>
          /\ Concludes(c, Uncertain(None))
    /\ UNCHANGED <<sealed, files, guard, changes>>

\* What an independent observer finds: the signature of the bytes there are, or the store's state.
Found(p) ==
    IF p = "build" THEN [bytes |-> artifact, state |-> IF artifact = "built" THEN "signed" ELSE "unsigned"]
    ELSE store

Observe(c) ==
    /\ call[c].at = "observe"
    /\ seen' = [seen EXCEPT ![call[c].phase] = Found(call[c].phase)]
    /\ Goes(c, "judge")
    /\ UNCHANGED <<world, custody, intent, receipt, recovery, guard, ran, changes, troubles>>

\* Slip (ReceiptsTrue): what was observed is not compared with the artifact.
VouchesAnyhow(p, o) ==
    IF p = "build" THEN o.bytes = artifact /\ o.state = "signed" ELSE artifact = Target

\* The observation is of this artifact, and the artifact is still the plan's.
Vouches(p, o) ==
    /\ o.bytes = artifact
    /\ IF p = "build" THEN o.state = "signed" ELSE artifact = Target

Status(p, o) ==
    IF p = "build" THEN "prepared" ELSE IF o.state = "available" THEN "available" ELSE "pending"

\* The observation is judged, and everything it rests on read once more.
Judge(c) ==
    LET p == call[c].phase IN
    LET o == seen[p] IN
    /\ call[c].at \in {"judge", "confirm"}
    /\ IF PlanHolds(p) /\ Vouches(p, o)
       THEN IF call[c].at = "judge" THEN Goes(c, "confirm")
            ELSE Concludes(c, [bytes |-> artifact, state |-> Status(p, o)])
       ELSE Concludes(c, Uncertain(IF call[c].at = "confirm" THEN o.bytes ELSE None))
    /\ UNCHANGED <<world, files, guard, ran, changes, troubles>>

WriteReceipt(c) ==
    LET p == call[c].phase IN
    /\ call[c].at = "write"
    /\ receipt' = [receipt EXCEPT ![p][call[c].directory] = call[c].result]
    /\ Leave(c, p)
    /\ UNCHANGED <<world, custody, intent, seen, recovery, ran, changes, troubles>>

-----------------------------------------------------------------------------
\* validateReceipt: what it recorded of the artifact is still so.
Validates(r) == r # Absent /\ (r.bytes # None => r.bytes = artifact)

\* reconcileNativeRelease: an upload's receipt, and a directory for the inspection's own
\* records; one that is there already is answered or refused.
Inspect(c) ==
    /\ call[c].at = "idle"
    /\ \E d, e \in Directory :
         /\ Validates(receipt["upload"][d]) /\ PlanHolds("upload")
         /\ guard[e] = None /\ recovery[e] = Absent
         /\ guard' = [guard EXCEPT ![e] = c]
         /\ call' = [call EXCEPT ![c] =
              [Idle EXCEPT !.at = "inspecting", !.phase = e, !.directory = e, !.of = d]]
         /\ recovery' = [recovery EXCEPT ![e].state = "intended"]
    /\ UNCHANGED <<world, custody, intent, seen, receipt, ran, changes, troubles>>

\* The store is only looked at.
LookAgain(c) ==
    /\ call[c].at = "inspecting"
    /\ IF PlanHolds("upload") /\ Validates(receipt["upload"][call[c].of]) /\ store # Absent
       THEN call' = [call EXCEPT ![c].at = "reconcile", ![c].result = store] /\ UNCHANGED guard
       ELSE Leave(c, call[c].directory)
    /\ UNCHANGED <<world, files, ran, changes, troubles>>

Reconcile(c) ==
    LET o == call[c].result IN
    /\ call[c].at = "reconcile"
    /\ recovery' = IF PlanHolds("upload") /\ Vouches("upload", o)
                   THEN [recovery EXCEPT ![call[c].directory] = [bytes |-> o.bytes, state |-> Status("upload", o)]]
                   ELSE recovery
    /\ Leave(c, call[c].directory)
    /\ UNCHANGED <<world, custody, intent, seen, receipt, ran, changes, troubles>>

\* nativeReleaseObservationBasis: a receipt or a reconciliation that may be adopted.
Adoptable(r) == r.state = "available" /\ sealed /\ artifact = r.bytes

-----------------------------------------------------------------------------
Dies(c) ==
    /\ call[c].at # "idle" /\ troubles < MaxTroubles
    /\ call' = [call EXCEPT ![c] = Idle]
    /\ guard' = [guard EXCEPT ![call[c].phase] = Left]
    /\ troubles' = troubles + 1
    /\ UNCHANGED <<world, files, ran, changes>>

OwnerClears ==
    /\ \E g \in DOMAIN guard : guard[g] = Left /\ guard' = [guard EXCEPT ![g] = None]
    /\ UNCHANGED <<world, files, call, ran, changes, troubles>>

\* A bound file or the artifact is changed, or put back; the store's review ends.
Drifts ==
    /\ \/ /\ changes < MaxChanges /\ changes' = changes + 1
          /\ \/ sealed' = ~sealed /\ UNCHANGED artifact
             \/ artifact # None /\ artifact' = (IF artifact = "built" THEN "other" ELSE "built") /\ UNCHANGED sealed
          /\ UNCHANGED store
       \/ store.state = "pending" /\ store' = [store EXCEPT !.state = "available"]
          /\ UNCHANGED <<sealed, artifact, changes>>
    /\ UNCHANGED <<files, guard, call, ran, troubles>>

Step ==
    \/ \E c \in Caller :
         \/ Begin(c) \/ Consult(c) \/ WriteCustody(c) \/ WriteIntent(c) \/ Check(c) \/ Command(c)
         \/ Observe(c) \/ Judge(c) \/ WriteReceipt(c)
         \/ Inspect(c) \/ LookAgain(c) \/ Reconcile(c) \/ Dies(c)
    \/ OwnerClears
    \/ Drifts

Spec == Init /\ [][Step]_vars

-----------------------------------------------------------------------------
\* The command of a phase is started at most once for its plan, whichever directory is
\* named and whatever died or stayed uncertain ("uncertainty never grants another attempt").
EffectsOnce == \A p \in Phase : ran[p] <= 1

\* Nothing is uploaded before the build's receipt says that a signed candidate is prepared.
UploadOfPrepared ==
    ran["upload"] > 0 => \E d \in Directory : receipt["build"][d] = [bytes |-> "built", state |-> "prepared"]

Uploads == {receipt["upload"][d] : d \in Directory} \cup {recovery[d] : d \in Directory}

\* What a receipt or a reconciliation says of the store is so: it has the bytes that were
\* built and signed, and what may be adopted is available there.
ReceiptsTrue ==
    \A r \in Uploads :
      /\ r.state \in {"pending", "available"} => store.bytes = "built" /\ r.bytes = "built"
      /\ Adoptable(r) => store.state = "available"
=============================================================================
