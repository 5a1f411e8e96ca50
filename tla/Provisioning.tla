----------------------------- MODULE Provisioning -----------------------------
(***************************************************************************)
(* src/provisioning/index.ts: approved proposals applied under one root,   *)
(* perhaps by several processes.  A proposal has one configuration file,   *)
(* the profile of a new factory or the registration of a product added to  *)
(* it, and one repository.  Each effect is journaled as intended, done,    *)
(* and journaled with its outcome; a process may end between any two       *)
(* steps, and others write to the root and to the imported source.         *)
(*                                                                         *)
(* What binds an approval to its proposal are digests, which are taken to  *)
(* be exact.  Remote effects, which only ever are pending, and the Git     *)
(* identity are left out.                                                  *)
(***************************************************************************)
EXTENDS Naturals, FiniteSets

CONSTANTS
    Plan, Product, File, Process, None,
    Base, Revision,     \* of each proposal: previousConfigurationRevision, configurationRevision
    Adds, Imports,      \* its product, and the files of the source it imports, or None
    MaxCalls, MaxTroubles, MaxChanges

\* A proposal without a base is that of the factory itself.
ProvisioningAssumption ==
    /\ Adds \in [Plan -> Product]
    /\ \A p \in Plan : Imports[p] = None \/ Imports[p] \subseteq File
    /\ \A p \in Plan : Revision[p] # None /\ Revision[p] # Base[p]
    /\ Cardinality({p \in Plan : Base[p] = None}) = 1
    /\ {MaxCalls, MaxTroubles, MaxChanges} \subseteq Nat

VARIABLES
    config,     \* what stands under each name: nothing, what a proposal says, or something else
    leaf,       \* the directory of each product
    source,     \* the content of each file of the imported sources
    journal,    \* the latest entry of each operation
    tail,       \* of operations.jsonl: "whole", "torn" at its end, or "broken" for good
    pc, calls, troubles, changes

vars == <<config, leaf, source, journal, tail, pc, calls, troubles, changes>>

NoLeaf == [dir |-> FALSE, git |-> FALSE, head |-> None, files |-> [f \in File |-> None],
           touched |-> FALSE, before |-> FALSE]
NoEntry == [status |-> "none", state |-> None]
Idle == [at |-> "idle"]

Kinds == {"config", "repository"}
Targets == {Base[p] : p \in Plan}

Init ==
    /\ config = [t \in Targets |-> None]
    /\ leaf = [x \in Product |-> NoLeaf]
    /\ source = [f \in File |-> "approved"]
    /\ journal = [o \in Plan \X Kinds |-> NoEntry] /\ tail = "whole"
    /\ pc = [w \in Process |-> Idle]
    /\ calls = 0 /\ troubles = 0 /\ changes = 0

\* After the registrations that are reached from revision r, one by one.
Reached[S \in SUBSET Targets, r \in {Revision[p] : p \in Plan}] ==
    IF r \in S /\ config[r] \in Plan THEN Reached[S \ {r}, Revision[config[r]]] ELSE [revision |-> r, rest |-> S]

\* approvedFactoryState: it throws on a file it cannot read and on a registration that
\* the chain does not reach.
Registered == {t \in Targets \ {None} : config[t] # None}
Approved ==
    IF config[None] \notin Plan \/ \E t \in Registered : config[t] \notin Plan
    THEN None
    ELSE LET end == Reached[Registered, Revision[config[None]]]
         IN IF end.rest = {} THEN end.revision ELSE None

\* Slip (ChainConnected): any approved factory will do.
AppliesToAny(plan) == Approved # None
AppliesTo(plan) == Approved \in {Base[plan], Revision[plan]}

-----------------------------------------------------------------------------
Goes(w, next) == pc' = [pc EXCEPT ![w] = next]

\* appendJournal: behind a torn record nothing can be read any more.
Appends(w, entry) ==
    /\ journal' = [journal EXCEPT ![<<pc[w].plan, pc[w].kind>>] = entry]
    /\ tail' = IF tail = "torn" THEN "broken" ELSE tail

\* provisionApprovedProposal: what it checks, and the operations it knows of; a torn
\* last record is cut off.
ProvisionApproved(w, plan) ==
    /\ pc[w] = Idle /\ calls < MaxCalls /\ calls' = calls + 1
    /\ Base[plan] # None => AppliesTo(plan)
    /\ tail # "broken" /\ tail' = "whole"
    /\ Goes(w, [at |-> "effect", plan |-> plan, kind |-> "config", prior |-> [k \in Kinds |-> journal[<<plan, k>>]]])
    /\ UNCHANGED <<config, leaf, source, journal, troubles, changes>>

Exists(plan, kind) ==
    IF kind = "config" THEN config[Base[plan]] # None ELSE leaf[Adds[plan]].dir

Prior(w) == pc[w].prior[pc[w].kind]
Done(status) == status \in {"completed", "reconciled"}

Intend(w) ==
    /\ pc[w].at = "effect" /\ ~Done(Prior(w).status)
    /\ LET state == IF Exists(pc[w].plan, pc[w].kind) THEN "present" ELSE "missing" IN
       /\ Appends(w, [status |-> "intended", state |-> state])
       /\ Goes(w, [pc[w] EXCEPT !.at = "execute"])
    /\ UNCHANGED <<config, leaf, source, calls, troubles, changes>>

\* The rest of the call, after the outcome of an effect.  A registration that did not
\* succeed is the end of it.
After(w, status) ==
    IF pc[w].kind = "config" /\ (Base[pc[w].plan] = None \/ Done(status))
    THEN [at |-> "effect", plan |-> pc[w].plan, kind |-> "repository", prior |-> pc[w].prior]
    ELSE Idle

InPlace(plan, kind) ==
    IF kind = "config" THEN config[Base[plan]] = plan ELSE leaf[Adds[plan]].git

\* observeCompletedLocalEffect: what was done is looked at, never done again by this call.
Observe(w) ==
    /\ pc[w].at = "effect" /\ Done(Prior(w).status)
    /\ LET status == IF InPlace(pc[w].plan, pc[w].kind) THEN "reconciled" ELSE "blocked" IN
       /\ Appends(w, [status |-> status, state |-> None])
       /\ Goes(w, IF pc[w].kind = "config"
                  THEN [pc[w] EXCEPT !.kind = "repository"] ELSE Idle)
    /\ UNCHANGED <<config, leaf, source, calls, troubles, changes>>

Record(w, status) ==
    /\ Appends(w, [status |-> status, state |-> journal[<<pc[w].plan, pc[w].kind>>].state])
    /\ Goes(w, After(w, status))

\* An effect that has its outcome: the process may still end before it is recorded.
Ends(w, status) == Goes(w, [plan |-> pc[w].plan, kind |-> pc[w].kind, prior |-> pc[w].prior,
                            at |-> "record", status |-> status])

RecordOutcome(w) ==
    /\ pc[w].at = "record"
    /\ Record(w, pc[w].status)
    /\ UNCHANGED <<config, leaf, source, calls, troubles, changes>>

-----------------------------------------------------------------------------
\* executeLocalEffect: the profile or the registration, which others may write meanwhile.
LookAtConfig(w) ==
    LET plan == pc[w].plan IN
    /\ pc[w].at = "execute" /\ pc[w].kind = "config"
    /\ CASE config[Base[plan]] = plan -> Ends(w, "reconciled")
         [] config[Base[plan]] \notin {plan, None} -> Ends(w, "blocked")
         [] OTHER ->
              IF Base[plan] = None THEN Goes(w, [pc[w] EXCEPT !.at = "write"])
              ELSE IF Approved = None THEN Goes(w, Idle)
              ELSE IF AppliesTo(plan) THEN Goes(w, [pc[w] EXCEPT !.at = "write"])
              ELSE Ends(w, "blocked")
    /\ UNCHANGED <<config, leaf, source, journal, tail, calls, troubles, changes>>

\* Slip (NothingOverwritten): a file that appeared meanwhile is written over.
MayWriteAnyhow(content) == TRUE
MayWrite(content) == content = None

WriteConfig(w) ==
    LET plan == pc[w].plan IN
    /\ pc[w].at = "write"
    /\ IF MayWrite(config[Base[plan]])
       THEN config' = [config EXCEPT ![Base[plan]] = plan] /\ Ends(w, "completed")
       ELSE /\ Ends(w, IF config[Base[plan]] = plan THEN "reconciled" ELSE "blocked")
            /\ UNCHANGED config
    /\ UNCHANGED <<leaf, source, journal, tail, calls, troubles, changes>>

-----------------------------------------------------------------------------
\* The repository.  A source, and what was copied of it, is compared as a whole.
Imported(plan) == [f \in File |-> IF f \in Imports[plan] THEN "approved" ELSE None]

\* Slip (CommittedAsApproved): only the number of files is compared.
AsApprovedByCount(plan, files) ==
    Imports[plan] = None \/ Cardinality({f \in File : files[f] # None}) = Cardinality(Imports[plan])
AsApproved(plan, files) == Imports[plan] = None \/ files = Imported(plan)

\* Slip (NotAdopted): an interrupted operation may take what it finds.
AdoptableIntended(entry) == entry.status = "intended"
Adoptable(entry) == entry.status = "intended" /\ entry.state = "missing"

Resumable(entry) == entry.status \in {"intended", "blocked", "failed"} /\ entry.state = "missing"

Checked(x) == leaf' = [leaf EXCEPT ![x].touched = FALSE]

LookAtLeaf(w) ==
    LET plan == pc[w].plan
        here == leaf[Adds[plan]]
    IN
    /\ pc[w].at = "execute" /\ pc[w].kind = "repository"
    /\ CASE ~here.dir -> Goes(w, [pc[w] EXCEPT !.at = "mkdir"]) /\ UNCHANGED leaf
         [] here.git /\ Adoptable(Prior(w)) /\ AsApproved(plan, here.files) ->
              /\ Checked(Adds[plan])
              /\ IF here.head = None THEN Goes(w, [pc[w] EXCEPT !.at = "adopt"]) ELSE Ends(w, "reconciled")
         [] ~here.git /\ here.dir /\ Resumable(Prior(w)) ->
              Goes(w, [pc[w] EXCEPT !.at = "snapshot"]) /\ UNCHANGED leaf
         [] OTHER -> Ends(w, "blocked") /\ UNCHANGED leaf
    /\ UNCHANGED <<config, source, journal, tail, calls, troubles, changes>>

\* A directory that appeared meanwhile makes the call throw.
MakeLeaf(w) ==
    LET product == Adds[pc[w].plan] IN
    /\ pc[w].at = "mkdir"
    /\ IF leaf[product].dir
       THEN Goes(w, Idle) /\ UNCHANGED leaf
       ELSE Goes(w, [pc[w] EXCEPT !.at = "snapshot"]) /\ leaf' = [leaf EXCEPT ![product].dir = TRUE]
    /\ UNCHANGED <<config, source, journal, tail, calls, troubles, changes>>

\* copyApprovedSource: nothing is copied from a changed source, nor into a directory
\* with anything else in it.
Snapshot(w) ==
    LET plan == pc[w].plan
        files == leaf[Adds[plan]].files
    IN
    /\ pc[w].at = "snapshot"
    /\ IF \/ Imports[plan] = None
          \/ /\ \A f \in Imports[plan] : source[f] = "approved"
             /\ \A f \in File : files[f] \in {None, Imported(plan)[f]}
       THEN Goes(w, [pc[w] EXCEPT !.at = "copy"])
       ELSE Ends(w, "blocked")
    /\ UNCHANGED <<config, leaf, source, journal, tail, calls, troubles, changes>>

CopyFile(w, f) ==
    LET product == Adds[pc[w].plan] IN
    /\ pc[w].at = "copy" /\ Imports[pc[w].plan] # None
    /\ f \in Imports[pc[w].plan] /\ leaf[product].dir
    /\ IF source[f] = "approved"
       THEN CASE MayWrite(leaf[product].files[f]) ->
                   leaf' = [leaf EXCEPT ![product].files[f] = "approved"] /\ UNCHANGED pc
              [] leaf[product].files[f] \notin {None, "approved"} -> Ends(w, "blocked") /\ UNCHANGED leaf
              [] OTHER -> FALSE
       ELSE leaf[product].files[f] = None /\ Ends(w, "blocked") /\ UNCHANGED leaf
    /\ UNCHANGED <<config, source, journal, tail, calls, troubles, changes>>

\* The copy is compared, and once more before git init.
Copied(w) ==
    LET plan == pc[w].plan
        product == Adds[plan]
    IN
    /\ pc[w].at \in {"copy", "copied"}
    /\ Imports[plan] # None => \A f \in Imports[plan] : leaf[product].files[f] # None
    /\ IF leaf[product].dir /\ AsApproved(plan, leaf[product].files)
       THEN /\ Goes(w, [pc[w] EXCEPT !.at = IF pc[w].at = "copy" THEN "copied" ELSE "init"])
            /\ Checked(product)
       ELSE Ends(w, "blocked") /\ UNCHANGED leaf
    /\ UNCHANGED <<config, source, journal, tail, calls, troubles, changes>>

GitInit(w) ==
    LET product == Adds[pc[w].plan] IN
    /\ pc[w].at = "init"
    /\ leaf' = [leaf EXCEPT ![product].dir = TRUE, ![product].git = TRUE]
    /\ Goes(w, [pc[w] EXCEPT !.at = "commit"])
    /\ UNCHANGED <<config, source, journal, tail, calls, troubles, changes>>

\* commitInitialProduct: whatever is there.
Commit(w) ==
    LET product == Adds[pc[w].plan] IN
    /\ pc[w].at \in {"commit", "adopt"}
    /\ \/ /\ leaf[product].git
          /\ leaf' = [leaf EXCEPT ![product].head = [plan |-> pc[w].plan, files |-> leaf[product].files, touched |-> leaf[product].touched]]
          /\ Ends(w, IF pc[w].at = "commit" THEN "completed" ELSE "reconciled")
       \/ Ends(w, "failed") /\ UNCHANGED leaf
    /\ UNCHANGED <<config, source, journal, tail, calls, troubles, changes>>

-----------------------------------------------------------------------------
\* The process dies: what it was writing is cut off, or its journal record is.
Crash(w) ==
    /\ pc[w] # Idle /\ troubles < MaxTroubles
    /\ troubles' = troubles + 1
    /\ Goes(w, Idle)
    /\ \/ UNCHANGED <<config, leaf, tail>>
       \/ /\ pc[w].at \in {"effect", "record"}
          /\ tail' = IF tail = "whole" THEN "torn" ELSE "broken"
          /\ UNCHANGED <<config, leaf>>
       \/ /\ pc[w].at = "write" /\ config[Base[pc[w].plan]] = None
          /\ config' = [config EXCEPT ![Base[pc[w].plan]] = "torn"]
          /\ UNCHANGED <<leaf, tail>>
       \/ /\ pc[w].at = "copy" /\ Imports[pc[w].plan] # None /\ leaf[Adds[pc[w].plan]].dir
          /\ \E f \in Imports[pc[w].plan] :
                /\ leaf[Adds[pc[w].plan]].files[f] = None
                /\ leaf' = [leaf EXCEPT ![Adds[pc[w].plan]].files[f] = "torn"]
          /\ UNCHANGED <<config, tail>>
    /\ UNCHANGED <<source, journal, calls, changes>>

\* An operation on the product is on record that found nothing there.
Begun(x) == \E plan \in Plan : Adds[plan] = x /\ journal[<<plan, "repository">>].state = "missing"

Theirs(x, git, copied) ==
    [NoLeaf EXCEPT !.dir = TRUE, !.git = git, !.files = [f \in File |-> IF f \in copied THEN source[f] ELSE None],
                   !.touched = TRUE, !.before = ~Begun(x)]

\* Others make a directory or a repository, remove one, write in one, write the profile or
\* remove it, and change the source.
OthersChange ==
    /\ changes < MaxChanges /\ changes' = changes + 1
    /\ \/ \E x \in Product : \/ ~leaf[x].dir /\ \E git \in BOOLEAN, copied \in SUBSET File :
                                    leaf' = [leaf EXCEPT ![x] = Theirs(x, git, copied)]
                             \/ leaf[x].dir /\ leaf' = [leaf EXCEPT ![x] = [NoLeaf EXCEPT !.touched = TRUE]]
                             \/ \E f \in File : leaf[x].dir /\ leaf' = [leaf EXCEPT ![x].files[f] = "theirs", ![x].touched = TRUE]
          /\ UNCHANGED <<config, source>>
       \/ config' = [config EXCEPT ![None] = IF @ = None THEN "theirs" ELSE None] /\ UNCHANGED <<leaf, source>>
       \/ \E f \in File : source[f] = "approved" /\ source' = [source EXCEPT ![f] = "theirs"]
          /\ UNCHANGED <<config, leaf>>
    /\ UNCHANGED <<journal, tail, pc, calls, troubles>>

Step(w) ==
    \/ \E plan \in Plan : ProvisionApproved(w, plan)
    \/ Intend(w) \/ Observe(w) \/ RecordOutcome(w) \/ LookAtConfig(w) \/ WriteConfig(w)
    \/ LookAtLeaf(w) \/ MakeLeaf(w) \/ Snapshot(w) \/ Copied(w) \/ GitInit(w) \/ Commit(w) \/ Crash(w)
    \/ \E f \in File : CopyFile(w, f)

Next == OthersChange \/ \E w \in Process : Step(w)

-----------------------------------------------------------------------------
\* Provisioning never writes over a file that is there, whoever wrote it and whenever:
\* neither a profile, nor a registration, nor a product's file.
NothingOverwritten ==
    [][changes' = changes =>
        /\ \A t \in DOMAIN config : config[t] # None => config'[t] = config[t]
        /\ \A x \in DOMAIN leaf : \A f \in DOMAIN leaf[x].files :
              leaf[x].files[f] # None => leaf'[x].files[f] = leaf[x].files[f]]_vars

\* What provisioning commits is the approved source and nothing else, unless others wrote
\* there after the last comparison.
CommittedAsApproved ==
    \A x \in Product : leaf[x].head # None =>
        \/ leaf[x].head.touched \/ Imports[leaf[x].head.plan] = None
        \/ leaf[x].head.files = Imported(leaf[x].head.plan)

\* Others' directory that was there before an operation found nothing in its place is
\* never made a repository of the factory, however often the operation is cut off.
NotAdopted == \A x \in Product : leaf[x].before => leaf[x].head = None

\* The registrations are one chain from the profile, whatever is approved and applied at once.
ChainConnected ==
    LET base == CHOOSE p \in Plan : Base[p] = None IN
    \A t \in Registered : \E r \in Registered \cup {None} :
        r # t /\ IF r = None THEN t = Revision[base] ELSE config[r] \in Plan /\ t = Revision[config[r]]
=============================================================================
