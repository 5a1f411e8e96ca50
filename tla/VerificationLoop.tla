-------------------------- MODULE VerificationLoop --------------------------
(***************************************************************************)
(* runManagerLoop of src/loop/index.ts: phases of brief, implementation,   *)
(* verification, review, repair and acceptance over one workspace, with a  *)
(* state file that is written before each provider turn and after it, and  *)
(* a lock file that a killed process leaves behind.  Every invocation      *)
(* starts from the state file.                                             *)
(*                                                                         *)
(* The digest of the workspace is a number that every change makes anew;   *)
(* anybody may change the workspace at any time.  A provider's answer is   *)
(* its verdict, "invalid" when it does not have the form of its stage.     *)
(* Prompts, reports and events are written and never read back.            *)
(***************************************************************************)
EXTENDS Naturals, Sequences, FiniteSets, SequencesExt

CONSTANTS
    Profile,         \* "manager", "implementation" or "validation_only"
    Phases,          \* how many the configuration has
    RequiredPasses,  \* reviews that must pass
    MaxRepairRounds,
    RepairApproved,  \* repairApproval
    Subscription,    \* subscriptionRouting.enabled
    None,
    MaxCalls, MaxTroubles, MaxWrites  \* invocations; throws and crashes; changes by others

Lean == Profile # "manager"

\* stageId: of a phase, a kind and a round.
Kind == {"manager_brief", "implement", "repair", "review", "manager_accept"}
Stage == Nat \X Kind \X Nat

\* LoopState: what is done, the receipts, the stage that has none yet.
LoopState == [status : {"running", "blocked", "failed", "uncertain", "succeeded"},
              done : SUBSET Nat, stages : Seq(Stage), stage : Stage \cup {None},
              session : SUBSET Nat, accepted : Nat \cup {None}, retry : BOOLEAN]

\* What parseLeanLoopConfiguration and parseManagerLoopConfiguration let pass.
LoopAssumption ==
    /\ Profile \in {"manager", "implementation", "validation_only"}
    /\ Phases \in Nat \ {0} /\ (Lean => Phases = 1)
    /\ RequiredPasses \in {1, 2} /\ (~Lean => RequiredPasses = 1)
    /\ MaxRepairRounds \in 0 .. 5
    /\ RepairApproved \in BOOLEAN /\ Subscription \in BOOLEAN /\ (Subscription => Lean)
    /\ None \notin Stage /\ None \notin LoopState

VARIABLES
    content,   \* the digest of the workspace
    lock,      \* run.lock
    disk,      \* state.json
    mem,       \* the state object of the invocation
    pc,        \* where the invocation is, and its locals
    launched,  \* history: the provider turns started, in order
    verified,  \* history: the digests that passed a verification from begin to end
    reviewed,  \* history: the digests that a review was shown, left alone and passed
    calls, troubles, writes

vars == <<content, lock, disk, mem, pc, launched, verified, reviewed, calls, troubles, writes>>

Fresh == [status |-> "running", done |-> {}, stages |-> <<>>, stage |-> None,
          session |-> {}, accepted |-> None, retry |-> FALSE]

Idle == [at |-> "idle", phase |-> 1, kind |-> None, round |-> 0, before |-> 0,
         after |-> 0, answer |-> None, checked |-> 0, expected |-> 0, passes |-> <<>>,
         finding |-> 0, why |-> None]

Init ==
    /\ content = 1
    /\ lock = FALSE
    /\ disk = None
    /\ mem = Fresh
    /\ pc = Idle
    /\ launched = <<>>
    /\ verified = {}
    /\ reviewed = <<>>
    /\ calls = 0 /\ troubles = 0 /\ writes = 0

\* stageId: a lean loop numbers the reviews of a round.
Id == <<pc.phase, pc.kind,
        IF pc.kind = "review" /\ Lean THEN pc.round * 10 + Len(pc.passes) ELSE pc.round>>

ReadOnly == {"manager_brief", "review", "manager_accept"}

Answers(kind) ==
    CASE kind = "manager_brief" -> {"ready", "blocked", "invalid"}
      [] kind \in {"implement", "repair"} -> {"implemented", "blocked", "invalid"}
      [] kind = "review" -> {"pass", "repair", "invalid"}
      [] kind = "manager_accept" -> {"accepted", "declined", "invalid"}

History == UNCHANGED <<launched, verified, reviewed>>
Inside == UNCHANGED <<content, lock, calls, troubles, writes>>

\* captureManagerLoopWorkspaceEvidence: a digest of the head, the branch and every file.
Captured == content

Go(step) == pc' = [pc EXCEPT !.at = step]
Stop(status) == pc' = [pc EXCEPT !.at = "failing", !.why = status]
NextStage(kind, round) == pc' = [pc EXCEPT !.at = "intend", !.kind = kind, !.round = round]

Leave == lock' = FALSE /\ pc' = Idle /\ mem' = Fresh

-----------------------------------------------------------------------------
\* An invocation finds its place in what the state file says.

\* Slip (NoBlindRelaunch): only a stage that was found uncertain before is.
CutOffKnown == disk.status = "uncertain"

CutOff == disk.stage # None \/ disk.status = "uncertain"

ResumesAt ==
    IF disk = None THEN IF Lean THEN "preflight" ELSE "save"
    ELSE IF CutOff THEN "uncertain"
    ELSE IF disk.retry THEN "preflight"
    ELSE IF disk.status = "running" THEN "save" ELSE "return"

\* With the lock file there, an invocation is told that one is running.
Invoke ==
    /\ pc.at = "idle"
    /\ ~lock
    /\ calls < MaxCalls
    /\ calls' = calls + 1
    /\ lock' = TRUE
    /\ mem' = IF disk = None THEN Fresh ELSE disk
    /\ pc' = [Idle EXCEPT !.at = ResumesAt]
    /\ UNCHANGED <<content, disk, troubles, writes>> /\ History

\* Over, or accepted: the caller is told so, after a look whether that still stands.
Return ==
    /\ pc.at = "return"
    /\ Leave
    /\ UNCHANGED <<content, disk, calls, troubles, writes>> /\ History

Uncertain ==
    /\ pc.at = "uncertain"
    /\ disk' = [disk EXCEPT !.status = "uncertain"]
    /\ Leave
    /\ UNCHANGED <<content, calls, troubles, writes>> /\ History

Retried ==
    /\ mem' = [mem EXCEPT !.status = "running", !.retry = FALSE]
    /\ Go("save")
    /\ UNCHANGED <<disk, lock>>

\* A check of the preflight that fails blocks the loop, until an invocation finds it passing.
Preflight ==
    /\ pc.at = "preflight"
    /\ \/ disk' = [Fresh EXCEPT !.status = "blocked", !.retry = TRUE] /\ Leave
       \/ Retried
    /\ UNCHANGED <<content, calls, troubles, writes>> /\ History

Save ==
    /\ pc.at = "save"
    /\ disk' = mem
    /\ Go("phase")
    /\ UNCHANGED mem /\ Inside /\ History

-----------------------------------------------------------------------------
\* A stage: intent, provider turn, receipt.

\* Slip (DoneStaysDone): every invocation works through all phases.
CompletedNever(phase) == FALSE

Completed(phase) == phase \in mem.done

SkipPhase ==
    /\ pc.at = "phase"
    /\ Completed(pc.phase)
    /\ pc' = [pc EXCEPT !.phase = @ + 1]
    /\ UNCHANGED <<disk, mem>> /\ Inside /\ History

PhaseStarts ==
    /\ pc.at = "phase"
    /\ pc.phase <= Phases
    /\ ~Completed(pc.phase)
    /\ CASE Profile = "manager" -> NextStage("manager_brief", 0)
         [] Profile = "implementation" -> NextStage("implement", 0)
         [] Profile = "validation_only" -> pc' = [pc EXCEPT !.at = "verify", !.round = 0]
    /\ UNCHANGED <<disk, mem>> /\ Inside /\ History

Intend ==
    /\ pc.at = "intend"
    /\ mem' = [mem EXCEPT !.stage = Id]
    /\ disk' = mem'
    /\ pc' = [pc EXCEPT !.at = "launch", !.before = Captured]
    /\ Inside /\ History

\* No route, or the routing could not note that it is not used.
RoutingRefuses ==
    /\ pc.at = "launch"
    /\ Subscription
    /\ \E status \in {"blocked", "uncertain"} : Stop(status)
    /\ UNCHANGED <<disk, mem>> /\ Inside /\ History

\* Only a validation with an approved repair may repair without an implementer's session.
MayLaunch ==
    \/ pc.kind # "repair"
    \/ pc.phase \in mem.session
    \/ Profile = "validation_only" /\ RepairApproved

LaunchTurn ==
    /\ pc.at = "launch"
    /\ IF MayLaunch
       THEN launched' = Append(launched, Id) /\ Go("turn")
       ELSE Stop("blocked") /\ UNCHANGED launched
    /\ UNCHANGED <<disk, mem, verified, reviewed>> /\ Inside

Changes == content' \in {content, content + 1}

TurnEnds ==
    /\ pc.at = "turn"
    /\ Changes
    /\ \E answer \in Answers(pc.kind) : pc' = [pc EXCEPT !.at = "turned", !.answer = answer]
    /\ UNCHANGED <<lock, disk, mem, calls, troubles, writes>> /\ History

\* The adapter throws: with a subscription the stage is uncertain, otherwise the
\* invocation throws and leaves the intended stage on record.
TurnThrows ==
    /\ pc.at = "turn"
    /\ troubles < MaxTroubles
    /\ troubles' = troubles + 1
    /\ Changes
    /\ IF Subscription THEN Stop("uncertain") /\ UNCHANGED <<lock, mem>> ELSE Leave
    /\ UNCHANGED <<disk, calls, writes>> /\ History

\* The receipt is bound to what the turn was shown and to what it left.  An answer
\* without the form, or a role that changed what it may only read, ends the loop.
Receipt ==
    LET disturbed == pc.kind \in ReadOnly /\ Captured # pc.before IN
    /\ pc.at = "turned"
    /\ \E session \in {{}, {pc.phase}} :
          /\ session = {} \/ (pc.answer # "invalid" /\ pc.kind \in {"implement", "repair"})
          /\ mem' = [mem EXCEPT !.stages = Append(@, Id), !.stage = None,
                                !.session = @ \cup session]
    /\ disk' = mem'
    /\ IF pc.answer = "invalid" \/ disturbed
       THEN \E status \in IF pc.answer = "invalid" THEN {"failed", "uncertain"} ELSE {"failed"} :
               Stop(status)
       ELSE pc' = [pc EXCEPT !.at = "answered", !.after = Captured]
    /\ reviewed' = IF pc.kind = "review" /\ pc.answer = "pass" /\ ~disturbed
                   THEN Append(reviewed, Captured) ELSE reviewed
    /\ UNCHANGED <<launched, verified>> /\ Inside

Fail ==
    /\ pc.at = "failing"
    /\ disk' = [mem EXCEPT !.status = pc.why, !.stage = None]
    /\ Leave
    /\ UNCHANGED <<content, calls, troubles, writes>> /\ History

-----------------------------------------------------------------------------
\* What follows an answer.

Verify(round) == pc' = [pc EXCEPT !.at = "verify", !.round = round]

Repair ==
    CASE Profile = "validation_only" /\ ~RepairApproved -> Stop("blocked")
      [] pc.round >= MaxRepairRounds -> Stop("failed")
      [] OTHER -> NextStage("repair", pc.round + 1)

\* expected, before and after of a review must be one digest.
OnOneDigest == pc.before = pc.expected /\ pc.after = pc.expected

AnswerOfReview ==
    CASE ~OnOneDigest -> Stop("failed")
      [] OnOneDigest /\ pc.answer = "repair" ->
            IF Profile = "validation_only" /\ ~RepairApproved THEN Stop("blocked")
            ELSE IF pc.round >= MaxRepairRounds THEN Stop("failed")
            ELSE pc' = [pc EXCEPT !.at = "intend", !.kind = "repair", !.round = @ + 1,
                                  !.finding = pc.after]
      [] OnOneDigest /\ pc.answer = "pass" ->
            LET passes == Append(pc.passes, pc.after) IN
            pc' = [pc EXCEPT !.passes = passes,
                             !.at = IF Len(passes) < RequiredPasses THEN "review" ELSE "accept"]

\* A lean repair of a finding must have changed the candidate.
AnswerOfRepair ==
    IF Lean /\ pc.finding = Captured THEN Stop("blocked")
    ELSE pc' = [pc EXCEPT !.at = "verify", !.finding = 0, !.passes = <<>>]

AnswerOfBrief == NextStage("implement", 0)

\* The manager's acceptance must be of what was reviewed.
AnswerOfAcceptance ==
    IF OnOneDigest THEN Go("accepted") ELSE Stop("failed")

Answered ==
    /\ pc.at = "answered"
    /\ CASE pc.answer \in {"blocked", "declined"} ->
              Stop(IF pc.kind = "manager_accept" THEN "failed" ELSE "blocked")
         [] pc.answer = "ready" -> AnswerOfBrief
         [] pc.answer = "implemented" /\ pc.kind = "implement" -> Verify(0)
         [] pc.answer = "implemented" /\ pc.kind = "repair" -> AnswerOfRepair
         [] pc.kind = "review" -> AnswerOfReview
         [] pc.answer = "accepted" -> AnswerOfAcceptance
    /\ mem' = IF pc.answer = "accepted" /\ OnOneDigest THEN [mem EXCEPT !.accepted = pc.after] ELSE mem
    /\ UNCHANGED disk /\ Inside /\ History

\* The configured commands run between two looks at the workspace.
VerifyStarts ==
    /\ pc.at = "verify"
    /\ pc' = [pc EXCEPT !.at = "verifying", !.checked = Captured, !.passes = <<>>]
    /\ UNCHANGED <<disk, mem>> /\ Inside /\ History

\* A manager's loop does not look a second time.
OnlyChecks == Lean => Captured = pc.checked
VerifiedForManager(passed) == IF passed THEN Go("review") ELSE Repair

VerifyEnds(passed) ==
    /\ pc.at = "verifying"
    /\ verified' = IF passed /\ Captured = pc.checked THEN verified \cup {content} ELSE verified
    /\ IF OnlyChecks THEN VerifiedForManager(passed) ELSE Stop("failed")
    /\ UNCHANGED <<disk, mem, launched, reviewed>> /\ Inside

ExpectReview ==
    /\ pc.at = "review"
    /\ pc' = [pc EXCEPT !.at = "intend", !.kind = "review", !.expected = Captured]
    /\ UNCHANGED <<disk, mem>> /\ Inside /\ History

-----------------------------------------------------------------------------
\* Slip (AcceptedAsChecked): the candidate is not looked at again.
SameUnseen == TRUE

\* What is accepted is what the reviews, and in a lean loop the verification, saw.
Same ==
    /\ \A i \in DOMAIN pc.passes : pc.passes[i] = Captured
    /\ Lean => pc.checked = Captured

\* A lean loop accepts by itself, if its preflight still stands; else the manager does.
AskManager ==
    /\ pc' = [pc EXCEPT !.at = "intend", !.kind = "manager_accept", !.round = 0,
                        !.expected = Captured]
    /\ UNCHANGED mem

Accept ==
    /\ pc.at = "accept"
    /\ \/ ~Same /\ Stop("failed") /\ UNCHANGED mem
       \/ Same /\ Lean /\ Stop("failed") /\ UNCHANGED mem
       \/ /\ Same /\ Lean
          /\ mem' = [mem EXCEPT !.accepted = Captured]
          /\ Go("accepted")
       \/ Same /\ ~Lean /\ AskManager
    /\ UNCHANGED disk /\ Inside /\ History

SavePhase ==
    /\ pc.at = "accepted"
    /\ mem' = [mem EXCEPT !.done = @ \cup {pc.phase}]
    /\ disk' = mem'
    /\ pc' = [Idle EXCEPT !.at = "phase", !.phase = pc.phase + 1]
    /\ Inside /\ History

Succeed ==
    /\ pc.at = "phase"
    /\ pc.phase > Phases
    /\ mem' = [mem EXCEPT !.status = "succeeded"]
    /\ disk' = mem'
    /\ Go("return")
    /\ Inside /\ History

-----------------------------------------------------------------------------
\* A file cannot be written or read, and the invocation throws: the lock is removed.
Throws ==
    /\ pc.at # "idle"
    /\ troubles < MaxTroubles
    /\ troubles' = troubles + 1
    /\ Leave
    /\ UNCHANGED <<content, disk, calls, writes>> /\ History

\* The process is killed: the lock stays.
Crash ==
    /\ pc.at # "idle"
    /\ troubles < MaxTroubles
    /\ troubles' = troubles + 1
    /\ pc' = Idle
    /\ mem' = Fresh
    /\ UNCHANGED <<content, lock, disk, calls, writes>> /\ History

\* Somebody removes the lock of a killed process by hand; the code never does.
LockRemoved ==
    /\ pc.at = "idle"
    /\ lock
    /\ lock' = FALSE
    /\ UNCHANGED <<content, disk, mem, pc, calls, troubles, writes>> /\ History

OthersWrite ==
    /\ writes < MaxWrites
    /\ writes' = writes + 1
    /\ content' = content + 1
    /\ UNCHANGED <<lock, disk, mem, pc, calls, troubles>> /\ History

Next ==
    \/ Invoke \/ Return \/ Uncertain \/ Preflight \/ Save
    \/ SkipPhase \/ PhaseStarts \/ Intend \/ RoutingRefuses \/ LaunchTurn \/ TurnEnds \/ TurnThrows
    \/ Receipt \/ Fail \/ Answered
    \/ VerifyStarts \/ (\E passed \in BOOLEAN : VerifyEnds(passed)) \/ ExpectReview
    \/ Accept \/ SavePhase \/ Succeed
    \/ Throws \/ Crash \/ LockRemoved \/ OthersWrite

Spec == Init /\ [][Next]_vars

-----------------------------------------------------------------------------
Count(x, seq) == Cardinality({i \in DOMAIN seq : seq[i] = x})

\* What is on record as accepted was shown to as many reviewers as are required, each of
\* which passed it and left it alone, and in a lean loop has passed the verification: no
\* change by a repair, a verification, a reviewer or somebody else slips in between.
AcceptedAsChecked ==
    disk # None /\ disk.accepted # None =>
        /\ Count(disk.accepted, reviewed) >= RequiredPasses
        /\ Lean => disk.accepted \in verified

\* A stage is launched again only when each earlier turn of it left a receipt: never
\* after a turn was cut off, whatever threw or died.
NoBlindRelaunch ==
    [][\A id \in Range(launched') :
          Count(id, launched') > Count(id, launched)
          => Count(id, launched) = Count(id, disk.stages)]_vars

\* No turn is started for a phase that is on record as completed.
DoneStaysDone ==
    [][launched' # launched => Last(launched')[1] \notin disk.done]_vars
=============================================================================
