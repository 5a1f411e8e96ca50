------------------------------ MODULE RoleQueue ------------------------------
(***************************************************************************)
(* The role queue: the controller of src/workflow/controller.ts, the       *)
(* console runtime that binds it to the owner's source file                *)
(* (src/console/workflow-runtime.ts) and the bridge that polls it and      *)
(* launches workers (src/console/queue-bridge.ts).                         *)
(*                                                                         *)
(* The source file names, for each work item, a candidate: the runtime     *)
(* that would do the work, the stage its tracker status maps to, its       *)
(* shared-file key and whether dependencies and entry evidence are there.  *)
(* Several owner commands, the poll and the start-up use one controller,   *)
(* whose #tail runs one operation at a time.  The owner's own start_work   *)
(* and resume are refused where there is a queue: it alone starts runs.    *)
(*                                                                         *)
(* The policy keeps its revision: a changed revision would put a second    *)
(* controller, with a #tail of its own, beside the first.  The cached      *)
(* evaluation is left out, because the readiness that is part of its key   *)
(* carries the time of the observation.                                    *)
(***************************************************************************)
EXTENDS Naturals, Sequences, FiniteSets

CONSTANTS
    Item,        \* work items
    Stages,      \* the stages of the policy, in the order of ROLE_QUEUE_STAGES
    Role,        \* Role[s]
    MaxWip,      \* MaxWip[s]
    Runtime,     \* configured runtime items: [item, rev, role], one run each
    File, None,  \* shared-file keys
    Legacy,      \* items in an execution scope of the legacy dispatch
    Visible,     \* items that only a visible goal task may work on
    Caller,      \* owner commands at work
    MaxRuns,     \* concurrency limit of the coordinator
    Sources,     \* bound: what the source file may hold at first
    Offers,      \* bound: what candidates may become
    Modes,       \* bound: what owners command
    Outcomes,    \* bound: how runs may end
    MaxMoves,    \* bound: changes of the source
    MaxCommands, \* bound: owner commands
    MaxFaults    \* bound: appends and starts that throw, shutdowns and crashes

Stage == {Stages[n] : n \in DOMAIN Stages}
Actor == Caller \cup {"poll", "boot"}
Mode == {"shadow", "attended", "automatic"}

\* An assignment: a runtime at a stage of its role.
Assignment == {x \in [rt : Runtime, stage : Stage] : Role[x.stage] = x.rt.role}

CandidateOf(i) == {c \in [rt : Runtime, stage : Stage, file : File \cup {None}, ready : BOOLEAN] :
    c.rt.item = i /\ Role[c.stage] = c.rt.role}
Candidate == UNION {CandidateOf(i) : i \in Item}

ASSUME QueueAssumption ==
    /\ \A rt \in Runtime : {"item", "rev", "role"} = DOMAIN rt /\ rt.item \in Item
    /\ IsFiniteSet(Runtime) /\ Stages \in Seq(Stage)
    /\ MaxWip \in [Stage -> Nat]
    /\ None \notin File \cup Candidate \cup Assignment
    /\ Caller \cap {"poll", "boot"} = {}
    /\ Legacy \subseteq Item /\ Visible \subseteq Item
    /\ \A c \in Sources : /\ c \in [Item -> Candidate \cup {None}]
                         /\ \A i \in Item : c[i] # None => c[i].rt.item = i
    /\ Offers \subseteq Candidate /\ Modes \subseteq Mode
    /\ Outcomes \subseteq {"succeeded", "failed", "blocked"}
    /\ MaxRuns \in Nat /\ MaxMoves \in Nat /\ MaxCommands \in Nat
    /\ MaxFaults \in Nat

-----------------------------------------------------------------------------
VARIABLES
    candidates, \* the candidates of the source file
    source,     \* whether the file can be read, and its candidates be bound
    run,        \* what coordinator.snapshot says of each run
    work,       \* the controller's #states, replayed from the journal
    console,    \* "up", "closing", "down"
    mode,       \* #mode of the bridge
    tail,       \* #tail of the controller: operations that wait, first at work
    pc, job,    \* the operation of each actor and its locals
    inbox,      \* the assignments that the poll has still to read
    changed,    \* `changed' of the poll
    \* bounds and history
    moves, commands, faults,
    launches    \* how often startWork was called for each assignment

environment == <<candidates, source, run>>
console_ == <<console, mode>>
poll_ == <<inbox, changed>>
history == <<moves, commands, faults, launches>>
vars == <<environment, work, console_, tail, pc, job, poll_, history>>

RunState == {"none", "admitted", "working", "uncertain", "succeeded", "failed", "blocked"}
Ended == {"succeeded", "failed", "blocked"}
Released == {"completed", "failed", "blocked"}
Observation == Released \cup {"running", "uncertain"}

AssignmentState == [place : {"free", "claimed", "intended"}, file : File \cup {None},
                    launch : Observation \cup {"none"}, receipt : Released \cup {"none"}]
Unclaimed == [place |-> "free", file |-> None, launch |-> "none", receipt |-> "none"]

Job == [task : {"none", "evaluate", "reconcile", "receipt"}, mode : Mode,
        snap : [Item -> Candidate \cup {None}], plan : SUBSET Item, check : SUBSET Assignment,
        at : Assignment \cup {None}, seen : Observation]
NoJob == [task |-> "none", mode |-> "shadow", snap |-> [i \in Item |-> None], plan |-> {},
          check |-> {}, at |-> None, seen |-> "uncertain"]

Place == {"idle", "waiting", "choosing", "claiming", "intending", "starting",
          "observing", "recording", "inspecting", "noting", "applying", "reading", "started"}

\* Where an operation of the controller is at work.
InTurn == {"choosing", "claiming", "intending", "starting", "observing", "recording",
           "inspecting", "noting", "applying"}
\* Where it works on one assignment.
AtWork == {"claiming", "intending", "starting", "observing", "recording", "noting", "applying"}

TypeOK ==
    /\ candidates \in [Item -> Candidate \cup {None}]
    /\ \A i \in Item : candidates[i] # None => candidates[i].rt.item = i
    /\ source \in {"good", "unbound", "unreadable"}
    /\ run \in [Runtime -> RunState]
    /\ work \in [Assignment -> AssignmentState]
    /\ console \in {"up", "closing", "down"} /\ mode \in Mode
    /\ tail \in Seq(Actor)
    /\ pc \in [Actor -> Place] /\ job \in [Actor -> Job]
    /\ inbox \subseteq Assignment /\ changed \in BOOLEAN
    /\ moves \in Nat /\ commands \in Nat /\ faults \in Nat
    /\ launches \in [Assignment -> Nat]
    /\ \A a \in Actor : pc[a] \in AtWork => job[a].at # None
    /\ \A a \in Actor : \A i \in job[a].plan : job[a].snap[i] \in CandidateOf(i)

\* A console that has just started.
Booting == [a \in Actor |-> IF a = "boot" THEN "waiting" ELSE "idle"]
BootJob == [a \in Actor |-> IF a = "boot" THEN [NoJob EXCEPT !.task = "reconcile"] ELSE NoJob]

Init ==
    /\ candidates \in Sources
    /\ source = "good"
    /\ run = [rt \in Runtime |-> "none"]
    /\ work = [x \in Assignment |-> Unclaimed]
    /\ console = "up" /\ mode = "shadow"
    /\ tail = <<"boot">> /\ pc = Booting /\ job = BootJob
    /\ inbox = {} /\ changed = FALSE
    /\ moves = 0 /\ commands = 0 /\ faults = 0
    /\ launches = [x \in Assignment |-> 0]

Goto(a, from, to) == pc[a] = from /\ pc' = [pc EXCEPT ![a] = to]

-----------------------------------------------------------------------------
\* What the journal says of assignments

\* Slip (HeldWhileAlive): an uncertain launch counts as one that failed.
ActiveUnlessUncertain(x) ==
    /\ work[x].place # "free" /\ work[x].receipt = "none"
    /\ work[x].launch \notin Released \cup {"uncertain"}

\* isActive
Active(x) ==
    /\ work[x].place # "free" /\ work[x].receipt = "none" /\ work[x].launch \notin Released

Holders(i) == {x \in Assignment : x.rt.item = i /\ Active(x)}
AtStage(s) == {x \in Assignment : x.stage = s /\ Active(x)}

\* Slip (NeverRelaunched): only an assignment that still holds the item matches.
MatchingActive(c) == {x \in Holders(c.rt.item) : x.rt.rev = c.rt.rev /\ x.stage = c.stage}

\* The same item, revision and stage, whatever runtime it was claimed for.
Matching(c) == {x \in Assignment :
    work[x].place # "free" /\ x.rt.item = c.rt.item /\ x.rt.rev = c.rt.rev /\ x.stage = c.stage}

\* Slip (OneHolder): a worker of an earlier revision or stage does not count.
ActivityForgetful(c) ==
    IF Matching(c) # {} THEN "taken" ELSE IF ~c.ready THEN "blocked" ELSE "queued"

\* #queue, stateActivity.  "taken" is "active" or "waiting".
Activity(c) ==
    IF Holders(c.rt.item) \ Matching(c) # {} THEN "blocked"
    ELSE IF \E x \in Matching(c) : work[x].receipt = "completed" \/ work[x].launch = "completed"
         THEN "taken"
    ELSE IF \E x \in Matching(c) : \/ work[x].receipt # "none"
                                   \/ work[x].launch \in {"blocked", "failed", "uncertain"}
         THEN "blocked"
    ELSE IF Matching(c) # {} THEN "taken"
    ELSE IF ~c.ready THEN "blocked"
    ELSE "queued"

\* The items that are at a stage and not blocked.
Load(s) == {i \in Item : /\ candidates[i] # None /\ candidates[i].stage = s
                         /\ Activity(candidates[i]) # "blocked"}

Downstream(s, t) == \E m, n \in DOMAIN Stages : m < n /\ Stages[m] = s /\ Stages[n] = t

\* #downstreamBackpressure
Backpressure(s) == \E t \in Stage \ {"done"} :
    Downstream(s, t) /\ Load(t) # {} /\ Cardinality(Load(t)) >= MaxWip[t]

HumanStage(s) == Role[s] \in {"human", "release"} \/ s \in {"human_review", "ready_to_release", "done"}

\* The candidates that an evaluation would launch, if there is room.
Plan(m) == {i \in Item :
    /\ m # "shadow"
    /\ candidates[i] # None /\ Activity(candidates[i]) = "queued"
    /\ ~HumanStage(candidates[i].stage) /\ i \notin Legacy
    /\ Role[candidates[i].stage] = "builder" => ~Backpressure(candidates[i].stage)}

\* Slip (FilesSerialized): the source's key is used for a claim that has its own.
KeyInSource(a, x) == IF job[a].snap[x.rt.item] = None THEN None ELSE job[a].snap[x.rt.item].file

\* The key an assignment was claimed with, or the one its item has now.
KeyOf(a, x) ==
    IF work[x].file # None THEN work[x].file
    ELSE IF job[a].snap[x.rt.item] = None THEN None ELSE job[a].snap[x.rt.item].file

FileBusy(a, f) == f # None /\ \E x \in Assignment : Active(x) /\ KeyOf(a, x) = f

\* Slip (WipRespected): only workers that were seen at work count.
FitsObserved(a, c) ==
    /\ Cardinality({x \in AtStage(c.stage) : work[x].launch = "running"}) < MaxWip[c.stage]
    /\ ~FileBusy(a, c.file)

\* The opposite of stage_wip_limit and shared_file_serialization.
Fits(a, c) == Cardinality(AtStage(c.stage)) < MaxWip[c.stage] /\ ~FileBusy(a, c.file)

-----------------------------------------------------------------------------
\* What a run looks like from the queue

Occupying(states) == Cardinality({rt \in Runtime : run[rt] \in states})

\* inspect
Inspection(rt) ==
    CASE run[rt] = "succeeded" -> "completed"
      [] run[rt] = "failed" -> "failed"
      [] run[rt] = "blocked" -> "blocked"
      [] run[rt] = "working" -> "running"
      [] OTHER -> "uncertain"

\* What the poll makes of a run that has ended.
Result(rt) == IF run[rt] = "succeeded" THEN "completed" ELSE run[rt]

\* Ends of the turn, of its delivery, of a recovery, or by the owner's decision.
Later(state) ==
    CASE state = "admitted" -> {"working", "uncertain"} \cup Outcomes
      [] state = "working" -> {"uncertain"} \cup Outcomes
      [] state = "uncertain" -> Outcomes
      [] OTHER -> {}

RunMoves(rt) ==
    /\ run' \in {[run EXCEPT ![rt] = s] : s \in Later(run[rt])}
    /\ UNCHANGED <<candidates, source, work, console_, tail, pc, job, poll_, history>>

\* The owner edits the source file, or the tracker moves the ticket.
MoveCandidate(i) ==
    /\ moves < MaxMoves
    /\ moves' = moves + 1
    /\ candidates' \in {[candidates EXCEPT ![i] = c] : c \in {d \in Offers : d.rt.item = i} \cup {None}}
    /\ UNCHANGED <<source, run, work, console_, tail, pc, job, poll_,
                   commands, faults, launches>>

\* Out of date or unsafe; or readable, with a candidate that no configured
\* runtime has the revision and role for.
SourceChanges ==
    /\ moves < MaxMoves
    /\ moves' = moves + 1
    /\ source' \in {"good", "unbound", "unreadable"} \ {source}
    /\ UNCHANGED <<candidates, run, work, console_, tail, pc, job, poll_,
                   commands, faults, launches>>

-----------------------------------------------------------------------------
\* Operations and how they return

Evaluation(m) == [NoJob EXCEPT !.task = "evaluate", !.mode = m]
Reconciliation == [NoJob EXCEPT !.task = "reconcile"]
Receipt(x, status) == [NoJob EXCEPT !.task = "receipt", !.at = x, !.seen = status]

\* The operation is over and its actor goes on at `place'.
Return(a, place) ==
    /\ pc' = [pc EXCEPT ![a] = place]
    /\ job' = [job EXCEPT ![a] = NoJob]

\* The start-up goes on after a reconciliation, the poll after all but evaluations.
Completed(a) ==
    IF a = "boot" /\ job[a].task = "reconcile" THEN "started"
    ELSE IF a = "poll" /\ job[a].task # "evaluate" THEN "reading"
    ELSE "idle"

\* An error ends the poll and the command; the start-up catches that of a reconciliation.
Throw(a) ==
    /\ Return(a, IF a = "boot" /\ job[a].task = "reconcile" THEN "started" ELSE "idle")
    /\ inbox' = IF a = "poll" THEN {} ELSE inbox
    /\ changed' = (changed /\ a # "poll")

\* An operation takes its place in the chain.  The read of the file that finds
\* its controller is taken with what the operation reads at its turn.
Begin(a, j) ==
    /\ pc' = [pc EXCEPT ![a] = "waiting"]
    /\ job' = [job EXCEPT ![a] = j]

Turn(a) == tail # <<>> /\ Head(tail) = a

Join(a) == tail' = Append(tail, a)
Leave == tail' = Tail(tail)

\* #controllerForCurrentPolicy, and #observe but for reconciliations: the file
\* is read, and its candidates bound to the configured runtimes.
ObserveThrows(a) ==
    /\ pc[a] = "waiting" /\ Turn(a)
    /\ source = "unreadable" \/ (source = "unbound" /\ job[a].task # "reconcile")
    /\ Throw(a) /\ Leave
    /\ UNCHANGED <<environment, work, console_, history>>

\* #append throws wherever one is due; nothing is on record.
AppendThrows(a) ==
    /\ faults < MaxFaults
    /\ faults' = faults + 1
    /\ pc[a] \in {"claiming", "intending", "recording", "noting", "applying"}
    /\ Throw(a) /\ Leave
    /\ UNCHANGED <<environment, work, console_, moves, commands, launches>>

-----------------------------------------------------------------------------
\* evaluate

\* Slip (TypeOK): the plan is kept without the snapshot it was made from.
ObserveForgetful(a) ==
    /\ Goto(a, "waiting", "choosing") /\ Turn(a)
    /\ job[a].task = "evaluate" /\ source = "good"
    /\ job' = [job EXCEPT ![a].plan = Plan(job[a].mode)]
    /\ UNCHANGED <<environment, work, console_, tail, poll_, history>>

Observe(a) ==
    /\ Goto(a, "waiting", "choosing") /\ Turn(a)
    /\ job[a].task = "evaluate" /\ source = "good"
    /\ job' = [job EXCEPT ![a].snap = candidates, ![a].plan = Plan(job[a].mode)]
    /\ UNCHANGED <<environment, work, console_, tail, poll_, history>>

\* Readiness is missing or goes stale: the rest of the plan is not looked at.
ReadinessLapses(a) ==
    /\ pc[a] = "choosing" /\ job[a].mode = "automatic" /\ job[a].plan # {}
    /\ job' = [job EXCEPT ![a].plan = {}]
    /\ UNCHANGED <<environment, work, console_, tail, pc, poll_, history>>

ClaimOf(c) == [rt |-> c.rt, stage |-> c.stage]

Choose(a, i) ==
    /\ Goto(a, "choosing", "claiming")
    /\ i \in job[a].plan /\ Fits(a, job[a].snap[i])
    /\ job' = [job EXCEPT ![a].plan = @ \ {i}, ![a].at = ClaimOf(job[a].snap[i])]
    /\ UNCHANGED <<environment, work, console_, tail, poll_, history>>

\* assignment_claimed is on record.
Claim(a) ==
    LET x == job[a].at IN
    /\ Goto(a, "claiming", "intending")
    /\ work' = [work EXCEPT ![x] = [Unclaimed EXCEPT !.place = "claimed",
                                                   !.file = job[a].snap[x.rt.item].file]]
    /\ UNCHANGED <<environment, console_, tail, job, poll_, history>>

Saw(a, status) == job' = [job EXCEPT ![a].seen = status]
Intended(a) == work' = [work EXCEPT ![job[a].at].place = "intended"]

\* The bridge is closed or back in shadow mode, or the work is the foreman's.
Refuses(a) == console # "up" \/ mode = "shadow" \/ job[a].at.rt.item \in Visible

\* launch_intended, and then the guards of launch; readiness may be stale by now.
IntendBlocked(a) ==
    /\ Goto(a, "intending", "recording")
    /\ Refuses(a) \/ job[a].mode = "automatic"
    /\ Intended(a) /\ Saw(a, "blocked")
    /\ UNCHANGED <<environment, console_, tail, poll_, history>>

IntendLaunch(a) ==
    /\ Goto(a, "intending", "starting")
    /\ ~Refuses(a)
    /\ Intended(a)
    /\ launches' = [launches EXCEPT ![job[a].at] = @ + 1]
    /\ UNCHANGED <<environment, console_, tail, job, poll_, moves, commands, faults>>

Admit(rt) ==
    /\ run[rt] = "none" /\ Occupying({"admitted", "working"}) < MaxRuns
    /\ run' = [run EXCEPT ![rt] = "admitted"]

\* startWork: an admission with the same key is answered by the run it made.
StartAdmits(a) ==
    LET rt == job[a].at.rt IN
    /\ Goto(a, "starting", "observing")
    /\ \/ run[rt] # "none" /\ run' = run
       \/ Admit(rt)
    /\ UNCHANGED <<candidates, source, work, console_, tail, job, poll_, history>>

\* concurrency_limit_exceeded.  An uncertain run may or may not have its place.
StartRefused(a) ==
    /\ Goto(a, "starting", "recording")
    /\ run[job[a].at.rt] = "none"
    /\ Occupying({"admitted", "working", "uncertain"}) >= MaxRuns
    /\ Saw(a, "uncertain")
    /\ UNCHANGED <<environment, work, console_, tail, poll_, history>>

\* Admission paused, a console that closes, no route, a token limit, a journal
\* that refuses, perhaps after the admission.
StartThrows(a) ==
    /\ Goto(a, "starting", "recording")
    /\ \/ console = "closing" /\ faults' = faults
       \/ faults < MaxFaults /\ faults' = faults + 1
    /\ run' = run \/ Admit(job[a].at.rt)
    /\ Saw(a, "uncertain")
    /\ UNCHANGED <<candidates, source, work, console_, tail, poll_, moves, commands, launches>>

ObserveLaunch(a) ==
    /\ Goto(a, "observing", "recording")
    /\ Saw(a, Inspection(job[a].at.rt))
    /\ UNCHANGED <<environment, work, console_, tail, poll_, history>>

RecordLaunch(a) ==
    /\ Goto(a, "recording", "choosing")
    /\ work' = [work EXCEPT ![job[a].at].launch = job[a].seen]
    /\ UNCHANGED <<environment, console_, tail, job, poll_, history>>

\* What does not fit at its turn would not fit at the end either.
EvaluateEnds(a) ==
    /\ pc[a] = "choosing" /\ \A i \in job[a].plan : ~Fits(a, job[a].snap[i])
    /\ Return(a, Completed(a)) /\ Leave
    /\ UNCHANGED <<environment, work, console_, poll_, history>>

-----------------------------------------------------------------------------
\* reconcile

Reconcile(a) ==
    /\ Goto(a, "waiting", "inspecting") /\ Turn(a)
    /\ job[a].task = "reconcile" /\ source # "unreadable"
    /\ job' = [job EXCEPT ![a].check = {x \in Assignment : work[x].place = "intended" /\ Active(x)}]
    /\ UNCHANGED <<environment, work, console_, tail, poll_, history>>

\* The same observation, with its reason, is not recorded again.
InspectSame(a, x) ==
    /\ pc[a] = "inspecting" /\ x \in job[a].check
    /\ Inspection(x.rt) = work[x].launch
    /\ job' = [job EXCEPT ![a].check = @ \ {x}]
    /\ UNCHANGED <<environment, work, console_, tail, pc, poll_, history>>

Inspect(a, x) ==
    /\ Goto(a, "inspecting", "noting")
    /\ x \in job[a].check
    /\ Inspection(x.rt) # work[x].launch \/ Inspection(x.rt) = "uncertain"
    /\ job' = [job EXCEPT ![a].check = @ \ {x}, ![a].at = x, ![a].seen = Inspection(x.rt)]
    /\ UNCHANGED <<environment, work, console_, tail, poll_, history>>

Note(a) ==
    /\ Goto(a, "noting", "inspecting")
    /\ work' = [work EXCEPT ![job[a].at].launch = job[a].seen]
    /\ UNCHANGED <<environment, console_, tail, job, poll_, history>>

ReconcileEnds(a) ==
    /\ pc[a] = "inspecting" /\ job[a].check = {}
    /\ Return(a, Completed(a)) /\ Leave
    /\ changed' = (changed \/ a = "poll")
    /\ UNCHANGED <<environment, work, console_, inbox, history>>

-----------------------------------------------------------------------------
\* poll, and recordReceipt, which only the poll calls

Poll ==
    /\ Goto("poll", "idle", "reading")
    /\ console = "up"
    /\ inbox' = {x \in Assignment : work[x].place = "intended" /\ work[x].receipt = "none"}
    /\ changed' = FALSE
    /\ UNCHANGED <<environment, work, console_, tail, job, history>>

\* Runs at work are passed over, some of them before others end.
ReadEnded(x) ==
    /\ pc["poll"] = "reading" /\ x \in inbox /\ run[x.rt] \in Ended
    /\ \E passed \in SUBSET {y \in inbox : run[y.rt] \notin Ended} : inbox' = inbox \ ({x} \cup passed)
    /\ Begin("poll", Receipt(x, Result(x.rt))) /\ Join("poll")
    /\ UNCHANGED <<environment, work, console_, changed, history>>

AllRead == pc["poll"] = "reading" /\ \A x \in inbox : run[x.rt] \notin Ended

IsCurrent(x) ==
    LET c == candidates[x.rt.item] IN
    c # None /\ c.rt.rev = x.rt.rev /\ c.stage = x.stage

ReceiptCurrent ==
    /\ Goto("poll", "waiting", "applying") /\ Turn("poll")
    /\ job["poll"].task = "receipt" /\ source = "good" /\ IsCurrent(job["poll"].at)
    /\ UNCHANGED <<environment, work, console_, tail, job, poll_, history>>

ApplyReceipt ==
    /\ pc["poll"] = "applying"
    /\ work' = [work EXCEPT ![job["poll"].at].receipt = job["poll"].seen]
    /\ changed' = TRUE
    /\ Return("poll", "reading") /\ Leave
    /\ UNCHANGED <<environment, console_, inbox, history>>

\* Slip (EndedWorkReleases): a receipt that is not current is only dropped.
ReceiptDropped ==
    /\ pc["poll"] = "waiting" /\ Turn("poll")
    /\ job["poll"].task = "receipt" /\ source = "good" /\ ~IsCurrent(job["poll"].at)
    /\ Return("poll", "reading") /\ Leave
    /\ UNCHANGED <<environment, work, console_, poll_, history>>

\* The ticket has moved on; a reconciliation releases the old worker's hold.
ReceiptNotCurrent ==
    /\ pc["poll"] = "waiting" /\ Turn("poll")
    /\ job["poll"].task = "receipt" /\ source = "good" /\ ~IsCurrent(job["poll"].at)
    /\ Begin("poll", Reconciliation)
    /\ tail' = Append(Tail(tail), "poll")
    /\ UNCHANGED <<environment, work, console_, poll_, history>>

\* Something changed, or five seconds have passed.
PollEvaluates ==
    /\ AllRead
    /\ Begin("poll", Evaluation(mode)) /\ Join("poll")
    /\ inbox' = {} /\ changed' = FALSE
    /\ UNCHANGED <<environment, work, console_, history>>

PollRests ==
    /\ AllRead /\ ~changed
    /\ Return("poll", "idle")
    /\ inbox' = {}
    /\ UNCHANGED <<environment, work, console_, tail, changed, history>>

-----------------------------------------------------------------------------
\* The console

\* queue_evaluate: the mode is set before anything is read.
Command(a, m) ==
    /\ console = "up" /\ pc[a] = "idle" /\ commands < MaxCommands
    /\ commands' = commands + 1
    /\ mode' = m
    /\ Begin(a, Evaluation(m)) /\ Join(a)
    /\ UNCHANGED <<environment, work, console, poll_, moves, faults, launches>>

\* The start-up evaluates in shadow mode, after the listener is open.
BootEvaluates ==
    /\ pc["boot"] = "started" /\ console = "up"
    /\ mode' = "shadow"
    /\ Begin("boot", Evaluation("shadow")) /\ Join("boot")
    /\ UNCHANGED <<environment, work, console, poll_, history>>

\* close() waits for the poll alone.
Close ==
    /\ console = "up" /\ faults < MaxFaults
    /\ faults' = faults + 1
    /\ console' = "closing" /\ mode' = "shadow"
    /\ UNCHANGED <<environment, work, tail, pc, job, poll_, moves, commands, launches>>

Stop ==
    /\ \/ console = "closing" /\ faults' = faults
       \/ console = "up" /\ faults < MaxFaults /\ faults' = faults + 1
    /\ console' = "down" /\ mode' = "shadow"
    /\ tail' = <<>> /\ pc' = [a \in Actor |-> "idle"] /\ job' = [a \in Actor |-> NoJob]
    /\ inbox' = {} /\ changed' = FALSE
    /\ UNCHANGED <<environment, work, moves, commands, launches>>

Restart ==
    /\ console = "down"
    /\ console' = "up"
    /\ pc' = Booting /\ job' = BootJob /\ tail' = <<"boot">>
    /\ UNCHANGED <<environment, work, mode, poll_, history>>

EvaluateStep(a) ==
    \/ Observe(a) \/ ReadinessLapses(a)
    \/ \E i \in Item : Choose(a, i)
    \/ Claim(a)
    \/ IntendBlocked(a) \/ IntendLaunch(a)
    \/ StartAdmits(a) \/ StartRefused(a) \/ ObserveLaunch(a) \/ RecordLaunch(a)
    \/ EvaluateEnds(a)

ReconcileStep(a) ==
    \/ Reconcile(a) \/ Note(a) \/ ReconcileEnds(a)
    \/ \E x \in Assignment : InspectSame(a, x) \/ Inspect(a, x)

PollStep ==
    \/ \E x \in Assignment : ReadEnded(x)
    \/ ReceiptCurrent \/ ApplyReceipt \/ ReceiptNotCurrent \/ PollEvaluates

\* What happens without anybody's asking.
Step(a) ==
    \/ ObserveThrows(a)
    \/ EvaluateStep(a) \/ ReconcileStep(a)
    \/ a = "poll" /\ PollStep
    \/ a = "boot" /\ BootEvaluates

Next ==
    \/ \E a \in Actor : Step(a) \/ AppendThrows(a) \/ StartThrows(a)
    \/ \E a \in Caller, m \in Modes : Command(a, m)
    \/ Poll \/ PollRests
    \/ Close \/ Stop \/ Restart
    \/ \E rt \in Runtime : RunMoves(rt)
    \/ \E i \in Item : MoveCandidate(i)
    \/ SourceChanges

Spec == Init /\ [][Next]_vars

\* Every await settles, and the interval timer calls the poll.
FairSpec == Spec /\ (\A a \in Actor : WF_vars(Step(a))) /\ WF_vars(Poll)

-----------------------------------------------------------------------------
(***************************************************************************)
(* An assignment whose worker was started, and is alive or may be, holds   *)
(* its place in the stage, its file and its item: neither a receipt nor a  *)
(* restart nor a moved ticket lets go of a worker.                         *)
(***************************************************************************)
HeldWhileAlive == \A x \in Assignment :
    launches[x] > 0 /\ run[x.rt] \in {"admitted", "working", "uncertain"} => Active(x)

(***************************************************************************)
(* No stage has more active assignments than its maxWip, whichever         *)
(* commands, polls and restarts evaluate at the same time.                 *)
(***************************************************************************)
WipRespected == \A s \in Stage : Cardinality(AtStage(s)) <= MaxWip[s]

(***************************************************************************)
(* A work item is held by one assignment: a new revision or a new stage    *)
(* waits for the worker of the old one.                                    *)
(***************************************************************************)
OneHolder == \A i \in Item : \A x, y \in Holders(i) : x = y

(***************************************************************************)
(* Two active assignments never share a file key, also after the source    *)
(* changed the key of a ticket or dropped the ticket.                      *)
(***************************************************************************)
FilesSerialized == \A x, y \in Assignment :
    Active(x) /\ Active(y) /\ work[x].file # None /\ work[x].file = work[y].file => x = y

(***************************************************************************)
(* Work is started at most once for an item, revision and stage: neither   *)
(* repeated evaluations nor failed launches nor restarts start it again.   *)
(***************************************************************************)
SameWork(x, y) == x.rt.item = y.rt.item /\ x.rt.rev = y.rt.rev /\ x.stage = y.stage

NeverRelaunched == \A x, y \in Assignment :
    launches[x] > 0 /\ launches[y] > 0 /\ SameWork(x, y) => x = y /\ launches[x] = 1

(***************************************************************************)
(* Once the console stays up and the source can be used, no run that has   *)
(* ended keeps a hold, whether its ticket is still where it was or not.    *)
(***************************************************************************)
Stale(x) == run[x.rt] \in Ended /\ work[x].place = "intended" /\ Active(x)

EndedWorkReleases ==
    <>[](console = "up" /\ source = "good") => []<>(\A x \in Assignment : ~Stale(x))

(***************************************************************************)
(* "Replacement work starts when capacity clears": in a running attended   *)
(* console, a ready candidate that stays in the source is started if the   *)
(* coordinator and the stage have room for it again and again.             *)
(***************************************************************************)
Wanted(i) == /\ console = "up" /\ source = "good" /\ mode = "attended"
             /\ candidates[i] # None /\ candidates[i].ready /\ i \notin Legacy \cup Visible
             /\ ~HumanStage(candidates[i].stage) /\ candidates[i].file = None

RoomFor(i) ==
    LET s == candidates[i].stage IN
    /\ Occupying({"admitted", "working", "uncertain"}) < MaxRuns
    /\ Cardinality({x \in AtStage(s) : x.rt.item # i}) < MaxWip[s]
    /\ Role[s] = "builder" => ~Backpressure(s)

ReplacementStarts == \A i \in Item :
    <>[]Wanted(i) /\ []<>(candidates[i] # None /\ RoomFor(i))
    => <>(\E rt \in Runtime : rt.item = i /\ run[rt] # "none")
=============================================================================
