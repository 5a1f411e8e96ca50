-------------------------- MODULE RoleQueueProofs --------------------------
(***************************************************************************)
(* Proofs about the role queue, for any work items, stages, limits and     *)
(* owner commands: whatever evaluates at the same time, and wherever the   *)
(* console stops, a worker that may be alive keeps its hold, no stage has  *)
(* more active assignments than its limit, an item and a file have one     *)
(* holder, and work is started once.                                       *)
(***************************************************************************)
EXTENDS RoleQueue, FiniteSetTheorems, TLAPS

-----------------------------------------------------------------------------
\* The inductive invariant.

\* The chain: nobody waits in it twice, and only its head is at work.
ChainSound ==
    /\ \A n \in DOMAIN tail : pc[tail[n]] \in {"waiting"} \cup InTurn
    /\ \A m, n \in DOMAIN tail : tail[m] = tail[n] => m = n
    /\ \A a \in Actor : pc[a] \in InTurn => tail # <<>> /\ Head(tail) = a

\* Where an evaluation is at work, with an assignment it launches or without one.
Evaluating == {"choosing", "claiming", "intending", "starting", "observing", "recording"}

\* What is decided on for an item is so until it is claimed.
Decided(i, c) == Holders(i) = {} /\ Matching(c) = {}

\* What was learned of a run's end is so.
Learned(x, status) == status \in Released => run[x.rt] \in Ended

\* Nothing is on record of the assignment but its place.
Fresh(x, place) == work[x].place = place /\ work[x].receipt = "none" /\ work[x].launch = "none"

JobSound(a) ==
    LET j == job[a]
        x == job[a].at
    IN
    /\ j.plan # {} => pc[a] \in Evaluating
    /\ \A i \in j.plan : Decided(i, j.snap[i])
    /\ pc[a] = "claiming" =>
           /\ x.rt.item \notin j.plan /\ j.snap[x.rt.item] \in CandidateOf(x.rt.item)
           /\ x = ClaimOf(j.snap[x.rt.item])
           /\ Decided(x.rt.item, j.snap[x.rt.item]) /\ Fits(a, j.snap[x.rt.item])
    /\ pc[a] = "intending" => Fresh(x, "claimed") /\ x.rt.item \notin j.plan
    /\ pc[a] \in {"starting", "observing", "recording"} =>
           Fresh(x, "intended") /\ x.rt.item \notin j.plan
    /\ pc[a] = "recording" => launches[x] = 0 \/ Learned(x, j.seen)
    /\ pc[a] \in {"inspecting", "noting"} =>
           \A y \in j.check : work[y].place = "intended" /\ Active(y)
    /\ pc[a] = "noting" =>
           work[x].place = "intended" /\ Active(x) /\ Learned(x, j.seen) /\ x \notin j.check
    /\ pc[a] = "applying" => j.task = "receipt"
    /\ j.task = "receipt" =>
           /\ pc[a] \in {"waiting", "applying"}
           /\ x \in Assignment /\ j.seen \in Released /\ Learned(x, j.seen)

\* A worker that was started is intended and was started once; a hold is let go of
\* only when its run has ended; and an item, revision and stage are claimed once.
StartedSound == \A x \in Assignment :
    /\ launches[x] \in {0, 1}
    /\ launches[x] # 0 => work[x].place = "intended" /\ (Active(x) \/ run[x.rt] \in Ended)

ClaimedOnce == \A x, y \in Assignment :
    work[x].place # "free" /\ work[y].place # "free" /\ SameWork(x, y) => x = y

IInv ==
    /\ TypeOK /\ ChainSound
    /\ \A a \in Actor : JobSound(a)
    /\ StartedSound /\ ClaimedOnce
    /\ WipRespected /\ OneHolder /\ FilesSerialized

-----------------------------------------------------------------------------
\* Lemmas on types.

LEMMA ActorTypes == Caller \subseteq Actor /\ "poll" \in Actor /\ "boot" \in Actor
BY DEF Actor

LEMMA NoJobTyped == NoJob \in Job
BY DEF NoJob, Job, Mode, Observation, Released

\* A new job is typed, decides on nothing and works on nothing.
LEMMA EvaluationTyped ==
    ASSUME NEW m \in Mode
    PROVE  Evaluation(m) \in Job /\ Evaluation(m).plan = {} /\ Evaluation(m).task = "evaluate"
BY NoJobTyped DEF Evaluation, NoJob, Job, Mode, Observation, Released

LEMMA ReconciliationTyped ==
    Reconciliation \in Job /\ Reconciliation.plan = {} /\ Reconciliation.task = "reconcile"
BY NoJobTyped DEF Reconciliation, NoJob, Job, Mode, Observation, Released

LEMMA ReceiptTyped ==
    ASSUME NEW x \in Assignment, NEW status \in Released
    PROVE  /\ Receipt(x, status) \in Job /\ Receipt(x, status).plan = {}
           /\ Receipt(x, status).task = "receipt"
           /\ Receipt(x, status).at = x /\ Receipt(x, status).seen = status
BY NoJobTyped DEF Receipt, NoJob, Job, Mode, Observation, Released

LEMMA InspectionTyped ==
    ASSUME NEW rt \in Runtime, run[rt] \in RunState
    PROVE  /\ Inspection(rt) \in Observation
           /\ Inspection(rt) \in Released => run[rt] \in Ended
BY DEF Inspection, Observation, Released, RunState, Ended

\* An assignment is of a configured runtime.
LEMMA AssignmentTypes ==
    ASSUME NEW x \in Assignment
    PROVE  x.rt \in Runtime /\ x.stage \in Stage /\ x.rt.item \in Item /\ x # None
BY QueueAssumption DEF QueueAssumption, Assignment

LEMMA CandidateTypes ==
    ASSUME NEW i \in Item, NEW c \in CandidateOf(i)
    PROVE  /\ c \in Candidate /\ c # None /\ c.rt \in Runtime /\ c.rt.item = i
           /\ c.stage \in Stage /\ c.file \in File \cup {None}
           /\ ClaimOf(c) \in Assignment /\ ClaimOf(c).rt = c.rt /\ ClaimOf(c).stage = c.stage
BY QueueAssumption DEF QueueAssumption, CandidateOf, Candidate, ClaimOf, Assignment

-----------------------------------------------------------------------------
\* Every step keeps the types.

LEMMA InitTyped == Init => TypeOK
<1> SUFFICES ASSUME Init PROVE TypeOK
  OBVIOUS
<1>1. candidates \in [Item -> Candidate \cup {None}] /\ \A i \in Item : candidates[i] # None => candidates[i].rt.item = i
  BY QueueAssumption DEF Init, QueueAssumption
<1>2. work \in [Assignment -> AssignmentState]
  BY DEF Init, Unclaimed, AssignmentState, Observation, Released
<1>3. pc \in [Actor -> Place] /\ job \in [Actor -> Job] /\ tail \in Seq(Actor)
  <2>1. [NoJob EXCEPT !.task = "reconcile"] \in Job
    BY NoJobTyped DEF Job
  <2> QED BY <2>1, NoJobTyped, ActorTypes DEF Init, Booting, BootJob, Place
<1>4. \A a \in Actor : (pc[a] \in AtWork => job[a].at # None) /\ job[a].plan = {}
  BY NoJobTyped DEF Init, Booting, BootJob, AtWork, NoJob
<1> QED BY <1>1, <1>2, <1>3, <1>4 DEF Init, TypeOK, Mode, RunState

\* An actor's place and job, where nobody else's change.
LEMMA ActorTyped ==
    ASSUME TypeOK, NEW a \in Actor, NEW place \in Place, NEW j \in Job,
           pc' = [pc EXCEPT ![a] = place], job' = [job EXCEPT ![a] = j],
           place \in AtWork => j.at # None,
           \A i \in j.plan : j.snap[i] \in CandidateOf(i)
    PROVE  /\ pc' \in [Actor -> Place] /\ job' \in [Actor -> Job]
           /\ \A b \in Actor : pc'[b] \in AtWork => job'[b].at # None
           /\ \A b \in Actor : \A i \in job'[b].plan : job'[b].snap[i] \in CandidateOf(i)
BY DEF TypeOK

LEMMA ReturnTyped ==
    ASSUME TypeOK, NEW a \in Actor, NEW place \in {"idle", "started", "reading"}, Return(a, place)
    PROVE  /\ pc' \in [Actor -> Place] /\ job' \in [Actor -> Job]
           /\ \A b \in Actor : pc'[b] \in AtWork => job'[b].at # None
           /\ \A b \in Actor : \A i \in job'[b].plan : job'[b].snap[i] \in CandidateOf(i)
<1>1. place \in Place /\ place \notin AtWork
  BY DEF Place, AtWork
<1>2. NoJob.plan = {}
  BY DEF NoJob
<1> QED BY <1>1, <1>2, NoJobTyped, ActorTyped DEF Return

LEMMA BeginTyped ==
    ASSUME TypeOK, NEW a \in Actor, NEW j \in Job, j.plan = {}, Begin(a, j)
    PROVE  /\ pc' \in [Actor -> Place] /\ job' \in [Actor -> Job]
           /\ \A b \in Actor : pc'[b] \in AtWork => job'[b].at # None
           /\ \A b \in Actor : \A i \in job'[b].plan : job'[b].snap[i] \in CandidateOf(i)
<1>1. "waiting" \in Place /\ "waiting" \notin AtWork
  BY DEF Place, AtWork
<1> QED BY <1>1, ActorTyped DEF Begin

LEMMA ThrowTyped ==
    ASSUME TypeOK, NEW a \in Actor, Throw(a)
    PROVE  /\ pc' \in [Actor -> Place] /\ job' \in [Actor -> Job]
           /\ \A b \in Actor : pc'[b] \in AtWork => job'[b].at # None
           /\ \A b \in Actor : \A i \in job'[b].plan : job'[b].snap[i] \in CandidateOf(i)
           /\ inbox' \subseteq Assignment /\ changed' \in BOOLEAN
<1>1. inbox' \subseteq Assignment /\ changed' \in BOOLEAN
  BY DEF Throw, TypeOK
<1>2. PICK place \in {"idle", "started"} : Return(a, place)
  BY DEF Throw
<1> QED BY <1>1, <1>2, ReturnTyped

\* The chain as a sequence of actors.
LEMMA ChainTyped ==
    ASSUME TypeOK, NEW a \in Actor
    PROVE  /\ Join(a) => tail' \in Seq(Actor)
           /\ Leave /\ tail # <<>> => tail' \in Seq(Actor)
           /\ tail # <<>> => Append(Tail(tail), a) \in Seq(Actor)
<1>1. tail \in Seq(Actor)
  BY DEF TypeOK
<1>2. tail # <<>> => Tail(tail) \in Seq(Actor)
  BY <1>1
<1>3. \A s \in Seq(Actor) : Append(s, a) \in Seq(Actor)
  OBVIOUS
<1> QED BY <1>1, <1>2, <1>3 DEF Join, Leave

\* An assignment's state, where nothing else changes.
LEMMA WorkTyped ==
    ASSUME TypeOK, NEW x \in Assignment
    PROVE  /\ \A s \in AssignmentState :
                 work' = [work EXCEPT ![x] = s] => work' \in [Assignment -> AssignmentState]
           /\ \A v \in Observation :
                 work' = [work EXCEPT ![x].launch = v] => work' \in [Assignment -> AssignmentState]
           /\ \A v \in Released :
                 work' = [work EXCEPT ![x].receipt = v] => work' \in [Assignment -> AssignmentState]
           /\ work' = [work EXCEPT ![x].place = "intended"] => work' \in [Assignment -> AssignmentState]
<1>1. work \in [Assignment -> AssignmentState] /\ work[x] \in AssignmentState
  BY DEF TypeOK
<1>2. \A s \in AssignmentState : [work EXCEPT ![x] = s] \in [Assignment -> AssignmentState]
  BY <1>1
<1>3. \A v \in Observation : [work[x] EXCEPT !.launch = v] \in AssignmentState
  BY <1>1 DEF AssignmentState
<1>4. \A v \in Released : [work[x] EXCEPT !.receipt = v] \in AssignmentState
  BY <1>1 DEF AssignmentState
<1>5. [work[x] EXCEPT !.place = "intended"] \in AssignmentState
  BY <1>1 DEF AssignmentState
<1> QED BY <1>2, <1>3, <1>4, <1>5

\* Whoever is at work, or about to be, is in the chain.
LEMMA ChainNotEmpty ==
    ASSUME IInv, NEW a \in Actor, pc[a] \in InTurn \/ Turn(a)
    PROVE  tail # <<>> /\ Head(tail) = a
BY DEF IInv, ChainSound, Turn

\* The steps of an evaluation.
LEMMA EvaluateTyped ==
    ASSUME IInv, NEW a \in Actor, EvaluateStep(a) \/ StartThrows(a)
    PROVE  TypeOK'
<1> USE DEF IInv
<1> DEFINE j == job[a]  x == job[a].at
<1>0. j \in Job /\ pc[a] \in Place /\ (pc[a] \in AtWork => x \in Assignment)
  BY DEF TypeOK, Job
<1>1. CASE Observe(a)
  <2>1. Plan(j.mode) \subseteq Item /\ \A i \in Plan(j.mode) : candidates[i] \in CandidateOf(i)
    BY DEF Plan, TypeOK, Candidate, CandidateOf
  <2>2. [j EXCEPT !.snap = candidates, !.plan = Plan(j.mode)] \in Job
    BY <1>0, <2>1 DEF TypeOK, Job
  <2>3. job' = [job EXCEPT ![a] = [j EXCEPT !.snap = candidates, !.plan = Plan(j.mode)]]
    BY <1>1, <1>0 DEF Observe, TypeOK
  <2>4. "choosing" \in Place /\ "choosing" \notin AtWork /\ pc' = [pc EXCEPT ![a] = "choosing"]
    BY <1>1 DEF Place, AtWork, Observe, Goto
  <2>5. \A i \in Plan(j.mode) : [j EXCEPT !.snap = candidates, !.plan = Plan(j.mode)].snap[i] \in CandidateOf(i)
    BY <1>0, <2>1 DEF Job
  <2>6. [j EXCEPT !.snap = candidates, !.plan = Plan(j.mode)].plan = Plan(j.mode)
    BY <1>0 DEF Job
  <2> HIDE DEF IInv
  <2>7. TypeOK
    BY DEF IInv
  <2>8. /\ pc' \in [Actor -> Place] /\ job' \in [Actor -> Job]
        /\ \A b \in Actor : pc'[b] \in AtWork => job'[b].at # None
        /\ \A b \in Actor : \A i \in job'[b].plan : job'[b].snap[i] \in CandidateOf(i)
    BY <2>2, <2>3, <2>4, <2>5, <2>6, <2>7, ActorTyped
  <2> QED BY <1>1, <2>7, <2>8 DEF Observe, TypeOK, environment, console_, poll_, history
<1>2. CASE ReadinessLapses(a)
  <2>1. [j EXCEPT !.plan = {}] \in Job
    BY <1>0 DEF Job
  <2> QED BY <1>0, <1>2, <2>1 DEF ReadinessLapses, TypeOK, environment, console_, poll_, history, AtWork
<1>3. ASSUME NEW i \in Item, Choose(a, i) PROVE TypeOK'
  <2>1. ClaimOf(j.snap[i]) \in Assignment /\ ClaimOf(j.snap[i]) # None
    BY <1>3, CandidateTypes, AssignmentTypes DEF Choose, TypeOK
  <2>2. [j EXCEPT !.plan = @ \ {i}, !.at = ClaimOf(j.snap[i])] \in Job
    BY <1>0, <2>1 DEF Job
  <2>3. job' = [job EXCEPT ![a] = [j EXCEPT !.plan = @ \ {i}, !.at = ClaimOf(j.snap[i])]]
    BY <1>3, <1>0 DEF Choose, TypeOK
  <2>4. "claiming" \in Place /\ pc' = [pc EXCEPT ![a] = "claiming"]
    BY <1>3 DEF Place, Choose, Goto
  <2>5. LET k == [j EXCEPT !.plan = @ \ {i}, !.at = ClaimOf(j.snap[i])]
        IN k.at # None /\ \A y \in k.plan : k.snap[y] \in CandidateOf(y)
    BY <1>0, <2>1 DEF Job, TypeOK
  <2> HIDE DEF IInv
  <2>7. TypeOK
    BY DEF IInv
  <2>8. /\ pc' \in [Actor -> Place] /\ job' \in [Actor -> Job]
        /\ \A b \in Actor : pc'[b] \in AtWork => job'[b].at # None
        /\ \A b \in Actor : \A y \in job'[b].plan : job'[b].snap[y] \in CandidateOf(y)
    BY <2>2, <2>3, <2>4, <2>5, <2>7, ActorTyped
  <2> QED BY <1>3, <2>7, <2>8 DEF Choose, TypeOK, environment, console_, poll_, history
<1>4. CASE Claim(a)
  <2>1. x \in Assignment
    BY <1>0, <1>4 DEF Claim, Goto, AtWork
  <2>2. j.snap[x.rt.item].file \in File \cup {None}
    BY <1>4, <2>1, AssignmentTypes, CandidateTypes DEF JobSound, Claim, Goto
  <2>3. [Unclaimed EXCEPT !.place = "claimed", !.file = j.snap[x.rt.item].file] \in AssignmentState
    BY <2>2 DEF Unclaimed, AssignmentState
  <2>4. work' \in [Assignment -> AssignmentState]
    BY <1>4, <2>1, <2>3, WorkTyped DEF Claim
  <2> QED BY <1>4, <2>1, <2>4, AssignmentTypes DEF Claim, Goto, TypeOK, Place, AtWork, environment, console_, poll_, history
<1>5. CASE IntendBlocked(a)
  <2>1. x \in Assignment
    BY <1>0, <1>5 DEF IntendBlocked, Goto, AtWork
  <2>2. work' \in [Assignment -> AssignmentState]
    BY <1>5, <2>1, WorkTyped DEF IntendBlocked, Intended
  <2>3. [j EXCEPT !.seen = "blocked"] \in Job /\ [j EXCEPT !.seen = "blocked"].at = x
    BY <1>0 DEF Job, Observation, Released
  <2>4. "recording" \in Place /\ x # None
    BY <2>1, AssignmentTypes DEF Place
  <2> QED BY <1>0, <1>5, <2>1, <2>2, <2>3, <2>4
          DEF IntendBlocked, Saw, Goto, TypeOK, environment, console_, poll_, history
<1>6. CASE IntendLaunch(a)
  <2>1. x \in Assignment /\ x # None
    BY <1>0, <1>6, AssignmentTypes DEF IntendLaunch, Goto, AtWork
  <2>2. work' \in [Assignment -> AssignmentState]
    BY <1>6, <2>1, WorkTyped DEF IntendLaunch, Intended
  <2>3. launches' \in [Assignment -> Nat]
    BY <1>6, <2>1 DEF IntendLaunch, TypeOK
  <2>4. pc' \in [Actor -> Place] /\ \A b \in Actor : pc'[b] \in AtWork => job'[b].at # None
    BY <1>6, <2>1 DEF IntendLaunch, Goto, TypeOK, Place
  <2> QED BY <1>6, <2>2, <2>3, <2>4 DEF IntendLaunch, TypeOK, environment, console_, poll_
<1>7. CASE StartAdmits(a)
  <2>1. x \in Assignment /\ x # None /\ x.rt \in Runtime
    BY <1>0, <1>7, AssignmentTypes DEF StartAdmits, Goto, AtWork
  <2> QED BY <1>7, <2>1 DEF StartAdmits, Admit, Goto, TypeOK, Place, AtWork, RunState, environment, console_, poll_, history
<1>8. CASE StartRefused(a)
  <2>1. x # None /\ [j EXCEPT !.seen = "uncertain"] \in Job
    BY <1>0, <1>8, AssignmentTypes DEF StartRefused, Goto, AtWork, Job, Observation
  <2>2. "recording" \in Place
    BY DEF Place
  <2> QED BY <1>0, <1>8, <2>1, <2>2 DEF StartRefused, Saw, Goto, TypeOK, environment, console_, poll_, history
<1>9. CASE StartThrows(a)
  <2>1. x # None /\ x.rt \in Runtime /\ [j EXCEPT !.seen = "uncertain"] \in Job
    BY <1>0, <1>9, AssignmentTypes DEF StartThrows, Goto, AtWork, Job, Observation
  <2>2. "recording" \in Place /\ "admitted" \in RunState
    BY DEF Place, RunState
  <2>3. run' \in [Runtime -> RunState] /\ faults' \in Nat
    BY <1>9, <2>1, <2>2 DEF StartThrows, Admit, TypeOK
  <2>4. /\ pc' \in [Actor -> Place] /\ job' \in [Actor -> Job]
        /\ \A b \in Actor : pc'[b] \in AtWork => job'[b].at # None
        /\ \A b \in Actor : \A i \in job'[b].plan : job'[b].snap[i] \in CandidateOf(i)
    BY <1>0, <1>9, <2>1, <2>2 DEF StartThrows, Saw, Goto, TypeOK
  <2> QED BY <1>9, <2>3, <2>4 DEF StartThrows, TypeOK, console_, poll_
<1>10. CASE ObserveLaunch(a)
  <2>1. x # None /\ x.rt \in Runtime /\ run[x.rt] \in RunState
    BY <1>0, <1>10, AssignmentTypes DEF ObserveLaunch, Goto, AtWork, TypeOK
  <2>2. [j EXCEPT !.seen = Inspection(x.rt)] \in Job
    BY <1>0, <2>1, InspectionTyped DEF Job
  <2>3. "recording" \in Place
    BY DEF Place
  <2> QED BY <1>0, <1>10, <2>1, <2>2, <2>3 DEF ObserveLaunch, Saw, Goto, TypeOK, environment, console_, poll_, history
<1>11. CASE RecordLaunch(a)
  <2>1. x \in Assignment /\ j.seen \in Observation
    BY <1>0, <1>11 DEF RecordLaunch, Goto, AtWork, Job
  <2>2. work' \in [Assignment -> AssignmentState]
    BY <1>11, <2>1, WorkTyped DEF RecordLaunch
  <2> QED BY <1>11, <2>2 DEF RecordLaunch, Goto, TypeOK, Place, AtWork, environment, console_, poll_, history
<1>12. CASE EvaluateEnds(a)
  <2>1. tail # <<>>
    BY <1>12, ChainNotEmpty DEF EvaluateEnds, InTurn
  <2>2. tail' \in Seq(Actor)
    BY <1>12, <2>1, ChainTyped DEF EvaluateEnds
  <2>3. Completed(a) \in {"idle", "started", "reading"}
    BY DEF Completed
  <2> HIDE DEF IInv
  <2>4. TypeOK
    BY DEF IInv
  <2> QED BY <1>12, <2>2, <2>3, <2>4, ReturnTyped DEF EvaluateEnds, TypeOK, environment, console_, poll_, history
<1> QED BY <1>1, <1>2, <1>3, <1>4, <1>5, <1>6, <1>7, <1>8, <1>9, <1>10, <1>11, <1>12 DEF EvaluateStep
\* A reconciliation takes nothing but its own job.
LEMMA JobsTyped ==
    ASSUME TypeOK, NEW a \in Actor, NEW place \in Place, NEW j \in Job,
           pc' = [pc EXCEPT ![a] = place], job' = [job EXCEPT ![a] = j],
           place \in AtWork => j.at # None, j.plan = job[a].plan, j.snap = job[a].snap
    PROVE  /\ pc' \in [Actor -> Place] /\ job' \in [Actor -> Job]
           /\ \A b \in Actor : pc'[b] \in AtWork => job'[b].at # None
           /\ \A b \in Actor : \A i \in job'[b].plan : job'[b].snap[i] \in CandidateOf(i)
<1>1. \A i \in j.plan : j.snap[i] \in CandidateOf(i)
  BY DEF TypeOK
<1> QED BY <1>1, ActorTyped

LEMMA ReconcileTyped ==
    ASSUME IInv, NEW a \in Actor, ReconcileStep(a)
    PROVE  TypeOK'
<1> DEFINE j == job[a]  x == job[a].at
<1>0. TypeOK /\ j \in Job /\ pc[a] \in Place /\ (pc[a] \in AtWork => x \in Assignment)
  BY DEF IInv, TypeOK, Job
<1>1. CASE Reconcile(a)
  <2> DEFINE due == {y \in Assignment : work[y].place = "intended" /\ Active(y)}
  <2>1. [j EXCEPT !.check = due] \in Job
    BY <1>0 DEF Job
  <2>2. job' = [job EXCEPT ![a] = [j EXCEPT !.check = due]] /\ pc' = [pc EXCEPT ![a] = "inspecting"]
    BY <1>1, <1>0 DEF Reconcile, Goto, TypeOK
  <2>3. "inspecting" \in Place /\ "inspecting" \notin AtWork
    BY DEF Place, AtWork
  <2>4. [j EXCEPT !.check = due].plan = j.plan /\ [j EXCEPT !.check = due].snap = j.snap
    BY <1>0 DEF Job
  <2> HIDE DEF due
  <2>5. /\ pc' \in [Actor -> Place] /\ job' \in [Actor -> Job]
        /\ \A b \in Actor : pc'[b] \in AtWork => job'[b].at # None
        /\ \A b \in Actor : \A i \in job'[b].plan : job'[b].snap[i] \in CandidateOf(i)
    BY <1>0, <2>1, <2>2, <2>3, <2>4, JobsTyped
  <2> QED BY <1>0, <1>1, <2>5 DEF Reconcile, TypeOK, environment, console_, poll_, history
<1>2. ASSUME NEW y \in Assignment, InspectSame(a, y) PROVE TypeOK'
  <2>1. [j EXCEPT !.check = @ \ {y}] \in Job
    BY <1>0 DEF Job
  <2>2. job' = [job EXCEPT ![a] = [j EXCEPT !.check = @ \ {y}]] /\ pc' = [pc EXCEPT ![a] = pc[a]]
    BY <1>2, <1>0 DEF InspectSame, TypeOK
  <2>3. /\ [j EXCEPT !.check = @ \ {y}].plan = j.plan /\ [j EXCEPT !.check = @ \ {y}].snap = j.snap
        /\ pc[a] \notin AtWork
    BY <1>0, <1>2 DEF Job, InspectSame, AtWork
  <2>4. /\ pc' \in [Actor -> Place] /\ job' \in [Actor -> Job]
        /\ \A b \in Actor : pc'[b] \in AtWork => job'[b].at # None
        /\ \A b \in Actor : \A i \in job'[b].plan : job'[b].snap[i] \in CandidateOf(i)
    BY <1>0, <2>1, <2>2, <2>3, JobsTyped
  <2> QED BY <1>0, <1>2, <2>4 DEF InspectSame, TypeOK, environment, console_, poll_, history
<1>3. ASSUME NEW y \in Assignment, Inspect(a, y) PROVE TypeOK'
  <2> DEFINE k == [j EXCEPT !.check = @ \ {y}, !.at = y, !.seen = Inspection(y.rt)]
  <2>1. y # None /\ y.rt \in Runtime /\ run[y.rt] \in RunState
    BY <1>0, AssignmentTypes DEF TypeOK
  <2>2. k \in Job /\ k.plan = j.plan /\ k.snap = j.snap /\ k.at = y
    BY <1>0, <2>1, InspectionTyped DEF Job
  <2>3. job' = [job EXCEPT ![a] = k] /\ pc' = [pc EXCEPT ![a] = "noting"] /\ "noting" \in Place
    BY <1>3, <1>0 DEF Inspect, Goto, TypeOK, Place
  <2> HIDE DEF k
  <2>4. /\ pc' \in [Actor -> Place] /\ job' \in [Actor -> Job]
        /\ \A b \in Actor : pc'[b] \in AtWork => job'[b].at # None
        /\ \A b \in Actor : \A i \in job'[b].plan : job'[b].snap[i] \in CandidateOf(i)
    BY <1>0, <2>1, <2>2, <2>3, JobsTyped
  <2> QED BY <1>0, <1>3, <2>4 DEF Inspect, TypeOK, environment, console_, poll_, history
<1>4. CASE Note(a)
  <2>1. x \in Assignment /\ j.seen \in Observation
    BY <1>0, <1>4 DEF Note, Goto, AtWork, Job
  <2>2. work' \in [Assignment -> AssignmentState]
    BY <1>0, <1>4, <2>1, WorkTyped DEF Note
  <2> QED BY <1>0, <1>4, <2>2 DEF Note, Goto, TypeOK, Place, AtWork, environment, console_, poll_, history
<1>5. CASE ReconcileEnds(a)
  <2>1. tail # <<>>
    BY <1>5, ChainNotEmpty DEF ReconcileEnds, InTurn
  <2>2. tail' \in Seq(Actor) /\ Completed(a) \in {"idle", "started", "reading"}
    BY <1>0, <1>5, <2>1, ChainTyped DEF ReconcileEnds, Completed
  <2>3. changed' \in BOOLEAN
    BY <1>5 DEF ReconcileEnds
  <2> QED BY <1>0, <1>5, <2>2, <2>3, ReturnTyped DEF ReconcileEnds, TypeOK, environment, console_, history
<1> QED BY <1>1, <1>2, <1>3, <1>4, <1>5 DEF ReconcileStep

LEMMA ResultTyped ==
    ASSUME NEW rt \in Runtime, run[rt] \in Ended
    PROVE  Result(rt) \in Released
BY DEF Result, Ended, Released

LEMMA PollTyped ==
    ASSUME IInv, PollStep \/ PollRests \/ Poll
    PROVE  TypeOK'
<1> DEFINE j == job["poll"]  x == job["poll"].at
<1>0. TypeOK /\ j \in Job /\ pc["poll"] \in Place /\ "poll" \in Actor
  BY ActorTypes DEF IInv, TypeOK
<1>1. ASSUME NEW y \in Assignment, ReadEnded(y) PROVE TypeOK'
  <2>1. Result(y.rt) \in Released
    BY <1>1, AssignmentTypes, ResultTyped DEF ReadEnded
  <2>2. Receipt(y, Result(y.rt)) \in Job /\ Receipt(y, Result(y.rt)).plan = {}
    BY <2>1, ReceiptTyped
  <2>3. tail' \in Seq(Actor) /\ inbox' \subseteq Assignment
    BY <1>0, <1>1, ChainTyped DEF ReadEnded, TypeOK
  <2>4. /\ pc' \in [Actor -> Place] /\ job' \in [Actor -> Job]
        /\ \A b \in Actor : pc'[b] \in AtWork => job'[b].at # None
        /\ \A b \in Actor : \A i \in job'[b].plan : job'[b].snap[i] \in CandidateOf(i)
    BY <1>0, <1>1, <2>2, BeginTyped DEF ReadEnded
  <2> QED BY <1>0, <1>1, <2>3, <2>4 DEF ReadEnded, TypeOK, environment, console_, history
<1>2. CASE ReceiptCurrent
  <2>1. x # None
    BY <1>0, <1>2, AssignmentTypes DEF ReceiptCurrent, IInv, JobSound
  <2> QED BY <1>0, <1>2, <2>1 DEF ReceiptCurrent, Goto, TypeOK, Place, environment, console_, poll_, history
<1>3. CASE ApplyReceipt
  <2>1. x \in Assignment /\ j.seen \in Released
    BY <1>0, <1>3 DEF ApplyReceipt, IInv, JobSound
  <2>2. work' \in [Assignment -> AssignmentState]
    BY <1>0, <1>3, <2>1, WorkTyped DEF ApplyReceipt
  <2>3. tail # <<>>
    BY <1>0, <1>3, ChainNotEmpty DEF ApplyReceipt, InTurn
  <2>4. tail' \in Seq(Actor) /\ changed' \in BOOLEAN
    BY <1>0, <1>3, <2>3, ChainTyped DEF ApplyReceipt
  <2> QED BY <1>0, <1>3, <2>2, <2>4, ReturnTyped DEF ApplyReceipt, TypeOK, environment, console_, history
<1>4. CASE ReceiptNotCurrent
  <2>1. tail # <<>> /\ tail' \in Seq(Actor)
    BY <1>0, <1>4, ChainTyped DEF ReceiptNotCurrent, Turn
  <2> QED BY <1>0, <1>4, <2>1, ReconciliationTyped, BeginTyped
          DEF ReceiptNotCurrent, TypeOK, environment, console_, poll_, history
<1>5. CASE PollEvaluates
  <2>1. mode \in Mode /\ tail' \in Seq(Actor)
    BY <1>0, <1>5, ChainTyped DEF PollEvaluates, TypeOK
  <2>2. /\ pc' \in [Actor -> Place] /\ job' \in [Actor -> Job]
        /\ \A b \in Actor : pc'[b] \in AtWork => job'[b].at # None
        /\ \A b \in Actor : \A i \in job'[b].plan : job'[b].snap[i] \in CandidateOf(i)
    BY <1>0, <1>5, <2>1, EvaluationTyped, BeginTyped DEF PollEvaluates
  <2> QED BY <1>0, <1>5, <2>1, <2>2 DEF PollEvaluates, TypeOK, environment, console_, history
<1>6. CASE PollRests
  BY <1>0, <1>6, ReturnTyped DEF PollRests, TypeOK, environment, console_, history
<1>7. CASE Poll
  BY <1>0, <1>7 DEF Poll, Goto, TypeOK, Place, AtWork, environment, console_, history
<1> QED BY <1>1, <1>2, <1>3, <1>4, <1>5, <1>6, <1>7 DEF PollStep

\* What an error, an owner, a run or a stop changes.
LEMMA OthersTyped ==
    ASSUME IInv,
           \/ \E a \in Actor : ObserveThrows(a) \/ AppendThrows(a)
           \/ \E a \in Caller, m \in Modes : Command(a, m)
           \/ BootEvaluates \/ Close \/ Stop \/ Restart
           \/ \E rt \in Runtime : RunMoves(rt)
           \/ \E i \in Item : MoveCandidate(i)
           \/ SourceChanges \/ UNCHANGED vars
    PROVE  TypeOK'
<1>0. TypeOK
  BY DEF IInv
<1>1. ASSUME NEW a \in Actor, ObserveThrows(a) \/ AppendThrows(a) PROVE TypeOK'
  <2>1. tail # <<>> /\ tail' \in Seq(Actor)
    BY <1>0, <1>1, ChainNotEmpty, ChainTyped DEF ObserveThrows, AppendThrows, InTurn
  <2>2. Throw(a)
    BY <1>1 DEF ObserveThrows, AppendThrows
  <2>3. faults' \in Nat
    BY <1>0, <1>1 DEF ObserveThrows, AppendThrows, TypeOK, history
  <2> QED BY <1>0, <1>1, <2>1, <2>2, <2>3, ThrowTyped
          DEF ObserveThrows, AppendThrows, TypeOK, environment, console_, history
<1>2. ASSUME NEW a \in Caller, NEW m \in Modes, Command(a, m) PROVE TypeOK'
  <2>1. a \in Actor /\ m \in Mode
    BY ActorTypes, QueueAssumption DEF QueueAssumption
  <2>2. tail' \in Seq(Actor)
    BY <1>0, <1>2, <2>1, ChainTyped DEF Command
  <2>3. /\ pc' \in [Actor -> Place] /\ job' \in [Actor -> Job]
        /\ \A b \in Actor : pc'[b] \in AtWork => job'[b].at # None
        /\ \A b \in Actor : \A i \in job'[b].plan : job'[b].snap[i] \in CandidateOf(i)
    BY <1>0, <1>2, <2>1, EvaluationTyped, BeginTyped DEF Command
  <2> QED BY <1>0, <1>2, <2>1, <2>2, <2>3 DEF Command, TypeOK, environment, poll_
<1>3. CASE BootEvaluates
  <2>1. "boot" \in Actor /\ "shadow" \in Mode
    BY ActorTypes DEF Mode
  <2>2. tail' \in Seq(Actor)
    BY <1>0, <1>3, <2>1, ChainTyped DEF BootEvaluates
  <2>3. /\ pc' \in [Actor -> Place] /\ job' \in [Actor -> Job]
        /\ \A b \in Actor : pc'[b] \in AtWork => job'[b].at # None
        /\ \A b \in Actor : \A i \in job'[b].plan : job'[b].snap[i] \in CandidateOf(i)
    BY <1>0, <1>3, <2>1, EvaluationTyped, BeginTyped DEF BootEvaluates
  <2> QED BY <1>0, <1>3, <2>1, <2>2, <2>3 DEF BootEvaluates, TypeOK, environment, poll_, history
<1>4. CASE Close
  BY <1>0, <1>4 DEF Close, TypeOK, Mode, environment, poll_
<1>5. CASE Stop
  <2>1. NoJob \in Job /\ NoJob.plan = {} /\ "idle" \in Place /\ "idle" \notin AtWork
    BY NoJobTyped DEF NoJob, Place, AtWork
  <2>2. tail' \in Seq(Actor) /\ inbox' = {} /\ changed' = FALSE /\ faults' \in Nat
    BY <1>0, <1>5 DEF Stop, TypeOK
  <2>3. /\ pc' \in [Actor -> Place] /\ job' \in [Actor -> Job]
        /\ \A b \in Actor : pc'[b] \notin AtWork /\ job'[b].plan = {}
    BY <1>5, <2>1 DEF Stop
  <2> QED BY <1>0, <1>5, <2>2, <2>3 DEF Stop, TypeOK, Mode, environment
<1>6. CASE Restart
  <2>1. /\ [NoJob EXCEPT !.task = "reconcile"] \in Job /\ NoJob \in Job
        /\ [NoJob EXCEPT !.task = "reconcile"].plan = {} /\ NoJob.plan = {}
    BY NoJobTyped DEF Job, NoJob
  <2>2. pc' \in [Actor -> Place] /\ job' \in [Actor -> Job] /\ tail' \in Seq(Actor)
    BY <1>6, <2>1, ActorTypes DEF Restart, Booting, BootJob, Place
  <2>3. \A b \in Actor : pc'[b] \notin AtWork /\ job'[b].plan = {}
    BY <1>6, <2>1 DEF Restart, Booting, BootJob, AtWork
  <2> QED BY <1>0, <1>6, <2>2, <2>3 DEF Restart, TypeOK, environment, poll_, history
<1>7. ASSUME NEW rt \in Runtime, RunMoves(rt) PROVE TypeOK'
  <2>1. Later(run[rt]) \subseteq RunState
    BY <1>0, QueueAssumption DEF Later, RunState, QueueAssumption
  <2>2. run' \in [Runtime -> RunState]
    BY <1>0, <1>7, <2>1 DEF RunMoves, TypeOK
  <2> QED BY <1>0, <1>7, <2>2 DEF RunMoves, TypeOK, console_, poll_, history
<1>8. ASSUME NEW i \in Item, MoveCandidate(i) PROVE TypeOK'
  <2>1. PICK c \in {d \in Offers : d.rt.item = i} \cup {None} : candidates' = [candidates EXCEPT ![i] = c]
    BY <1>8 DEF MoveCandidate
  <2>2. c \in Candidate \cup {None} /\ (c # None => c.rt.item = i)
    BY <2>1, QueueAssumption DEF QueueAssumption
  <2>3. /\ candidates' \in [Item -> Candidate \cup {None}]
        /\ \A k \in Item : candidates'[k] # None => candidates'[k].rt.item = k
    BY <1>0, <2>1, <2>2 DEF TypeOK
  <2> QED BY <1>0, <1>8, <2>3 DEF MoveCandidate, TypeOK, console_, poll_
<1>9. CASE SourceChanges
  BY <1>0, <1>9 DEF SourceChanges, TypeOK, console_, poll_
<1>10. CASE UNCHANGED vars
  BY <1>0, <1>10 DEF TypeOK, vars, environment, console_, poll_, history
<1> QED BY <1>1, <1>2, <1>3, <1>4, <1>5, <1>6, <1>7, <1>8, <1>9, <1>10

LEMMA NextTyped == IInv /\ [Next]_vars => TypeOK'
<1> SUFFICES ASSUME IInv, [Next]_vars PROVE TypeOK'
  OBVIOUS
<1>1. ASSUME NEW a \in Actor, Step(a) \/ AppendThrows(a) \/ StartThrows(a) PROVE TypeOK'
  BY <1>1, EvaluateTyped, ReconcileTyped, PollTyped, OthersTyped DEF Step
<1> QED BY <1>1, PollTyped, OthersTyped DEF Next
-----------------------------------------------------------------------------
\* Every step keeps the chain.

\* The chain stays: only its head may go to work, and nobody in it stops.
LEMMA ChainStays ==
    ASSUME ChainSound, TypeOK, tail' = tail,
           \A b \in Actor : pc'[b] \in InTurn => pc[b] \in InTurn \/ Turn(b),
           \A b \in Actor : pc[b] \in {"waiting"} \cup InTurn => pc'[b] \in {"waiting"} \cup InTurn
    PROVE  ChainSound'
<1>1. \A n \in DOMAIN tail : tail[n] \in Actor
  BY DEF TypeOK
<1> QED BY <1>1 DEF ChainSound, Turn

\* The head leaves.
LEMMA ChainLeft ==
    ASSUME ChainSound, TypeOK, NEW a \in Actor, tail # <<>>, Head(tail) = a, Leave,
           pc'[a] \notin InTurn, \A b \in Actor \ {a} : pc'[b] = pc[b]
    PROVE  ChainSound'
<1>1. /\ tail \in Seq(Actor) /\ Len(tail) \in Nat \ {0} /\ tail[1] = a
      /\ DOMAIN tail = 1 .. Len(tail) /\ \A n \in DOMAIN tail : tail[n] \in Actor
  BY DEF TypeOK
<1>2. /\ Len(tail') = Len(tail) - 1 /\ DOMAIN tail' = 1 .. Len(tail')
      /\ \A n \in 1 .. Len(tail') : tail'[n] = tail[n + 1]
  BY <1>1 DEF Leave
<1>3. \A n \in DOMAIN tail' : n + 1 \in DOMAIN tail /\ tail'[n] = tail[n + 1] /\ tail[n + 1] # a
  BY <1>1, <1>2 DEF ChainSound
<1>4. \A n \in DOMAIN tail' : pc'[tail'[n]] \in {"waiting"} \cup InTurn
  BY <1>1, <1>3 DEF ChainSound
<1>5. \A m, n \in DOMAIN tail' : tail'[m] = tail'[n] => m = n
  BY <1>1, <1>2, <1>3 DEF ChainSound
<1>6. \A b \in Actor : pc'[b] \notin InTurn
  BY DEF ChainSound
<1> QED BY <1>4, <1>5, <1>6 DEF ChainSound

\* Somebody who is not in the chain joins it.
LEMMA ChainJoined ==
    ASSUME ChainSound, TypeOK, NEW a \in Actor, Join(a), pc[a] \notin {"waiting"} \cup InTurn,
           pc'[a] = "waiting", \A b \in Actor \ {a} : pc'[b] = pc[b]
    PROVE  ChainSound'
<1>1. /\ tail \in Seq(Actor) /\ Len(tail) \in Nat /\ DOMAIN tail = 1 .. Len(tail)
      /\ \A n \in DOMAIN tail : tail[n] \in Actor \ {a}
  BY DEF TypeOK, ChainSound
<1>2. /\ Len(tail') = Len(tail) + 1 /\ DOMAIN tail' = 1 .. Len(tail')
      /\ \A n \in 1 .. Len(tail) : tail'[n] = tail[n]
      /\ tail'[Len(tail) + 1] = a
  BY <1>1 DEF Join
<1>3. \A n \in DOMAIN tail' : pc'[tail'[n]] \in {"waiting"} \cup InTurn
  BY <1>1, <1>2 DEF ChainSound
<1>4. \A m, n \in DOMAIN tail' : tail'[m] = tail'[n] => m = n
  BY <1>1, <1>2 DEF ChainSound
<1>5. ASSUME NEW b \in Actor, pc'[b] \in InTurn PROVE tail' # <<>> /\ Head(tail') = b
  <2>1. b # a /\ tail # <<>> /\ Head(tail) = b
    BY <1>5 DEF ChainSound, InTurn
  <2> QED BY <1>1, <1>2, <2>1
<1> QED BY <1>3, <1>4, <1>5 DEF ChainSound

\* The head goes to the end, with another operation.
LEMMA ChainRequeued ==
    ASSUME ChainSound, TypeOK, NEW a \in Actor, tail # <<>>, Head(tail) = a,
           tail' = Append(Tail(tail), a), pc[a] = "waiting", \A b \in Actor : pc'[b] = pc[b]
    PROVE  ChainSound'
<1>1. /\ tail \in Seq(Actor) /\ Len(tail) \in Nat \ {0} /\ tail[1] = a
      /\ DOMAIN tail = 1 .. Len(tail) /\ \A n \in DOMAIN tail : tail[n] \in Actor
  BY DEF TypeOK
<1>2. /\ Len(tail') = Len(tail) /\ DOMAIN tail' = 1 .. Len(tail)
      /\ \A n \in 1 .. (Len(tail) - 1) : tail'[n] = tail[n + 1]
      /\ tail'[Len(tail)] = a
  BY <1>1
<1>3. \A n \in 1 .. (Len(tail) - 1) : n + 1 \in DOMAIN tail /\ tail[n + 1] # a
  BY <1>1 DEF ChainSound
<1>4. \A n \in DOMAIN tail' : pc'[tail'[n]] \in {"waiting"} \cup InTurn
  BY <1>1, <1>2, <1>3 DEF ChainSound
<1>5. \A m, n \in DOMAIN tail' : tail'[m] = tail'[n] => m = n
  BY <1>1, <1>2, <1>3 DEF ChainSound
<1>6. \A b \in Actor : pc'[b] \notin InTurn
  BY DEF ChainSound, InTurn
<1> QED BY <1>4, <1>5, <1>6 DEF ChainSound

LEMMA InTurnPlaces ==
    /\ InTurn \subseteq Place /\ Evaluating \subseteq InTurn
    /\ InTurn \cap {"idle", "started", "reading", "waiting"} = {}
BY DEF InTurn, Place, Evaluating

LEMMA NextChained == IInv /\ [Next]_vars => ChainSound'
<1> SUFFICES ASSUME IInv, [Next]_vars PROVE ChainSound'
  OBVIOUS
<1>0. ChainSound /\ TypeOK /\ pc \in [Actor -> Place] /\ "poll" \in Actor /\ "boot" \in Actor
  BY ActorTypes DEF IInv, TypeOK
<1>1. ASSUME NEW a \in Actor, EvaluateStep(a) \/ StartThrows(a) PROVE ChainSound'
  <2>1. CASE EvaluateEnds(a)
    <3>1. tail # <<>> /\ Head(tail) = a
      BY <2>1, ChainNotEmpty DEF EvaluateEnds, InTurn
    <3>2. pc'[a] \notin InTurn /\ \A b \in Actor \ {a} : pc'[b] = pc[b]
      BY <1>0, <2>1 DEF EvaluateEnds, Return, Completed, InTurn
    <3> QED BY <1>0, <2>1, <3>1, <3>2, ChainLeft DEF EvaluateEnds
  <2>2. CASE ~EvaluateEnds(a)
    <3>1. PICK p \in InTurn : pc' = [pc EXCEPT ![a] = p]
      BY <1>0, <1>1, <2>2 DEF EvaluateStep, StartThrows, Observe, ReadinessLapses, Choose, Claim, IntendBlocked,
         IntendLaunch, StartAdmits, StartRefused, ObserveLaunch, RecordLaunch, Goto, InTurn
    <3>2. tail' = tail /\ (pc[a] \in InTurn \/ Turn(a))
      BY <1>1, <2>2 DEF EvaluateStep, StartThrows, Observe, ReadinessLapses, Choose, Claim, IntendBlocked,
         IntendLaunch, StartAdmits, StartRefused, ObserveLaunch, RecordLaunch, Goto, InTurn
    <3> QED BY <1>0, <3>1, <3>2, ChainStays
  <2> QED BY <2>1, <2>2
<1>2. ASSUME NEW a \in Actor, ReconcileStep(a) PROVE ChainSound'
  <2>1. CASE ReconcileEnds(a)
    <3>1. tail # <<>> /\ Head(tail) = a
      BY <2>1, ChainNotEmpty DEF ReconcileEnds, InTurn
    <3>2. pc'[a] \notin InTurn /\ \A b \in Actor \ {a} : pc'[b] = pc[b]
      BY <1>0, <2>1 DEF ReconcileEnds, Return, Completed, InTurn
    <3> QED BY <1>0, <2>1, <3>1, <3>2, ChainLeft DEF ReconcileEnds
  <2>2. CASE ~ReconcileEnds(a)
    <3>1. PICK p \in InTurn : pc' = [pc EXCEPT ![a] = p]
      BY <1>0, <1>2, <2>2 DEF ReconcileStep, Reconcile, InspectSame, Inspect, Note, Goto, InTurn
    <3>2. tail' = tail /\ (pc[a] \in InTurn \/ Turn(a))
      BY <1>2, <2>2 DEF ReconcileStep, Reconcile, InspectSame, Inspect, Note, Goto, InTurn
    <3> QED BY <1>0, <3>1, <3>2, ChainStays
  <2> QED BY <2>1, <2>2
<1>3. ASSUME NEW a \in Actor, ObserveThrows(a) \/ AppendThrows(a) PROVE ChainSound'
  <2>1. tail # <<>> /\ Head(tail) = a /\ Leave
    BY <1>3, ChainNotEmpty DEF ObserveThrows, AppendThrows, InTurn
  <2>2. pc'[a] \notin InTurn /\ \A b \in Actor \ {a} : pc'[b] = pc[b]
    BY <1>0, <1>3 DEF ObserveThrows, AppendThrows, Throw, Return, InTurn
  <2> QED BY <1>0, <2>1, <2>2, ChainLeft
<1>4. CASE PollStep
  <2>1. CASE ApplyReceipt
    <3>1. tail # <<>> /\ Head(tail) = "poll"
      BY <1>0, <2>1, ChainNotEmpty DEF ApplyReceipt, InTurn
    <3>2. pc'["poll"] \notin InTurn /\ \A b \in Actor \ {"poll"} : pc'[b] = pc[b]
      BY <1>0, <2>1 DEF ApplyReceipt, Return, InTurn
    <3> QED BY <1>0, <2>1, <3>1, <3>2, ChainLeft DEF ApplyReceipt
  <2>2. CASE ReceiptCurrent
    BY <1>0, <2>2, ChainStays DEF ReceiptCurrent, Goto, InTurn
  <2>3. CASE ReceiptNotCurrent
    <3>1. \A b \in Actor : pc'[b] = pc[b]
      BY <1>0, <2>3 DEF ReceiptNotCurrent, Begin
    <3> QED BY <1>0, <2>3, <3>1, ChainRequeued DEF ReceiptNotCurrent, Turn
  <2>4. CASE PollEvaluates \/ \E x \in Assignment : ReadEnded(x)
    <3>1. /\ Join("poll") /\ pc["poll"] \notin {"waiting"} \cup InTurn
          /\ pc'["poll"] = "waiting" /\ \A b \in Actor \ {"poll"} : pc'[b] = pc[b]
      BY <1>0, <2>4 DEF PollEvaluates, ReadEnded, AllRead, Begin, InTurn
    <3> QED BY <1>0, <3>1, ChainJoined
  <2> QED BY <1>4, <2>1, <2>2, <2>3, <2>4 DEF PollStep
<1>5. CASE Poll \/ PollRests
  BY <1>0, <1>5, ChainStays DEF Poll, PollRests, AllRead, Return, Goto, InTurn
<1>6. ASSUME NEW a \in Caller, NEW m \in Modes, Command(a, m) PROVE ChainSound'
  <2>1. /\ Join(a) /\ pc[a] \notin {"waiting"} \cup InTurn /\ a \in Actor
        /\ pc'[a] = "waiting" /\ \A b \in Actor \ {a} : pc'[b] = pc[b]
    BY <1>0, <1>6, ActorTypes DEF Command, Begin, InTurn
  <2> QED BY <1>0, <2>1, ChainJoined
<1>7. CASE BootEvaluates
  <2>1. /\ Join("boot") /\ pc["boot"] \notin {"waiting"} \cup InTurn
        /\ pc'["boot"] = "waiting" /\ \A b \in Actor \ {"boot"} : pc'[b] = pc[b]
    BY <1>0, <1>7 DEF BootEvaluates, Begin, InTurn
  <2> QED BY <1>0, <2>1, ChainJoined
<1>8. CASE Stop
  BY <1>8 DEF Stop, ChainSound, InTurn
<1>9. CASE Restart
  BY <1>0, <1>9 DEF Restart, Booting, ChainSound, InTurn
<1>10. CASE UNCHANGED <<tail, pc>>
  BY <1>0, <1>10, ChainStays
<1>11. CASE Close \/ SourceChanges \/ (\E rt \in Runtime : RunMoves(rt)) \/ \E i \in Item : MoveCandidate(i)
  BY <1>10, <1>11 DEF Close, SourceChanges, RunMoves, MoveCandidate
<1> QED BY <1>1, <1>2, <1>3, <1>4, <1>5, <1>6, <1>7, <1>8, <1>9, <1>10, <1>11 DEF Next, Step, vars
-----------------------------------------------------------------------------
\* Every step keeps what is on record.

\* A run that has ended stays so.
KeepsRuns == \A rt \in Runtime : run[rt] \in Ended => run'[rt] \in Ended

\* The assignment that the journal has something new of.
Only(x) == \A y \in Assignment \ {x} : work'[y] = work[y]

LEMMA NextKeepsRuns == TypeOK /\ [Next]_vars => KeepsRuns
<1> SUFFICES ASSUME TypeOK, [Next]_vars PROVE KeepsRuns
  OBVIOUS
<1>1. CASE run' = run
  BY <1>1 DEF KeepsRuns
<1>2. ASSUME NEW rt \in Runtime, Admit(rt) PROVE KeepsRuns
  BY <1>2 DEF Admit, KeepsRuns, TypeOK, Ended
<1>3. ASSUME NEW rt \in Runtime, RunMoves(rt) PROVE KeepsRuns
  BY <1>3 DEF RunMoves, Later, KeepsRuns, TypeOK, Ended
<1>4. ASSUME NEW a \in Actor, StartAdmits(a) \/ StartThrows(a) PROVE KeepsRuns
  <2>1. run' = run \/ Admit(job[a].at.rt)
    BY <1>4 DEF StartAdmits, StartThrows
  <2>2. job[a].at.rt \in Runtime
    <3>1. job[a].at \in Assignment
      BY <1>4 DEF StartAdmits, StartThrows, Goto, AtWork, TypeOK, Job
    <3> QED BY <3>1, AssignmentTypes
  <2> QED BY <1>1, <1>2, <2>1, <2>2
<1>5. ASSUME NEW a \in Actor, Step(a) \/ AppendThrows(a), ~StartAdmits(a) PROVE run' = run
  <2>1. CASE EvaluateStep(a)
    BY <1>5, <2>1 DEF EvaluateStep, Observe, ReadinessLapses, Choose, Claim, IntendBlocked,
       IntendLaunch, StartRefused, ObserveLaunch, RecordLaunch, EvaluateEnds, environment
  <2>2. CASE ReconcileStep(a)
    BY <2>2 DEF ReconcileStep, Reconcile, InspectSame, Inspect, Note, ReconcileEnds, environment
  <2>3. CASE PollStep \/ BootEvaluates
    BY <2>3 DEF PollStep, ReadEnded, ReceiptCurrent, ApplyReceipt, ReceiptNotCurrent, PollEvaluates,
       BootEvaluates, environment
  <2>4. CASE ObserveThrows(a) \/ AppendThrows(a)
    BY <2>4 DEF ObserveThrows, AppendThrows, environment
  <2> QED BY <1>5, <2>1, <2>2, <2>3, <2>4 DEF Step
<1>6. CASE \/ \E a \in Caller, m \in Modes : Command(a, m)
           \/ Poll \/ PollRests \/ Close \/ Stop \/ Restart
           \/ (\E i \in Item : MoveCandidate(i)) \/ SourceChanges
           \/ UNCHANGED vars
  BY <1>1, <1>6 DEF Command, Poll, PollRests, Close, Stop, Restart, MoveCandidate, SourceChanges,
     environment, vars
<1> QED BY <1>1, <1>3, <1>4, <1>5, <1>6 DEF Next

\* A stage's assignments are not more than the runtimes.
LEMMA AtStageFinite ==
    ASSUME NEW s
    PROVE  /\ IsFiniteSet({x \in Assignment : x.stage = s})
           /\ IsFiniteSet(AtStage(s)) /\ Cardinality(AtStage(s)) \in Nat
<1> DEFINE S == {x \in Assignment : x.stage = s}
           f == [x \in S |-> x.rt]
<1>1. f \in [S -> Runtime]
  BY AssignmentTypes
<1>2. \A x, y \in S : f[x] = f[y] => x = y
  BY DEF Assignment
<1>3. f \in Injection(S, Runtime) /\ IsFiniteSet(Runtime)
  BY <1>1, <1>2, QueueAssumption DEF Injection, IsInjective, QueueAssumption
<1>4. IsFiniteSet(S)
  BY <1>3, FS_Injection
<1>5. AtStage(s) \in SUBSET S
  BY DEF AtStage
<1> QED BY <1>4, <1>5, FS_Subset, FS_CardinalityType

OnRecord == WipRespected /\ OneHolder /\ FilesSerialized /\ ClaimedOnce

\* A hold may go, but none is new, and nothing is claimed.
LEMMA HoldsShrink ==
    ASSUME OnRecord, TypeOK, TypeOK',
           \A x \in Assignment : /\ Active(x)' => Active(x)
                                 /\ work'[x].place # "free" => work[x].place # "free"
                                 /\ work'[x].file = work[x].file
    PROVE  OnRecord'
<1>1. ASSUME NEW s \in Stage PROVE Cardinality(AtStage(s)') <= MaxWip[s]
  <2>1. AtStage(s)' \in SUBSET AtStage(s)
    BY DEF AtStage
  <2>2. Cardinality(AtStage(s)') <= Cardinality(AtStage(s)) /\ IsFiniteSet(AtStage(s)')
    BY <2>1, AtStageFinite, FS_Subset
  <2>3. Cardinality(AtStage(s)) <= MaxWip[s]
    BY DEF OnRecord, WipRespected
  <2>4. Cardinality(AtStage(s)) \in Nat /\ Cardinality(AtStage(s)') \in Nat /\ MaxWip[s] \in Nat
    BY <2>2, AtStageFinite, FS_CardinalityType, QueueAssumption DEF QueueAssumption
  <2> HIDE DEF OnRecord
  <2> QED BY <2>2, <2>3, <2>4
<1>2. OneHolder'
  BY DEF OnRecord, OneHolder, Holders
<1>3. FilesSerialized'
  BY DEF OnRecord, FilesSerialized
<1>4. ClaimedOnce'
  BY DEF OnRecord, ClaimedOnce
<1> QED BY <1>1, <1>2, <1>3, <1>4 DEF OnRecord, WipRespected

\* A claim that fits is the only holder of its item and its file.
LEMMA ClaimKeeps ==
    ASSUME OnRecord, TypeOK, TypeOK', NEW a \in Actor, JobSound(a), Claim(a)
    PROVE  OnRecord'
<1> DEFINE x == job[a].at  c == job[a].snap[x.rt.item]
<1>1. /\ x \in Assignment /\ x.rt.item \in Item /\ x.stage \in Stage
      /\ c \in CandidateOf(x.rt.item) /\ x = ClaimOf(c) /\ Decided(x.rt.item, c) /\ Fits(a, c)
  <2>1. x \in Assignment
    BY DEF Claim, Goto, AtWork, TypeOK, Job
  <2> QED BY <2>1, AssignmentTypes DEF Claim, Goto, JobSound
<1>2. /\ x.rt = c.rt /\ x.stage = c.stage /\ c.rt.item = x.rt.item
      /\ c.file \in File \cup {None}
  <2> HIDE DEF c, x
  <2> QED BY <1>1, CandidateTypes
<1> HIDE DEF c
<1>3. /\ work'[x].place = "claimed" /\ work'[x].file = c.file /\ Only(x)
      /\ ~Active(x) /\ work[x].place = "free"
  <2>1. work' = [work EXCEPT ![x] = [Unclaimed EXCEPT !.place = "claimed", !.file = c.file]]
    BY DEF Claim, c
  <2>2. work[x].place = "free"
    BY <1>1, <1>2 DEF Decided, Matching
  <2> QED BY <1>1, <2>1, <2>2 DEF Unclaimed, Only, TypeOK, Active
<1>4. \A y \in Assignment \ {x} : Active(y)' <=> Active(y)
  BY <1>3 DEF Active, Only
<1>5. ASSUME NEW s \in Stage PROVE Cardinality(AtStage(s)') <= MaxWip[s]
  <2>0. Cardinality(AtStage(s)) <= MaxWip[s] /\ MaxWip[s] \in Nat
    BY QueueAssumption DEF QueueAssumption, OnRecord, WipRespected
  <2>1. CASE s = x.stage
    <3>1. AtStage(s)' \in SUBSET (AtStage(s) \cup {x})
      BY <1>1, <1>4 DEF AtStage
    <3>2. x \notin AtStage(s) /\ Cardinality(AtStage(s)) < MaxWip[s]
      BY <1>1, <1>2, <1>3, <2>1 DEF AtStage, Fits
    <3>3. /\ IsFiniteSet(AtStage(s) \cup {x})
          /\ Cardinality(AtStage(s) \cup {x}) = Cardinality(AtStage(s)) + 1
      BY <3>2, AtStageFinite, FS_AddElement
    <3>4. /\ Cardinality(AtStage(s)') <= Cardinality(AtStage(s) \cup {x})
          /\ Cardinality(AtStage(s)') \in Nat
      BY <3>1, <3>3, FS_Subset, FS_CardinalityType
    <3>5. Cardinality(AtStage(s)) \in Nat
      BY AtStageFinite
    <3> HIDE DEF x
    <3> QED BY <2>0, <3>2, <3>3, <3>4, <3>5
  <2>2. CASE s # x.stage
    <3>1. AtStage(s)' = AtStage(s)
      BY <1>1, <1>4, <2>2 DEF AtStage
    <3> QED BY <2>0, <3>1
  <2> QED BY <2>1, <2>2
<1>6. OneHolder'
  <2>1. \A y \in Assignment : y.rt.item = x.rt.item => ~Active(y)
    BY <1>1 DEF Decided, Holders
  <2>2. \A y, z \in Assignment : y.rt.item = z.rt.item /\ Active(y) /\ Active(z) => y = z
    BY AssignmentTypes DEF OnRecord, OneHolder, Holders
  <2>3. \A y, z \in Assignment : y.rt.item = z.rt.item /\ Active(y)' /\ Active(z)' => y = z
    BY <1>4, <2>1, <2>2
  <2> QED BY <2>3 DEF OneHolder, Holders
<1>7. FilesSerialized'
  <2>1. \A y \in Assignment : Active(y) /\ work[y].file # None => work[y].file # c.file
    BY <1>1 DEF Fits, FileBusy, KeyOf
  <2>2. \A y \in Assignment \ {x} : work'[y].file = work[y].file
    BY <1>3 DEF Only
  <2> QED BY <1>3, <1>4, <2>1, <2>2 DEF OnRecord, FilesSerialized
<1>8. ClaimedOnce'
  <2>1. \A y \in Assignment : SameWork(x, y) => work[y].place = "free"
    BY <1>1, <1>2 DEF Decided, Matching, SameWork
  <2>2. \A y \in Assignment \ {x} : work'[y].place = work[y].place
    BY <1>3 DEF Only
  <2> QED BY <1>1, <1>3, <2>1, <2>2 DEF OnRecord, ClaimedOnce, SameWork
<1> QED BY <1>5, <1>6, <1>7, <1>8 DEF OnRecord, WipRespected
\* What a step records of an assignment, if anything: that it is intended, how its
\* launch was seen, or a receipt.
RecordsOf(x) ==
    \/ Active(x) /\ work' = [work EXCEPT ![x].place = "intended"]
    \/ Active(x) /\ \E v \in Observation : work' = [work EXCEPT ![x].launch = v]
    \/ \E v \in Released : work' = [work EXCEPT ![x].receipt = v]

LEMMA RecordsShrink ==
    ASSUME TypeOK, NEW x \in Assignment, RecordsOf(x)
    PROVE  \A y \in Assignment : /\ Active(y)' => Active(y)
                                 /\ work'[y].place # "free" => work[y].place # "free" \/ Active(y)
                                 /\ work'[y].file = work[y].file
                                 /\ y # x => work'[y] = work[y]
<1>1. work \in [Assignment -> AssignmentState] /\ \A y \in Assignment : work[y] \in AssignmentState
  BY DEF TypeOK
<1>2. CASE Active(x) /\ work' = [work EXCEPT ![x].place = "intended"]
  BY <1>1, <1>2 DEF Active, AssignmentState
<1>3. ASSUME NEW v \in Observation, Active(x), work' = [work EXCEPT ![x].launch = v]
      PROVE  \A y \in Assignment : /\ Active(y)' => Active(y)
                                   /\ work'[y].place # "free" => work[y].place # "free" \/ Active(y)
                                   /\ work'[y].file = work[y].file
                                   /\ y # x => work'[y] = work[y]
  BY <1>1, <1>3 DEF Active, AssignmentState
<1>4. ASSUME NEW v \in Released, work' = [work EXCEPT ![x].receipt = v]
      PROVE  \A y \in Assignment : /\ Active(y)' => Active(y)
                                   /\ work'[y].place # "free" => work[y].place # "free" \/ Active(y)
                                   /\ work'[y].file = work[y].file
                                   /\ y # x => work'[y] = work[y]
  BY <1>1, <1>4 DEF Active, AssignmentState, Released
<1> QED BY <1>2, <1>3, <1>4 DEF RecordsOf

LEMMA RecordsKeep ==
    ASSUME OnRecord, TypeOK, TypeOK', NEW x \in Assignment, RecordsOf(x)
    PROVE  OnRecord'
<1>1. \A y \in Assignment : /\ Active(y)' => Active(y)
                            /\ work'[y].place # "free" => work[y].place # "free"
                            /\ work'[y].file = work[y].file
  BY RecordsShrink DEF Active
<1> QED BY <1>1, HoldsShrink

\* Only these steps record something.
LEMMA RecordedBy ==
    ASSUME IInv, [Next]_vars
    PROVE  \/ work' = work
           \/ \E a \in Actor : Claim(a)
           \/ \E a \in Actor : pc[a] \in AtWork /\ RecordsOf(job[a].at)
<1>0. TypeOK /\ "poll" \in Actor
  BY ActorTypes DEF IInv
<1>1. ASSUME NEW a \in Actor, EvaluateStep(a) \/ StartThrows(a), ~Claim(a), work' # work
      PROVE  pc[a] \in AtWork /\ RecordsOf(job[a].at)
  <2>1. IntendBlocked(a) \/ IntendLaunch(a) \/ RecordLaunch(a)
    BY <1>1 DEF EvaluateStep, StartThrows, Observe, ReadinessLapses, Choose, StartAdmits, StartRefused,
       ObserveLaunch, EvaluateEnds
  <2>2. CASE IntendBlocked(a) \/ IntendLaunch(a)
    BY <2>2 DEF IntendBlocked, IntendLaunch, Intended, Goto, IInv, JobSound, Fresh, Active, Released, RecordsOf, AtWork
  <2>3. CASE RecordLaunch(a)
    <3>1. Active(job[a].at) /\ job[a].seen \in Observation /\ pc[a] = "recording"
      BY <2>3, <1>0 DEF RecordLaunch, Goto, IInv, JobSound, Fresh, Active, Released, TypeOK, Job
    <3> QED BY <2>3, <3>1 DEF RecordLaunch, RecordsOf, AtWork
  <2> QED BY <2>1, <2>2, <2>3
<1>2. ASSUME NEW a \in Actor, ReconcileStep(a), work' # work
      PROVE  pc[a] \in AtWork /\ RecordsOf(job[a].at)
  <2>1. Note(a)
    BY <1>2 DEF ReconcileStep, Reconcile, InspectSame, Inspect, ReconcileEnds
  <2>2. Active(job[a].at) /\ job[a].seen \in Observation /\ pc[a] = "noting"
    BY <2>1, <1>0 DEF Note, Goto, IInv, JobSound, TypeOK, Job
  <2> QED BY <2>1, <2>2 DEF Note, RecordsOf, AtWork
<1>3. ASSUME PollStep, work' # work
      PROVE  pc["poll"] \in AtWork /\ RecordsOf(job["poll"].at)
  <2>1. ApplyReceipt
    BY <1>3 DEF PollStep, ReadEnded, ReceiptCurrent, ReceiptNotCurrent, PollEvaluates
  <2>2. job["poll"].seen \in Released /\ pc["poll"] = "applying"
    BY <2>1, <1>0 DEF ApplyReceipt, IInv, JobSound
  <2> QED BY <2>1, <2>2 DEF ApplyReceipt, RecordsOf, AtWork
<1>4. CASE \/ \E a \in Actor : ObserveThrows(a) \/ AppendThrows(a)
           \/ \E a \in Caller, m \in Modes : Command(a, m)
           \/ BootEvaluates \/ Poll \/ PollRests \/ Close \/ Stop \/ Restart
           \/ (\E rt \in Runtime : RunMoves(rt))
           \/ (\E i \in Item : MoveCandidate(i)) \/ SourceChanges \/ UNCHANGED vars
  BY <1>4 DEF ObserveThrows, AppendThrows, Command, BootEvaluates, Poll, PollRests, Close, Stop, Restart,
     RunMoves, MoveCandidate, SourceChanges, vars
<1> QED BY <1>0, <1>1, <1>2, <1>3, <1>4 DEF Next, Step

LEMMA NextOnRecord == IInv /\ [Next]_vars => OnRecord'
<1> SUFFICES ASSUME IInv, [Next]_vars PROVE OnRecord'
  OBVIOUS
<1>0. OnRecord /\ TypeOK /\ TypeOK'
  BY NextTyped DEF IInv, OnRecord
<1>1. CASE work' = work
  BY <1>0, <1>1, HoldsShrink DEF Active
<1>2. ASSUME NEW a \in Actor, Claim(a) PROVE OnRecord'
  BY <1>0, <1>2, ClaimKeeps DEF IInv
<1>3. ASSUME NEW a \in Actor, pc[a] \in AtWork, RecordsOf(job[a].at) PROVE OnRecord'
  <2>1. job[a].at \in Assignment
    BY <1>0, <1>3 DEF TypeOK, Job
  <2> QED BY <1>0, <1>3, <2>1, RecordsKeep
<1> QED BY <1>1, <1>2, <1>3, RecordedBy

\* Work is started where it was just intended, and not before.
LEMMA NextStarted == IInv /\ [Next]_vars => StartedSound'
<1> SUFFICES ASSUME IInv, [Next]_vars PROVE StartedSound'
  OBVIOUS
<1>0. TypeOK /\ TypeOK' /\ StartedSound /\ KeepsRuns /\ "poll" \in Actor
  BY NextTyped, NextKeepsRuns, ActorTypes DEF IInv
<1>1. ASSUME NEW a \in Actor, IntendLaunch(a) PROVE StartedSound'
  <2>0. PICK x \in Assignment : x = job[a].at
    BY <1>0, <1>1 DEF IntendLaunch, Goto, AtWork, TypeOK, Job
  <2>1. x \in Assignment /\ Fresh(x, "claimed")
    BY <2>0, <1>0, <1>1 DEF IntendLaunch, Goto, AtWork, TypeOK, Job, IInv, JobSound
  <2>2. launches[x] = 0
    BY <1>0, <2>1 DEF StartedSound, Fresh
  <2>3. /\ launches' = [launches EXCEPT ![x] = @ + 1] /\ work' = [work EXCEPT ![x].place = "intended"]
        /\ run' = run
    BY <2>0, <1>1 DEF IntendLaunch, Intended, environment
  <2>4. launches'[x] = 1 /\ work'[x].place = "intended" /\ Active(x)'
    BY <1>0, <2>1, <2>2, <2>3 DEF TypeOK, AssignmentState, Fresh, Active, Released
  <2>5. \A y \in Assignment \ {x} : launches'[y] = launches[y] /\ work'[y] = work[y]
    BY <1>0, <2>1, <2>3 DEF TypeOK
  <2> QED BY <1>0, <2>3, <2>4, <2>5 DEF StartedSound, Active
<1>2. ASSUME launches' = launches, work' = work PROVE StartedSound'
  BY <1>0, <1>2, AssignmentTypes DEF StartedSound, KeepsRuns, Active
<1>3. ASSUME NEW a \in Actor, Claim(a) PROVE StartedSound'
  <2>0. PICK x \in Assignment : x = job[a].at
    BY <1>0, <1>3 DEF Claim, Goto, AtWork, TypeOK, Job
  <2> DEFINE c == job[a].snap[x.rt.item]
  <2>1. x \in Assignment /\ x = ClaimOf(c) /\ Decided(x.rt.item, c) /\ c \in CandidateOf(x.rt.item)
    BY <2>0, <1>0, <1>3 DEF Claim, Goto, AtWork, TypeOK, Job, IInv, JobSound
  <2>2. work[x].place = "free"
    <3> HIDE DEF c
    <3>1. x.rt = c.rt /\ x.stage = c.stage
      BY <2>1, AssignmentTypes, CandidateTypes
    <3> QED BY <2>1, <3>1 DEF Decided, Matching
  <2>3. launches[x] = 0 /\ launches' = launches /\ run' = run
    BY <2>0, <1>0, <1>3, <2>1, <2>2 DEF StartedSound, Claim, history, environment
  <2>4. \A y \in Assignment \ {x} : work'[y] = work[y]
    BY <2>0, <1>0, <1>3, <2>1 DEF Claim, TypeOK
  <2> QED BY <1>0, <2>1, <2>3, <2>4 DEF StartedSound, Active
<1>4. ASSUME NEW a \in Actor, IntendBlocked(a) PROVE StartedSound'
  <2>0. PICK x \in Assignment : x = job[a].at
    BY <1>0, <1>4 DEF IntendBlocked, Goto, AtWork, TypeOK, Job
  <2>1. x \in Assignment /\ Fresh(x, "claimed")
    BY <2>0, <1>0, <1>4 DEF IntendBlocked, Goto, AtWork, TypeOK, Job, IInv, JobSound
  <2>2. launches[x] = 0 /\ launches' = launches /\ run' = run
    BY <2>0, <1>0, <1>4, <2>1 DEF StartedSound, Fresh, IntendBlocked, history, environment
  <2>3. \A y \in Assignment \ {x} : work'[y] = work[y]
    BY <2>0, <1>0, <1>4, <2>1 DEF IntendBlocked, Intended, TypeOK
  <2> QED BY <1>0, <2>1, <2>2, <2>3 DEF StartedSound, Active
<1>5. ASSUME NEW a \in Actor, RecordLaunch(a) \/ Note(a) PROVE StartedSound'
  <2>0. PICK x \in Assignment : x = job[a].at
    BY <1>0, <1>5 DEF RecordLaunch, Note, Goto, AtWork, TypeOK, Job
  <2>1. x \in Assignment /\ job[a].seen \in Observation
    BY <2>0, <1>0, <1>5 DEF RecordLaunch, Note, Goto, AtWork, TypeOK, Job
  <2>2. work[x].place = "intended" /\ (launches[x] = 0 \/ Learned(x, job[a].seen))
    BY <2>0, <1>0, <1>5 DEF RecordLaunch, Note, Goto, IInv, JobSound, Fresh
  <2>3. launches' = launches /\ run' = run /\ work' = [work EXCEPT ![x].launch = job[a].seen]
    BY <2>0, <1>5 DEF RecordLaunch, Note, history, environment
  <2> DEFINE s == job[a].seen
  <2>4. work'[x].place = "intended" /\ work'[x].launch = s /\ work'[x].receipt = work[x].receipt
    BY <1>0, <2>1, <2>2, <2>3 DEF TypeOK, AssignmentState
  <2>5. \A y \in Assignment \ {x} : work'[y] = work[y]
    BY <1>0, <2>1, <2>3 DEF TypeOK
  <2>6. launches[x] # 0 => Active(x)' \/ run[x.rt] \in Ended
    BY <1>0, <2>1, <2>2, <2>4 DEF StartedSound, Active, Learned
  <2> QED BY <1>0, <2>1, <2>3, <2>4, <2>5, <2>6 DEF StartedSound, Active
<1>6. CASE ApplyReceipt
  <2>1. PICK x \in Assignment : x = job["poll"].at /\ run[x.rt] \in Ended
    BY <1>0, <1>6 DEF ApplyReceipt, IInv, JobSound, Learned
  <2>2. /\ launches' = launches /\ run' = run
        /\ work' = [work EXCEPT ![x].receipt = job["poll"].seen]
    BY <1>6, <2>1 DEF ApplyReceipt, history, environment
  <2>3. work'[x].place = work[x].place /\ \A y \in Assignment \ {x} : work'[y] = work[y]
    BY <1>0, <2>1, <2>2 DEF TypeOK, AssignmentState
  <2> QED BY <1>0, <2>1, <2>2, <2>3 DEF StartedSound, Active
<1>7. ASSUME NEW a \in Actor, Step(a) \/ AppendThrows(a) \/ StartThrows(a),
             ~Claim(a), ~IntendBlocked(a), ~IntendLaunch(a), ~RecordLaunch(a), ~Note(a), ~ApplyReceipt
      PROVE  launches' = launches /\ work' = work
  <2>1. CASE EvaluateStep(a) \/ StartThrows(a)
    BY <1>7, <2>1 DEF EvaluateStep, StartThrows, Observe, ReadinessLapses, Choose, StartAdmits, StartRefused,
       ObserveLaunch, EvaluateEnds, history
  <2>2. CASE ReconcileStep(a)
    BY <1>7, <2>2 DEF ReconcileStep, Reconcile, InspectSame, Inspect, ReconcileEnds, history
  <2>3. CASE PollStep \/ BootEvaluates
    BY <1>7, <2>3 DEF PollStep, ReadEnded, ReceiptCurrent, ReceiptNotCurrent, PollEvaluates, BootEvaluates, history
  <2>4. CASE ObserveThrows(a) \/ AppendThrows(a)
    BY <2>4 DEF ObserveThrows, AppendThrows, history
  <2> QED BY <1>7, <2>1, <2>2, <2>3, <2>4 DEF Step
<1>8. CASE \/ \E a \in Caller, m \in Modes : Command(a, m)
           \/ Poll \/ PollRests \/ Close \/ Stop \/ Restart
           \/ (\E rt \in Runtime : RunMoves(rt))
           \/ (\E i \in Item : MoveCandidate(i)) \/ SourceChanges \/ UNCHANGED vars
  BY <1>2, <1>8 DEF Command, Poll, PollRests, Close, Stop, Restart, RunMoves, MoveCandidate, SourceChanges,
     vars, history
<1> QED BY <1>1, <1>2, <1>3, <1>4, <1>5, <1>6, <1>7, <1>8 DEF Next
-----------------------------------------------------------------------------
\* Every step keeps the jobs.

\* A job that goes on, where nothing is recorded and no work is started.
LEMMA JobStays ==
    ASSUME TypeOK, KeepsRuns, NEW b \in Actor, JobSound(b), work' = work, launches' = launches,
           pc'[b] = pc[b], job'[b] = job[b]
    PROVE  JobSound(b)'
<1>1. \A x : Active(x)' = Active(x)
  BY DEF Active
<1>2. \A i, c : Decided(i, c)' = Decided(i, c)
  BY <1>1 DEF Decided, Holders, Matching
<1>3. \A x, y : Fresh(x, y)' = Fresh(x, y)
  BY DEF Fresh
<1>4. \A c : Fits(b, c)' = Fits(b, c)
  BY <1>1 DEF Fits, AtStage, FileBusy, KeyOf
<1>5. pc[b] \in AtWork => job[b].at \in Assignment
  BY DEF TypeOK, Job
<1>6. \A x \in Assignment : \A s : Learned(x, s) => Learned(x, s)'
  BY AssignmentTypes DEF Learned, KeepsRuns
<1> QED BY <1>1, <1>2, <1>3, <1>4, <1>5, <1>6 DEF JobSound, AtWork

\* A job that is not at work.
LEMMA JobRests ==
    ASSUME NEW b \in Actor, pc'[b] \notin InTurn, job'[b].plan = {},
           job'[b].task = "receipt" =>
               /\ pc'[b] = "waiting" /\ job'[b].at \in Assignment /\ job'[b].seen \in Released
               /\ run'[job'[b].at.rt] \in Ended
    PROVE  JobSound(b)'
BY DEF JobSound, InTurn, Learned

\* The others, while one is at work or takes its turn.
LEMMA OthersStay ==
    ASSUME IInv, KeepsRuns, NEW a \in Actor, pc[a] \in InTurn \/ Turn(a),
           NEW b \in Actor \ {a}, pc'[b] = pc[b], job'[b] = job[b]
    PROVE  JobSound(b)'
<1>1. pc[b] \notin InTurn
  BY DEF IInv, ChainSound, Turn
<1>2. job[b].plan = {}
  BY <1>1 DEF IInv, JobSound, Evaluating, InTurn
<1>3. job[b].task = "receipt" =>
          /\ pc[b] = "waiting" /\ job[b].at \in Assignment /\ job[b].seen \in Released
          /\ run'[job[b].at.rt] \in Ended
  BY <1>1, AssignmentTypes DEF IInv, JobSound, Learned, KeepsRuns, InTurn
<1> QED BY <1>1, <1>2, <1>3, JobRests

LEMMA OwnStep ==
    ASSUME IInv, NEW a \in Actor, EvaluateStep(a) \/ StartThrows(a) \/ ReconcileStep(a)
    PROVE  /\ pc[a] \in InTurn \/ Turn(a)
           /\ \A b \in Actor \ {a} : pc'[b] = pc[b] /\ job'[b] = job[b]
<1>0. pc \in [Actor -> Place] /\ job \in [Actor -> Job]
  BY DEF IInv, TypeOK
<1>1. CASE EvaluateStep(a) \/ StartThrows(a)
  BY <1>0, <1>1 DEF EvaluateStep, StartThrows, Observe, ReadinessLapses, Choose, Claim, IntendBlocked,
     IntendLaunch, StartAdmits, StartRefused, ObserveLaunch, RecordLaunch, EvaluateEnds, Return,
     Goto, Saw, InTurn
<1>2. CASE ReconcileStep(a)
  BY <1>0, <1>2 DEF ReconcileStep, Reconcile, InspectSame, Inspect, Note, ReconcileEnds, Return, Goto, InTurn
<1> QED BY <1>1, <1>2

LEMMA ActivityQueued ==
    ASSUME NEW c, Activity(c) = "queued"
    PROVE  Decided(c.rt.item, c)
BY DEF Activity, Decided

\* What is decided on stays so while something is recorded of another item.
LEMMA DecidedStays ==
    ASSUME NEW x \in Assignment, Only(x), NEW i \in Item, i # x.rt.item,
           NEW c \in CandidateOf(i), Decided(i, c)
    PROVE  Decided(i, c)'
<1>1. \A y \in Assignment : y.rt.item = i => (Active(y)' <=> Active(y)) /\ work'[y] = work[y]
  BY DEF Only, Active
<1> QED BY <1>1, CandidateTypes DEF Decided, Holders, Matching

\* The plan of an evaluation that recorded something of an item it no longer plans.
LEMMA PlanStays ==
    ASSUME TypeOK, NEW a \in Actor, JobSound(a), NEW x \in Assignment, Only(x),
           x.rt.item \notin job[a].plan, job'[a].plan = job[a].plan, job'[a].snap = job[a].snap
    PROVE  (\A i \in job[a].plan : Decided(i, job[a].snap[i]))'
<1>1. \A i \in job[a].plan : i \in Item /\ job[a].snap[i] \in CandidateOf(i)
  BY DEF TypeOK, Job
<1>2. \A i \in job[a].plan : Decided(i, job[a].snap[i])
  BY DEF JobSound
<1>3. ASSUME NEW i \in job[a].plan PROVE Decided(i, job[a].snap[i])'
  <2> PICK c \in CandidateOf(i) : c = job[a].snap[i] /\ job'[a].snap[i] = c
    BY <1>1
  <2>1. i \in Item /\ i # x.rt.item /\ Decided(i, c)
    BY <1>1, <1>2
  <2>2. Decided(i, c)'
    BY <2>1, DecidedStays
  <2> QED BY <2>2 DEF Decided, Matching, Holders
<1> QED BY <1>3
LEMMA PlanShrinks ==
    ASSUME TypeOK, NEW a \in Actor, JobSound(a), work' = work,
           job'[a].plan \subseteq job[a].plan, job'[a].snap = job[a].snap
    PROVE  (\A i \in job[a].plan : Decided(i, job[a].snap[i]))'
<1>1. \A i, c : Decided(i, c) => Decided(i, c)'
  BY DEF Decided, Holders, Matching, Active
<1>2. \A i \in job[a].plan : Decided(i, job[a].snap[i])
  BY DEF JobSound
<1>3. ASSUME NEW i \in job'[a].plan PROVE Decided(i, job[a].snap[i])'
  <2> PICK c : c = job[a].snap[i] /\ job'[a].snap[i] = c
    OBVIOUS
  <2>1. Decided(i, c)'
    BY <1>1, <1>2
  <2> QED BY <2>1 DEF Decided, Matching, Holders
<1> QED BY <1>3

\* Whether a candidate fits depends on what is on record and on the snapshot.
LEMMA FitsStays ==
    ASSUME NEW a \in Actor, NEW c, work' = work, job'[a].snap = job[a].snap, Fits(a, c)
    PROVE  Fits(a, c)'
<1>1. \A x : Active(x)' = Active(x) /\ KeyOf(a, x)' = KeyOf(a, x)
  BY DEF Active, KeyOf
<1> QED BY <1>1 DEF Fits, AtStage, FileBusy

LEMMA EvaluateJob ==
    ASSUME IInv, TypeOK', KeepsRuns, NEW a \in Actor, EvaluateStep(a) \/ StartThrows(a)
    PROVE  JobSound(a)'
<1> DEFINE j == job[a]
<1>0. /\ TypeOK /\ JobSound(a) /\ j \in Job /\ pc[a] \in Place /\ job' \in [Actor -> Job]
      /\ pc \in [Actor -> Place] /\ job \in [Actor -> Job]
  BY DEF IInv, TypeOK
<1>1. CASE Observe(a)
  <2>1. pc'[a] = "choosing" /\ job'[a] = [j EXCEPT !.snap = candidates, !.plan = Plan(j.mode)] /\ work' = work
    BY <1>0, <1>1 DEF Observe, Goto
  <2>2. job'[a].task = "evaluate" /\ job'[a].plan = Plan(j.mode) /\ job'[a].snap = candidates
    BY <1>0, <1>1, <2>1 DEF Observe, Job
  <2>3. ASSUME NEW i \in Plan(j.mode) PROVE Decided(i, candidates[i])
    <3>1. candidates[i].rt.item = i /\ Activity(candidates[i]) = "queued"
      BY <1>0 DEF Plan, TypeOK
    <3> QED BY <3>1, ActivityQueued
  <2>4. (\A i \in job[a].plan : Decided(i, job[a].snap[i]))'
    BY <2>1, <2>2, <2>3 DEF Decided, Holders, Matching, Active
  <2> QED BY <2>1, <2>2, <2>4 DEF JobSound, Evaluating
<1>2. CASE ReadinessLapses(a)
  <2>1. pc'[a] = "choosing" /\ job'[a] = [j EXCEPT !.plan = {}]
    BY <1>0, <1>2 DEF ReadinessLapses
  <2>2. job'[a].plan = {} /\ job'[a].task # "receipt"
    BY <1>0, <1>2, <2>1 DEF Job, JobSound, ReadinessLapses
  <2> QED BY <2>1, <2>2 DEF JobSound
<1>3. ASSUME NEW i \in Item, Choose(a, i) PROVE JobSound(a)'
  <2> PICK c \in CandidateOf(i) : c = j.snap[i]
    BY <1>0, <1>3 DEF Choose, TypeOK
  <2>1. /\ pc'[a] = "claiming" /\ job'[a] = [j EXCEPT !.plan = @ \ {i}, !.at = ClaimOf(c)]
        /\ work' = work /\ i \in j.plan /\ Fits(a, c) /\ pc[a] = "choosing" /\ UNCHANGED <<run, launches>>
    BY <1>0, <1>3 DEF Choose, Goto, environment, history
  <2>2. /\ job'[a].plan = j.plan \ {i} /\ job'[a].at = ClaimOf(c) /\ job'[a].snap = j.snap
        /\ job'[a].task = j.task /\ job'[a].seen = j.seen
    BY <1>0, <2>1 DEF Job
  <2>3. c.rt.item = i /\ ClaimOf(c).rt = c.rt
    BY CandidateTypes
  <2>4. Decided(i, c)' /\ Fits(a, c)'
    <3>1. Decided(i, c)
      BY <1>0, <2>1 DEF JobSound
    <3> QED BY <2>1, <2>2, <3>1, FitsStays DEF Decided, Holders, Matching, Active
  <2>5. (\A k \in job[a].plan : Decided(k, job[a].snap[k]))'
    BY <1>0, <2>1, <2>2, PlanShrinks
  <2>6. job'[a].task = "receipt" => FALSE
    BY <1>0, <2>1, <2>2 DEF JobSound
  <2> QED BY <2>1, <2>2, <2>3, <2>4, <2>5, <2>6 DEF JobSound, Evaluating
<1>4. CASE Claim(a)
  <2>0. PICK x \in Assignment : x = j.at
    BY <1>0, <1>4 DEF Claim, Goto, AtWork, TypeOK, Job
  <2>1. /\ pc'[a] = "intending" /\ job'[a] = j /\ pc[a] = "claiming"
        /\ work' = [work EXCEPT ![x] = [Unclaimed EXCEPT !.place = "claimed", !.file = j.snap[x.rt.item].file]]
    BY <1>0, <1>4, <2>0 DEF Claim, Goto
  <2>2. Fresh(x, "claimed")' /\ Only(x)
    BY <1>0, <2>1 DEF TypeOK, Fresh, Unclaimed, Only
  <2>3. x.rt.item \notin j.plan /\ job'[a].task # "receipt"
    BY <1>0, <2>0, <2>1 DEF JobSound
  <2>4. (\A i \in job[a].plan : Decided(i, job[a].snap[i]))'
    BY <1>0, <2>1, <2>2, <2>3, PlanStays
  <2>5. (pc[a] = "intending" => Fresh(job[a].at, "claimed") /\ job[a].at.rt.item \notin job[a].plan)'
    BY <2>0, <2>1, <2>2, <2>3 DEF Fresh
  <2> QED BY <2>1, <2>3, <2>4, <2>5 DEF JobSound, Evaluating
<1>5. CASE IntendBlocked(a) \/ IntendLaunch(a)
  <2>0. PICK x \in Assignment : x = j.at
    BY <1>0, <1>5 DEF IntendBlocked, IntendLaunch, Goto, AtWork, TypeOK, Job
  <2>1. /\ pc[a] = "intending" /\ work' = [work EXCEPT ![x].place = "intended"]
        /\ job'[a] \in {j, [j EXCEPT !.seen = "blocked"]}
        /\ \/ pc'[a] = "starting"
           \/ pc'[a] = "recording" /\ launches' = launches
    BY <1>0, <1>5, <2>0 DEF IntendBlocked, IntendLaunch, Intended, Saw, Goto, history
  <2>2. Fresh(x, "claimed") /\ x.rt.item \notin j.plan /\ j.task # "receipt"
    BY <1>0, <2>0, <2>1 DEF JobSound
  <2>3. Fresh(x, "intended")' /\ Only(x) /\ launches[x] = 0
    BY <1>0, <2>1, <2>2 DEF TypeOK, AssignmentState, Fresh, Only, IInv, StartedSound
  <2>4. job'[a].at = x /\ job'[a].plan = j.plan /\ job'[a].snap = j.snap /\ job'[a].task = j.task
    BY <1>0, <2>0, <2>1 DEF Job
  <2>5. (\A i \in job[a].plan : Decided(i, job[a].snap[i]))'
    BY <1>0, <2>2, <2>3, <2>4, PlanStays
  <2>6. Fresh(job[a].at, "intended")' /\ job'[a].at.rt.item \notin job'[a].plan
    BY <2>2, <2>3, <2>4 DEF Fresh
  <2>7. pc'[a] = "recording" => launches'[job'[a].at] = 0
    BY <2>1, <2>3, <2>4
  <2> QED BY <2>1, <2>2, <2>4, <2>5, <2>6, <2>7 DEF JobSound, Evaluating
<1>6. CASE StartAdmits(a) \/ StartRefused(a) \/ ObserveLaunch(a) \/ StartThrows(a)
  <2>0. PICK x \in Assignment : x = j.at
    BY <1>0, <1>6 DEF StartAdmits, StartRefused, ObserveLaunch, StartThrows, Goto, AtWork, TypeOK, Job
  <2>1. pc[a] \in {"starting", "observing"} /\ work' = work /\ launches' = launches
    BY <1>6 DEF StartAdmits, StartRefused, ObserveLaunch, StartThrows, Goto, history
  <2>2. \/ pc'[a] = "observing" /\ job'[a] = j
        \/ /\ pc'[a] = "recording"
           /\ \E s \in Observation : job'[a] = [j EXCEPT !.seen = s] /\ (s \in Released => run'[x.rt] \in Ended)
    <3>1. CASE ObserveLaunch(a)
      <4>1. Inspection(x.rt) \in Observation /\ (Inspection(x.rt) \in Released => run[x.rt] \in Ended)
        BY <1>0, AssignmentTypes, InspectionTyped DEF TypeOK
      <4> QED BY <1>0, <2>0, <3>1, <4>1 DEF ObserveLaunch, Saw, Goto, environment
    <3>2. CASE StartAdmits(a) \/ StartRefused(a) \/ StartThrows(a)
      BY <1>0, <3>2 DEF StartAdmits, StartRefused, StartThrows, Saw, Goto, Observation, Released
    <3> QED BY <1>6, <3>1, <3>2
  <2>3. /\ job'[a].at = x /\ job'[a].plan = j.plan /\ job'[a].snap = j.snap /\ job'[a].task = j.task
        /\ pc'[a] = "recording" => (job'[a].seen \in Released => run'[x.rt] \in Ended)
    BY <1>0, <2>0, <2>2 DEF Job
  <2>4. Fresh(x, "intended") /\ x.rt.item \notin j.plan /\ j.task # "receipt"
    BY <1>0, <2>0, <2>1 DEF JobSound
  <2>5. (\A i \in job[a].plan : Decided(i, job[a].snap[i]))'
    BY <1>0, <2>1, <2>3, PlanShrinks
  <2>6. Fresh(job[a].at, "intended")' /\ job'[a].at.rt.item \notin job'[a].plan
    BY <2>1, <2>3, <2>4 DEF Fresh
  <2>7. pc'[a] = "recording" => Learned(job[a].at, job[a].seen)'
    BY <2>3 DEF Learned
  <2> QED BY <2>2, <2>3, <2>4, <2>5, <2>6, <2>7 DEF JobSound, Evaluating
<1>7. CASE RecordLaunch(a)
  <2>0. PICK x \in Assignment : x = j.at
    BY <1>0, <1>7 DEF RecordLaunch, Goto, AtWork, TypeOK, Job
  <2>1. /\ pc[a] = "recording" /\ work' = [work EXCEPT ![x].launch = j.seen]
        /\ job'[a] = j /\ pc'[a] = "choosing"
    BY <1>0, <1>7, <2>0 DEF RecordLaunch, Goto
  <2>2. x.rt.item \notin j.plan /\ j.task # "receipt" /\ Only(x)
    BY <1>0, <2>0, <2>1 DEF JobSound, Only, TypeOK
  <2>3. (\A i \in job[a].plan : Decided(i, job[a].snap[i]))'
    BY <1>0, <2>1, <2>2, PlanStays
  <2> QED BY <2>1, <2>2, <2>3 DEF JobSound, Evaluating
<1>8. CASE EvaluateEnds(a)
  <2>1. pc'[a] \notin InTurn /\ job'[a] = NoJob
    BY <1>0, <1>8 DEF EvaluateEnds, Return, Completed, InTurn
  <2> QED BY <2>1, JobRests DEF NoJob
<1> QED BY <1>1, <1>2, <1>3, <1>4, <1>5, <1>6, <1>7, <1>8 DEF EvaluateStep

LEMMA ReconcileJob ==
    ASSUME IInv, TypeOK', KeepsRuns, NEW a \in Actor, ReconcileStep(a)
    PROVE  JobSound(a)'
<1> DEFINE j == job[a]
<1>0. /\ TypeOK /\ JobSound(a) /\ j \in Job /\ pc[a] \in Place
      /\ pc \in [Actor -> Place] /\ job \in [Actor -> Job]
  BY DEF IInv, TypeOK
<1>1. j.plan = {} /\ ~(pc[a] \in InTurn /\ j.task = "receipt")
  BY <1>0 DEF ReconcileStep, Reconcile, InspectSame, Inspect, Note, ReconcileEnds, Goto, JobSound, Evaluating, InTurn
<1>2. CASE Reconcile(a)
  <2> DEFINE due == {y \in Assignment : work[y].place = "intended" /\ Active(y)}
  <2>1. pc'[a] = "inspecting" /\ job'[a] = [j EXCEPT !.check = due] /\ work' = work /\ j.task = "reconcile"
    BY <1>0, <1>2 DEF Reconcile, Goto
  <2>2. job'[a].plan = {} /\ job'[a].check = due /\ job'[a].task = "reconcile"
    BY <1>0, <1>1, <2>1 DEF Job
  <2>3. (\A y \in job[a].check : work[y].place = "intended" /\ Active(y))'
    BY <2>1, <2>2 DEF Active
  <2> QED BY <2>1, <2>2, <2>3 DEF JobSound
<1>3. ASSUME NEW y \in Assignment, InspectSame(a, y) PROVE JobSound(a)'
  <2>1. pc'[a] = "inspecting" /\ job'[a] = [j EXCEPT !.check = @ \ {y}] /\ work' = work /\ pc[a] = "inspecting"
    BY <1>0, <1>3 DEF InspectSame
  <2>2. job'[a].plan = {} /\ job'[a].check \subseteq j.check /\ job'[a].task # "receipt"
    BY <1>0, <1>1, <2>1 DEF Job, InTurn
  <2>3. (\A z \in job[a].check : work[z].place = "intended" /\ Active(z))'
    BY <1>0, <2>1, <2>2 DEF Active, JobSound
  <2> QED BY <2>1, <2>2, <2>3 DEF JobSound
<1>4. ASSUME NEW y \in Assignment, Inspect(a, y) PROVE JobSound(a)'
  <2>1. /\ pc'[a] = "noting" /\ work' = work /\ run' = run /\ pc[a] = "inspecting" /\ y \in j.check
        /\ job'[a] = [j EXCEPT !.check = @ \ {y}, !.at = y, !.seen = Inspection(y.rt)]
    BY <1>0, <1>4 DEF Inspect, Goto, environment
  <2>2. /\ job'[a].plan = {} /\ job'[a].check = j.check \ {y} /\ job'[a].task # "receipt"
        /\ job'[a].at = y /\ job'[a].seen = Inspection(y.rt)
    BY <1>0, <1>1, <2>1 DEF Job, InTurn
  <2>3. (\A z \in job[a].check : work[z].place = "intended" /\ Active(z))'
    BY <1>0, <2>1, <2>2 DEF Active, JobSound
  <2>4. work'[y].place = "intended" /\ Active(y)'
    BY <1>0, <2>1 DEF JobSound, Active
  <2>5. Inspection(y.rt) \in Released => run[y.rt] \in Ended
    BY <1>0, AssignmentTypes, InspectionTyped DEF TypeOK
  <2> QED BY <2>1, <2>2, <2>3, <2>4, <2>5 DEF JobSound, Learned, Active
<1>5. CASE Note(a)
  <2>0. PICK x \in Assignment : x = j.at
    BY <1>0, <1>5 DEF Note, Goto, AtWork, TypeOK, Job
  <2>1. /\ pc[a] = "noting" /\ work' = [work EXCEPT ![x].launch = j.seen]
        /\ job'[a] = j /\ pc'[a] = "inspecting"
    BY <1>0, <1>5, <2>0 DEF Note, Goto
  <2>2. x \notin j.check /\ Only(x) /\ \A y \in j.check : y \in Assignment /\ work[y].place = "intended" /\ Active(y)
    BY <1>0, <2>0, <2>1 DEF JobSound, Only, TypeOK, Job
  <2>3. (\A y \in job[a].check : work[y].place = "intended" /\ Active(y))'
    BY <2>1, <2>2 DEF Only, Active
  <2>4. job'[a].task # "receipt"
    BY <1>1, <2>1 DEF InTurn
  <2> QED BY <1>1, <2>1, <2>3, <2>4 DEF JobSound
<1>6. CASE ReconcileEnds(a)
  <2>1. pc'[a] \notin InTurn /\ job'[a] = NoJob
    BY <1>0, <1>6 DEF ReconcileEnds, Return, Completed, InTurn
  <2> QED BY <2>1, JobRests DEF NoJob
<1> QED BY <1>2, <1>3, <1>4, <1>5, <1>6 DEF ReconcileStep
LEMMA PollJob ==
    ASSUME IInv, KeepsRuns, PollStep \/ PollRests \/ Poll, NEW b \in Actor
    PROVE  JobSound(b)'
<1>0. /\ TypeOK /\ "poll" \in Actor /\ pc \in [Actor -> Place] /\ job \in [Actor -> Job]
      /\ \A c \in Actor : JobSound(c)
  BY ActorTypes DEF IInv, TypeOK
<1>1. CASE b # "poll"
  <2>1. pc'[b] = pc[b] /\ job'[b] = job[b]
    BY <1>0, <1>1 DEF PollStep, ReadEnded, ReceiptCurrent, ApplyReceipt, ReceiptNotCurrent, PollEvaluates,
       PollRests, Poll, Begin, Return, Goto
  <2>2. CASE ApplyReceipt
    BY <1>0, <1>1, <2>1, <2>2, OthersStay DEF ApplyReceipt, InTurn
  <2>3. CASE ~ApplyReceipt
    <3>1. work' = work /\ launches' = launches
      BY <2>3 DEF PollStep, ReadEnded, ReceiptCurrent, ReceiptNotCurrent, PollEvaluates, PollRests, Poll, history
    <3> QED BY <1>0, <2>1, <3>1, JobStays
  <2> QED BY <2>2, <2>3
<1>2. CASE b = "poll"
  <2>1. ASSUME NEW x \in Assignment, ReadEnded(x) PROVE JobSound(b)'
    <3>1. Result(x.rt) \in Released /\ run'[x.rt] \in Ended
      BY <2>1, AssignmentTypes, ResultTyped DEF ReadEnded, environment
    <3>2. job'["poll"] = Receipt(x, Result(x.rt)) /\ pc'["poll"] = "waiting"
      BY <1>0, <2>1 DEF ReadEnded, Begin
    <3> QED BY <1>0, <1>2, <3>1, <3>2, ReceiptTyped, JobRests DEF InTurn
  <2>2. CASE ReceiptCurrent
    <3> PICK x : x = job["poll"].at
      OBVIOUS
    <3>1. /\ pc'["poll"] = "applying" /\ job'["poll"] = job["poll"] /\ pc["poll"] = "waiting"
          /\ job["poll"].task = "receipt" /\ run' = run
      BY <1>0, <2>2 DEF ReceiptCurrent, Goto, environment
    <3>2. job["poll"].plan = {}
      BY <1>0, <3>1 DEF JobSound, Evaluating
    <3> QED BY <1>0, <1>2, <3>1, <3>2 DEF JobSound, Learned
  <2>3. CASE ApplyReceipt \/ PollRests
    <3>1. pc'["poll"] \notin InTurn /\ job'["poll"] = NoJob
      BY <1>0, <2>3 DEF ApplyReceipt, PollRests, Return, InTurn
    <3> QED BY <1>0, <1>2, <3>1, JobRests DEF NoJob
  <2>4. CASE ReceiptNotCurrent
    <3>1. pc'["poll"] \notin InTurn /\ job'["poll"] = Reconciliation
      BY <1>0, <2>4 DEF ReceiptNotCurrent, Begin, InTurn
    <3> QED BY <1>0, <1>2, <3>1, ReconciliationTyped, JobRests
  <2>5. CASE PollEvaluates
    <3>1. pc'["poll"] \notin InTurn /\ job'["poll"] = Evaluation(mode) /\ mode \in Mode
      BY <1>0, <2>5 DEF PollEvaluates, Begin, InTurn, TypeOK
    <3> QED BY <1>0, <1>2, <3>1, EvaluationTyped, JobRests
  <2>6. CASE Poll
    <3>1. pc'["poll"] = "reading" /\ job'["poll"] = job["poll"] /\ pc["poll"] = "idle"
      BY <1>0, <2>6 DEF Poll, Goto
    <3>2. job["poll"].plan = {} /\ job["poll"].task # "receipt"
      BY <1>0, <3>1 DEF JobSound, Evaluating
    <3> QED BY <1>0, <1>2, <3>1, <3>2, JobRests DEF InTurn
  <2> QED BY <1>2, <2>1, <2>2, <2>3, <2>4, <2>5, <2>6 DEF PollStep
<1> QED BY <1>1, <1>2

LEMMA NextJobs == IInv /\ [Next]_vars => \A b \in Actor : JobSound(b)'
<1> SUFFICES ASSUME IInv, [Next]_vars, NEW b \in Actor PROVE JobSound(b)'
  OBVIOUS
<1>0. /\ TypeOK /\ TypeOK' /\ KeepsRuns /\ pc \in [Actor -> Place] /\ job \in [Actor -> Job]
      /\ JobSound(b) /\ "boot" \in Actor
  BY NextTyped, NextKeepsRuns, ActorTypes DEF IInv, TypeOK
<1>1. ASSUME NEW a \in Actor, EvaluateStep(a) \/ StartThrows(a) \/ ReconcileStep(a) PROVE JobSound(b)'
  <2>1. CASE b = a
    BY <1>0, <1>1, <2>1, EvaluateJob, ReconcileJob
  <2>2. CASE b # a
    BY <1>0, <1>1, <2>2, OwnStep, OthersStay
  <2> QED BY <2>1, <2>2
<1>2. ASSUME NEW a \in Actor, ObserveThrows(a) \/ AppendThrows(a) PROVE JobSound(b)'
  <2>1. CASE b = a
    <3>1. pc'[b] \notin InTurn /\ job'[b] = NoJob
      BY <1>0, <1>2, <2>1 DEF ObserveThrows, AppendThrows, Throw, Return, InTurn
    <3> QED BY <3>1, JobRests DEF NoJob
  <2>2. CASE b # a
    <3>1. pc'[b] = pc[b] /\ job'[b] = job[b] /\ work' = work /\ launches' = launches
      BY <1>0, <1>2, <2>2 DEF ObserveThrows, AppendThrows, Throw, Return, history
    <3> QED BY <1>0, <3>1, JobStays
  <2> QED BY <2>1, <2>2
<1>3. CASE PollStep \/ PollRests \/ Poll
  BY <1>0, <1>3, PollJob
<1>4. ASSUME NEW a \in Actor, NEW m \in Mode, Begin(a, Evaluation(m)), work' = work, launches' = launches
      PROVE  JobSound(b)'
  <2>1. CASE b = a
    <3>1. pc'[b] = "waiting" /\ job'[b] = Evaluation(m)
      BY <1>0, <1>4, <2>1 DEF Begin
    <3> QED BY <3>1, EvaluationTyped, JobRests DEF InTurn
  <2>2. CASE b # a
    <3>1. pc'[b] = pc[b] /\ job'[b] = job[b]
      BY <1>0, <1>4, <2>2 DEF Begin
    <3> QED BY <1>0, <1>4, <3>1, JobStays
  <2> QED BY <2>1, <2>2
<1>5. ASSUME NEW a \in Caller, NEW m \in Modes, Command(a, m) PROVE JobSound(b)'
  <2>1. a \in Actor /\ m \in Mode
    BY ActorTypes, QueueAssumption DEF QueueAssumption
  <2> QED BY <1>4, <1>5, <2>1 DEF Command
<1>6. CASE BootEvaluates
  BY <1>0, <1>4, <1>6 DEF BootEvaluates, Mode, history
<1>7. CASE Stop
  <2>1. pc'[b] = "idle" /\ job'[b] = NoJob
    BY <1>7 DEF Stop
  <2> QED BY <2>1, JobRests DEF NoJob, InTurn
<1>8. CASE Restart
  <2>1. pc'[b] \in {"waiting", "idle"} /\ job'[b] \in {NoJob, [NoJob EXCEPT !.task = "reconcile"]}
    BY <1>8 DEF Restart, Booting, BootJob
  <2> QED BY <2>1, JobRests DEF NoJob, InTurn
<1>9. CASE \/ Close \/ (\E rt \in Runtime : RunMoves(rt))
           \/ (\E i \in Item : MoveCandidate(i)) \/ SourceChanges \/ UNCHANGED vars
  <2>1. pc' = pc /\ job' = job /\ work' = work /\ launches' = launches
    BY <1>9 DEF Close, RunMoves, MoveCandidate, SourceChanges, vars, history
  <2> QED BY <1>0, <2>1, JobStays
<1> QED BY <1>1, <1>2, <1>3, <1>5, <1>6, <1>7, <1>8, <1>9 DEF Next, Step

-----------------------------------------------------------------------------
LEMMA InitSound == Init => IInv
<1> SUFFICES ASSUME Init PROVE IInv
  OBVIOUS
<1>1. TypeOK
  BY InitTyped
<1>2. ChainSound
  BY ActorTypes DEF Init, ChainSound, Booting, InTurn
<1>3. ASSUME NEW a \in Actor PROVE JobSound(a)
  <2>1. pc[a] \in {"waiting", "idle"} /\ job[a].plan = {} /\ job[a].task # "receipt"
    BY <1>3 DEF Init, Booting, BootJob, NoJob
  <2> QED BY <2>1 DEF JobSound
<1>4. \A x \in Assignment : ~Active(x) /\ work[x].place = "free" /\ launches[x] = 0
  BY DEF Init, Unclaimed, Active
<1>5. StartedSound /\ ClaimedOnce /\ OneHolder /\ FilesSerialized
  BY <1>4 DEF StartedSound, ClaimedOnce, OneHolder, Holders, FilesSerialized
<1>6. ASSUME NEW s \in Stage PROVE Cardinality(AtStage(s)) <= MaxWip[s]
  <2>1. AtStage(s) = {}
    BY <1>4 DEF AtStage
  <2>2. MaxWip[s] \in Nat
    BY QueueAssumption DEF QueueAssumption
  <2> QED BY <2>1, <2>2, FS_EmptySet
<1> QED BY <1>1, <1>2, <1>3, <1>5, <1>6 DEF IInv, WipRespected

LEMMA NextSound == IInv /\ [Next]_vars => IInv'
BY NextTyped, NextChained, NextJobs, NextStarted, NextOnRecord DEF IInv, OnRecord

LEMMA Inductive == Spec => []IInv
BY InitSound, NextSound, PTL DEF Spec

(***************************************************************************)
(* Every variable keeps to its type, and who works on an assignment has    *)
(* one.                                                                    *)
(***************************************************************************)
THEOREM TypeCorrect == Spec => []TypeOK
<1>1. IInv => TypeOK
  BY DEF IInv
<1> QED BY <1>1, Inductive, PTL

(***************************************************************************)
(* A started worker that is alive, or may be, keeps its hold: a hold is    *)
(* let go of only by what was learned of an ended run, and what was        *)
(* learned so stays so.                                                    *)
(***************************************************************************)
THEOREM HeldWhileAliveHolds == Spec => []HeldWhileAlive
<1>1. IInv => HeldWhileAlive
  BY DEF IInv, StartedSound, HeldWhileAlive, Ended, TypeOK
<1> QED BY <1>1, Inductive, PTL

(***************************************************************************)
(* No stage has more active assignments than its maxWip: the count that an *)
(* evaluation decided on still stands when it claims.                      *)
(***************************************************************************)
THEOREM WipRespectedHolds == Spec => []WipRespected
<1>1. IInv => WipRespected
  BY DEF IInv
<1> QED BY <1>1, Inductive, PTL

(***************************************************************************)
(* A work item has one holder, though its revisions and stages change.     *)
(***************************************************************************)
THEOREM OneHolderHolds == Spec => []OneHolder
<1>1. IInv => OneHolder
  BY DEF IInv
<1> QED BY <1>1, Inductive, PTL

(***************************************************************************)
(* Two active assignments never share the file they were claimed with.     *)
(***************************************************************************)
THEOREM FilesSerializedHolds == Spec => []FilesSerialized
<1>1. IInv => FilesSerialized
  BY DEF IInv
<1> QED BY <1>1, Inductive, PTL

(***************************************************************************)
(* Work is started once for an item, revision and stage, whatever runtime  *)
(* it is configured for, and over every restart.                           *)
(***************************************************************************)
THEOREM NeverRelaunchedHolds == Spec => []NeverRelaunched
<1>1. IInv => NeverRelaunched
  <2> SUFFICES ASSUME IInv, NEW x \in Assignment, NEW y \in Assignment,
                      launches[x] > 0, launches[y] > 0, SameWork(x, y)
               PROVE  x = y /\ launches[x] = 1
    BY DEF NeverRelaunched
  <2>1. launches[x] = 1 /\ work[x].place # "free" /\ work[y].place # "free"
    BY DEF IInv, StartedSound
  <2> QED BY <2>1 DEF IInv, ClaimedOnce
<1> QED BY <1>1, Inductive, PTL
=============================================================================
