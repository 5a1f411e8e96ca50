--------------------------- MODULE TaskSupervisor ---------------------------
(***************************************************************************)
(* src/execution/task-supervisor.ts over codex-app-server.ts: at most one  *)
(* bounded turn per run, on a native task whose goal is paused before and  *)
(* after.  Preparations and turns run one at a time; a cancellation comes  *)
(* in between.  What the supervisor knows of a run are its records in the  *)
(* coordinator's journal, each kind at most once; the tasks themselves are *)
(* the vendor's, where others work too.                                    *)
(*                                                                         *)
(* Files and digests that bind a configuration, and the witness that an    *)
(* operator attests, are one thing here: they hold or a step fails.        *)
(***************************************************************************)
EXTENDS Naturals

CONSTANTS Run, Source, None, MaxTroubles, MaxChanges

\* A run may take up the task of another.
SupervisorAssumption ==
    /\ Source \in [Run -> Run \cup {None}]
    /\ \A r \in Run : Source[r] # None => Source[r] # r /\ Source[Source[r]] = None
    /\ "others" \notin Run /\ None # "completed"
    /\ MaxTroubles \in Nat /\ MaxChanges \in Nat

VARIABLES
    records,    \* of each run, the kinds that are on record
    outcome,    \* of each run, as recorded
    revoked,    \* the runs whose authority the coordinator has revoked
    task,       \* the vendor's task of each run that starts one
    call,       \* the preparation or turn at the head of the queue
    cancel,     \* how far the cancellation of the active turn is
    turns,      \* history: how often a turn was requested for each run
    ended,      \* history: how the turn of each run ended, "late" if the run was revoked by then
    closed, troubles, changes

vars == <<records, outcome, revoked, task, call, cancel, turns, ended, closed, troubles, changes>>

NoTask == [goal |-> "none", of |-> None, turn |-> "none", by |-> None]
Idle == [at |-> "idle", run |-> None, error |-> FALSE, terminal |-> FALSE, requested |-> FALSE, outcome |-> None]

Task(r) == IF Source[r] = None THEN r ELSE Source[r]

Init ==
    /\ records = [r \in Run |-> {}] /\ outcome = [r \in Run |-> None]
    /\ revoked = {}
    /\ task = [r \in Run |-> NoTask]
    /\ call = Idle /\ cancel = "none"
    /\ turns = [r \in Run |-> 0] /\ ended = [r \in Run |-> None]
    /\ closed = FALSE /\ troubles = 0 /\ changes = 0

-----------------------------------------------------------------------------
Goes(next) == call' = [call EXCEPT !.at = next]
Leaves == call' = Idle
Records(r, kind) == records' = [records EXCEPT ![r] = @ \cup {kind}]

\* validate: the run is admitted as configured, and its authority stands.
Valid(r) == ~closed /\ r \notin revoked

Unresolved(r) == "turn_intended" \in records[r] /\ "terminal" \notin records[r]

\* The task is where the supervisor left it: nobody works on it, its goal is the run's.
Rests(r, at) == task[Task(r)].turn # "running" /\ task[Task(r)].goal = "paused" /\ task[Task(r)].of = at

\* prepare.  What an interrupted preparation left is never taken up.
Prepare(r) ==
    /\ call = Idle /\ Valid(r)
    /\ {"prepared", "prepare_intended"} \cap records[r] = {}
    /\ Source[r] # None => outcome[Source[r]] = "completed"
    /\ Records(r, "prepare_intended")
    /\ call' = [Idle EXCEPT !.at = "connect", !.run = r]
    /\ UNCHANGED <<outcome, revoked, task, cancel, turns, ended, closed, troubles, changes>>

FindTask ==
    LET r == call.run IN
    /\ call.at = "connect"
    /\ IF Source[r] = None
       THEN /\ task' = [task EXCEPT ![r] = [NoTask EXCEPT !.of = r]]
            /\ Goes("found")
       ELSE /\ IF Rests(r, Source[r]) THEN Goes("found") ELSE Leaves
            /\ UNCHANGED task
    /\ UNCHANGED <<records, outcome, revoked, cancel, turns, ended, closed, troubles, changes>>

ObserveThread ==
    /\ call.at = "found"
    /\ Records(call.run, "thread_observed") /\ Goes("goal")
    /\ UNCHANGED <<outcome, revoked, task, cancel, turns, ended, closed, troubles, changes>>

SetGoal ==
    LET r == call.run IN
    /\ call.at = "goal"
    /\ task' = [task EXCEPT ![Task(r)].goal = "paused", ![Task(r)].of = r]
    /\ Goes("record")
    /\ UNCHANGED <<records, outcome, revoked, cancel, turns, ended, closed, troubles, changes>>

\* Unrequested activity before the connection is closed ends the preparation.
Prepared ==
    /\ call.at = "record"
    /\ IF call.error THEN UNCHANGED records ELSE Records(call.run, "prepared")
    /\ Leaves
    /\ UNCHANGED <<outcome, revoked, task, cancel, turns, ended, closed, troubles, changes>>

-----------------------------------------------------------------------------
\* Slip (OneUnresolved): a profile is free for another run whatever became of the last.
FreeForRun(r) == TRUE
Free(r) == \A q \in Run : ~Unresolved(q)

\* Slip (TurnOnce): the intention is put on record with the turn.
IntentionLater == "prepared"
Intention == "turn_intended"

\* execute.
Execute(r) ==
    /\ call = Idle /\ Valid(r)
    /\ "prepared" \in records[r] /\ "terminal" \notin records[r]
    /\ "turn_intended" \notin records[r] /\ Free(r)
    /\ Records(r, Intention)
    /\ call' = [Idle EXCEPT !.at = "start", !.run = r]
    /\ UNCHANGED <<outcome, revoked, task, cancel, turns, ended, closed, troubles, changes>>

\* The rest of the turn is given up; its connection is closed.
GivesUp == call' = [call EXCEPT !.at = "close", !.terminal = FALSE]

Connect ==
    /\ call.at = "start"
    /\ Goes("resume") /\ cancel' = "none"
    /\ UNCHANGED <<records, outcome, revoked, task, turns, ended, closed, troubles, changes>>

\* The task is resumed, idle with its goal paused, and its servers are checked.
Resume ==
    LET r == call.run IN
    /\ call.at = "resume"
    /\ IF ~call.error /\ Rests(r, r) /\ Valid(r) THEN Goes("activate") ELSE GivesUp
    /\ UNCHANGED <<records, outcome, revoked, task, cancel, turns, ended, closed, troubles, changes>>

\* The servers are on record as checked; the goal is set active, and must be the run's.
Activate ==
    LET r == call.run IN
    /\ call.at = "activate"
    /\ IF ~call.error /\ cancel = "none" /\ Valid(r)
       THEN /\ task' = [task EXCEPT ![Task(r)].goal = "active"]
            /\ Records(r, "checked")
            /\ IF task[Task(r)].of = r THEN Goes("guard") ELSE GivesUp
       ELSE GivesUp /\ UNCHANGED <<task, records>>
    /\ UNCHANGED <<outcome, revoked, cancel, turns, ended, closed, troubles, changes>>

\* The servers are checked again, and the authority; a cancellation is looked for before
\* the authority, which is looked for before the transport.
GuardTurn ==
    /\ call.at = "guard"
    /\ IF ~call.error /\ cancel = "none" THEN Goes("validate") ELSE GivesUp
    /\ UNCHANGED <<records, outcome, revoked, task, cancel, turns, ended, closed, troubles, changes>>

ValidateTurn ==
    /\ call.at = "validate"
    /\ IF Valid(call.run) THEN Goes("dispatch") ELSE GivesUp
    /\ UNCHANGED <<records, outcome, revoked, task, cancel, turns, ended, closed, troubles, changes>>

\* turn/start, which the vendor refuses while somebody's turn runs.
StartTurn ==
    LET r == call.run IN
    /\ call.at = "dispatch"
    /\ IF call.error
       THEN GivesUp /\ UNCHANGED <<task, turns>>
       ELSE /\ turns' = [turns EXCEPT ![r] = @ + 1]
            /\ IF task[Task(r)].turn = "running"
               THEN GivesUp /\ UNCHANGED task
               ELSE /\ task' = [task EXCEPT ![Task(r)].turn = "running", ![Task(r)].by = r]
                    /\ call' = [call EXCEPT !.at = "started", !.requested = TRUE]
    /\ UNCHANGED <<records, outcome, revoked, cancel, ended, closed, troubles, changes>>

TurnObserved ==
    /\ call.at = "started"
    /\ Records(call.run, "turn_observed") /\ Goes("wait")
    /\ UNCHANGED <<outcome, revoked, task, cancel, turns, ended, closed, troubles, changes>>

\* Slip (CompletedInTime): what the vendor completed is completed.
OutcomeAnyway(r) == IF task[Task(r)].turn = "completed" THEN "completed" ELSE "failed"
OutcomeOf(r) ==
    CASE task[Task(r)].turn = "completed" /\ cancel = "none" -> "completed"
      [] task[Task(r)].turn = "interrupted" /\ cancel # "none" -> "cancelled"
      [] OTHER -> "failed"

\* The terminal notification of the turn.
TurnEnds ==
    /\ call.at = "wait" /\ call.terminal /\ ~call.error
    /\ call' = [call EXCEPT !.at = "pause", !.outcome = OutcomeOf(call.run)]
    /\ UNCHANGED <<records, outcome, revoked, task, cancel, turns, ended, closed, troubles, changes>>

\* An error, the end of its time, or five seconds without an answer to an interruption:
\* the last two revoke the run, if its worker can be identified.
TurnFails ==
    /\ call.at = "wait"
    /\ \/ call.error /\ UNCHANGED revoked
       \/ ~call.terminal /\ revoked' \in {revoked, revoked \cup {call.run}}
    /\ GivesUp
    /\ UNCHANGED <<records, outcome, task, cancel, turns, ended, closed, troubles, changes>>

\* The goal is paused again, and must be the run's.
Pause ==
    LET t == Task(call.run) IN
    /\ call.at = "pause"
    /\ task' = [task EXCEPT ![t].goal = "paused"]
    /\ IF call.error \/ task[t].of # call.run THEN GivesUp ELSE Goes("end")
    /\ UNCHANGED <<records, outcome, revoked, cancel, turns, ended, closed, troubles, changes>>

\* The process is closed at the end of its input, and what it was doing is cut off.
CutOff(t) == task' = [task EXCEPT ![t].turn = IF @ = "running" /\ task[t].by \in Run THEN "cut" ELSE @]

Close ==
    /\ call.at \in {"end", "close"}
    /\ \/ /\ CutOff(Task(call.run))
          /\ Goes(IF call.at = "end" /\ ~call.error THEN "terminal" ELSE "uncertain")
          /\ UNCHANGED troubles
       \/ /\ troubles < MaxTroubles /\ troubles' = troubles + 1
          /\ Goes("uncertain") /\ UNCHANGED task
    /\ UNCHANGED <<records, outcome, revoked, cancel, turns, ended, closed, changes>>

\* Slip (GoalHeld): every result releases the profile.
KindAlways(at) == "terminal"
KindOf(at) == at

\* The result is retained and recorded.
RecordResult ==
    LET r == call.run IN
    /\ call.at \in {"terminal", "uncertain"}
    /\ Records(r, KindOf(call.at))
    /\ outcome' = [outcome EXCEPT ![r] = IF call.at = "terminal" THEN call.outcome ELSE "interrupted_uncertain"]
    /\ Leaves /\ cancel' = "none"
    /\ UNCHANGED <<revoked, task, turns, ended, closed, troubles, changes>>

-----------------------------------------------------------------------------
\* cancel, of the active turn: it is interrupted once its identity is known, and before
\* that its connection is closed.
Active == call.at \notin {"idle", "connect", "found", "goal", "record", "start"}

Asked ==
    IF cancel # "none" THEN {cancel}
    ELSE IF call.at \in {"resume", "activate", "guard", "validate", "dispatch"} THEN {"eof"}
    ELSE IF call.at \in {"started", "close"} THEN {"eof", "interrupt"}
    ELSE {"interrupt"}

Cancel ==
    /\ Active /\ cancel = "none"
    /\ cancel' \in Asked
    /\ UNCHANGED <<records, outcome, revoked, task, call, turns, ended, closed, troubles, changes>>

Intend ==
    /\ Active /\ cancel = "interrupt"
    /\ Records(call.run, "interrupt_intended") /\ cancel' = "intended"
    /\ UNCHANGED <<outcome, revoked, task, call, turns, ended, closed, troubles, changes>>

\* onTerminationRequired: the authority is revoked, then the worker is looked for.
Revoke ==
    /\ Active /\ cancel \in {"intended", "eof"}
    /\ revoked' = revoked \cup {call.run}
    /\ cancel' \in {"failed", IF cancel = "eof" THEN "cut" ELSE "revoked"}
    /\ UNCHANGED <<records, outcome, task, call, turns, ended, closed, troubles, changes>>

\* Slip (RevokedFirst): the turn is interrupted as soon as that is on record.
MayInterruptIntended == cancel \in {"intended", "revoked"}
MayInterrupt == cancel = "revoked"

Interrupt ==
    LET t == Task(call.run) IN
    /\ Active /\ MayInterrupt
    /\ cancel' = "done"
    /\ IF task[t].turn = "running" /\ task[t].by = call.run
       THEN /\ task' = [task EXCEPT ![t].turn = "interrupted"]
            /\ call' = [call EXCEPT !.terminal = TRUE]
       ELSE UNCHANGED <<task, call>>
    /\ UNCHANGED <<records, outcome, revoked, turns, ended, closed, troubles, changes>>

CutConnection ==
    /\ Active /\ cancel = "cut"
    /\ cancel' = "done"
    /\ CutOff(Task(call.run)) /\ call' = [call EXCEPT !.error = TRUE]
    /\ UNCHANGED <<records, outcome, revoked, turns, ended, closed, troubles, changes>>

CloseSupervisor ==
    /\ ~closed /\ closed' = TRUE
    /\ IF Active THEN cancel' \in Asked ELSE UNCHANGED cancel
    /\ UNCHANGED <<records, outcome, revoked, task, call, turns, ended, troubles, changes>>

-----------------------------------------------------------------------------
\* The vendor ends the turn.
VendorEnds(t) ==
    /\ task[t].turn = "running"
    /\ \E how \in {"completed", "failed"} :
          /\ task' = [task EXCEPT ![t].turn = how]
          /\ ended' = IF task[t].by \in Run
                      THEN [ended EXCEPT ![task[t].by] = IF task[t].by \in revoked THEN "late" ELSE how] ELSE ended
    /\ call' = IF call.at # "idle" /\ Task(call.run) = t
               THEN IF call.requested /\ task[t].by = call.run
                    THEN [call EXCEPT !.terminal = TRUE] ELSE [call EXCEPT !.error = TRUE]
               ELSE call
    /\ UNCHANGED <<records, outcome, revoked, cancel, turns, closed, troubles, changes>>

\* Others start a turn on the task, or pause or take its goal; a connected supervisor is
\* told of the turn.
OthersWork(t) ==
    /\ changes < MaxChanges /\ changes' = changes + 1
    /\ task[t].goal # "none"
    /\ \/ /\ task[t].turn # "running"
          /\ task' = [task EXCEPT ![t].turn = "running", ![t].by = "others"]
          /\ call' = IF call.at # "idle" THEN [call EXCEPT !.error = TRUE] ELSE call
       \/ \E goal \in {"paused", "active"}, of \in {task[t].of, "others"} :
             <<goal, of>> # <<task[t].goal, task[t].of>> /\ (goal = "active" => of = "others")
             /\ task' = [task EXCEPT ![t].goal = goal, ![t].of = of] /\ UNCHANGED call
    /\ UNCHANGED <<records, outcome, revoked, cancel, turns, ended, closed, troubles>>

\* A request or an append fails, a time runs out, or the connection is lost.
Fails ==
    /\ call.at \notin {"idle", "close"} /\ troubles < MaxTroubles
    /\ troubles' = troubles + 1
    /\ IF Active THEN IF call.at \in {"terminal", "uncertain"} THEN Leaves /\ cancel' = "none"
                      ELSE GivesUp /\ UNCHANGED cancel
       ELSE IF call.at = "start" THEN GivesUp /\ UNCHANGED cancel ELSE Leaves /\ UNCHANGED cancel
    /\ UNCHANGED <<records, outcome, revoked, task, turns, ended, closed, changes>>

\* The factory ends and is started again.  A worker that outlives it goes on.
Crash ==
    /\ troubles < MaxTroubles /\ troubles' = troubles + 1
    /\ Leaves /\ cancel' = "none" /\ closed' = FALSE
    /\ UNCHANGED task \/ (Active /\ CutOff(Task(call.run)))
    /\ UNCHANGED <<records, outcome, revoked, turns, ended, changes>>

Next ==
    \/ FindTask \/ ObserveThread \/ SetGoal \/ Prepared
    \/ Connect \/ Resume \/ Activate \/ GuardTurn \/ ValidateTurn \/ StartTurn \/ TurnObserved
    \/ TurnEnds \/ TurnFails \/ Pause \/ Close \/ RecordResult
    \/ Cancel \/ Intend \/ Revoke \/ Interrupt \/ CutConnection \/ CloseSupervisor \/ Fails \/ Crash
    \/ \E r \in Run : Prepare(r) \/ Execute(r) \/ VendorEnds(r) \/ OthersWork(r)

Spec == Init /\ [][Next]_vars

-----------------------------------------------------------------------------
\* A turn is requested for a run at most once, over failures and restarts.
TurnOnce == \A r \in Run : turns[r] <= 1

\* At most one run of the profile has a turn nobody knows the end of, and while a goal is
\* active, or a run's turn goes on, it is that run's: nothing else is started beside it.
OneUnresolved ==
    /\ \A q, r \in Run : Unresolved(q) /\ Unresolved(r) => q = r
    /\ \A t \in Run : task[t].turn = "running" /\ task[t].by \in Run => Unresolved(task[t].by)

\* A goal of ours that is active belongs to a run whose end is not on record.
GoalHeld == \A t \in Run : task[t].goal = "active" /\ task[t].of \in Run => Unresolved(task[t].of)

\* A run is on record as completed only if the vendor completed its turn before the run
\* was revoked, however late the news and the cancellation come.
CompletedInTime == \A r \in Run : outcome[r] = "completed" => ended[r] = "completed"

\* A turn is interrupted only behind the revocation of its run.
RevokedFirst ==
    [][\A t \in Run : task[t].turn = "running" /\ task'[t].turn = "interrupted" => task[t].by \in revoked]_vars
=============================================================================
