------------------------------ MODULE Preview ------------------------------
(***************************************************************************)
(* One persistent preview (src/preview/index.ts) as the Console runs it    *)
(* (src/console/preview-runtime.ts): a registered local process that is    *)
(* started, observed and stopped by commands and by the poll, all of them  *)
(* interleaved at their awaits, and that outlives the Console.             *)
(*                                                                         *)
(* A task is a call, or the callback on the exit of a launch; a step of it *)
(* is what runs between two awaits.  What a probe saw is taken when the    *)
(* host answers and used when the task goes on.  Records wait their turn   *)
(* in the journal's queue (Journal); of the journal the model keeps what   *)
(* #hydrate makes of it.  A process identity is the launch: nonces differ, *)
(* and no pid is used again.                                               *)
(***************************************************************************)
EXTENDS Naturals, Sequences

CONSTANTS
    Call,       \* calls that can be open at the same time
    Launch,     \* startup commands, each with its nonce
    Revision, None,
    MaxInputs   \* bound: calls, probes that fail, appends the journal refuses,
                \* and crashes, together

PreviewAssumption ==
    /\ Call \cap Launch = {}
    /\ None \notin Launch \cup Revision
    /\ MaxInputs \in Nat

VARIABLES
    up,      \* the Console runs and the preview is registered
    entry,   \* the service's Entry
    task,    \* the open calls and exit callbacks
    writes,  \* records handed to the journal and not yet written
    saved,   \* what #hydrate makes of the written ones
    proc,    \* the process group of each launch
    built,   \* the revision it was launched with
    inputs,
    witness  \* history: the launch that last answered with the registered revision

journal == <<writes, saved>>
host == <<proc, built>>
history == <<inputs, witness>>
vars == <<up, entry, task, writes, saved, proc, built, inputs, witness>>

State == {"stopped", "starting", "running", "stopping", "uncertain", "invalidated", "failed"}
Evidence == {"not_observed", "current", "invalidated"}
MaybeLaunch == Launch \cup {None}
MaybeRevision == Revision \cup {None}
Task == Call \cup Launch

\* The feedback of the feature, one item.
Feedback == [requested : BOOLEAN, applied : MaybeRevision, confirmed : MaybeRevision]
NoFeedback == [requested |-> FALSE, applied |-> None, confirmed |-> None]

Entry == [state : State, evidence : Evidence, process : MaybeLaunch, unverified : MaybeLaunch,
          rev : Revision, item : Feedback, stopping : Call \cup {None}]

RecordKind == {"request", "started", "verified", "invalidated", "uncertain", "stopped",
               "requested", "applied", "confirmed"}
Record == [kind : RecordKind, rev : MaybeRevision, of : MaybeLaunch]

\* Where a task is: it awaits the host, the journal, or a deadline.
Place == {"idle", "inspect", "group", "leader", "identity", "launch", "verify", "mistaken", "begin",
          "term", "wait", "check", "wait killed", "refresh", "applied", "end"}
Op == {"launch", "refresh", "restart", "reconcile", "stop", "apply", "exit", "none"}
Seen == {"present", "absent", "unknown", None}
TaskState == [op : Op, pc : Place, p : MaybeLaunch, own : MaybeLaunch, seen : Seen,
              rev : MaybeRevision]
Idle == [op |-> "none", pc |-> "idle", p |-> None, own |-> None, seen |-> None,
         rev |-> None]

Saved == [process : MaybeLaunch, unverified : MaybeLaunch,
          mark : {"started", "verified", "invalidated", "uncertain", "stopped"},
          rev : MaybeRevision, item : Feedback]

TypeOK ==
    /\ up \in BOOLEAN
    /\ entry \in Entry
    /\ task \in [Task -> TaskState]
    /\ writes \in Seq([by : Task, record : Record])
    /\ saved \in Saved
    /\ proc \in [Launch -> {"none", "alive", "leaderless", "gone"}]
    /\ built \in [Launch -> MaybeRevision]
    /\ inputs \in Nat
    /\ witness \in MaybeLaunch
    \* A call that awaits an identity or an exit knows whose.
    /\ \A t \in Task : task[t].pc \in {"inspect", "group", "leader", "identity", "term", "wait",
                                       "check", "wait killed"} => task[t].p # None

-----------------------------------------------------------------------------
\* The journal and #hydrate

Rec(kind, rev, of) == [kind |-> kind, rev |-> rev, of |-> of]

Fold(s, w) ==
    CASE w.kind = "started" -> [s EXCEPT !.process = w.of, !.mark = "started", !.rev = w.rev]
      [] w.kind \in {"verified", "invalidated"} /\ s.process # None
             -> [s EXCEPT !.mark = w.kind, !.rev = w.rev]
      [] w.kind = "uncertain"
             -> [s EXCEPT !.mark = "uncertain",
                          !.unverified = IF s.process = None /\ w.of # None THEN w.of ELSE @]
      [] w.kind = "stopped" -> [s EXCEPT !.process = None, !.unverified = None, !.mark = "stopped"]
      [] w.kind = "requested" -> [s EXCEPT !.item = [NoFeedback EXCEPT !.requested = TRUE]]
      [] w.kind = "applied" /\ s.item.requested -> [s EXCEPT !.item.applied = w.rev]
      [] w.kind = "confirmed" /\ s.item.requested -> [s EXCEPT !.item.confirmed = w.rev]
      [] OTHER -> s

HydratedState(r) ==
    CASE saved.mark = "started" -> IF saved.rev = r THEN "uncertain" ELSE "invalidated"
      [] saved.mark = "verified" -> IF saved.rev = r THEN "running" ELSE "invalidated"
      [] OTHER -> saved.mark

HydratedEvidence(r) ==
    CASE saved.mark = "started" -> IF saved.rev = r THEN "not_observed" ELSE "invalidated"
      [] saved.mark = "verified" -> IF saved.rev = r THEN "current" ELSE "invalidated"
      [] saved.mark = "uncertain" -> IF saved.process = None THEN "not_observed" ELSE "invalidated"
      [] saved.mark = "invalidated" -> "invalidated"
      [] OTHER -> "not_observed"

Hydrated(r) == [state |-> HydratedState(r), evidence |-> HydratedEvidence(r),
                process |-> saved.process, unverified |-> saved.unverified,
                rev |-> r, item |-> saved.item, stopping |-> None]

\* The preview is registered: nothing of it runs, and its feedback may have been
\* requested and applied before (which counts as one call).
EarlierFeedback ==
    {NoFeedback} \cup [requested : {TRUE}, applied : Revision, confirmed : {None}]

Init ==
    /\ \E item \in EarlierFeedback :
          saved = [process |-> None, unverified |-> None, mark |-> "stopped", rev |-> None,
                   item |-> item]
    /\ up = TRUE
    /\ entry = Hydrated(CHOOSE r \in Revision : TRUE)
    /\ task = [t \in Task |-> Idle]
    /\ writes = <<>>
    /\ proc = [l \in Launch |-> "none"] /\ built = [l \in Launch |-> None]
    /\ inputs = IF saved.item.requested THEN 1 ELSE 0
    /\ witness = None

-----------------------------------------------------------------------------
\* How a task goes on

Awaits(t) == \E i \in DOMAIN writes : writes[i].by = t

\* A task goes on in the turn in which its record was written.
Written(t) == writes # <<>> /\ Head(writes).by = t
Queue(t) == IF Awaits(t) THEN Tail(writes) ELSE writes
Commit(t) == saved' = IF Awaits(t) THEN Fold(saved, Head(writes).record) ELSE saved

At(t, op, pc) == task[t].op = op /\ task[t].pc = pc

\* Slip (TypeOK): the identity to observe is read again when it is needed.
DoingForgetful(op, pc, p) == [Idle EXCEPT !.op = op, !.pc = pc, !.own = p]

Become(t, s) == task' = [task EXCEPT ![t] = s]
Doing(op, pc, p) == [Idle EXCEPT !.op = op, !.pc = pc, !.p = p, !.own = p]

\* #event: the record is handed over, and its task awaits it.
Event(t, kind, rev, of) ==
    writes' = Append(Queue(t), [by |-> t, record |-> Rec(kind, rev, of)])

\* The task is over.  A stop gives #stop's promise back.
Released(t, e) == IF e.stopping = t THEN [e EXCEPT !.stopping = None] ELSE e
Return(t) == Become(t, Idle) /\ entry' = Released(t, entry) /\ writes' = Queue(t)

\* The task is over when its last record is written.
Conclude(t, e, kind, of) ==
    /\ entry' = e
    /\ Event(t, kind, e.rev, of)
    /\ Become(t, Doing(task[t].op, "end", None))

Uncertain(t) == Conclude(t, [entry EXCEPT !.state = "uncertain"], "uncertain", None)

WithoutProcess(e) == [e EXCEPT !.state = "stopped", !.evidence = "not_observed",
                               !.process = None, !.unverified = None]

\* sameIdentity(entry.process, process)
Same(t) == entry.process = task[t].p

UncertainIfSame(t) == IF Same(t) THEN Uncertain(t) ELSE Return(t)

\* Slip (StoppedMeansGone): what was learned of one process concludes another.
StoppedAnyhow(t) == Conclude(t, WithoutProcess(entry), "stopped", None)

StoppedIfSame(t) == IF Same(t) THEN Conclude(t, WithoutProcess(entry), "stopped", None) ELSE Return(t)

\* start(), once nothing is known to run.
BeginLaunch(t) ==
    /\ entry' = [entry EXCEPT !.state = "starting", !.evidence = "not_observed"]
    /\ Event(t, "request", entry.rev, None)
    /\ Become(t, Doing("launch", "launch", None))

Refresh(t) ==
    IF entry.process # None /\ entry.state \in {"running", "invalidated"}
    THEN /\ Become(t, Doing("refresh", "inspect", entry.process))
         /\ entry' = entry /\ writes' = Queue(t)
    ELSE Return(t)

\* #identity of the process recorded now.
Identify(t) ==
    /\ Become(t, [task[t] EXCEPT !.pc = "identity", !.p = entry.process, !.seen = None])
    /\ entry' = entry /\ writes' = Queue(t)

Invalid(e) == [e EXCEPT !.state = "invalidated", !.evidence = "invalidated"]
Current(e) == [e EXCEPT !.state = "running", !.evidence = "current"]

-----------------------------------------------------------------------------
\* The host and the journal

Input == inputs < MaxInputs /\ inputs' = inputs + 1

Inspection(l) == IF proc[l] = "alive" THEN {"present"} ELSE {"absent"}

\* A group whose leader has gone is neither absent nor the recorded one.
GroupInspection(l) ==
    CASE proc[l] = "alive" -> {"present"}
      [] proc[l] = "leaderless" -> {"unknown"}
      [] OTHER -> {"absent"}

\* The identity command reaches the application of the launch, or another one
\* that runs at the same URL and reports its own nonce, or fails.
Answers(l) ==
    (IF proc[l] = "alive" THEN {"present"} ELSE {"unknown"})
        \cup (IF \E m \in Launch \ {l} : proc[m] = "alive" THEN {"absent"} ELSE {})

Outcomes(s) ==
    CASE s.pc = "inspect" -> Inspection(s.p)
      [] s.pc \in {"group", "leader"} -> GroupInspection(s.p)
      [] s.pc = "identity" -> Answers(s.p)
      [] OTHER -> {}

Probe(t) ==
    /\ task[t].seen = None
    /\ \E o \in Outcomes(task[t]) : Become(t, [task[t] EXCEPT !.seen = o])
    /\ UNCHANGED <<up, entry, journal, host, history>>

\* A probe fails, or the application does not answer yet.
ProbeFails(t) ==
    /\ task[t].seen = None /\ Outcomes(task[t]) # {}
    /\ Input
    /\ Become(t, [task[t] EXCEPT !.seen = "unknown"])
    /\ UNCHANGED <<up, entry, journal, host, witness>>

\* A preview ends by itself, by a signal, or at the bounds of its runner; its
\* children may outlive it.
Exit(l) ==
    /\ \/ proc[l] = "alive" /\ \E s \in {"leaderless", "gone"} : proc' = [proc EXCEPT ![l] = s]
       \/ proc[l] = "leaderless" /\ proc' = [proc EXCEPT ![l] = "gone"]
    /\ UNCHANGED <<up, entry, task, journal, built, history>>

\* The journal refuses a record: its task throws.
Refuse ==
    /\ Input /\ writes # <<>>
    /\ LET t == Head(writes).by IN
       /\ Become(t, Idle)
       /\ entry' = Released(t, entry)
    /\ writes' = Tail(writes)
    /\ UNCHANGED <<up, saved, host, witness>>

Finish(t) ==
    /\ task[t].pc = "end" /\ Written(t)
    /\ Return(t)
    /\ Commit(t)
    /\ UNCHANGED <<up, host, history>>

-----------------------------------------------------------------------------
\* start

\* Calls have no names: a new one takes some place that is free.
Free == {d \in Call : task[d] = Idle}

Called(c) ==
    /\ up /\ Input
    /\ Free # {} /\ c = CHOOSE d \in Free : TRUE
    /\ UNCHANGED <<up, saved, host, witness>>

\* The guards of start() for a state nobody has to observe first.
StartFromStopped(c) ==
    /\ Called(c)
    /\ entry.stopping = None
    /\ \/ entry.state \in {"stopped", "failed"}
       \/ /\ entry.state \in {"uncertain", "invalidated"}
          /\ entry.process = None /\ entry.unverified = None
    /\ BeginLaunch(c)

StartObserves(c) ==
    /\ Called(c)
    /\ entry.stopping = None /\ entry.state \in {"uncertain", "invalidated"}
    /\ \/ entry.process # None /\ Become(c, Doing("restart", "inspect", entry.process))
       \/ /\ entry.process = None /\ entry.unverified # None
          /\ Become(c, Doing("reconcile", "inspect", entry.unverified))
    /\ entry' = entry /\ writes' = Queue(c)

\* start() of a running preview, verify, and the poll.
Verify(c) ==
    /\ Called(c)
    /\ entry.process # None /\ entry.state \in {"running", "invalidated"}
    /\ Refresh(c)

-----------------------------------------------------------------------------
\* #launch

SpawnFails(t) ==
    /\ At(t, "launch", "launch") /\ Written(t)
    /\ entry' = [entry EXCEPT !.state = "failed"]
    /\ Become(t, Idle)
    /\ Commit(t) /\ writes' = Queue(t)
    /\ UNCHANGED <<up, host, history>>

Unused == {l \in Launch : proc[l] = "none"}

Spawn(t, l) ==
    /\ At(t, "launch", "launch") /\ Written(t)
    /\ Unused # {} /\ l = CHOOSE m \in Unused : TRUE
    /\ proc' = [proc EXCEPT ![l] = "alive"]
    /\ built' = [built EXCEPT ![l] = entry.rev]
    /\ entry' = [entry EXCEPT !.unverified = l]
    /\ Become(t, Doing("launch", "inspect", l))
    /\ Commit(t) /\ writes' = Queue(t)
    /\ UNCHANGED <<up, history>>

\* The pid is identified, or stays an unverified launch.
LaunchSeen(t) ==
    LET l == task[t].own IN
    /\ At(t, "launch", "inspect")
    /\ \/ /\ task[t].seen = "present"
          /\ entry' = [entry EXCEPT !.process = l, !.unverified = None]
          /\ Event(t, "started", entry.rev, l)
          /\ Become(t, [task[t] EXCEPT !.pc = "verify", !.seen = None])
       \/ /\ task[t].seen \in {"absent", "unknown"}
          /\ Conclude(t, [entry EXCEPT !.state = "uncertain", !.evidence = "not_observed"],
                      "uncertain", l)
    /\ Commit(t)
    /\ UNCHANGED <<up, host, history>>

\* The exit of the launch is listened to from here on.
LaunchVerify(t) ==
    LET l == task[t].own
        armed == [task EXCEPT ![l] = Doing("exit", "wait", l)] IN
    /\ At(t, "launch", "verify") /\ Written(t)
    /\ task' = [armed EXCEPT ![t] = IF entry.process = None THEN Idle
                                    ELSE [@ EXCEPT !.pc = "identity", !.p = entry.process]]
    /\ Commit(t) /\ writes' = Queue(t)
    /\ UNCHANGED <<up, entry, host, history>>

-----------------------------------------------------------------------------
\* #identity, and what its callers make of the answer

Verified(t) == task[t].seen = "present" /\ built[task[t].p] = entry.rev

\* An identity is verified: the state of the caller decides what it is worth.
IdentityVerified(t) ==
    /\ task[t].pc = "identity" /\ Same(t) /\ Verified(t)
    /\ IF \/ task[t].op = "launch" /\ entry.state = "starting" /\ task[t].p = task[t].own
          \/ task[t].op \in {"restart", "reconcile"}
       THEN Conclude(t, Current(entry), "verified", None)
       ELSE Return(t)
    /\ witness' = task[t].p
    /\ Commit(t)
    /\ UNCHANGED <<up, host, inputs>>

\* A command that fails is tried again; how often is left open.
IdentityRetried(t) ==
    /\ task[t].pc = "identity" /\ Same(t)
    /\ task[t].seen = "unknown"
    /\ Become(t, [task[t] EXCEPT !.seen = None])
    /\ UNCHANGED <<up, entry, journal, host, history>>

IdentityInvalid(t) ==
    /\ task[t].pc = "identity" /\ Same(t)
    /\ task[t].seen # None /\ ~Verified(t)
    /\ entry' = Invalid(entry)
    /\ Event(t, "invalidated", entry.rev, None)
    /\ Become(t, [task[t] EXCEPT !.pc = "mistaken", !.seen = None])
    /\ Commit(t)
    /\ UNCHANGED <<up, host, history>>

\* An unverified launch that does not answer is what it was before.
Unreconciled(t) ==
    Conclude(t, [entry EXCEPT !.process = None, !.unverified = task[t].own,
                              !.state = "uncertain", !.evidence = "not_observed"],
             "uncertain", task[t].own)

\* #identity returned false.
IdentityFails(t) ==
    /\ \/ task[t].pc = "identity" /\ task[t].seen # None /\ ~Same(t)
       \/ task[t].pc = "mistaken" /\ Written(t)
    /\ CASE task[t].op = "restart" -> UncertainIfSame(t)
         [] task[t].op = "reconcile" -> Unreconciled(t)
         [] OTHER -> Return(t)
    /\ Commit(t)
    /\ UNCHANGED <<up, host, history>>

-----------------------------------------------------------------------------
\* #observeForRestart

\* The recorded process was replaced meanwhile.
RestartReplaced(t) ==
    /\ task[t].op = "restart"
    /\ task[t].pc \in {"inspect", "leader"} /\ task[t].seen # None
    /\ ~Same(t)
    /\ IF entry.state = "stopped" THEN BeginLaunch(t) ELSE Return(t)
    /\ Commit(t)
    /\ UNCHANGED <<up, host, history>>

RestartSeen(t) ==
    /\ At(t, "restart", "inspect") /\ Same(t)
    /\ \/ /\ task[t].seen \in {"present", "absent"}
          /\ Become(t, [task[t] EXCEPT !.pc = IF task[t].seen = "present" THEN "leader" ELSE "group",
                                       !.seen = None])
          /\ entry' = entry /\ writes' = Queue(t)
       \/ task[t].seen = "unknown" /\ Uncertain(t)
    /\ Commit(t)
    /\ UNCHANGED <<up, host, history>>

RestartLeader(t) ==
    /\ At(t, "restart", "leader") /\ Same(t)
    /\ \/ task[t].seen = "present" /\ Identify(t)
       \/ task[t].seen \in {"absent", "unknown"} /\ Uncertain(t)
    /\ Commit(t)
    /\ UNCHANGED <<up, host, history>>

\* A group that has gone: the launch goes on whether or not #stopped did.
RestartGroup(t) ==
    /\ At(t, "restart", "group")
    /\ \/ /\ task[t].seen = "absent" /\ Same(t)
          /\ entry' = WithoutProcess(entry)
          /\ Event(t, "stopped", entry.rev, None)
          /\ Become(t, [task[t] EXCEPT !.pc = "begin", !.seen = None])
       \/ task[t].seen = "absent" /\ ~Same(t) /\ BeginLaunch(t)
       \/ task[t].seen = "unknown" /\ UncertainIfSame(t)
    /\ Commit(t)
    /\ UNCHANGED <<up, host, history>>

Restart(t) ==
    /\ task[t].pc = "begin" /\ Written(t)
    /\ BeginLaunch(t)
    /\ Commit(t)
    /\ UNCHANGED <<up, host, history>>

\* An unverified launch.
ReconcileSeen(t) ==
    LET l == task[t].own IN
    /\ At(t, "reconcile", "inspect")
    /\ \/ /\ task[t].seen = "present"
          /\ entry' = [entry EXCEPT !.process = l, !.unverified = None]
          /\ Become(t, [task[t] EXCEPT !.pc = "identity", !.seen = None])
          /\ writes' = writes
       \/ /\ task[t].seen = "absent"
          /\ Become(t, [task[t] EXCEPT !.pc = "group", !.seen = None])
          /\ entry' = entry /\ writes' = Queue(t)
       \/ /\ task[t].seen = "unknown"
          /\ Conclude(t, [entry EXCEPT !.state = "uncertain", !.evidence = "not_observed"],
                      "uncertain", l)
    /\ Commit(t)
    /\ UNCHANGED <<up, host, history>>

ReconcileGroup(t) ==
    /\ At(t, "reconcile", "group") /\ task[t].seen # None
    /\ IF task[t].seen = "absent" /\ entry.process = None /\ entry.unverified = task[t].own
       THEN /\ entry' = WithoutProcess(entry)
            /\ Event(t, "stopped", entry.rev, None)
            /\ Become(t, [task[t] EXCEPT !.pc = "begin", !.seen = None])
       ELSE Uncertain(t)
    /\ Commit(t)
    /\ UNCHANGED <<up, host, history>>

-----------------------------------------------------------------------------
\* stop

Stop(c) ==
    /\ Called(c)
    /\ entry.state \notin {"stopped", "failed"} /\ entry.stopping = None
    /\ \/ /\ entry.process = None
          /\ entry' = [entry EXCEPT !.state = "uncertain", !.stopping = c]
          /\ Event(c, "uncertain", entry.rev, None)
          /\ Become(c, Doing("stop", "end", None))
       \/ /\ entry.process # None
          /\ entry' = [entry EXCEPT !.stopping = c]
          /\ Become(c, Doing("stop", "inspect", entry.process))
          /\ writes' = writes

StopSeen(t) ==
    /\ At(t, "stop", "inspect") /\ task[t].seen # None
    /\ CASE ~Same(t) -> Return(t)
         [] Same(t) /\ task[t].seen = "present" ->
              /\ entry' = [entry EXCEPT !.state = "stopping"]
              /\ Event(t, "request", entry.rev, None)
              /\ Become(t, [task[t] EXCEPT !.pc = "term", !.seen = None])
         [] Same(t) /\ task[t].seen = "absent" ->
              /\ Become(t, [task[t] EXCEPT !.pc = "group", !.seen = None])
              /\ entry' = entry /\ writes' = Queue(t)
         [] OTHER -> Uncertain(t)
    /\ Commit(t)
    /\ UNCHANGED <<up, host, history>>

StopTerm(t) ==
    /\ At(t, "stop", "term") /\ Written(t)
    /\ CASE ~Same(t) -> Return(t)
         [] Same(t) /\ proc[task[t].p] = "gone" -> Uncertain(t)
         [] OTHER -> /\ Become(t, [task[t] EXCEPT !.pc = "wait"])
                     /\ entry' = entry /\ writes' = Queue(t)
    /\ Commit(t)
    /\ UNCHANGED <<up, host, history>>

\* #waitForExit finds leader and group gone, or another process recorded ...
StopWaited(t) ==
    /\ task[t].op = "stop" /\ task[t].pc \in {"wait", "wait killed"}
    /\ ~Same(t) \/ proc[task[t].p] = "gone"
    /\ StoppedIfSame(t)
    /\ Commit(t)
    /\ UNCHANGED <<up, host, history>>

\* ... or the time is over.
StopTimesOut(t) ==
    /\ task[t].op = "stop" /\ Same(t)
    /\ \/ /\ task[t].pc = "wait"
          /\ Become(t, [task[t] EXCEPT !.pc = "check"])
          /\ entry' = entry /\ writes' = Queue(t)
       \/ task[t].pc = "wait killed" /\ Uncertain(t)
    /\ Commit(t)
    /\ UNCHANGED <<up, host, history>>

\* #maySignalGroup, and SIGKILL at once.
StopKill(t) ==
    /\ At(t, "stop", "check") /\ Same(t) /\ proc[task[t].p] = "alive"
    /\ Become(t, [task[t] EXCEPT !.pc = "wait killed"])
    /\ UNCHANGED <<up, entry, journal, host, history>>

StopMayNot(t) ==
    /\ At(t, "stop", "check")
    /\ UncertainIfSame(t)
    /\ Commit(t)
    /\ UNCHANGED <<up, host, history>>

-----------------------------------------------------------------------------
\* #refresh, #observedExit, and the group inspection they share with #stop

RefreshSeen(t) ==
    /\ At(t, "refresh", "inspect") /\ task[t].seen # None
    /\ CASE ~Same(t) -> Return(t)
         [] Same(t) /\ task[t].seen = "absent" ->
              /\ Become(t, [task[t] EXCEPT !.pc = "group", !.seen = None])
              /\ entry' = entry /\ writes' = Queue(t)
         [] Same(t) /\ task[t].seen = "present" ->
              IF entry.state = "running" THEN Identify(t) ELSE Return(t)
         [] OTHER -> Conclude(t, [entry EXCEPT !.evidence = "invalidated", !.state = "uncertain"],
                              "uncertain", None)
    /\ Commit(t)
    /\ UNCHANGED <<up, host, history>>

ExitHeard(l) ==
    /\ At(l, "exit", "wait") /\ proc[l] # "alive"
    /\ IF entry.process = l /\ entry.state # "stopped"
       THEN Become(l, [task[l] EXCEPT !.pc = "inspect"])
       ELSE Become(l, Idle)
    /\ UNCHANGED <<up, entry, journal, host, history>>

ExitSeen(l) ==
    /\ At(l, "exit", "inspect") /\ task[l].seen # None
    /\ IF Same(l) /\ task[l].seen = "absent"
       THEN Become(l, [task[l] EXCEPT !.pc = "group", !.seen = None])
       ELSE Become(l, Idle)
    /\ UNCHANGED <<up, entry, journal, host, history>>

\* The leader has gone: is the group?
GroupSeen(t) ==
    /\ task[t].op \in {"stop", "refresh", "exit"} /\ task[t].pc = "group"
    /\ \/ task[t].seen = "absent" /\ StoppedIfSame(t)
       \/ task[t].seen = "unknown" /\ UncertainIfSame(t)
    /\ Commit(t)
    /\ UNCHANGED <<up, host, history>>

-----------------------------------------------------------------------------
\* register, and feedback

\* Slip (ReviewRestsOnAnswer): the evidence outlives the candidate it was for.
UpdateKeepsEvidence(c, r) ==
    /\ Called(c)
    /\ r # entry.rev
    /\ entry' = [entry EXCEPT !.rev = r]
    /\ UNCHANGED <<task, writes>>

\* A candidate update of an active preview, which is then observed.
Update(c, r) ==
    /\ Called(c)
    /\ r # entry.rev
    /\ \/ /\ entry.state \in {"stopped", "failed"}
          /\ entry' = [entry EXCEPT !.rev = r, !.evidence = "not_observed"]
          /\ UNCHANGED <<task, writes>>
       \/ /\ entry.state \notin {"stopped", "failed"}
          /\ entry' = Invalid([entry EXCEPT !.rev = r])
          /\ Event(c, "invalidated", r, None)
          /\ Become(c, Doing("refresh", "refresh", None))

UpdateObserves(t) ==
    /\ task[t].pc = "refresh" /\ Written(t)
    /\ Refresh(t)
    /\ Commit(t)
    /\ UNCHANGED <<up, host, history>>

RequestFeedback(c) ==
    /\ Called(c)
    /\ ~entry.item.requested
    /\ Conclude(c, [entry EXCEPT !.item.requested = TRUE], "requested", None)

ApplyFeedback(c, r) ==
    /\ Called(c)
    /\ entry.item.requested /\ entry.item.applied = None
    /\ entry' = [entry EXCEPT !.item.applied = r]
    /\ Event(c, "applied", r, None)
    /\ Become(c, [Doing("apply", "applied", None) EXCEPT !.rev = r])

FeedbackApplied(t) ==
    /\ task[t].pc = "applied" /\ Written(t)
    /\ IF task[t].rev # entry.rev THEN Conclude(t, Invalid(entry), "invalidated", None)
       ELSE Return(t)
    /\ Commit(t)
    /\ UNCHANGED <<up, host, history>>

ConfirmFeedback(c, r) ==
    /\ Called(c)
    /\ entry.item.applied = r /\ entry.item.confirmed = None
    /\ entry' = [entry EXCEPT !.item.confirmed = r]
    /\ Event(c, "confirmed", r, None)
    /\ Become(c, Doing("apply", "end", None))

-----------------------------------------------------------------------------
\* The Console stops without notice; its previews go on.

Crash ==
    /\ up /\ Input
    /\ up' = FALSE
    /\ task' = [t \in Task |-> Idle] /\ writes' = <<>>
    /\ UNCHANGED <<entry, saved, host, witness>>

\* The registered revision is the configuration's.
Register(r) ==
    /\ ~up /\ up' = TRUE
    /\ entry' = Hydrated(r)
    /\ UNCHANGED <<task, journal, host, history>>

CallStep(c) ==
    \/ StartFromStopped(c) \/ StartObserves(c) \/ Verify(c) \/ Stop(c) \/ RequestFeedback(c)
    \/ \E r \in Revision : Update(c, r) \/ ApplyFeedback(c, r) \/ ConfirmFeedback(c, r)

LaunchStep(t) == SpawnFails(t) \/ (\E l \in Launch : Spawn(t, l)) \/ LaunchSeen(t) \/ LaunchVerify(t)
IdentityStep(t) == IdentityVerified(t) \/ IdentityRetried(t) \/ IdentityInvalid(t) \/ IdentityFails(t)
RestartStep(t) ==
    \/ RestartReplaced(t) \/ RestartSeen(t) \/ RestartLeader(t) \/ RestartGroup(t)
    \/ Restart(t) \/ ReconcileSeen(t) \/ ReconcileGroup(t)
StopStep(t) ==
    StopSeen(t) \/ StopTerm(t) \/ StopWaited(t) \/ StopTimesOut(t) \/ StopKill(t) \/ StopMayNot(t)
ObserveStep(t) ==
    \/ RefreshSeen(t) \/ UpdateObserves(t) \/ FeedbackApplied(t)
    \/ GroupSeen(t) \/ Probe(t) \/ ProbeFails(t) \/ Finish(t)
ExitStep(l) == ExitHeard(l) \/ ExitSeen(l)

TaskStep(t) ==
    LaunchStep(t) \/ IdentityStep(t) \/ RestartStep(t) \/ StopStep(t) \/ ObserveStep(t)

Next ==
    \/ \E c \in Call : CallStep(c)
    \/ \E t \in Task : TaskStep(t)
    \/ \E l \in Launch : ExitStep(l) \/ Exit(l)
    \/ Refuse \/ Crash
    \/ \E r \in Revision : Register(r)

Spec == Init /\ [][Next]_vars

-----------------------------------------------------------------------------
\* Properties

Running == {l \in Launch : proc[l] # "none" /\ proc[l] # "gone"}

\* However commands, the poll, exits and a restart of the Console interleave, at
\* most one process group of the preview lives.
OneProcess == \A l, m \in Running : l = m

\* #finalReviewReady (the record preview.final-review.ready is left out).
FinalReviewReady ==
    /\ entry.evidence = "current" /\ entry.state = "running"
    /\ entry.item.requested => /\ entry.item.confirmed = entry.item.applied
                               /\ entry.item.confirmed = entry.rev

\* Where the final review is ready, the last application that answered ran the
\* registered revision: no candidate update, feedback, stale answer or restart
\* leaves it ready on evidence for another one.
ReviewRestsOnAnswer ==
    up /\ FinalReviewReady => witness # None /\ built[witness] = entry.rev

\* A preview with a recorded process becomes "stopped" only when the whole
\* process group is gone, children without their leader included.
StoppedMeansGone ==
    [][\A l \in Launch : up /\ up' /\ entry.process = l /\ entry'.process = None
            /\ entry'.state = "stopped" => proc[l] = "gone"]_vars
=============================================================================
