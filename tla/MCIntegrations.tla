--------------------------- MODULE MCIntegrations ---------------------------
(* The life of a run, and, one part at a time, what is around it: the       *)
(* supervisor of native tasks, a turn over the Cursor transport, the        *)
(* synchronization of a delivery, or the general manager in either mode.    *)
EXTENDS RunLifecycle

CONSTANTS r1, r2, h1, h2

VARIABLES
    part,
    records, outcome, revoked, task, call, cancel, turns, ended, closed, troubles, changes,
    status, pull, green, packet, intents, resolved, attempt, posts, since,
    failures, finding, proposals, seen, poll, diagnoses,
    fact, concern, refresh, day, attempts, review, reviews,
    slot, turn, worker, conn, inbound

tasking == <<records, outcome, task, call, cancel, turns, ended, closed>>
supervision == <<tasking, revoked, troubles, changes>>
moving == <<status, pull, green, packet, intents, resolved, attempt, posts, since>>
managing == <<failures, finding, proposals, seen, poll, diagnoses, fact, concern, refresh, day, attempts, review, reviews>>

connecting == <<slot, turn, worker, conn, inbound>>

-----------------------------------------------------------------------------
OneRun == {r1}
OneToken == [r \in Runs |-> 1]

Two == {r1, r2}

\* A run, and one that takes up its task while others work on it too.
Resumed == INSTANCE TaskSupervisor WITH
    Run <- Two, Source <- [r \in Two |-> IF r = r2 THEN r1 ELSE None],
    MaxTroubles <- 1, MaxChanges <- 1

\* Two runs with tasks of their own, under one profile.
Beside == INSTANCE TaskSupervisor WITH
    Run <- Two, Source <- [r \in Two |-> None],
    MaxTroubles <- 1, MaxChanges <- 0

\* A ticket and its pull request, under three packets, the second for the ticket as people
\* have moved it, and the third for the merge, under another run.
Signed(reviewed, deployed, move, run) ==
    [reviewed |-> reviewed, deployed |-> deployed, accepted |-> None, signed |-> move, run |-> run]
TheMove(from, to, kind) == [from |-> from, to |-> to, kind |-> kind, of |-> h1]
OpenPacket == Signed({h1}, None, TheMove("open", "ready", "head"), 1)

Moving == INSTANCE DeliverySync WITH
    Heads <- {h1, h2}, Human <- {"open", "review", "held"}, Protected <- {"held"},
    Packets <- {OpenPacket, Signed({h1}, None, TheMove("review", "ready", "head"), 1),
                Signed({h1}, h1, TheMove("ready", "deployed", "merge"), 2)},
    MaxTroubles <- 1, MaxChanges <- 2

\* The general manager told of failed turns, of two subjects.
Watching == INSTANCE FactoryGM WITH
    Mode <- "event", Subjects <- {"one", "two"}, Facts <- {"broken"}, Refreshers <- {1, 2}, Asked <- {},
    MaxFailures <- 4, MaxDays <- 1, MaxChanges <- 2, MaxTroubles <- 2

\* And the one that reviews what is observed, over two days.
Reviewing == INSTANCE FactoryGM WITH
    Mode <- "nightly", Subjects <- {"one", "two"}, Facts <- {"broken"}, Refreshers <- {1, 2}, Asked <- {},
    MaxFailures <- 4, MaxDays <- 1, MaxChanges <- 2, MaxTroubles <- 1

\* A turn over the Cursor transport.
Turning == INSTANCE CursorTurn WITH Run <- {1}, MaxSent <- 0, MaxTroubles <- 1

ASSUME Turning!TurnAssumption
ASSUME Watching!GMAssumption /\ Reviewing!GMAssumption
ASSUME Resumed!SupervisorAssumption /\ Beside!SupervisorAssumption /\ Moving!SyncAssumption

-----------------------------------------------------------------------------
Supervisions == {"resumed", "beside"}

AroundInit ==
    /\ part \in {"run", "moving", "watching", "reviewing", "turning"} \cup Supervisions
    /\ Init /\ Resumed!Init /\ Moving!Init /\ Reviewing!Init /\ Turning!Init
    /\ part # "moving" => <<status, pull.head, green, packet>> = <<"open", h1, {}, OpenPacket>>
    /\ part # "reviewing" => fact = None

AroundNext ==
    /\ UNCHANGED part
    /\ \/ part = "run" /\ Next /\ UNCHANGED <<supervision, moving, managing, connecting>>
       \/ /\ \/ part = "resumed" /\ Resumed!Next
             \/ part = "beside" /\ Beside!Next
          /\ UNCHANGED <<vars, moving, managing, connecting>>
       \/ /\ part = "moving" /\ Moving!Next
          /\ UNCHANGED <<vars, managing, tasking, connecting>>
       \/ /\ \/ part = "watching" /\ Watching!Next
             \/ part = "reviewing" /\ Reviewing!Next
          /\ UNCHANGED <<vars, moving, revoked, tasking, connecting>>
       \/ /\ part = "turning" /\ Turning!Next
          /\ UNCHANGED <<vars, moving, managing, tasking, revoked, changes>>

around == <<part, vars, supervision, moving, managing, connecting>>
connected == <<connecting, troubles>>
managed == <<managing, changes, troubles>>

\* The fairness of a run's life is that of RunLifecycle; the general manager and the turn over
\* the Cursor transport have their own.
AroundSpec ==
    /\ AroundInit /\ [][AroundNext]_around
    /\ WF_vars(Commit)
    /\ \A r \in Runs :
        /\ WF_vars(Launch(r) \/ LaunchFails(r)) /\ WF_vars(Identify(r) \/ LaunchFails(r))
        /\ WF_vars(ReportWorker(r)) /\ WF_vars(Started(r)) /\ WF_vars(Complete(r))
        /\ WF_vars(Finalize(r)) /\ WF_vars(Settle(r)) /\ WF_vars(DeliveryReturns(r))
        /\ WF_vars(LimitFires(r)) /\ WF_vars(IntendTermination(r))
        /\ WF_vars(Prepare(r) \/ AttemptFails(r)) /\ WF_vars(Signal(r) \/ ExitConfirmed(r))
        /\ WF_vars(ExitConfirmed(r) \/ AttemptFails(r)) /\ WF_vars(CancelReturns(r))
        /\ \A who \in {"turn", "owner"} : WF_vars(ObservationStep(r, who))
    /\ WF_connected(part = "turning" /\ Turning!Advance(1))
    /\ \A i \in {1, 2} : WF_managed(part = "reviewing" /\ Reviewing!RefreshStep(i))

\* The life of a run alone.
SettlingSpec == part = "run" /\ AroundSpec

-----------------------------------------------------------------------------
(***************************************************************************)
(* Native tasks.  One turn is requested for a run, whatever fails or ends; *)
(* a profile has one turn out at a time, whose end it knows before the     *)
(* next; an active goal of the factory's belongs to a run in hand; a run   *)
(* is completed only by a turn that was, before the run was revoked; and a *)
(* turn is interrupted only behind the revocation of its run.              *)
(***************************************************************************)
TasksSafe ==
    /\ [](part \in Supervisions =>
             Beside!TurnOnce /\ Beside!OneUnresolved /\ Beside!GoalHeld /\ Beside!CompletedInTime)
    /\ Beside!RevokedFirst

(***************************************************************************)
(* Deliveries and findings.  A move is requested of Jira at most once,     *)
(* over failures, restarts and new packets; it rests on what was so at     *)
(* some moment of the last look or after it; a run that is revoked when    *)
(* the last look begins moves nothing, nor does one with another move that *)
(* nobody knows the end of.  A finding counts each failure once and is     *)
(* diagnosed once; a model is asked once for the review of a day, which is *)
(* skipped only behind one that was completed on the same.                 *)
(***************************************************************************)
MovesSafe ==
    /\ [](/\ part = "moving" => Moving!MovedOnce
          /\ part = "watching" => Watching!CountedOnce
          /\ part = "reviewing" => Reviewing!ReviewedOnce /\ Reviewing!SkippedUnchanged)
    /\ Moving!MovedOnSight /\ Moving!AuthorityStands /\ Moving!UnresolvedHolds

(***************************************************************************)
(* What is begun ends: a delivery that was accepted, a cancellation that   *)
(* was asked for, a turn over the transport; and a finding comes to say    *)
(* what is observed.                                                       *)
(***************************************************************************)
AllEnds == DeliveriesEnd /\ CancelsAnswered /\ Turning!TurnEnds /\ Reviewing!FindingsSettle
=============================================================================
