--------------------------- MODULE RunLifecycle ---------------------------
(***************************************************************************)
(* One factory's coordinator at work: runs are admitted                    *)
(* (src/runtime/coordinator.ts), each is delivered to a worker process     *)
(* (src/runtime/delivery.ts, src/execution/transports.ts), a worker is     *)
(* terminated for the owner or for its time limit                          *)
(* (src/runtime/cancellation.ts, src/console/startup.ts), and a restarted  *)
(* coordinator accounts for what it finds.  The coordinator is one         *)
(* process of interleaved callbacks: an action below is what runs between  *)
(* two awaits.  Every decision reads the committed ledger, every effect is *)
(* a record that waits its turn in the journal's queue, and worker         *)
(* processes outlive the coordinator.                                      *)
(*                                                                         *)
(* The journal (Journal) and its ownership (CoordinatorLock) are taken as  *)
(* they are promised: appends are durable and in order, nobody else writes.*)
(* provider.event and usage.observed records change no snapshot and are    *)
(* left out; one cancel request per run is open at a time.                 *)
(***************************************************************************)
EXTENDS RunLedger, Integers, Sequences, FiniteSetsExt

CONSTANTS
    Runs,
    MaxRuns,      \* limits.maxConcurrentRuns
    Tokens,       \* the token estimate of each run
    MaxTokens,    \* limits.maxTokens
    ExitOutcome,  \* what a worker that ends by itself may report
    Limited,      \* a turn's time limit can fire
    ExitUsage,      \* what that report says of its usage (usageStatus)
    InterruptUsage, \* and what an interrupted turn's report says
    MaxOutages    \* bound: crashes and restores

Usage == {"consumed", "uncertain"}

ASSUME LifecycleAssumption ==
    /\ None \notin Outcome \cup TerminationReason \cup Operation
    /\ IsFiniteSet(Runs)
    /\ MaxRuns \in Nat /\ MaxTokens \in Nat /\ MaxOutages \in Nat
    /\ Tokens \in [Runs -> Nat]
    /\ ExitOutcome \subseteq Outcome \ {"cancelled"}
    /\ Limited \in BOOLEAN
    /\ ExitUsage \subseteq Usage /\ InterruptUsage \subseteq Usage

VARIABLES
    ledger,    \* what the committed journal says of each run
    inflight,  \* records handed to the journal and not yet written
    proc,      \* each run's worker process
    host,      \* what the coordinator's callbacks remember of each run
    up,        \* the coordinator: down, recovering or up
    todo,      \* runs that recover() still has to record
    outages,
    spawns,    \* history: worker processes started for each run
    signalled  \* history: the run's started worker was sent a signal

vars == <<ledger, inflight, proc, host, up, todo, outages, spawns, signalled>>

\* A process whose exit came before anyone listened for it is "lost".
Proc == {"none", "alive", "exited", "lost"}

Delivering == {"intent", "spawned", "receipt", "starting", "running", "failing",
               "closing", "final", "release"}
Observing == {"observe", "observing", "observed", "reserving"}
Turn == {"idle"} \cup Delivering \cup Observing
Cancel == {"idle", "cancelling", "joining", "authorized", "awaiting"} \cup Observing
Termination == {"none", "revoking", "intending", "signal", "waiting", "over"}

Host == [turn : Turn, final : Outcome \cup {None}, usage : Usage,
         limit : {"none", "firing", "done"}, \* requestTermination of the command runner
         term : Termination, reason : TerminationReason \cup {None}, \* terminateActive
         cancelled : BOOLEAN,                \* active.cancelled
         owner : Cancel,                     \* cancelRun
         prepared : TerminationReason \cup {None},
         taken : TerminationReason \cup {None}] \* the preparation being observed

FreshHost == [turn |-> "idle", final |-> None, usage |-> "uncertain", limit |-> "none",
              term |-> "none", reason |-> None, cancelled |-> FALSE, owner |-> "idle",
              prepared |-> None, taken |-> None]

Actor == {"admit", "turn", "term", "owner", "recover"}
Kind == {"run.admitted", "effect.intended", "effect.receipt", "worker.started",
         "authority.revoked", "worker.termination.intended", "worker.termination.observed",
         "effect.unresolved", "provider.final", "reservation.released"}
WriteField == [by : Actor, run : Runs, kind : Kind, op : Operation \cup {None},
               arg : Outcome \cup Usage \cup {None}]

\* A record carries what its kind needs.
Write == {e \in WriteField :
    /\ e.kind \in {"effect.intended", "effect.receipt"} => e.op = "turn"
    /\ e.kind \in {"worker.termination.intended", "worker.termination.observed"}
           => e.op \in TerminationReason
    /\ e.kind = "provider.final" => e.arg \in Outcome
    /\ e.kind = "reservation.released" => e.arg \in Usage}

Record(by, r, kind, op, arg) ==
    inflight' = Append(inflight, [by |-> by, run |-> r, kind |-> kind, op |-> op, arg |-> arg])

Unwritten == {inflight[i] : i \in DOMAIN inflight}

\* The actor awaits a record of its own.
Awaits(by, r) == \E e \in Unwritten : e.by = by /\ e.run = r

\* Whoever observes a termination, attempts one, or has a result to record
\* knows which.
HostKnown == \A r \in Runs :
    /\ "observing" \in {host[r].turn, host[r].owner} => host[r].taken # None
    /\ host[r].term \notin {"none", "over"} => host[r].reason # None
    /\ host[r].turn = "closing" => host[r].final # None

TypeOK ==
    /\ ledger \in [Runs -> Snapshot]
    /\ inflight \in Seq(Write)
    /\ proc \in [Runs -> Proc]
    /\ host \in [Runs -> Host]
    /\ up \in {"down", "recovering", "up"}
    /\ todo \subseteq Runs
    /\ outages \in Nat
    /\ spawns \in [Runs -> Nat]
    /\ signalled \in [Runs -> BOOLEAN]
    /\ HostKnown

Init ==
    /\ ledger = [r \in Runs |-> AbsentRun]
    /\ inflight = <<>>
    /\ proc = [r \in Runs |-> "none"]
    /\ host = [r \in Runs |-> FreshHost]
    /\ up = "up" /\ todo = {}
    /\ outages = 0
    /\ spawns = [r \in Runs |-> 0]
    /\ signalled = [r \in Runs |-> FALSE]

history == <<spawns, signalled>>
process == <<up, todo, outages>>

SetHost(r, h) == host' = [host EXCEPT ![r] = h]

-----------------------------------------------------------------------------
\* The journal: records are written in the order they were issued.
Commit ==
    /\ inflight # <<>>
    /\ LET e == Head(inflight)
       IN ledger' = [ledger EXCEPT ![e.run] = Apply(@, e)]
    /\ inflight' = Tail(inflight)
    /\ UNCHANGED <<proc, host, process, history>>

-----------------------------------------------------------------------------
\* Admission: one at a time, on the tail of #admissionTail.

Admitting == \E r \in Runs : Awaits("admit", r)
RecoveryPending == \E r \in Runs : ledger[r].recovery
Occupied == {r \in Runs : Occupies(ledger[r])}
Reserved == MapThenSumSet(LAMBDA r : Tokens[r], {r \in Runs : HoldsTokens(ledger[r])})

\* Slip (TokensWithinLimit): the check leaves out the run's own estimate.
AdmitUncounted(r) ==
    /\ up = "up" /\ ~Admitting
    /\ ~RecoveryPending
    /\ ~Admitted(ledger[r])
    /\ Cardinality(Occupied) < MaxRuns
    /\ MaxTokens > 0 => Reserved <= MaxTokens
    /\ Record("admit", r, "run.admitted", None, None)
    /\ UNCHANGED <<ledger, proc, host, process, history>>

Admit(r) ==
    /\ up = "up" /\ ~Admitting
    /\ ~RecoveryPending
    /\ ~Admitted(ledger[r])
    /\ Cardinality(Occupied) < MaxRuns
    /\ MaxTokens > 0 => Reserved + Tokens[r] <= MaxTokens
    /\ Record("admit", r, "run.admitted", None, None)
    /\ UNCHANGED <<ledger, proc, host, process, history>>

-----------------------------------------------------------------------------
\* Delivery of an admitted run.  An owner who starts a run twice is answered
\* with the run that exists, which is delivered again.

MayDeliver(r) ==
    /\ up = "up"
    /\ host[r].turn = "idle"
    /\ Admitted(ledger[r]) /\ ~RecoveryPending

\* Slip (OneLaunch): only an operation without a receipt counts as a prior one.
DeliveredUnresolved(r) == "turn" \in ledger[r].unresolved

\* priorDelivery: the turn's operation was recorded before.
Delivered(r) == "turn" \in ledger[r].intended

Deliver(r) ==
    /\ MayDeliver(r)
    /\ ~Delivered(r)
    /\ ~IsTerminal(ledger[r]) /\ ~ledger[r].revoked
    /\ Record("turn", r, "effect.intended", "turn", None)
    /\ SetHost(r, [host[r] EXCEPT !.turn = "intent"])
    /\ UNCHANGED <<ledger, proc, process, history>>

Replay(r) ==
    /\ MayDeliver(r)
    /\ Delivered(r) /\ ledger[r].result # None
    /\ SetHost(r, [host[r] EXCEPT !.turn = "observe"])
    /\ UNCHANGED <<ledger, inflight, proc, process, history>>

At(r, place) == host[r].turn = place /\ ~Awaits("turn", r)

Launch(r) ==
    /\ At(r, "intent")
    /\ proc' = [proc EXCEPT ![r] = "alive"]
    /\ spawns' = [spawns EXCEPT ![r] = @ + 1]
    /\ SetHost(r, [host[r] EXCEPT !.turn = "spawned"])
    /\ UNCHANGED <<ledger, inflight, process, signalled>>

\* No worker to report: the process was not spawned, or could not be
\* identified (it is sent SIGTERM and left).
LaunchFails(r) ==
    /\ At(r, "intent") \/ At(r, "spawned")
    /\ Record("turn", r, "effect.receipt", "turn", None)
    /\ SetHost(r, [host[r] EXCEPT !.turn = "failing"])
    /\ UNCHANGED <<ledger, proc, process, history>>

Identify(r) ==
    /\ At(r, "spawned")
    /\ proc[r] = "alive"
    /\ Record("turn", r, "effect.receipt", "turn", None)
    /\ SetHost(r, [host[r] EXCEPT !.turn = "receipt"])
    /\ UNCHANGED <<ledger, proc, process, history>>

ReportWorker(r) ==
    /\ At(r, "receipt")
    /\ Record("turn", r, "worker.started", None, None)
    /\ SetHost(r, [host[r] EXCEPT !.turn = "starting"])
    /\ UNCHANGED <<ledger, proc, process, history>>

\* onLaunched returned: the runner now listens for the exit and the limit runs.
Started(r) ==
    /\ At(r, "starting")
    /\ SetHost(r, [host[r] EXCEPT !.turn = "running"])
    /\ UNCHANGED <<ledger, inflight, proc, process, history>>

\* The command runner resolves; run() forgets the worker and tells what happened.
Interrupted(r) == host[r].cancelled \/ host[r].limit = "done"

Complete(r) ==
    /\ At(r, "running")
    /\ host[r].limit # "firing"
    /\ proc[r] = "exited" \/ host[r].limit = "done"
    /\ \E outcome \in (IF Interrupted(r) THEN {"interrupted_uncertain"} ELSE ExitOutcome),
          usage \in (IF Interrupted(r) THEN InterruptUsage ELSE ExitUsage) :
          SetHost(r, [host[r] EXCEPT !.turn = "closing", !.final = outcome, !.usage = usage,
                                     !.cancelled = FALSE, !.limit = "none",
                                     !.term = IF @ = "over" THEN "none" ELSE @])
    /\ UNCHANGED <<ledger, inflight, proc, process, history>>

Finalize(r) ==
    /\ At(r, "closing") \/ At(r, "failing")
    /\ Record("turn", r, "provider.final", None,
              IF host[r].turn = "failing" THEN "interrupted_uncertain" ELSE host[r].final)
    /\ SetHost(r, [host[r] EXCEPT !.turn = "final", !.final = None])
    /\ UNCHANGED <<ledger, proc, process, history>>

Settle(r) ==
    /\ At(r, "final")
    /\ Record("turn", r, "reservation.released", None, host[r].usage)
    /\ SetHost(r, [host[r] EXCEPT !.turn = "release", !.usage = "uncertain"])
    /\ UNCHANGED <<ledger, proc, process, history>>

DeliveryReturns(r) ==
    /\ At(r, "release")
    /\ SetHost(r, [host[r] EXCEPT !.turn = "observe"])
    /\ UNCHANGED <<ledger, inflight, proc, process, history>>

-----------------------------------------------------------------------------
\* Termination of a started worker.  The owner's cancel and the time limit
\* share one attempt (terminateActive): whoever comes second joins the first.

\* Slip (DeliveriesEnd): an attempt that throws does not resolve the command.
EndAttemptSilently(h, how) ==
    [h EXCEPT !.term = how, !.reason = None,
              !.limit = IF @ = "firing" /\ how = "over" THEN "done" ELSE @,
              !.owner = CASE @ = "authorized" -> "awaiting"
                          [] @ \in {"cancelling", "joining"} -> "observe"
                          [] OTHER -> @]

\* Slip (CancelsAnswered): who joined an attempt is not told that it ended.
EndAttemptForFirst(h, how) ==
    [h EXCEPT !.term = how, !.reason = None,
              !.limit = IF @ = "firing" THEN "done" ELSE @,
              !.owner = CASE @ = "authorized" -> "awaiting"
                          [] @ = "cancelling" -> "observe"
                          [] OTHER -> @]

\* The attempt ends: the limit's promise resolves, and so does the owner's.
EndAttempt(h, how) ==
    [h EXCEPT !.term = how, !.reason = None,
              !.limit = IF @ = "firing" THEN "done" ELSE @,
              !.owner = CASE @ = "authorized" -> "awaiting"
                          [] @ \in {"cancelling", "joining"} -> "observe"
                          [] OTHER -> @]

\* terminateWorker, up to its first record; h is the host with its new waiter.
\* A preparation left for another reason makes it throw.
BeginAttempt(r, why, h) ==
    IF h.prepared # None
    THEN /\ SetHost(r, EndAttempt(h, "none"))
         /\ UNCHANGED inflight
    ELSE IF ledger[r].revoked
    THEN /\ SetHost(r, [h EXCEPT !.term = "intending", !.reason = why])
         /\ Record("term", r, "worker.termination.intended", why, None)
    ELSE /\ SetHost(r, [h EXCEPT !.term = "revoking", !.reason = why])
         /\ Record("term", r, "authority.revoked", None, None)

CancelRun(r) ==
    LET h == host[r]
    IN /\ up = "up"
       /\ h.turn \in Delivering /\ h.owner = "idle"
       /\ ledger[r].worker /\ ~ledger[r].revoked
       /\ \/ /\ h.turn \in {"starting", "running"} /\ h.term = "none"
             /\ BeginAttempt(r, "cancelled", [h EXCEPT !.owner = "cancelling"])
          \/ /\ h.turn \in {"starting", "running"} /\ h.term # "none"
             /\ SetHost(r, [h EXCEPT !.owner = "joining"])
             /\ UNCHANGED inflight
          \/ /\ h.turn \notin {"starting", "running"} \* the runner has no active worker
             /\ SetHost(r, [h EXCEPT !.owner = "observe"])
             /\ UNCHANGED inflight
    /\ UNCHANGED <<ledger, proc, process, history>>

LimitFires(r) ==
    LET h == host[r]
    IN /\ Limited
       /\ h.turn = "running" /\ h.limit = "none"
       /\ \/ /\ h.term = "none"
             /\ BeginAttempt(r, "timeout", [h EXCEPT !.limit = "firing"])
          \/ /\ h.term # "none"
             /\ SetHost(r, [h EXCEPT !.limit = IF h.term = "over" THEN "done" ELSE "firing"])
             /\ UNCHANGED inflight
    /\ UNCHANGED <<ledger, proc, process, history>>

AttemptAt(r, place) == host[r].term = place /\ ~Awaits("term", r)

IntendTermination(r) ==
    /\ AttemptAt(r, "revoking")
    /\ Record("term", r, "worker.termination.intended", host[r].reason, None)
    /\ SetHost(r, [host[r] EXCEPT !.term = "intending"])
    /\ UNCHANGED <<ledger, proc, process, history>>

\* Slip (SignalOnRecord): the intent is recorded without waiting for it.
PrepareEarly(r) ==
    /\ host[r].term = "intending"
    /\ proc[r] = "alive"
    /\ SetHost(r, [host[r] EXCEPT !.term = "signal", !.prepared = host[r].reason,
                                  !.cancelled = @ \/ host[r].reason = "cancelled",
                                  !.owner = IF @ = "cancelling" THEN "authorized" ELSE @])
    /\ UNCHANGED <<ledger, inflight, proc, process, history>>

\* The preflight proves the worker runs; the hook returns to the runner.
Prepare(r) ==
    /\ AttemptAt(r, "intending")
    /\ proc[r] = "alive"
    /\ SetHost(r, [host[r] EXCEPT !.term = "signal", !.prepared = host[r].reason,
                                  !.cancelled = @ \/ host[r].reason = "cancelled",
                                  !.owner = IF @ = "cancelling" THEN "authorized" ELSE @])
    /\ UNCHANGED <<ledger, inflight, proc, process, history>>

Signal(r) ==
    /\ host[r].term = "signal"
    /\ proc[r] = "alive"
    /\ signalled' = [signalled EXCEPT ![r] = TRUE]
    /\ SetHost(r, [host[r] EXCEPT !.term = "waiting"])
    /\ UNCHANGED <<ledger, inflight, proc, process, spawns>>

ExitConfirmed(r) ==
    /\ host[r].term \in {"signal", "waiting"}
    /\ proc[r] # "alive"
    /\ SetHost(r, EndAttempt(host[r], "over"))
    /\ UNCHANGED <<ledger, inflight, proc, process, history>>

\* A probe that cannot prove what it must ends the attempt with an error.
AttemptFails(r) ==
    /\ AttemptAt(r, "intending") \/ host[r].term \in {"signal", "waiting"}
    /\ SetHost(r, EndAttempt(host[r], "none"))
    /\ UNCHANGED <<ledger, inflight, proc, process, history>>

\* Slip (ReceiptLast): the cancel does not await the delivery's result.
CancelReturnsEarly(r) ==
    /\ host[r].owner = "awaiting"
    /\ SetHost(r, [host[r] EXCEPT !.owner = "observe"])
    /\ UNCHANGED <<ledger, inflight, proc, process, history>>

CancelReturns(r) ==
    /\ host[r].owner = "awaiting"
    /\ host[r].turn \notin Delivering
    /\ SetHost(r, [host[r] EXCEPT !.owner = "observe"])
    /\ UNCHANGED <<ledger, inflight, proc, process, history>>

-----------------------------------------------------------------------------
\* observePrepared, after the delivery and after the cancel: who comes first
\* takes the preparation.  `who' is "turn" or "owner".

\* Slip (TypeOK): a preparation somebody else took is observed again.
TakeAnyPreparation(r, who) ==
    /\ host[r][who] = "observe"
    /\ SetHost(r, [host[r] EXCEPT ![who] = "observing", !.prepared = None,
                                  !.taken = host[r].prepared])
    /\ UNCHANGED <<ledger, inflight, proc, process, history>>

TakePreparation(r, who) ==
    /\ host[r][who] = "observe"
    /\ host[r].prepared # None
    /\ SetHost(r, [host[r] EXCEPT ![who] = "observing", !.prepared = None,
                                  !.taken = host[r].prepared])
    /\ UNCHANGED <<ledger, inflight, proc, process, history>>

NothingPrepared(r, who) ==
    /\ host[r][who] = "observe"
    /\ host[r].prepared = None
    /\ SetHost(r, [host[r] EXCEPT ![who] = "idle"])
    /\ UNCHANGED <<ledger, inflight, proc, process, history>>

\* The exit is confirmed, or it is not (which a failed probe also gives).
ObserveExit(r, who) ==
    /\ host[r][who] = "observing"
    /\ \E outcome \in (IF proc[r] = "alive" THEN {"uncertain"}
                       ELSE {"completed", "uncertain"}) :
          Record(who, r, "worker.termination.observed", host[r].taken, outcome)
    /\ SetHost(r, [host[r] EXCEPT ![who] = "observed", !.taken = None])
    /\ UNCHANGED <<ledger, proc, process, history>>

KeepReservation(r, who) ==
    /\ host[r][who] = "observed" /\ ~Awaits(who, r)
    /\ Record(who, r, "reservation.released", None, "uncertain")
    /\ SetHost(r, [host[r] EXCEPT ![who] = "reserving"])
    /\ UNCHANGED <<ledger, proc, process, history>>

ObservationReturns(r, who) ==
    /\ host[r][who] = "reserving" /\ ~Awaits(who, r)
    /\ SetHost(r, [host[r] EXCEPT ![who] = "idle"])
    /\ UNCHANGED <<ledger, inflight, proc, process, history>>

-----------------------------------------------------------------------------
\* Worker processes end by themselves, or because they were signalled.
Exit(r) ==
    /\ proc[r] = "alive"
    /\ proc' = [proc EXCEPT ![r] =
           IF host[r].turn \in {"spawned", "receipt", "starting"} THEN "lost" ELSE "exited"]
    /\ UNCHANGED <<ledger, inflight, host, process, history>>

-----------------------------------------------------------------------------
\* The coordinator stops, and what it had not written is gone.
Crash ==
    /\ up # "down" /\ outages < MaxOutages
    /\ up' = "down" /\ outages' = outages + 1
    /\ inflight' = <<>>
    /\ host' = [r \in Runs |-> FreshHost]
    /\ todo' = {}
    /\ UNCHANGED <<ledger, proc, history>>

Restart ==
    /\ up = "down"
    /\ up' = "recovering"
    /\ todo' = {r \in Runs : NeedsReconciling(ledger[r])}
    /\ UNCHANGED <<ledger, inflight, proc, host, outages, history>>

RecoverRun(r) ==
    /\ up = "recovering"
    /\ r \in todo /\ inflight = <<>>
    /\ Record("recover", r, "effect.unresolved", None, None)
    /\ todo' = todo \ {r}
    /\ UNCHANGED <<ledger, proc, host, up, outages, history>>

Recovered ==
    /\ up = "recovering"
    /\ todo = {} /\ inflight = <<>>
    /\ up' = "up"
    /\ UNCHANGED <<ledger, inflight, proc, host, todo, outages, history>>

\* Offline tools: a backup of the journal is restored, and its owner decides
\* about each run the restore marked.
Restore ==
    /\ up = "down" /\ outages < MaxOutages
    /\ ~RecoveryPending
    /\ outages' = outages + 1
    /\ ledger' = [r \in Runs |-> IF NeedsDecision(ledger[r]) THEN Require(ledger[r])
                                 ELSE ledger[r]]
    /\ UNCHANGED <<inflight, proc, host, up, todo, history>>

ResolveRun(r, disposition) ==
    /\ up = "down"
    /\ ledger[r].recovery
    /\ ledger' = [ledger EXCEPT ![r] = Resolve(@, disposition)]
    /\ UNCHANGED <<inflight, proc, host, process, history>>

-----------------------------------------------------------------------------
DeliveryStep(r) ==
    \/ Deliver(r) \/ Replay(r) \/ Launch(r) \/ LaunchFails(r) \/ Identify(r)
    \/ ReportWorker(r) \/ Started(r) \/ Complete(r) \/ Finalize(r) \/ Settle(r)
    \/ DeliveryReturns(r)

TerminationStep(r) ==
    \/ CancelRun(r) \/ LimitFires(r) \/ IntendTermination(r) \/ Prepare(r) \/ Signal(r)
    \/ ExitConfirmed(r) \/ AttemptFails(r) \/ CancelReturns(r)

ObservationStep(r, who) ==
    \/ TakePreparation(r, who) \/ NothingPrepared(r, who) \/ ObserveExit(r, who)
    \/ KeepReservation(r, who) \/ ObservationReturns(r, who)

OutageStep ==
    \/ Crash \/ Restart \/ Recovered \/ Restore
    \/ \E r \in Runs : RecoverRun(r)
    \/ \E r \in Runs, d \in Disposition : ResolveRun(r, d)

Next ==
    \/ Commit
    \/ \E r \in Runs : Admit(r) \/ Exit(r)
                       \/ DeliveryStep(r) \/ TerminationStep(r)
    \/ \E r \in Runs, who \in {"turn", "owner"} : ObservationStep(r, who)
    \/ OutageStep

Spec == Init /\ [][Next]_vars

\* A pending record is written, a callback that can go on goes on, and a turn
\* that never ends meets its time limit.  Nobody has to start or cancel a run,
\* and a worker need not end.
FairSpec ==
    /\ Spec
    /\ WF_vars(Commit)
    /\ \A r \in Runs :
        /\ WF_vars(Launch(r) \/ LaunchFails(r)) /\ WF_vars(Identify(r) \/ LaunchFails(r))
        /\ WF_vars(ReportWorker(r)) /\ WF_vars(Started(r)) /\ WF_vars(Complete(r))
        /\ WF_vars(Finalize(r)) /\ WF_vars(Settle(r)) /\ WF_vars(DeliveryReturns(r))
        /\ WF_vars(LimitFires(r)) /\ WF_vars(IntendTermination(r))
        /\ WF_vars(Prepare(r) \/ AttemptFails(r)) /\ WF_vars(Signal(r) \/ ExitConfirmed(r))
        /\ WF_vars(ExitConfirmed(r) \/ AttemptFails(r)) /\ WF_vars(CancelReturns(r))
        /\ \A who \in {"turn", "owner"} : WF_vars(ObservationStep(r, who))

-----------------------------------------------------------------------------
\* At most one worker process is ever started for a run, whatever is
\* restarted, restored, delivered again or left without a receipt.
OneLaunch == \A r \in Runs : spawns[r] <= 1

\* A started worker is signalled only after the journal holds the revocation
\* of its authority and the intent to terminate it.
SignalOnRecord ==
    \A r \in Runs : signalled[r] =>
        ledger[r].revoked /\ ledger[r].intended \cap TerminationReason # {}

\* No more than maxConcurrentRuns workers the coordinator knows of are alive,
\* however admissions, cancellations, exits and restarts interleave.
WorkersWithinLimit ==
    Cardinality({r \in Runs : ledger[r].worker /\ proc[r] = "alive"}) <= MaxRuns

\* A run gives up its place among the occupied ones only with its turn's
\* result, with a confirmed termination, or by the owner's decision after a
\* restore: never because a crash, a restart or a lost receipt forgot it.
PlaceKept ==
    [][\A r \in Runs : Occupies(ledger[r]) /\ ~Occupies(ledger'[r]) =>
           ledger'[r].result # None \/ ledger'[r].state = "cancelled" \/ up = "down"]_vars

\* Token reservations never exceed the limit, also after a run's reservation
\* was settled as consumed.
TokensWithinLimit == MaxTokens > 0 => Reserved <= MaxTokens

\* A confirmed owner cancel is the last word on a run: it is journaled after
\* the turn's own result.  (A cancel that joins the termination of a time limit
\* is answered earlier; see the README.)
ReceiptLast ==
    \A r \in Runs : ledger[r].state = "cancelled" /\ "timeout" \notin ledger[r].intended
        => ledger[r].result # None

\* Every delivery comes to an end.
DeliveriesEnd ==
    \A r \in Runs : host[r].turn \in Delivering ~> host[r].turn \notin Delivering

\* Every cancel request is answered.
CancelsAnswered == \A r \in Runs : host[r].owner # "idle" ~> host[r].owner = "idle"

=============================================================================
