---------------------------- MODULE RunLedger ----------------------------
(***************************************************************************)
(* The reducer snapshotsFromEvents of src/runtime/sqlite-projection.ts:    *)
(* what one journal record does to the snapshot of its run.  A run that    *)
(* was not admitted has the state "absent"; the reducer skips its records. *)
(* Only what the program decides on is kept of a snapshot: the worker is   *)
(* known or not, an effect is named by what it does.  `intended' is the    *)
(* reducer's effectIntents map, which outlives a receipt.                  *)
(***************************************************************************)
EXTENDS FiniteSets

CONSTANT None

Terminal == {"succeeded", "blocked", "failed", "cancelled", "interrupted_uncertain"}
RunState == Terminal \cup {"absent", "admitted", "launching", "running", "cancelling",
                           "reconciling"}
Outcome == {"completed", "denied", "cancelled", "interrupted_uncertain", "failed"}
Reservation == {"none", "held", "consumed", "uncertain"}
Disposition == {"confirmed_absent", "authority_revoked", "blocked"}

\* The operations of one run: its turn, and a termination per reason.
TerminationReason == {"cancelled", "timeout"}
Operation == {"turn"} \cup TerminationReason

Snapshot == [state : RunState, worker : BOOLEAN, result : Outcome \cup {None},
             reservation : Reservation, revoked : BOOLEAN,
             intended : SUBSET Operation, unresolved : SUBSET Operation,
             recovery : BOOLEAN]

AbsentRun == [state |-> "absent", worker |-> FALSE, result |-> None,
              reservation |-> "none", revoked |-> FALSE,
              intended |-> {}, unresolved |-> {}, recovery |-> FALSE]

TerminalState(outcome) ==
    CASE outcome = "completed" -> "succeeded"
      [] outcome = "denied" -> "blocked"
      [] outcome \in {"cancelled", "interrupted_uncertain", "failed"} -> outcome

-----------------------------------------------------------------------------
\* One operator per kind of record: s is the snapshot the record finds.

Intend(s, op) ==
    IF op \in s.intended THEN s
    ELSE [s EXCEPT !.intended = @ \cup {op}, !.unresolved = @ \cup {op},
                   !.state = IF op = "turn" THEN "launching" ELSE "cancelling"]

Receive(s, op) == [s EXCEPT !.unresolved = @ \ {op}]

ObserveTermination(s, op, exited) ==
    [Receive(s, op) EXCEPT !.state = IF exited THEN "cancelled" ELSE @]

Require(s) ==
    IF s.recovery THEN s ELSE [s EXCEPT !.recovery = TRUE, !.state = "reconciling"]

Resolve(s, disposition) ==
    [s EXCEPT !.recovery = FALSE, !.worker = FALSE, !.unresolved = {},
              !.revoked = @ \/ disposition = "authority_revoked",
              !.state = IF disposition = "blocked" THEN "blocked"
                        ELSE IF s.result = None THEN "interrupted_uncertain"
                        ELSE TerminalState(s.result)]

Apply(s, e) ==
    IF e.kind = "run.admitted"
    THEN IF s.state = "absent" THEN [s EXCEPT !.state = "admitted", !.reservation = "held"]
         ELSE s
    ELSE IF s.state = "absent" THEN s
    ELSE CASE e.kind = "worker.started" -> [s EXCEPT !.worker = TRUE, !.state = "running"]
           [] e.kind \in {"effect.intended", "worker.termination.intended"} -> Intend(s, e.op)
           [] e.kind = "effect.receipt" -> Receive(s, e.op)
           [] e.kind = "worker.termination.observed"
                  -> ObserveTermination(s, e.op, e.arg = "completed")
           [] e.kind = "effect.unresolved" -> [s EXCEPT !.state = "reconciling"]
           [] e.kind = "recovery.required" -> Require(s)
           [] e.kind = "recovery.resolved" -> Resolve(s, e.arg)
           [] e.kind = "authority.revoked"
                  -> [s EXCEPT !.revoked = TRUE, !.state = "cancelling"]
           [] e.kind = "reservation.released" -> [s EXCEPT !.reservation = e.arg]
           [] e.kind = "provider.final"
                  -> [s EXCEPT !.result = e.arg, !.state = TerminalState(e.arg)]

-----------------------------------------------------------------------------
\* What the coordinator asks of a snapshot.

Admitted(s) == s.state # "absent"
\* Slip (PlaceKept): a quarantined run counts as ended.
IsTerminalQuarantined(s) == s.state \in Terminal \cup {"reconciling"}

IsTerminal(s) == s.state \in Terminal

\* Slip (WorkersWithinLimit): an uncertain run frees its place.
OccupiesUncertain(s) == Admitted(s) /\ ~IsTerminal(s)

\* A run that holds one of the maxConcurrentRuns.
Occupies(s) ==
    /\ Admitted(s)
    /\ ~IsTerminal(s) \/ (s.state = "interrupted_uncertain" /\ s.worker)

HoldsTokens(s) == s.reservation \in {"held", "uncertain"}

\* recover(): a run whose worker or effect nobody accounts for.
NeedsReconciling(s) ==
    /\ Occupies(s)
    /\ s.worker \/ s.unresolved # {}

\* A restored run that the owner must decide about (recoveryRequirement).
NeedsDecision(s) ==
    /\ Admitted(s)
    /\ ~IsTerminal(s) \/ s.state = "interrupted_uncertain" \/ s.unresolved # {}
=============================================================================
