------------------------------ MODULE Routing ------------------------------
(***************************************************************************)
(* Which subscription a run works on: SubscriptionRoutingController of     *)
(* src/runtime/routing.ts, with the Console's calls of it (select before   *)
(* an admission, terminal after a refusal or a result).  A decision for a  *)
(* run is made once and replayed; it holds units of an account pool, by    *)
(* the last reading of what the pool has left, or a slot of the pool when  *)
(* the work has no estimate in the pool's unit.                            *)
(*                                                                         *)
(* A route is the pool it draws on and its tier; routes that a request's   *)
(* class, capabilities or paid authority rule out are not in the request's *)
(* list.  Clock and evidence age are kept as: the reading is fresh or not. *)
(* The policy sets no strict budget and no minimum of fresh units; of the  *)
(* outcomes that are settled alike, one stands for all.                    *)
(***************************************************************************)
EXTENDS Integers, Sequences, FiniteSets, FiniteSetsExt

CONSTANTS
    Run, Pool, None,
    Routes,        \* [Run -> Seq([pool : Pool, economical : BOOLEAN])], in order of preference
    Estimate,      \* [Run -> Nat]: units the work takes, 0 when not comparable
    Allowance,     \* [Run -> Nat]: the owner's explicit allowance
    KeepsReserve,  \* the runs whose class may not use the completion reserve
    Reserve,       \* [Pool -> Nat]: completionReserveByPool
    SlotLimit,     \* [Pool -> Nat]: unknownEconomicalMaxActiveByPool
    Accounting,    \* what a reading may say of active work: "includes", "excludes"
    MaxUnits, MaxReadings, MaxStarts, MaxCrashes

RoutingAssumption ==
    /\ Estimate \in [Run -> Nat] /\ Allowance \in [Run -> Nat] /\ KeepsReserve \subseteq Run
    /\ Reserve \in [Pool -> Nat] /\ SlotLimit \in [Pool -> Nat]
    /\ \A r \in Run : Routes[r] \in Seq([pool : Pool, economical : BOOLEAN])

VARIABLES
    readings,  \* per pool, the readings so far; the last one is in the observations
    decision,  \* per run: None, "blocked", or "fresh" or "unfresh" evidence for its route
    hold,      \* per run: its reservation
    at,        \* where the call on behalf of a run is
    ledger,    \* the run as the coordinator knows it
    outcome,   \* its result
    starts, crashes

vars == <<readings, decision, hold, at, ledger, outcome, starts, crashes>>

Reading == [available : 0 .. MaxUnits, accounting : Accounting]

NoHold == [pool |-> None, units |-> 0, native |-> FALSE, reading |-> 0, status |-> "none"]

Init ==
    /\ readings \in [Pool -> {<<[available |-> MaxUnits, accounting |-> a]>> : a \in Accounting}]
    /\ decision = [r \in Run |-> None]
    /\ hold = [r \in Run |-> NoHold]
    /\ at = [r \in Run |-> "idle"]
    /\ ledger = [r \in Run |-> "absent"]
    /\ outcome = [r \in Run |-> None]
    /\ starts = 0
    /\ crashes = 0

-----------------------------------------------------------------------------
\* What an admission reads of the routing events.

Last(p) == Len(readings[p])
Current(p) == readings[p][Last(p)]

\* activeReservations
Active(p) == {r \in Run : hold[r].pool = p /\ hold[r].status \in {"held", "uncertain"}}

ActiveSlots(p) == {r \in Active(p) : ~hold[r].native}

\* sameSnapshotConsumedNativeReservations: a reading cannot tell of later consumption.
ConsumedSince(p) == {r \in Run : /\ hold[r].pool = p
                                 /\ hold[r].native
                                 /\ hold[r].reading = Last(p)
                                 /\ hold[r].status = "consumed"}

Units(runs) == MapThenSumSet(LAMBDA r : hold[r].units, runs)

ActiveNative(p) ==
    IF Current(p).accounting = "includes" THEN {} ELSE Active(p) \ ActiveSlots(p)

\* Slip (ReadingsKept): what was consumed since the reading is not subtracted.
PendingActive(p) == Units(ActiveNative(p))

\* The units a reading of the pool does not tell of.
Pending(p) == Units(ConsumedSince(p) \cup ActiveNative(p))

Kept(r, p) == IF r \in KeepsReserve THEN Reserve[p] ELSE 0

\* A route with fresh evidence: the estimate fits in what is left, or a slot is free.
FitsFresh(r, p) ==
    IF Estimate[r] > 0
    THEN /\ ActiveSlots(p) = {}
         /\ Current(p).available - Pending(p) - Kept(r, p) + Allowance[r] >= Estimate[r]
    ELSE /\ Current(p).available > Kept(r, p)
         /\ Cardinality(Active(p)) < SlotLimit[p]


\* A route without: the owner's allowance, or a bounded economical fallback.
FitsUnfresh(r, route) ==
    \/ Allowance[r] > 0
    \/ route.economical /\ Cardinality(Active(route.pool)) < SlotLimit[route.pool]

Fits(r, route, fresh) ==
    IF fresh THEN FitsFresh(r, route.pool) ELSE FitsUnfresh(r, route)

-----------------------------------------------------------------------------

\* admitExclusive: the first route in order of preference that fits, or blocked; a
\* decision on record is replayed.  The Console asks only for a run the coordinator
\* does not know yet.
Select(r, fresh) ==
    /\ at[r] = "idle"
    /\ starts < MaxStarts
    /\ starts' = starts + 1
    /\ LET fitting == {i \in DOMAIN Routes[r] : Fits(r, Routes[r][i], fresh)}
           chosen == Routes[r][Min(fitting)] IN
       IF ledger[r] # "absent" \/ decision[r] # None
       THEN /\ at' = [at EXCEPT ![r] = IF decision[r] = "blocked" THEN "idle" ELSE "selected"]
            /\ UNCHANGED <<decision, hold>>
       ELSE IF fitting = {}
       THEN /\ decision' = [decision EXCEPT ![r] = "blocked"]
            /\ UNCHANGED <<at, hold>>
       ELSE /\ decision' = [decision EXCEPT ![r] = IF fresh THEN "fresh" ELSE "unfresh"]
            /\ hold' = [hold EXCEPT ![r] =
                   [pool |-> chosen.pool, native |-> Estimate[r] > 0,
                    units |-> IF Estimate[r] > 0 THEN Estimate[r] ELSE 1,
                    reading |-> Last(chosen.pool), status |-> "held"]]
            /\ at' = [at EXCEPT ![r] = "selected"]
    /\ UNCHANGED <<readings, ledger, outcome, crashes>>

\* coordinator.admit: a known run is found again, a new one may be refused.
Admitted(r) ==
    /\ at[r] = "selected"
    /\ ledger' = [ledger EXCEPT ![r] = IF @ = "absent" THEN "working" ELSE @]
    /\ at' = [at EXCEPT ![r] = "delivering"]
    /\ UNCHANGED <<readings, decision, hold, outcome, starts, crashes>>

Refused(r) ==
    /\ at[r] = "selected"
    /\ ledger[r] = "absent"
    /\ at' = [at EXCEPT ![r] = "settling"]
    /\ outcome' = [outcome EXCEPT ![r] = "denied"]
    /\ UNCHANGED <<readings, decision, hold, ledger, starts, crashes>>

\* The provider's turn, or the result on record of a turn that ended before.
Delivered(r, result) ==
    /\ at[r] = "delivering"
    /\ ledger[r] = "over" => result = outcome[r]
    /\ ledger' = [ledger EXCEPT ![r] = "over"]
    /\ outcome' = [outcome EXCEPT ![r] = result]
    /\ at' = [at EXCEPT ![r] = "settling"]
    /\ UNCHANGED <<readings, decision, hold, starts, crashes>>

StatusAfter(result) ==
    CASE result = "interrupted_uncertain" -> "uncertain"
      [] result \in {"denied", "cancelled"} -> "released"
      [] OTHER -> "consumed"

\* observeTerminal: a hold is settled once; an uncertain one may still be.
Settle(r) ==
    /\ at[r] = "settling"
    /\ at' = [at EXCEPT ![r] = "idle"]
    /\ hold' = IF \/ hold[r].status = "held"
                  \/ hold[r].status = "uncertain" /\ outcome[r] # "interrupted_uncertain"
               THEN [hold EXCEPT ![r].status = StatusAfter(outcome[r])]
               ELSE hold
    /\ UNCHANGED <<readings, decision, ledger, outcome, starts, crashes>>

\* The owner's export of the readings is replaced.
NewReading(p, reading) ==
    /\ Last(p) < MaxReadings
    /\ readings' = [readings EXCEPT ![p] = Append(@, reading)]
    /\ UNCHANGED <<decision, hold, at, ledger, outcome, starts, crashes>>

\* The calls in progress are lost with the process; a turn that was under way is
\* reconciled by the coordinator, which the routing does not hear of.
Crash ==
    /\ crashes < MaxCrashes
    /\ crashes' = crashes + 1
    /\ at' = [r \in Run |-> "idle"]
    /\ ledger' = [r \in Run |-> IF ledger[r] = "working" THEN "over" ELSE ledger[r]]
    /\ outcome' = [r \in Run |-> IF ledger[r] = "working" THEN "interrupted_uncertain"
                                 ELSE outcome[r]]
    /\ UNCHANGED <<readings, decision, hold, starts>>

Next ==
    \/ \E r \in Run :
          \/ \E fresh \in BOOLEAN : Select(r, fresh)
          \/ Admitted(r)
          \/ Refused(r)
          \/ \E result \in {"completed", "cancelled", "interrupted_uncertain"} : Delivered(r, result)
          \/ Settle(r)
    \/ \E p \in Pool, reading \in Reading : NewReading(p, reading)
    \/ Crash

Spec == Init /\ [][Next]_vars

-----------------------------------------------------------------------------
\* What work that keeps the reserve holds or has consumed of one reading of a pool,
\* and what earlier work still holds, stays within what the reading showed less the
\* reserve, however results come in and readings follow each other: for readings
\* that do not account for active work, and but for what the owner allowed.
ReadingsKept ==
    \A p \in Pool : \A i \in DOMAIN readings[p] :
        LET native == {r \in KeepsReserve : hold[r].pool = p /\ hold[r].native}
            on == {r \in native : /\ hold[r].reading = i
                                  /\ hold[r].status # "released"
                                  /\ decision[r] = "fresh"}
            older == {r \in native : /\ hold[r].reading < i
                                     /\ hold[r].status \in {"held", "uncertain"}} IN
        on # {} /\ readings[p][i].accounting = "excludes"
        => Units(on \cup older)
             <= readings[p][i].available - Reserve[p] + Max({Allowance[r] : r \in on})

\* Work without an estimate never takes more slots of a pool than are configured,
\* also while nobody knows what became of a worker, unless the owner allowed it.
SlotsRespected ==
    \A p \in Pool :
        LET taking == {r \in Run : /\ hold[r].pool = p
                                   /\ ~hold[r].native
                                   /\ hold[r].status \in {"held", "uncertain"}} IN
        Cardinality({r \in taking : Allowance[r] = 0}) <= SlotLimit[p]
=============================================================================
