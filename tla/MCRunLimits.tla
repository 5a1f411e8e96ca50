---------------------------- MODULE MCRunLimits ----------------------------
(* What bounds the work of runs, one part at a time; limit says which:     *)
(*   timed, crashing, tokens  two runs compete for the one place of a      *)
(*               coordinator that stays up, of one that has an outage but  *)
(*               no time limits, or for the one token of a third;          *)
(*   delegated   a parent hands parts of its work to two children;         *)
(*   routed, slots  three runs draw on one account pool, by estimate or by *)
(*               slot;                                                     *)
(*   consulted   a builder asks a senior.                                  *)
(* The parts share no variable; the others rest while one is at work.      *)
EXTENDS RunLifecycle, TLC

CONSTANTS r1, r2, t1, t2, t3, p1, k1, k2, w1, w2, e1, e2, a1

VARIABLES
    limit,
    parent, child, alive, envelope, initial, submitted, inbox, op, reconciled, calls,
    readings, decision, hold, routing, known, outcome, starts, crashes,
    requested, result, effect, asking, called, asks,
    troubles

TwoRuns == {r1, r2}
OneToken == [r \in TwoRuns |-> 1]

Crashing == INSTANCE RunLifecycle WITH Limited <- FALSE, MaxOutages <- 1

Lending == INSTANCE RunLifecycle WITH
    MaxRuns <- 2, MaxTokens <- 1, ExitUsage <- {"consumed", "uncertain"}, MaxOutages <- 1

-----------------------------------------------------------------------------
Ask(id, paths, after, needs) ==
    [id |-> id, paths |-> paths, after |-> after, needs |-> needs, text |-> "task"]

\* One child owns "a"; the other wants "a" too, at once, behind the first, or with
\* what the first made; and the first changes its mind.
MCRequest == {Ask(k1, {"a"}, {}, {}), Ask(k2, {"a", "b"}, {}, {}),
              Ask(k2, {"a"}, {k1}, {}), Ask(k2, {"b"}, {}, {k1}), Ask(k1, {"b"}, {}, {})}

Delegating == INSTANCE Delegation WITH
    Child <- {k1, k2}, Workspace <- {w1, w2}, Request <- MCRequest,
    MaxCalls <- 4, MaxTroubles <- 1

ASSUME Delegating!DelegationAssumption

delegating == <<parent, child, alive, envelope, initial, submitted, inbox, op,
                reconciled, calls>>

-----------------------------------------------------------------------------
Tasks == {t1, t2, t3}
Each(n) == [t \in Tasks |-> n]
OneRoute == [t \in Tasks |-> <<[pool |-> p1, economical |-> t # t1]>>]

Routed == INSTANCE Routing WITH
    Run <- Tasks, Pool <- {p1}, Routes <- OneRoute,
    Estimate <- [Each(1) EXCEPT ![t3] = 0], Allowance <- Each(0), KeepsReserve <- Tasks,
    Reserve <- [p \in {p1} |-> 1], SlotLimit <- [p \in {p1} |-> 1],
    Accounting <- {"excludes"}, MaxUnits <- 2, MaxReadings <- 2, MaxStarts <- 4,
    MaxCrashes <- 1, at <- routing, ledger <- known

\* The same pool, for work that nobody can estimate; its readings never change.
Slots == INSTANCE Routing WITH
    Run <- Tasks, Pool <- {p1}, Routes <- OneRoute,
    Estimate <- Each(0), Allowance <- [Each(0) EXCEPT ![t3] = 1], KeepsReserve <- Tasks,
    Reserve <- [p \in {p1} |-> 1], SlotLimit <- [p \in {p1} |-> 1],
    Accounting <- {"excludes", "includes"}, MaxUnits <- 2, MaxReadings <- 1, MaxStarts <- 3,
    MaxCrashes <- 1, at <- routing, ledger <- known

ASSUME Routed!RoutingAssumption /\ Slots!RoutingAssumption

routed == <<readings, decision, hold, routing, known, outcome, starts, crashes>>

-----------------------------------------------------------------------------
Consulting == INSTANCE Consultation WITH
    Evidence <- {e1, e2}, Authority <- {a1}, MaxAsks <- 4, MaxTroubles <- 2, at <- asking

consulting == <<requested, result, effect, asking, called, asks>>

-----------------------------------------------------------------------------
LimitInit ==
    /\ limit \in {"timed", "crashing", "tokens", "delegated", "routed", "slots", "consulted"}
    /\ Init
    /\ Delegating!Init
    /\ Consulting!Init
    /\ IF limit = "slots" THEN Slots!Init ELSE Routed!Init

LimitNext ==
    /\ UNCHANGED limit
    /\ \/ /\ \/ limit = "timed" /\ Next
             \/ limit = "crashing" /\ Crashing!Next
             \/ limit = "tokens" /\ Lending!Next
          /\ UNCHANGED <<delegating, routed, consulting, troubles>>
       \/ /\ limit = "delegated" /\ Delegating!Next
          /\ UNCHANGED <<vars, routed, consulting>>
       \/ /\ \/ limit = "routed" /\ Routed!Next
             \/ limit = "slots" /\ Slots!Next
          /\ UNCHANGED <<vars, delegating, consulting, troubles>>
       \/ /\ limit = "consulted" /\ Consulting!Next
          /\ UNCHANGED <<vars, delegating, routed>>

LimitSpec ==
    LimitInit /\ [][LimitNext]_<<limit, vars, delegating, routed, consulting, troubles>>

-----------------------------------------------------------------------------

(***************************************************************************)
(* Delegation.  Two live children never own the same file or share a       *)
(* workspace unless one was admitted to wait behind the other, and then    *)
(* they are not at work together; the records of an admission, and all     *)
(* that a parent hears of a child, agree; a reconciled cancellation leaves *)
(* no child with its authority.                                            *)
(***************************************************************************)
DelegatedSafely == Delegating!DelegatedSafely

Symmetric == Permutations(TwoRuns)
=============================================================================
