---------------------------- MODULE Consultation ----------------------------
(***************************************************************************)
(* A builder asks a senior: SeniorConsultationService                      *)
(* (src/runtime/consultation.ts) under ConsoleConsultationRuntime          *)
(* (src/console/consultation-runtime.ts).  A consultation is two effects,  *)
(* the senior's dispatch and the builder's resumption, each with an intent *)
(* and a receipt, and two records of its own, requested and completed or   *)
(* failed.  Consultations run one after the other; a crash, a refused      *)
(* record or a port that throws may come anywhere.  A packet is its        *)
(* evidence and the authority to ask again about it; its id is both.       *)
(***************************************************************************)
EXTENDS Naturals, FiniteSets

CONSTANTS Evidence, Authority, None, MaxAsks, MaxTroubles

Packet == Evidence \X (Authority \cup {None})
Effect == {"dispatch", "resume"}

VARIABLES
    requested,  \* the consultations on record
    result,     \* their results on record
    effect,     \* [Packet \X Effect -> how far the ledger knows]
    at,         \* the step of the consultation in progress, and which it is
    called,     \* the port calls made: [Packet \X Effect -> Nat]
    asks, troubles

vars == <<requested, result, effect, at, called, asks, troubles>>

Idle == [step |-> "idle", of |-> None]

Init ==
    /\ requested = {}
    /\ result = [c \in Packet |-> None]
    /\ effect = [e \in Packet \X Effect |-> "none"]
    /\ at = Idle
    /\ called = [e \in Packet \X Effect |-> 0]
    /\ asks = 0
    /\ troubles = 0

Go(step) == at' = [at EXCEPT !.step = step]

-----------------------------------------------------------------------------
\* Slip (CalledOnce): a consultation on record is taken up again.
ConsultAgain(c) ==
    /\ at = Idle
    /\ asks < MaxAsks
    /\ asks' = asks + 1
    /\ requested' = requested \cup {c}
    /\ at' = [step |-> "intend", of |-> c]
    /\ UNCHANGED <<result, effect, called, troubles>>

\* requestExclusive and what consultExclusive makes of it: a consultation that is on
\* record is for somebody to reconcile, and evidence that did not change needs an
\* authority to be shown again.
Consult(c) ==
    /\ at = Idle
    /\ asks < MaxAsks
    /\ asks' = asks + 1
    /\ IF c \in requested \/ (c[2] = None /\ \E r \in requested : r[1] = c[1])
       THEN UNCHANGED <<requested, at>>
       ELSE /\ requested' = requested \cup {c}
            /\ at' = [step |-> "intend", of |-> c]
    /\ UNCHANGED <<result, effect, called, troubles>>

\* Slip (CutOffListed): the call comes before its intent is on record.
IntendUnwritten(kind, from, to) ==
    at.step = from /\ Go(to) /\ UNCHANGED <<requested, result, effect, called, asks, troubles>>

Intend(kind, from, to) ==
    /\ at.step = from
    /\ effect' = [effect EXCEPT ![<<at.of, kind>>] = "intended"]
    /\ Go(to)
    /\ UNCHANGED <<requested, result, called, asks, troubles>>

\* The port is called; it returns, or throws and nobody knows what it did.
Call(kind, from, to, unknown) ==
    /\ at.step = from
    /\ called' = [called EXCEPT ![<<at.of, kind>>] = @ + 1]
    /\ \E next \in {to, unknown} : Go(next)
    /\ UNCHANGED <<requested, result, effect, asks, troubles>>

Receipt(kind, from, as, to) ==
    /\ at.step = from
    /\ effect' = [effect EXCEPT ![<<at.of, kind>>] = as]
    /\ at' = IF to = "idle" THEN Idle ELSE [at EXCEPT !.step = to]
    /\ UNCHANGED <<requested, result, called, asks, troubles>>

\* Slip (ResumedOnResult): the builder is resumed before the advice is on record.
SubmitLate ==
    /\ at.step = "submit"
    /\ Go("plan")
    /\ UNCHANGED <<requested, result, effect, called, asks, troubles>>

\* submitExclusive: the advice is on record, with the plan to resume if there is one;
\* text beyond the packet's limits throws before anything is written.
Submit ==
    /\ at.step = "submit"
    /\ \/ \E outcome \in {"completed", "failed"} :
             /\ result' = [result EXCEPT ![at.of] = outcome]
             /\ at' = IF outcome = "failed" THEN Idle ELSE [at EXCEPT !.step = "plan"]
       \/ at' = Idle /\ UNCHANGED result
    /\ UNCHANGED <<requested, effect, called, asks, troubles>>

ConsultStep ==
    \/ Intend("dispatch", "intend", "dispatch")
    \/ Call("dispatch", "dispatch", "dispatched", "lost")
    \/ Receipt("dispatch", "dispatched", "completed", "submit")
    \/ Receipt("dispatch", "lost", "uncertain", "idle")
    \/ Submit
    \/ Intend("resume", "plan", "resume")
    \/ Call("resume", "resume", "resumed", "astray")
    \/ Receipt("resume", "resumed", "completed", "idle")
    \/ Receipt("resume", "astray", "uncertain", "idle")

\* The process dies, or a record is refused and the consultation throws.
Broken ==
    /\ at # Idle
    /\ troubles < MaxTroubles
    /\ troubles' = troubles + 1
    /\ at' = Idle
    /\ UNCHANGED <<requested, result, effect, called, asks>>

Next == (\E c \in Packet : Consult(c)) \/ ConsultStep \/ Broken

Spec == Init /\ [][Next]_vars

\* recover(): the effects of consultations that have an intent and no receipt.
Recover == {e \in Packet \X Effect : effect[e] = "intended"}

-----------------------------------------------------------------------------
\* No senior and no builder is called twice for one consultation, whatever crashed.
CalledOnce == \A e \in Packet \X Effect : called[e] <= 1

\* A builder is resumed only with advice that is on record, from a senior that was
\* called for it.
ResumedOnResult ==
    \A c \in Packet : called[<<c, "resume">>] > 0
        => result[c] = "completed" /\ called[<<c, "dispatch">>] = 1

\* While no consultation is in progress, a call whose receipt never came is listed by
\* recover(), and nothing is that was answered.
CutOffListed ==
    at = Idle => \A e \in Packet \X Effect :
        called[e] > 0 => effect[e] \in {"completed", "uncertain"} \/ e \in Recover
=============================================================================
