-------------------------- MODULE MCActionAdmission --------------------------
(* The admission of actions and, one part at a time, two other ways in which *)
(* something is taken on: work, from the graph a Foreman prepares, and a     *)
(* manager loop, for the Console to watch.                                   *)
EXTENDS ActionAdmission

CONSTANTS a, b

VARIABLES
    part,
    files, expired, shown, requests, at, key, missed, byHand,
    file, known, queue2, calls2, up, watched, shown2, poll, loops, delivered, starts,
    troubles, writes

dispatching == <<files, expired, shown, requests, at, key, missed, byHand>>
watching == <<file, known, queue2, calls2, up, watched, shown2, poll, loops, delivered, starts>>

-----------------------------------------------------------------------------

MCProc == {a, b}
Pass == [id |-> 1, epoch |-> 0]
MCGrant == {Pass}

Ask(name, nonce, signed, body) ==
    [key |-> name, nonce |-> nonce, grant |-> Pass, epoch |-> 0, signed |-> signed, body |-> body]

\* An action and its exact repetition, the same key for something else, the same
\* nonce for something else, and a tag that does not verify.
Publish == Ask("publish", 1, TRUE, "draft")
Reused == Ask("publish", 2, TRUE, "transition")
Replayed == Ask("deploy", 1, TRUE, "deploy")
Forged == Ask("deploy", 3, FALSE, "deploy")

MCRequest == {Publish, Reused, Replayed, Forged}
MCScript == [q \in MCRequest |->
    CASE q.body = "draft" -> DraftScript
      [] q.body = "deploy" -> LocalDeployScript
      [] q.body = "transition" -> JiraScript]

-----------------------------------------------------------------------------
\* Two nodes, side by side at first and one after the other once both records were
\* replaced, with a place for one.
Sides(first, second) == [n \in {a, b} |-> IF n = a THEN first ELSE second]
Ordered == [catalog |-> 1, rank |-> <<a, b>>, depends |-> Sides({}, {a}),
            observed |-> [n \in {a, b} |-> Sides("x", "y")], context |-> Sides("z", "y"),
            tracked |-> Sides({}, {}), capacity |-> 1]
Apart == [Ordered EXCEPT !.context = Sides("x", "y")]
ReadyFor(p, witnessed) ==
    [packet |-> p, catalog |-> 1, passing |-> TRUE, attended |-> witnessed = None, witness |-> witnessed]

Dispatch == INSTANCE GraphDispatch WITH
    Node <- {a, b}, Packet <- {Ordered, Apart},
    Readiness <- {ReadyFor(Apart, None), ReadyFor(Ordered, a)},
    Catalog <- {1}, CodingLimit <- 1, MaxWrites <- 2, MaxTroubles <- 1, MaxRequests <- 1

\* A loop in the configuration, one to register, and one that claims the directory of the first.
Loop(id, dir, claim) == [id |-> id, dir |-> dir, claim |-> claim]
Configured == Loop("one", "x", FALSE)
Registered == Loop("two", "y", TRUE)
Clashing == Loop("two", "x", FALSE)

Watch == INSTANCE LoopWatch WITH
    Source <- {Configured, Registered, Clashing}, Configured <- {Configured},
    Wanted <- <<Registered, Clashing>>, Candidate <- {1, 2},
    MaxTroubles <- 1, MaxWrites <- 2, MaxStarts <- 1,
    queue <- queue2, calls <- calls2, shown <- shown2

ASSUME Dispatch!DispatchAssumption /\ Watch!WatchAssumption

-----------------------------------------------------------------------------
TakingInit ==
    /\ part \in {"action", "dispatch", "watch"}
    /\ Init /\ Dispatch!Init /\ Watch!Init
    /\ files.packet.is = Apart /\ files.readiness.is = ReadyFor(Apart, None)

TakingNext ==
    /\ UNCHANGED part
    /\ \/ part = "action" /\ Next /\ UNCHANGED <<dispatching, watching, troubles, writes>>
       \/ part = "dispatch" /\ Dispatch!Next /\ UNCHANGED <<vars, watching>>
       \/ part = "watch" /\ Watch!Next /\ UNCHANGED <<vars, dispatching>>

\* Fair is a request that was accepted, as in ActionAdmission.
TakingSpec ==
    /\ TakingInit /\ [][TakingNext]_<<part, vars, dispatching, watching, troubles, writes>>
    /\ \A p \in Proc : WF_vars(part = "action" /\ Step(p))

-----------------------------------------------------------------------------
(***************************************************************************)
(* What is taken on.  Work is enqueued as one plan admitted it on what was *)
(* read together, no more than the graph and the coding limit have places  *)
(* for, and what could be dispatched is once the Console rests.  A loop    *)
(* whose registration was answered is watched by every Console from then   *)
(* on, none twice, under two names or in two places; a registry knows what *)
(* it saved; and a loop is shown as merged only when a delivery says so of *)
(* the candidate that is shown.                                            *)
(***************************************************************************)
TakingSafe ==
    /\ Dispatch!AdmittedAsPlanned /\ Dispatch!NothingLeft /\ Dispatch!WithinCapacity
    /\ Watch!AnsweredStands /\ Watch!OneOfEach /\ Watch!KnownAsSaved /\ Watch!MergedAsRecorded
=============================================================================
