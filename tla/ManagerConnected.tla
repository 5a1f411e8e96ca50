-------------------------- MODULE ManagerConnected --------------------------
(***************************************************************************)
(* src/manager-connected/index.ts: the store through which a manager's     *)
(* task takes work and an owner answers decisions.  Its operations run one *)
(* after the other; each appends one event, or two, to events.jsonl before *)
(* the memory follows.  An append that fails may have left nothing, a torn *)
(* line or the whole event: the store then refuses everything until it is  *)
(* opened again, which it can be once owner.lock is gone.                  *)
(*                                                                         *)
(* Calls the code answers without a change (a repeated request, a refusal) *)
(* are no steps here.                                                      *)
(***************************************************************************)
EXTENDS Naturals, Sequences, FiniteSets

CONSTANTS
    Request, Session, Configs, None,
    Option, Key,        \* of the answers an owner may give, and of their calls
    Sprint,             \* sprintReadinessPath is configured
    Binding,            \* digests of the readiness record
    CodingLimit,        \* 3 in the code
    MaxTroubles, MaxChanges

\* A configuration names the manager's task and the assignment of each session it admits.
StoreAssumption ==
    /\ \A c \in Configs : DOMAIN c.sessions = Session
    /\ \A c \in Configs, s \in Session :
          c.sessions[s] # None =>
              c.sessions[s].coding \in BOOLEAN /\ DOMAIN c.sessions[s] = {"task", "ticket", "coding"}
    /\ Sprint \in BOOLEAN /\ {CodingLimit, MaxTroubles, MaxChanges} \subseteq Nat

VARIABLES
    saved,      \* what events.jsonl replays to: requests and the decision, or None
    torn,       \* its last line is incomplete
    unseen,     \* its last event is complete but was never confirmed
    mem,        \* what the store holds
    up, poisoned, lock, config,
    op,         \* the operation at the head of the queue: the events it has left to append
    ready,      \* the readiness record: its digest while it admits, None when it does not
    seen,       \* the decision as the owner, and as the manager, last read it
    handed,     \* history: how often each request was handed to the manager
    troubles, changes

vars == <<saved, torn, unseen, mem, up, poisoned, lock, config, op, ready, seen, handed, troubles, changes>>

Empty == [requests |-> [r \in Request |-> None], decision |-> None]
Idle == [at |-> "idle", events |-> <<>>, seen |-> None]

Init ==
    /\ saved = Empty /\ torn = FALSE /\ unseen = FALSE
    /\ mem = Empty
    /\ up = "closed" /\ poisoned = FALSE /\ lock = FALSE /\ config = None
    /\ op = Idle
    /\ ready \in Binding \cup {None}
    /\ seen = [who \in {"owner", "manager"} |-> None]
    /\ handed = [r \in Request |-> 0]
    /\ troubles = 0 /\ changes = 0

-----------------------------------------------------------------------------
\* The events and what the replay accepts of them.
OfRequest(r, next) == [request |-> r, next |-> next]
OfDecision(next) == [request |-> None, next |-> next]
Heartbeat == [request |-> None, next |-> None]

\* Slip (HandedOnce): a restart puts what was handed out back in the queue.
AfterRestartQueued == "queued"
AfterRestart == "uncertain"

RequestStep(previous, next) ==
    IF previous = None
    THEN next.status = "queued"
    ELSE /\ [next EXCEPT !.status = previous.status] = previous
         /\ <<previous.status, next.status>> \in
               {<<"queued", "claimed">>, <<"claimed", "submitted">>, <<"submitted", "completed">>,
                <<"uncertain", "completed">>, <<"queued", "cancelled">>}
               \cup ({"claimed", "submitted"} \X {AfterRestart})

DecisionStep(previous, next) ==
    IF previous = None
    THEN next.state = "open" /\ next.revision = 1
    ELSE /\ next.revision = previous.revision + 1
         /\ <<previous.state, next.state>> \in
               {<<"open", "response_recorded">>, <<"response_recorded", "pending_manager_ack">>}
               \cup ({"response_recorded", "pending_manager_ack"} \X {"manager_acknowledged"})
               \cup {<<"manager_acknowledged", "resolved">>}
               \cup ({"response_recorded", "pending_manager_ack", "manager_acknowledged"} \X {"uncertain"})

\* applyEvent, applyDecisionEvent: on an event out of sequence or out of order they fail.
Apply(state, event) ==
    CASE event = Heartbeat -> state
      [] event.request # None ->
            IF RequestStep(state.requests[event.request], event.next)
            THEN [state EXCEPT !.requests[event.request] = event.next] ELSE None
      [] OTHER ->
            IF DecisionStep(state.decision, event.next)
            THEN [state EXCEPT !.decision = event.next] ELSE None

\* The journal after a line: after a torn line or an unseen event it no longer replays.
Line(event) == IF saved = None \/ torn \/ unseen THEN None ELSE Apply(saved, event)

-----------------------------------------------------------------------------
\* append.  Slip (Replays): a failed append leaves the store usable.
FailedUnpoisoned == FALSE
Failed == TRUE

\* Slip (ActedOnAsSeen): the memory follows whether or not the append was confirmed.
MemoryRegardless(event, confirmed) == IF Apply(mem, event) = None THEN mem ELSE Apply(mem, event)
MemoryAfter(event, confirmed) ==
    IF confirmed /\ Apply(mem, event) # None THEN Apply(mem, event) ELSE mem

IsClaim(event) == event.request # None /\ event.next.status = "claimed"

Confirmed ==
    LET event == Head(op.events) IN
    /\ saved' = Line(event) /\ mem' = MemoryAfter(event, TRUE)
    /\ op' = IF Tail(op.events) = <<>> THEN Idle ELSE [op EXCEPT !.events = Tail(@)]
    /\ handed' = IF IsClaim(event) /\ Apply(mem, event) # None THEN [handed EXCEPT ![event.request] = @ + 1] ELSE handed
    /\ up' = IF up = "opening" /\ Tail(op.events) = <<>> THEN "open" ELSE up
    /\ UNCHANGED <<torn, unseen, poisoned, troubles>>

Unconfirmed ==
    LET event == Head(op.events) IN
    /\ troubles < MaxTroubles /\ troubles' = troubles + 1
    /\ \/ UNCHANGED <<saved, torn, unseen>>
       \/ torn' = TRUE /\ UNCHANGED <<saved, unseen>>
       \/ saved' = Line(event) /\ unseen' = TRUE /\ UNCHANGED torn
    /\ mem' = MemoryAfter(event, FALSE)
    /\ poisoned' = Failed
    /\ op' = Idle
    /\ up' = IF up = "opening" THEN "closing" ELSE up
    /\ UNCHANGED handed

AppendEvent ==
    /\ op.at = "append" /\ up # "closed"
    /\ Confirmed \/ Unconfirmed
    /\ UNCHANGED <<lock, config, ready, seen, changes>>

-----------------------------------------------------------------------------
\* Opening: the lock, the replay, and the requests that a former process had handed out.
Interrupted(requests) ==
    {r \in Request : requests[r] # None /\ requests[r].status \in {"claimed", "submitted"}}

Uncertainties(requests) ==
    {s \in [1 .. Cardinality(Interrupted(requests)) -> Interrupted(requests)] :
        \A i, j \in DOMAIN s : i # j => s[i] # s[j]}

Open(c) ==
    /\ up = "closed" /\ ~lock /\ saved # None
    /\ lock' = TRUE /\ config' = c
    /\ torn' = FALSE /\ unseen' = FALSE /\ poisoned' = FALSE
    /\ mem' = saved
    /\ \E order \in Uncertainties(saved.requests) :
          IF order = <<>>
          THEN up' = "open" /\ op' = Idle
          ELSE /\ up' = "opening"
               /\ op' = [at |-> "append", seen |-> None,
                         events |-> [i \in DOMAIN order |->
                            OfRequest(order[i], [saved.requests[order[i]] EXCEPT !.status = AfterRestart])]]
    /\ UNCHANGED <<saved, ready, seen, handed, troubles, changes>>

\* close: what is under way ends first, and the lock goes.
Close ==
    /\ up = "open"
    /\ up' = "closing"
    /\ UNCHANGED <<saved, torn, unseen, mem, poisoned, lock, config, op, ready, seen, handed, troubles, changes>>

Closed ==
    /\ up = "closing" /\ op = Idle
    /\ up' = "closed" /\ lock' = FALSE /\ mem' = Empty
    /\ UNCHANGED <<saved, torn, unseen, poisoned, config, op, ready, seen, handed, troubles, changes>>

Crash ==
    /\ troubles < MaxTroubles /\ troubles' = troubles + 1
    /\ up # "closed"
    /\ up' = "closed" /\ mem' = Empty /\ op' = Idle
    /\ \/ UNCHANGED <<saved, torn, unseen>>
       \/ /\ op.at = "append"
          /\ \/ torn' = TRUE /\ UNCHANGED <<saved, unseen>>
             \/ saved' = Line(Head(op.events)) /\ unseen' = TRUE /\ UNCHANGED torn
    /\ UNCHANGED <<poisoned, lock, config, ready, seen, handed, changes>>

\* The owner retires the lock of a process that is dead.
LockRetired ==
    /\ up = "closed" /\ lock
    /\ lock' = FALSE
    /\ UNCHANGED <<saved, torn, unseen, mem, up, poisoned, config, op, ready, seen, handed, troubles, changes>>

\* The readiness record, or an artifact it binds, is written or expires.
ReadyChanges ==
    /\ Sprint /\ changes < MaxChanges /\ changes' = changes + 1
    /\ ready' \in (Binding \cup {None}) \ {ready}
    /\ UNCHANGED <<saved, torn, unseen, mem, up, poisoned, lock, config, op, seen, handed, troubles>>

-----------------------------------------------------------------------------
\* assertMutable, at the head of the queue.
Mutable == up = "open" /\ ~poisoned /\ op = Idle

Does(events) ==
    /\ op' = [at |-> "append", events |-> events, seen |-> seen["manager"]]
    /\ UNCHANGED <<saved, torn, unseen, mem, up, poisoned, lock, config, ready, seen, handed, troubles, changes>>

\* checkSprint: the digest that admits, None without a sprint.
Admits(binding) == IF Sprint THEN ready # None /\ binding = ready ELSE binding = None

\* Slip (OneOutstanding): what is uncertain no longer counts.
OutstandingKnown == {"queued", "claimed", "submitted"}
Outstanding == {"queued", "claimed", "submitted", "uncertain"}

Active(r) == {q \in Request \ {r} : mem.requests[q] # None /\ mem.requests[q].status \in Outstanding}

\* checkSprintCapacity.
Free(session, assignment, r) ==
    Sprint => \A q \in Active(r) : /\ mem.requests[q].session # session
                                   /\ mem.requests[q].assignment.ticket # assignment.ticket

\* Slip (CodingWithinLimit): only what was claimed counts, not what was submitted since.
SlotWhileClaimed(assignment, r) ==
    Sprint /\ assignment.coding =>
        Cardinality({q \in Active(r) : /\ mem.requests[q].status = "claimed"
                                       /\ mem.requests[q].assignment.coding}) < CodingLimit
Slot(assignment, r) ==
    Sprint /\ assignment.coding =>
        Cardinality({q \in Active(r) : /\ mem.requests[q].status # "queued"
                                       /\ mem.requests[q].assignment.coding}) < CodingLimit

Enqueue(r, s) ==
    /\ Mutable /\ mem.requests[r] = None
    /\ config.sessions[s] # None
    /\ Free(s, config.sessions[s], r)
    /\ \E binding \in Binding \cup {None} :
          /\ Admits(binding)
          /\ Does(<<OfRequest(r, [session |-> s, status |-> "queued", binding |-> binding,
                                  assignment |-> config.sessions[s], manager |-> config.manager])>>)

\* currentAssignment: the session and the manager are those of the enqueueing.
Current(request) ==
    config.sessions[request.session] = request.assignment /\ config.manager = request.manager

Becomes(r, status) == OfRequest(r, [mem.requests[r] EXCEPT !.status = status])

Claim(r) ==
    /\ Mutable /\ mem.requests[r] # None
    /\ LET request == mem.requests[r] IN
       /\ Current(request) /\ Admits(request.binding)
       /\ Free(request.session, request.assignment, r) /\ Slot(request.assignment, r)
       /\ request.status = "queued"
    /\ op' = [at |-> IF Sprint THEN "goals" ELSE "append", seen |-> None,
              events |-> <<Becomes(r, "claimed")>>]
    /\ UNCHANGED <<saved, torn, unseen, mem, up, poisoned, lock, config, ready, seen, handed, troubles, changes>>

\* The two tasks' native goals were observed (or one was not active), and the
\* readiness is checked again.
GoalsObserved ==
    /\ op.at = "goals" /\ up # "closed"
    /\ \/ /\ Admits(Head(op.events).next.binding)
          /\ op' = [op EXCEPT !.at = "append"]
       \/ op' = Idle
    /\ UNCHANGED <<saved, torn, unseen, mem, up, poisoned, lock, config, ready, seen, handed, troubles, changes>>

Submitted(r) ==
    /\ Mutable /\ mem.requests[r] # None /\ mem.requests[r].status = "claimed"
    /\ Does(<<Becomes(r, "submitted")>>)

Complete(r) ==
    /\ Mutable /\ mem.requests[r] # None
    /\ mem.requests[r].status \in {"submitted", "uncertain"}
    /\ config.manager = mem.requests[r].manager
    /\ Does(<<Becomes(r, "completed")>>)

Cancel(r) ==
    /\ Mutable /\ mem.requests[r] # None /\ mem.requests[r].status = "queued"
    /\ Does(<<Becomes(r, "cancelled")>>)

Beat == Mutable /\ Does(<<Heartbeat>>)

-----------------------------------------------------------------------------
\* The decision.  A snapshot may be read from a poisoned store.
Read(who) ==
    /\ up = "open" /\ seen[who] # mem.decision
    /\ seen' = [seen EXCEPT ![who] = mem.decision]
    /\ UNCHANGED <<saved, torn, unseen, mem, up, poisoned, lock, config, op, ready, handed, troubles, changes>>

NextState(decision, state) == [decision EXCEPT !.state = state, !.revision = @ + 1]

DecisionCreate ==
    /\ Mutable /\ mem.decision = None /\ Option # {}
    /\ Does(<<OfDecision([state |-> "open", revision |-> 1, response |-> None, key |-> None])>>)

\* expectedRevision: the caller saw this revision.
Expected(who) ==
    seen[who] # None /\ mem.decision # None /\ seen[who].revision = mem.decision.revision

\* Slip (ResponseKept): an owner may answer again until the manager acknowledges.
AnswerableYet(decision) == decision.state \in {"open", "pending_manager_ack"}
Answerable(decision) == decision.state = "open"

RecordOwnerResponse(option, key) ==
    /\ Mutable /\ mem.decision # None
    /\ \/ /\ mem.decision.key = key /\ mem.decision.response = option
          /\ mem.decision.state = "response_recorded"
          /\ Does(<<OfDecision(NextState(mem.decision, "pending_manager_ack"))>>)
       \/ /\ mem.decision.key # key /\ Answerable(mem.decision) /\ Expected("owner")
          /\ LET recorded == [NextState(mem.decision, "response_recorded") EXCEPT
                                !.response = option, !.key = key]
             IN Does(<<OfDecision(recorded), OfDecision(NextState(recorded, "pending_manager_ack"))>>)

Acknowledge ==
    /\ Mutable /\ Expected("manager")
    /\ \/ /\ mem.decision.state = "pending_manager_ack"
          /\ Does(<<OfDecision(NextState(mem.decision, "manager_acknowledged"))>>)
       \/ /\ mem.decision.state = "response_recorded"
          /\ LET pending == NextState(mem.decision, "pending_manager_ack")
             IN Does(<<OfDecision(pending), OfDecision(NextState(pending, "manager_acknowledged"))>>)

Resolve ==
    /\ Mutable /\ Expected("manager") /\ mem.decision.state = "manager_acknowledged"
    /\ Does(<<OfDecision(NextState(mem.decision, "resolved"))>>)

DecisionUncertain ==
    /\ Mutable /\ Expected("manager")
    /\ mem.decision.state \in {"response_recorded", "pending_manager_ack", "manager_acknowledged"}
    /\ Does(<<OfDecision(NextState(mem.decision, "uncertain"))>>)

-----------------------------------------------------------------------------
OfRequests(r) ==
    \/ \E s \in Session : Enqueue(r, s)
    \/ Claim(r) \/ Submitted(r) \/ Complete(r) \/ Cancel(r)

OfDecisions ==
    \/ \E who \in {"owner", "manager"} : Read(who)
    \/ DecisionCreate \/ Acknowledge \/ Resolve \/ DecisionUncertain
    \/ \E option \in Option, key \in Key : RecordOwnerResponse(option, key)

Next ==
    \/ \E c \in Configs : Open(c)
    \/ Close \/ Closed \/ Crash \/ LockRetired \/ ReadyChanges
    \/ AppendEvent \/ GoalsObserved \/ Beat
    \/ \E r \in Request : OfRequests(r)
    \/ OfDecisions

-----------------------------------------------------------------------------
\* events.jsonl replays, and an open store knows exactly what it replays to: an append
\* after one that was not confirmed would make the next opening refuse for good.
Replays ==
    /\ saved # None
    /\ up = "open" /\ ~poisoned => mem = saved

InStatus(statuses) == {r \in Request : saved.requests[r] # None /\ saved.requests[r].status \in statuses}

\* In a sprint a session, and a ticket, has one piece of work out at a time; what became
\* uncertain in a restart is out until somebody completes it.
OneOutstanding ==
    Sprint => \A q, r \in InStatus({"queued", "claimed", "submitted", "uncertain"}) :
        q # r => /\ saved.requests[q].session # saved.requests[r].session
                 /\ saved.requests[q].assignment.ticket # saved.requests[r].assignment.ticket

\* In a sprint no more than the limit of coding assignments is out, over restarts.
CodingWithinLimit ==
    Sprint => Cardinality({r \in InStatus({"claimed", "submitted", "uncertain"}) :
                              saved.requests[r].assignment.coding}) <= CodingLimit

\* A request is handed to the manager at most once, whatever fails and restarts.
HandedOnce == \A r \in Request : handed[r] <= 1

\* What the owner answered stays on record as it is, and readable.
ResponseKept ==
    [][saved # None /\ saved.decision # None /\ saved.decision.response # None =>
        saved' # None /\ saved'.decision.response = saved.decision.response]_vars

\* A decision is acknowledged, resolved or given up by somebody who saw the answer it
\* then has: equal revisions mean equal answers, over failed appends and restarts.
ActedOnAsSeen ==
    [][saved' # saved /\ saved' # None /\ saved # None /\ saved.decision # None
       /\ saved'.decision.state \in {"manager_acknowledged", "resolved", "uncertain"}
       /\ saved'.decision # saved.decision =>
            op.seen.response = saved.decision.response]_vars
=============================================================================
