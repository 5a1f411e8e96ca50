----------------------------- MODULE CursorTurn -----------------------------
(* Turns over the Cursor stdio transport: the adapter's four requests, the   *)
(* one slot of the transport, how a connection is closed, fails or loses its *)
(* child, the termination those share, and the requests of the provider that *)
(* the owner answers. A child process and the rest of its group live and die *)
(* as they like; a probe of them may always fail.                            *)
EXTENDS Naturals, Sequences

CONSTANTS
    Run,            \* the runs, each started once
    MaxSent,        \* requests a provider sends per turn
    MaxTroubles,    \* failures of the coordinator's records
    None

TurnAssumption ==
    /\ MaxSent \in Nat /\ MaxTroubles \in Nat
    /\ None \notin Run /\ None \notin {"yes", "no", "denied"}

VARIABLES
    slot,           \* the run that holds the transport, for ever when quarantined
    turn,           \* per run, where its adapter is and the outcome it returns
    worker,         \* per run, its child, the rest of the group, and the close event
    conn,           \* per run, its connection
    inbound,        \* per run, what the provider asks and what became of it
    troubles

vars == <<slot, turn, worker, conn, inbound, troubles>>

-----------------------------------------------------------------------------
Requests == <<"initialize", "authenticate", "session", "prompt">>
Working(r) == \E i \in DOMAIN Requests : turn[r].step = Requests[i]

NoWorker == [leader |-> FALSE, others |-> FALSE, close |-> "due"]
NoConnection == [closed |-> FALSE, close |-> "none", failure |-> "none", term |-> "none",
                 started |-> FALSE, revoked |-> FALSE, signalled |-> FALSE, released |-> FALSE]
Quiet == [sent |-> 0, queue |-> <<>>, state |-> "idle", said |-> None, prior |-> None,
          recorded |-> None, replies |-> {}, conflicts |-> FALSE]

Init ==
    /\ slot = None
    /\ turn = [r \in Run |-> [step |-> "idle", outcome |-> None]]
    /\ worker = [r \in Run |-> NoWorker]
    /\ conn = [r \in Run |-> NoConnection]
    /\ inbound = [r \in Run |-> Quiet]
    /\ troubles = 0

Trouble == troubles < MaxTroubles /\ troubles' = troubles + 1

Decided == {"completed", "cancelled", "failed", "unavailable"}
GroupGone(r) == ~worker[r].leader /\ ~worker[r].others

\* The process and its streams are closed, and the group is observed to have exited.
ConfirmedOfChild(r) == worker[r].close = "heard"
Confirmed(r) == worker[r].close = "heard" /\ GroupGone(r)

To(r, step, outcome) == turn' = [turn EXCEPT ![r] = [step |-> step, outcome |-> outcome]]

-----------------------------------------------------------------------------
\* Connecting. A turn may be refused, for its intent or because the slot is taken; the slot is
\* taken by a process that was spawned, and stays taken by one that is not identified.
Refused(r) ==
    /\ turn[r].step = "idle"
    /\ To(r, "over", "unavailable")
    /\ UNCHANGED <<slot, worker, conn, inbound, troubles>>

Spawn(r) ==
    /\ turn[r].step = "idle" /\ slot = None
    /\ slot' = r
    /\ \/ \E o \in BOOLEAN : worker' = [worker EXCEPT ![r].leader = TRUE, ![r].others = o]
          /\ To(r, "connecting", None)
       \/ To(r, "over", "unavailable") /\ UNCHANGED worker
    /\ UNCHANGED <<conn, inbound, troubles>>

Identify(r) ==
    /\ turn[r].step = "connecting"
    /\ \/ worker[r].leader /\ To(r, "persisting", None)
       \/ To(r, "over", "failed")
    /\ UNCHANGED <<slot, worker, conn, inbound, troubles>>

\* close(): end the input and wait for the exit, unless the connection is failing already.
Closing(c) == IF c.failure = "none" THEN [c EXCEPT !.closed = TRUE, !.close = "eof"] ELSE c

\* The failure of a connection: it is closed and its worker terminated.
Failing(c) ==
    [c EXCEPT !.closed = TRUE, !.failure = "joined", !.term = IF @ = "none" THEN "hook" ELSE @]

MayFail(c) == c.failure = "none" /\ ~c.released

\* The start is recorded before anything is written to the worker.
Persist(r) ==
    /\ turn[r].step = "persisting"
    /\ \/ /\ \/ ~conn[r].closed /\ To(r, Requests[1], None)
             \/ conn[r].closed /\ To(r, "closing", "unavailable")
          /\ conn' = [conn EXCEPT ![r].started = TRUE]
          /\ UNCHANGED troubles
       \/ Trouble /\ To(r, "closing", "failed") /\ conn' = [conn EXCEPT ![r] = Closing(@)]
    /\ UNCHANGED <<slot, worker, inbound>>

-----------------------------------------------------------------------------
\* The requests of the adapter, one after another. An answer that is an error, or unusable, ends
\* the turn, and so does the last one.
Answered(r) ==
    /\ ~conn[r].closed /\ worker[r].close = "due"
    /\ \/ \E i \in 1..3 : turn[r].step = Requests[i] /\ To(r, Requests[i + 1], None)
          /\ UNCHANGED conn
       \/ \E o \in {"failed", "unavailable"} : Working(r) /\ To(r, "closing", o)
          /\ conn' = [conn EXCEPT ![r] = Closing(@)]
       \/ /\ turn[r].step = "prompt"
          /\ \E stop \in {"completed", "cancelled"} :
               To(r, "closing", IF stop = "completed" /\ inbound[r].conflicts THEN "failed" ELSE stop)
          /\ conn' = [conn EXCEPT ![r] = Closing(@)]
    /\ UNCHANGED <<slot, worker, inbound, troubles>>

\* No answer in time, or output that breaks the protocol.
Broken(r) ==
    /\ Working(r) /\ ~conn[r].closed
    /\ \E o \in {"failed", "unavailable"} : To(r, "closing", o)
    /\ conn' = [conn EXCEPT ![r] = Failing(@)]
    /\ UNCHANGED <<slot, worker, inbound, troubles>>

\* An owner's cancel notifies the provider and revokes the run; it is no receipt.
Cancel(r) ==
    /\ turn[r].step = "prompt" /\ ~conn[r].closed /\ ~conn[r].revoked
    /\ conn' = [conn EXCEPT ![r].revoked = TRUE]
    /\ UNCHANGED <<slot, turn, worker, inbound, troubles>>

-----------------------------------------------------------------------------
\* The worker: its processes end when they will, and the event that says so comes afterwards, to
\* a connection only when there is one by then.
Dies(r) ==
    /\ \/ worker[r].leader /\ worker' = [worker EXCEPT ![r].leader = FALSE]
       \/ worker[r].others /\ worker' = [worker EXCEPT ![r].others = FALSE]
    /\ UNCHANGED <<slot, turn, conn, inbound, troubles>>

Unexpected(c) == c.close = "none" /\ c.failure = "none"

ChildCloses(r) ==
    /\ ~worker[r].leader /\ worker[r].close = "due"
    /\ \/ turn[r].step = "connecting" /\ worker' = [worker EXCEPT ![r].close = "missed"]
          /\ UNCHANGED <<turn, conn>>
       \/ ~Unexpected(conn[r]) /\ worker' = [worker EXCEPT ![r].close = "heard"]
          /\ UNCHANGED <<turn, conn>>
       \/ /\ Unexpected(conn[r]) /\ (turn[r].step = "persisting" \/ Working(r))
          /\ worker' = [worker EXCEPT ![r].close = "heard"]
          /\ conn' = [conn EXCEPT ![r].closed = TRUE, ![r].failure = "check"]
          /\ IF Working(r) THEN To(r, "closing", "unavailable") ELSE UNCHANGED turn
    /\ UNCHANGED <<slot, inbound, troubles>>

-----------------------------------------------------------------------------
\* A way of ending is over when the exit is confirmed, and the slot is free once; otherwise it
\* joins the termination.
Freed(r) == IF conn[r].released THEN slot ELSE None
Release(r, flow) ==
    conn' = [conn EXCEPT ![r][flow] = "done", ![r].released = TRUE] /\ slot' = Freed(r)
Join(r, flow) ==
    /\ conn' = [conn EXCEPT ![r][flow] = "joined", ![r].term = IF @ = "none" THEN "hook" ELSE @]
    /\ UNCHANGED slot

CloseWaitsOn(r) ==
    /\ conn[r].close = "eof" /\ worker[r].close = "heard"
    /\ \/ Confirmed(r) /\ Release(r, "close")
       \/ Join(r, "close")
    /\ UNCHANGED <<turn, worker, inbound, troubles>>

CloseWaits(r) ==
    /\ conn[r].close = "eof"
    /\ \/ Confirmed(r) /\ Release(r, "close")
       \/ Join(r, "close")
    /\ UNCHANGED <<turn, worker, inbound, troubles>>

FailureChecks(r) ==
    /\ conn[r].failure = "check"
    /\ \/ Confirmed(r) /\ Release(r, "failure")
       \/ Join(r, "failure")
    /\ UNCHANGED <<turn, worker, inbound, troubles>>

-----------------------------------------------------------------------------
\* The termination: the run is revoked on record, then the exact worker is signalled, twice at
\* most, and its exit confirmed. What cannot be established ends it with an error, for all who
\* joined, and it may be tried again.
Throws(c) ==
    [c EXCEPT !.term = "none", !.close = IF @ = "joined" THEN "threw" ELSE @,
              !.failure = IF @ = "joined" THEN "threw" ELSE @]

TermThrows(r) ==
    /\ conn' = [conn EXCEPT ![r] = Throws(@)]
    /\ UNCHANGED <<slot, turn, worker, inbound>>

TermTo(r, at) ==
    /\ conn' = [conn EXCEPT ![r].term = at]
    /\ UNCHANGED <<slot, turn, worker, inbound>>

RevokeTried(r) ==
    /\ conn[r].term = "hook"
    /\ \/ /\ conn' = [conn EXCEPT ![r].revoked = TRUE, ![r].term = "look"]
          /\ UNCHANGED <<slot, turn, worker, inbound, troubles>>
       \/ Trouble /\ TermTo(r, "look")

Revoke(r) ==
    /\ conn[r].term = "hook"
    /\ \/ /\ conn' = [conn EXCEPT ![r].revoked = TRUE, ![r].term = "look"]
          /\ UNCHANGED <<slot, turn, worker, inbound, troubles>>
       \/ Trouble /\ TermThrows(r)

LookAtWorker(r) ==
    /\ conn[r].term = "look"
    /\ \/ worker[r].leader /\ TermTo(r, "same")
       \/ TermTo(r, "changed")
    /\ UNCHANGED troubles

SignalWorker(r, at) ==
    /\ conn' = [conn EXCEPT ![r].signalled = TRUE, ![r].term = at]
    /\ UNCHANGED <<slot, turn, worker, inbound>>

LookAtGroup(r) ==
    /\ \/ conn[r].term = "same" /\ worker[r].leader /\ SignalWorker(r, "termed")
       \/ conn[r].term = "changed" /\ GroupGone(r) /\ TermTo(r, "gone")
       \/ conn[r].term \in {"same", "changed"} /\ TermThrows(r)
    /\ UNCHANGED troubles

WaitForClose(r) ==
    /\ conn[r].term = "gone"
    /\ \/ worker[r].close = "heard" /\ TermTo(r, "done")
       \/ worker[r].close # "heard" /\ TermThrows(r)
    /\ UNCHANGED troubles

AfterSignal(r) ==
    /\ \/ conn[r].term \in {"termed", "killed"} /\ Confirmed(r) /\ TermTo(r, "done")
       \/ conn[r].term = "termed" /\ TermTo(r, "again")
       \/ conn[r].term = "again" /\ worker[r].leader /\ SignalWorker(r, "killed")
       \/ conn[r].term \in {"again", "killed"} /\ TermThrows(r)
    /\ UNCHANGED troubles

Terminated(r) ==
    /\ conn[r].term = "done" /\ "joined" \in {conn[r].close, conn[r].failure}
    /\ conn' = [conn EXCEPT ![r].close = IF @ = "joined" THEN "done" ELSE @,
                            ![r].failure = IF @ = "joined" THEN "done" ELSE @,
                            ![r].released = TRUE]
    /\ slot' = Freed(r)
    /\ UNCHANGED <<turn, worker, inbound, troubles>>

-----------------------------------------------------------------------------
\* The turn returns with its outcome when the way it waits for is over. When that ends with an
\* error nobody knows what became of the worker, which only a turn that never started ignores.
Awaited(c) == IF c.close # "none" THEN c.close ELSE c.failure

ReturnAnyway(r) ==
    /\ turn[r].step = "closing" /\ Awaited(conn[r]) \in {"done", "threw"}
    /\ To(r, "over", turn[r].outcome)
    /\ UNCHANGED <<slot, worker, conn, inbound, troubles>>

Return(r) ==
    /\ turn[r].step = "closing"
    /\ \/ Awaited(conn[r]) = "done" /\ To(r, "over", turn[r].outcome)
       \/ /\ Awaited(conn[r]) = "threw"
          /\ To(r, "over", IF conn[r].started THEN "uncertain" ELSE turn[r].outcome)
    /\ UNCHANGED <<slot, worker, conn, inbound, troubles>>

-----------------------------------------------------------------------------
\* Requests of the provider, handled one after another, also behind the end of the turn: one
\* question, the same with other words under its id, or what is no request.
Send(r, kind) ==
    /\ Working(r) /\ ~conn[r].closed /\ worker[r].leader
    /\ inbound[r].sent < MaxSent
    /\ inbound' = [inbound EXCEPT ![r].sent = @ + 1, ![r].queue = Append(@, kind)]
    /\ UNCHANGED <<slot, turn, worker, conn, troubles>>

KnownNever(r) == FALSE
Known(r) == inbound[r].prior # None

Taken(r) == [inbound[r] EXCEPT !.queue = Tail(@)]

HandleRequest(r) ==
    /\ inbound[r].state = "idle" /\ inbound[r].queue # <<>>
    /\ LET kind == Head(inbound[r].queue) IN
       \/ /\ kind # "bad" /\ ~Known(r)
          /\ inbound' = [inbound EXCEPT ![r] = [Taken(r) EXCEPT !.state = "recording", !.said = kind]]
          /\ UNCHANGED <<turn, conn>>
       \/ /\ kind # "bad" /\ Known(r) /\ kind = inbound[r].said
          /\ inbound' = [inbound EXCEPT ![r] = [Taken(r) EXCEPT !.replies = @ \cup {inbound[r].prior}]]
          /\ UNCHANGED <<turn, conn>>
       \/ /\ kind # "bad" /\ Known(r) /\ kind # inbound[r].said
          /\ inbound' = [inbound EXCEPT ![r] = [Taken(r) EXCEPT !.conflicts = TRUE]]
          /\ UNCHANGED <<turn, conn>>
       \/ /\ kind = "bad"
          /\ inbound' = [inbound EXCEPT ![r] = Taken(r)]
          /\ conn' = [conn EXCEPT ![r] = IF MayFail(@) THEN Failing(@) ELSE @]
          /\ IF Working(r) THEN To(r, "closing", "failed") ELSE UNCHANGED turn
    /\ UNCHANGED <<slot, worker, troubles>>

Reply(r, answer) ==
    inbound' = [inbound EXCEPT ![r].state = "idle", ![r].prior = answer, ![r].replies = @ \cup {answer}]

\* The owner is asked on record, or the request is denied.
AskOwner(r) ==
    /\ inbound[r].state = "recording"
    /\ \/ inbound' = [inbound EXCEPT ![r].state = "pending"] /\ UNCHANGED troubles
       \/ Trouble /\ Reply(r, "denied")
    /\ UNCHANGED <<slot, turn, worker, conn>>

OwnerAnswers(r, answer) ==
    /\ inbound[r].state = "pending"
    /\ inbound' = [inbound EXCEPT ![r].state = answer]
    /\ UNCHANGED <<slot, turn, worker, conn, troubles>>

\* The answer is recorded and passed on. One that could not be recorded never is, and holds up
\* whatever is asked behind it.
AnswerRecorded(r, answer) ==
    /\ inbound[r].state = answer
    /\ \/ /\ inbound' = [inbound EXCEPT ![r].state = "idle", ![r].recorded = answer, ![r].prior = answer,
                                        ![r].replies = @ \cup {answer}]
          /\ UNCHANGED troubles
       \/ Trouble /\ inbound' = [inbound EXCEPT ![r].state = "stuck"]
    /\ UNCHANGED <<slot, turn, worker, conn>>

\* The owner's time is up, or the Console closes.
Expire(r) ==
    /\ inbound[r].state = "pending"
    /\ Reply(r, "denied")
    /\ UNCHANGED <<slot, turn, worker, conn, troubles>>

-----------------------------------------------------------------------------
Ending(r) == CloseWaits(r) \/ FailureChecks(r) \/ Terminated(r)

Terminating(r) ==
    Revoke(r) \/ LookAtWorker(r) \/ LookAtGroup(r) \/ WaitForClose(r) \/ AfterSignal(r)

Asking(r) ==
    \/ \E kind \in {"one", "other", "bad"} : Send(r, kind)
    \/ HandleRequest(r) \/ AskOwner(r) \/ Expire(r)
    \/ \E answer \in {"yes", "no"} : OwnerAnswers(r, answer) \/ AnswerRecorded(r, answer)

Next == \E r \in Run :
    \/ Refused(r) \/ Spawn(r) \/ Identify(r) \/ Persist(r)
    \/ Answered(r) \/ Broken(r) \/ Cancel(r) \/ Dies(r) \/ ChildCloses(r)
    \/ Ending(r) \/ Terminating(r) \/ Return(r) \/ Asking(r)

\* Timers fire, probes and records answer or fail: nothing is asked of the worker or the owner.
Advance(r) == Identify(r) \/ Persist(r) \/ Broken(r) \/ Return(r) \/ Ending(r) \/ Terminating(r)

Fairness == \A r \in Run : WF_vars(Advance(r))

Spec == Init /\ [][Next]_vars /\ Fairness

-----------------------------------------------------------------------------
\* Whoever finds the slot free finds no process of an earlier turn at work, also not one its
\* worker left behind: a worker that is unaccounted for keeps the transport.
SlotMeansGone == slot = None => \A r \in Run : GroupGone(r)

\* A turn that started returns an outcome other than "uncertain" only when its worker and the
\* worker's group are gone, whichever way it came to its end.
OutcomeMeansGone == \A r \in Run :
    turn[r].step = "over" /\ turn[r].outcome \in Decided /\ conn[r].started => GroupGone(r)

\* A worker is signalled only behind the revocation of its run on record.
SignalledOnRecord == \A r \in Run : conn[r].signalled => conn[r].revoked

\* Whatever is sent twice, denied or late, a provider's question has one reply, and approval is one
\* that the owner gave on record.
OneAnswer == \A r \in Run :
    /\ \A one, two \in inbound[r].replies : one = two
    /\ "yes" \in inbound[r].replies => inbound[r].recorded = "yes"

\* What a turn promises of its worker and of the owner's answers.
TurnsSafe == SlotMeansGone /\ OutcomeMeansGone /\ SignalledOnRecord /\ OneAnswer

\* Every turn ends, whether or not its worker ever answers or exits.
TurnEnds == \A r \in Run : turn[r].step # "idle" ~> turn[r].step = "over"
=============================================================================
