-------------------------- MODULE IntegrationProofs --------------------------
(***************************************************************************)
(* Theorems about what is around the life of a run, for any number of runs *)
(* and any failures.  Turns over the Cursor transport: whoever finds the   *)
(* transport free, or reads a decided outcome, finds no process of an      *)
(* earlier turn; a worker is signalled behind its run's revocation; and a  *)
(* question has one answer, of which approval is the owner's.  Turns on    *)
(* native tasks (Tasks): requested once, one at a time under a profile and *)
(* under a goal that is held; completed only when they were before the     *)
(* revocation, and interrupted only behind it.  The synchronization of     *)
(* deliveries (Moving): a move is requested of Jira once, on what was so   *)
(* since the last look began, under an authority that stood then.          *)
(* Notifications over Slack (Outbox): one message of an event at most, of  *)
(* one text, none of what was denied, and nobody is told that it is there  *)
(* before it is.                                                           *)
(***************************************************************************)
EXTENDS CursorTurn, TLAPS

CONSTANTS Source, MaxChanges, Heads, Packets, Protected, Human, Caller, Note, Left, MaxCalls
VARIABLES
    records, outcome, revoked, task, call, cancel, turns, ended, closed, changes,
    status, pull, green, packet, intents, resolved, attempt, posts, since,
    journal, tail, event, subject, told, calls

Tasks == INSTANCE TaskSupervisor
Moving == INSTANCE DeliverySync
Outbox == INSTANCE SlackOutbox

-----------------------------------------------------------------------------
\* The Cursor transport: the inductive invariant.

Steps == {"idle", "connecting", "persisting", "initialize", "authenticate", "session", "prompt",
          "closing", "over"}
Ways == {"none", "eof", "check", "joined", "threw", "done"}
Terms == {"none", "hook", "look", "same", "changed", "termed", "again", "killed", "gone", "done"}
Answers == {"yes", "no", "denied"}

TurnState == [step : Steps, outcome : Decided \cup {"uncertain", None}]
WorkerState == [leader : BOOLEAN, others : BOOLEAN, close : {"due", "missed", "heard"}]
ConnState == [closed : BOOLEAN, close : Ways, failure : Ways, term : Terms,
              started : BOOLEAN, revoked : BOOLEAN, signalled : BOOLEAN, released : BOOLEAN]
InboundState ==
    [sent : Nat, queue : Seq({"one", "other", "bad"}),
     state : {"idle", "recording", "pending", "yes", "no", "stuck"},
     said : {"one", "other", None}, prior : Answers \cup {None}, recorded : {"yes", "no", None},
     replies : SUBSET Answers, conflicts : BOOLEAN]

TypeInv ==
    /\ slot \in Run \cup {None}
    /\ turn \in [Run -> TurnState]
    /\ worker \in [Run -> WorkerState]
    /\ conn \in [Run -> ConnState]
    /\ inbound \in [Run -> InboundState]

\* Before a run is connected nothing of it is there.
Untouched(r) ==
    /\ turn[r].step = "idle" =>
          /\ GroupGone(r) /\ inbound[r].queue = <<>>
          /\ conn[r].close = "none" /\ conn[r].failure = "none" /\ conn[r].term = "none"
          /\ ~conn[r].released
    /\ turn[r].step \in {"idle", "connecting"} => ~conn[r].started

\* A way of ending is over, and the transport released, only when the exit was confirmed.
Confirms(r) ==
    /\ conn[r].released => GroupGone(r)
    /\ conn[r].term \in {"gone", "done"} => GroupGone(r)
    /\ "done" \in {conn[r].close, conn[r].failure} => conn[r].released
    /\ turn[r].step = "over" /\ turn[r].outcome \in Decided /\ conn[r].started => GroupGone(r)

\* The termination passes the revocation before it looks at the worker.
Revokes(r) ==
    /\ conn[r].term \notin {"none", "hook"} => conn[r].revoked
    /\ conn[r].signalled => conn[r].revoked

\* A run that has a process, or may yet come to its end, holds the transport until it is released.
Holds(r) ==
    /\ ~GroupGone(r) => slot = r
    /\ \/ turn[r].step \notin {"idle", "over"} \/ inbound[r].queue # <<>>
       \/ conn[r].close # "none" \/ conn[r].failure # "none"
       => slot = r \/ conn[r].released

\* A question is open until it has its one reply.
Answering(r) ==
    /\ inbound[r].replies \subseteq {inbound[r].prior}
    /\ inbound[r].prior = None => inbound[r].replies = {}
    /\ inbound[r].state # "idle" => inbound[r].prior = None
    /\ inbound[r].prior = "yes" => inbound[r].recorded = "yes"

RunInv(r) == Untouched(r) /\ Confirms(r) /\ Revokes(r) /\ Answering(r)
IInv == TypeInv /\ \A r \in Run : RunInv(r) /\ Holds(r)

-----------------------------------------------------------------------------
\* A step of one run leaves every other as it is.
Rest(r) == \A s \in Run \ {r} :
    /\ turn'[s] = turn[s] /\ worker'[s] = worker[s]
    /\ conn'[s] = conn[s] /\ inbound'[s] = inbound[s]

LEMMA OthersSound ==
    ASSUME TurnAssumption, IInv, NEW r \in Run, Rest(r), TypeInv', RunInv(r)', Holds(r)',
           slot' = slot \/ slot \in {r, None}
    PROVE  IInv'
<1>1. ASSUME NEW s \in Run, s # r PROVE RunInv(s)'
  <2>1. /\ turn'[s] = turn[s] /\ worker'[s] = worker[s]
        /\ conn'[s] = conn[s] /\ inbound'[s] = inbound[s]
    BY <1>1 DEF Rest
  <2> QED BY <2>1 DEF IInv, RunInv, Untouched, Confirms, Revokes, Answering, GroupGone
<1>2. ASSUME NEW s \in Run, s # r PROVE Holds(s)'
  <2>1. /\ turn'[s] = turn[s] /\ worker'[s] = worker[s]
        /\ conn'[s] = conn[s] /\ inbound'[s] = inbound[s]
    BY <1>2 DEF Rest
  <2>2. slot' = slot \/ slot # s
    BY <1>2 DEF TurnAssumption
  <2> QED BY <2>1, <2>2 DEF IInv, Holds, GroupGone
<1> QED BY <1>1, <1>2 DEF IInv

LEMMA InitSound == Init => IInv
<1> SUFFICES ASSUME Init PROVE IInv
  OBVIOUS
<1>1. TypeInv
  BY DEF Init, TypeInv, TurnState, WorkerState, ConnState, InboundState, Steps, Ways, Terms, Answers,
         NoWorker, NoConnection, Quiet
<1>2. ASSUME NEW r \in Run PROVE RunInv(r) /\ Holds(r)
  BY DEF Init, NoWorker, NoConnection, Quiet, RunInv, Untouched, Confirms, Revokes, Answering, Holds,
       GroupGone
<1> QED BY <1>1, <1>2 DEF IInv

LEMMA RequestNames ==
    /\ DOMAIN Requests = 1..4
    /\ Requests[1] = "initialize" /\ Requests[2] = "authenticate"
    /\ Requests[3] = "session" /\ Requests[4] = "prompt"
BY DEF Requests

\* The new record of one run's connection.
LEMMA ConnTyped ==
    ASSUME TypeInv, NEW r \in Run, NEW new \in ConnState, conn' = [conn EXCEPT ![r] = new]
    PROVE  conn' \in [Run -> ConnState] /\ conn'[r] = new /\ \A s \in Run \ {r} : conn'[s] = conn[s]
BY DEF TypeInv

\* What closing, failing and giving up the termination do to it.
LEMMA ClosingKeeps ==
    ASSUME NEW c \in ConnState
    PROVE  /\ Closing(c) \in ConnState /\ Closing(c).failure = c.failure
           /\ Closing(c).close = c.close \/ Closing(c).close = "eof"
           /\ Closing(c).term = c.term /\ Closing(c).started = c.started
           /\ Closing(c).revoked = c.revoked /\ Closing(c).signalled = c.signalled
           /\ Closing(c).released = c.released
<1>1. ASSUME NEW new, new = [c EXCEPT !.closed = TRUE, !.close = "eof"]
      PROVE  /\ new \in ConnState /\ new.failure = c.failure /\ new.close = "eof"
             /\ new.term = c.term /\ new.started = c.started /\ new.revoked = c.revoked
             /\ new.signalled = c.signalled /\ new.released = c.released
  BY <1>1 DEF ConnState, Ways
<1> QED BY <1>1 DEF Closing

LEMMA FailingKeeps ==
    ASSUME NEW c \in ConnState
    PROVE  /\ Failing(c) \in ConnState /\ Failing(c).failure = "joined" /\ Failing(c).close = c.close
           /\ Failing(c).term = IF c.term = "none" THEN "hook" ELSE c.term
           /\ Failing(c).started = c.started /\ Failing(c).revoked = c.revoked
           /\ Failing(c).signalled = c.signalled /\ Failing(c).released = c.released
BY DEF Failing, ConnState, Ways, Terms

LEMMA ThrowsKeeps ==
    ASSUME NEW c \in ConnState
    PROVE  /\ Throws(c) \in ConnState /\ Throws(c).term = "none"
           /\ Throws(c).close = IF c.close = "joined" THEN "threw" ELSE c.close
           /\ Throws(c).failure = IF c.failure = "joined" THEN "threw" ELSE c.failure
           /\ Throws(c).started = c.started /\ Throws(c).revoked = c.revoked
           /\ Throws(c).signalled = c.signalled /\ Throws(c).released = c.released
BY DEF Throws, ConnState, Ways, Terms

LEMMA ToTyped ==
    ASSUME TypeInv, NEW r \in Run, NEW step \in Steps, NEW result \in Decided \cup {"uncertain", None},
           To(r, step, result)
    PROVE  /\ turn' \in [Run -> TurnState] /\ turn'[r].step = step /\ turn'[r].outcome = result
           /\ \A s \in Run \ {r} : turn'[s] = turn[s]
BY DEF TypeInv, To, TurnState

-----------------------------------------------------------------------------
\* Connecting, and the requests of the adapter.

LEMMA ConnectSound ==
    ASSUME TurnAssumption, IInv, NEW r \in Run, Refused(r) \/ Spawn(r) \/ Identify(r) \/ Persist(r)
    PROVE  IInv'
<1>0. TypeInv /\ RunInv(r) /\ Holds(r)
  BY DEF IInv
<1>1. CASE Refused(r)
  <2>1. TypeInv'
    BY <1>0, <1>1 DEF Refused, To, TypeInv, TurnState, Steps, Decided
  <2>2. RunInv(r)' /\ Holds(r)'
    BY <1>0, <1>1 DEF Refused, To, TypeInv, RunInv, Untouched, Confirms, Revokes, Answering, Holds,
         GroupGone
  <2>3. Rest(r) /\ slot' = slot
    BY <1>0, <1>1 DEF Refused, To, TypeInv, Rest
  <2> QED BY <2>1, <2>2, <2>3, OthersSound
<1>2. CASE Spawn(r)
  <2>1. TypeInv'
    <3>1. worker' \in [Run -> WorkerState]
      <4>1. CASE UNCHANGED worker
        BY <1>0, <4>1 DEF TypeInv
      <4>2. ASSUME NEW o \in BOOLEAN, worker' = [worker EXCEPT ![r].leader = TRUE, ![r].others = o]
            PROVE  worker' \in [Run -> WorkerState]
        <5>1. worker[r] \in WorkerState /\ worker \in [Run -> WorkerState]
          BY <1>0 DEF TypeInv
        <5>2. [[worker[r] EXCEPT !.leader = TRUE] EXCEPT !.others = o] \in WorkerState
          BY <5>1 DEF WorkerState
        <5> QED BY <4>2, <5>1, <5>2
      <4> QED BY <1>2, <4>1, <4>2 DEF Spawn
    <3>2. turn' \in [Run -> TurnState]
      BY <1>0, <1>2, ToTyped DEF Spawn, Steps, Decided
    <3> QED BY <1>0, <1>2, <3>1, <3>2 DEF Spawn, TypeInv
  <2>2. RunInv(r)' /\ Holds(r)'
    BY <1>0, <1>2 DEF Spawn, To, TypeInv, RunInv, Untouched, Confirms, Revokes, Answering, Holds, GroupGone
  <2>3. Rest(r) /\ slot = None
    BY <1>0, <1>2 DEF Spawn, To, TypeInv, Rest
  <2> QED BY <2>1, <2>2, <2>3, OthersSound
<1>3. CASE Identify(r)
  <2>1. TypeInv'
    BY <1>0, <1>3 DEF Identify, To, TypeInv, TurnState, Steps, Decided
  <2>2. RunInv(r)' /\ Holds(r)'
    BY <1>0, <1>3 DEF Identify, To, TypeInv, RunInv, Untouched, Confirms, Revokes, Answering, Holds,
         GroupGone
  <2>3. Rest(r) /\ slot' = slot
    BY <1>0, <1>3 DEF Identify, To, TypeInv, Rest
  <2> QED BY <2>1, <2>2, <2>3, OthersSound
<1>4. CASE Persist(r)
  <2>0. /\ \A step \in {"initialize", "closing"}, o \in {None, "unavailable", "failed"} :
               To(r, step, o) => /\ turn' \in [Run -> TurnState]
                                 /\ turn'[r].step = step /\ turn'[r].outcome = o
        /\ turn[r].step = "persisting" /\ UNCHANGED <<slot, worker, inbound>>
    BY <1>0, <1>4, ToTyped DEF Persist, Steps, Decided
  <2>1. ASSUME conn' = [conn EXCEPT ![r].started = TRUE] PROVE TypeInv' /\ RunInv(r)' /\ Holds(r)'
    <3>1. /\ conn' \in [Run -> ConnState]
          /\ conn'[r] = [conn[r] EXCEPT !.started = TRUE]
      BY <1>0, <2>1 DEF TypeInv, ConnState
    <3>2. To(r, "initialize", None) \/ To(r, "closing", "unavailable") \/ To(r, "closing", "failed")
      BY <1>4, RequestNames DEF Persist
    <3>3. TypeInv'
      BY <1>0, <2>0, <3>1, <3>2 DEF TypeInv
    <3> QED BY <1>0, <2>0, <3>1, <3>2, <3>3 DEF TypeInv, ConnState, RunInv, Untouched, Confirms, Revokes,
         Answering, Holds, GroupGone
  <2>2. ASSUME conn' = [conn EXCEPT ![r] = Closing(@)], To(r, "closing", "failed")
        PROVE  TypeInv' /\ RunInv(r)' /\ Holds(r)'
    <3>1. conn[r] \in ConnState /\ conn' \in [Run -> ConnState] /\ conn'[r] = Closing(conn[r])
      BY <1>0, <2>2, ClosingKeeps DEF TypeInv
    <3>2. TypeInv'
      BY <1>0, <2>0, <2>2, <3>1 DEF TypeInv
    <3> QED BY <1>0, <2>0, <2>2, <3>1, <3>2, ClosingKeeps DEF RunInv, Untouched, Confirms, Revokes,
         Answering, Holds, GroupGone
  <2>3. TypeInv' /\ RunInv(r)' /\ Holds(r)'
    BY <1>4, <2>1, <2>2 DEF Persist
  <2>4. Rest(r) /\ slot' = slot
    BY <1>0, <1>4 DEF Persist, To, TypeInv, Rest
  <2> QED BY <2>3, <2>4, OthersSound
<1> QED BY <1>1, <1>2, <1>3, <1>4

LEMMA WorkSound ==
    ASSUME TurnAssumption, IInv, NEW r \in Run, Answered(r) \/ Broken(r) \/ Cancel(r) \/ Return(r)
    PROVE  IInv'
<1>0. /\ TypeInv /\ RunInv(r) /\ Holds(r) /\ conn[r] \in ConnState
      /\ \A i \in DOMAIN Requests :
            Requests[i] \in {"initialize", "authenticate", "session", "prompt"}
  BY RequestNames DEF IInv, TypeInv
<1>1. CASE Answered(r)
  <2>0. UNCHANGED <<slot, worker, inbound>> /\ turn[r].step \in {"initialize", "authenticate", "session", "prompt"}
    BY <1>0, <1>1, RequestNames DEF Answered, Working
  <2>1. \/ conn' = conn /\ \E step \in {"authenticate", "session", "prompt"} : To(r, step, None)
        \/ /\ conn' = [conn EXCEPT ![r] = Closing(@)]
           /\ \E o \in Decided : To(r, "closing", o)
    BY <1>1, RequestNames DEF Answered, Decided
  <2>2. /\ turn' \in [Run -> TurnState] /\ turn'[r].step \notin {"idle", "connecting", "over"}
        /\ \A s \in Run \ {r} : turn'[s] = turn[s]
    BY <1>0, <2>1, ToTyped DEF Steps, Decided
  <2>3. /\ conn' \in [Run -> ConnState] /\ conn'[r] \in {conn[r], Closing(conn[r])}
        /\ \A s \in Run \ {r} : conn'[s] = conn[s]
    BY <1>0, <2>1, ClosingKeeps DEF TypeInv
  <2>4. TypeInv' /\ Rest(r)
    BY <1>0, <2>0, <2>2, <2>3 DEF TypeInv, Rest
  <2>5. RunInv(r)' /\ Holds(r)'
    BY <1>0, <2>0, <2>2, <2>3, ClosingKeeps DEF RunInv, Untouched, Confirms, Revokes, Answering, Holds,
         GroupGone
  <2> QED BY <2>0, <2>4, <2>5, OthersSound
<1>2. CASE Broken(r)
  <2>0. UNCHANGED <<slot, worker, inbound>> /\ turn[r].step \in {"initialize", "authenticate", "session", "prompt"}
    BY <1>0, <1>2 DEF Broken, Working
  <2>1. conn' = [conn EXCEPT ![r] = Failing(@)] /\ \E o \in Decided : To(r, "closing", o)
    BY <1>2 DEF Broken, Decided
  <2>2. /\ turn' \in [Run -> TurnState] /\ turn'[r].step = "closing"
        /\ \A s \in Run \ {r} : turn'[s] = turn[s]
    BY <1>0, <2>1, ToTyped DEF Steps, Decided
  <2>3. /\ conn' \in [Run -> ConnState] /\ conn'[r] = Failing(conn[r])
        /\ \A s \in Run \ {r} : conn'[s] = conn[s]
    BY <1>0, <2>1, FailingKeeps DEF TypeInv
  <2>4. TypeInv' /\ Rest(r)
    BY <1>0, <2>0, <2>2, <2>3 DEF TypeInv, Rest
  <2>5. RunInv(r)' /\ Holds(r)'
    BY <1>0, <2>0, <2>2, <2>3, FailingKeeps DEF RunInv, Untouched, Confirms, Revokes, Answering, Holds,
         GroupGone
  <2> QED BY <2>0, <2>4, <2>5, OthersSound
<1>3. CASE Cancel(r)
  <2>0. UNCHANGED <<slot, turn, worker, inbound>>
    BY <1>3 DEF Cancel
  <2>1. conn' = [conn EXCEPT ![r].revoked = TRUE]
    BY <1>3 DEF Cancel
  <2>2. /\ conn' \in [Run -> ConnState] /\ conn'[r] = [conn[r] EXCEPT !.revoked = TRUE]
        /\ \A s \in Run \ {r} : conn'[s] = conn[s]
    BY <1>0, <2>1 DEF TypeInv, ConnState
  <2>3. TypeInv' /\ Rest(r)
    BY <1>0, <2>0, <2>2 DEF TypeInv, Rest
  <2>4. RunInv(r)' /\ Holds(r)'
    BY <1>0, <2>0, <2>2 DEF ConnState, RunInv, Untouched, Confirms, Revokes, Answering, Holds, GroupGone
  <2> QED BY <2>0, <2>3, <2>4, OthersSound
<1>4. CASE Return(r)
  <2>0. UNCHANGED <<slot, worker, conn, inbound>> /\ turn[r].step = "closing"
    BY <1>4 DEF Return
  <2>1. \E o \in Decided \cup {"uncertain", None} :
           To(r, "over", o) /\ (o \in Decided /\ conn[r].started => Awaited(conn[r]) = "done")
    <3>1. turn[r].outcome \in Decided \cup {"uncertain", None} /\ "uncertain" \notin Decided
      BY <1>0 DEF TypeInv, TurnState, Decided
    <3> QED BY <1>4, <3>1 DEF Return
  <2>2. /\ turn' \in [Run -> TurnState] /\ turn'[r].step = "over"
        /\ turn'[r].outcome \in Decided /\ conn[r].started => Awaited(conn[r]) = "done"
        /\ \A s \in Run \ {r} : turn'[s] = turn[s]
    BY <1>0, <2>1, ToTyped DEF Steps
  <2>3. TypeInv' /\ Rest(r)
    BY <1>0, <2>0, <2>2 DEF TypeInv, Rest
  <2>4. Awaited(conn[r]) = "done" => GroupGone(r)
    BY <1>0 DEF Awaited, RunInv, Confirms
  <2>5. RunInv(r)' /\ Holds(r)'
    BY <1>0, <2>0, <2>2, <2>4 DEF RunInv, Untouched, Confirms, Revokes, Answering, Holds, GroupGone
  <2> QED BY <2>0, <2>3, <2>5, OthersSound
<1> QED BY <1>1, <1>2, <1>3, <1>4

-----------------------------------------------------------------------------
\* The worker, and the ways a connection ends.

LEMMA WorkerSound ==
    ASSUME TurnAssumption, IInv, NEW r \in Run, Dies(r) \/ ChildCloses(r)
    PROVE  IInv'
<1>0. /\ TypeInv /\ RunInv(r) /\ Holds(r)
      /\ conn[r] \in ConnState /\ worker[r] \in WorkerState
  BY DEF IInv, TypeInv
<1>1. CASE Dies(r)
  <2>0. UNCHANGED <<slot, turn, conn, inbound>>
    BY <1>1 DEF Dies
  <2>1. /\ worker' \in [Run -> WorkerState] /\ \A s \in Run \ {r} : worker'[s] = worker[s]
        /\ GroupGone(r) => GroupGone(r)'
    <3>1. CASE worker[r].leader /\ worker' = [worker EXCEPT ![r].leader = FALSE]
      BY <1>0, <3>1 DEF TypeInv, WorkerState, GroupGone
    <3>2. CASE worker[r].others /\ worker' = [worker EXCEPT ![r].others = FALSE]
      BY <1>0, <3>2 DEF TypeInv, WorkerState, GroupGone
    <3> QED BY <1>1, <3>1, <3>2 DEF Dies
  <2>2. TypeInv' /\ Rest(r)
    BY <1>0, <2>0, <2>1 DEF TypeInv, Rest
  <2>3. RunInv(r)' /\ Holds(r)'
    BY <1>0, <2>0, <2>1 DEF RunInv, Untouched, Confirms, Revokes, Answering, Holds
  <2> QED BY <2>0, <2>2, <2>3, OthersSound
<1>2. CASE ChildCloses(r)
  <2>0. UNCHANGED <<slot, inbound>>
    BY <1>2 DEF ChildCloses
  <2>1. /\ worker' \in [Run -> WorkerState] /\ \A s \in Run \ {r} : worker'[s] = worker[s]
        /\ worker'[r].leader = worker[r].leader /\ worker'[r].others = worker[r].others
    BY <1>0, <1>2 DEF ChildCloses, TypeInv, WorkerState
  <2>2. \/ UNCHANGED <<turn, conn>>
        \/ /\ conn' = [conn EXCEPT ![r].closed = TRUE, ![r].failure = "check"]
           /\ \/ turn[r].step = "persisting" /\ UNCHANGED turn
              \/ Working(r) /\ To(r, "closing", "unavailable")
    BY <1>2 DEF ChildCloses
  <2>3. CASE UNCHANGED <<turn, conn>>
    <3>1. TypeInv' /\ Rest(r)
      BY <1>0, <2>0, <2>1, <2>3 DEF TypeInv, Rest
    <3>2. RunInv(r)' /\ Holds(r)'
      BY <1>0, <2>0, <2>1, <2>3 DEF RunInv, Untouched, Confirms, Revokes, Answering, Holds, GroupGone
    <3> QED BY <2>0, <3>1, <3>2, OthersSound
  <2>4. CASE /\ conn' = [conn EXCEPT ![r].closed = TRUE, ![r].failure = "check"]
             /\ \/ turn[r].step = "persisting" /\ UNCHANGED turn
                \/ Working(r) /\ To(r, "closing", "unavailable")
    <3>1. ASSUME NEW new, new = [conn[r] EXCEPT !.closed = TRUE, !.failure = "check"]
          PROVE  /\ new \in ConnState /\ new.failure = "check" /\ new.close = conn[r].close
                 /\ new.term = conn[r].term /\ new.started = conn[r].started /\ new.revoked = conn[r].revoked
                 /\ new.signalled = conn[r].signalled /\ new.released = conn[r].released
      BY <1>0, <3>1 DEF ConnState, Ways
    <3>2. conn' = [conn EXCEPT ![r] = [conn[r] EXCEPT !.closed = TRUE, !.failure = "check"]]
      BY <1>0, <2>4 DEF TypeInv
    <3>3. /\ conn' \in [Run -> ConnState] /\ \A s \in Run \ {r} : conn'[s] = conn[s]
          /\ conn'[r].failure = "check" /\ conn'[r].close = conn[r].close
          /\ conn'[r].term = conn[r].term /\ conn'[r].started = conn[r].started /\ conn'[r].revoked = conn[r].revoked
          /\ conn'[r].signalled = conn[r].signalled /\ conn'[r].released = conn[r].released
      BY <1>0, <3>1, <3>2, ConnTyped
    <3>4. /\ turn' \in [Run -> TurnState] /\ turn'[r].step \in {"persisting", "closing"}
          /\ \A s \in Run \ {r} : turn'[s] = turn[s]
          /\ turn[r].step \notin {"idle", "over"}
      BY <1>0, <2>4, ToTyped, RequestNames DEF TypeInv, Steps, Decided, Working
    <3>5. TypeInv' /\ Rest(r)
      BY <1>0, <2>0, <2>1, <3>3, <3>4 DEF TypeInv, Rest
    <3>6. RunInv(r)' /\ Holds(r)'
      BY <1>0, <2>0, <2>1, <3>3, <3>4 DEF RunInv, Untouched, Confirms, Revokes, Answering, Holds, GroupGone
    <3> QED BY <2>0, <3>5, <3>6, OthersSound
  <2> QED BY <2>2, <2>3, <2>4
<1> QED BY <1>1, <1>2

\* A connection that is released is so behind a confirmed exit; the others join the termination.
LEMMA ReleasedSound ==
    ASSUME TurnAssumption, IInv, NEW r \in Run, NEW close \in Ways, NEW failure \in Ways,
           GroupGone(r), slot = r \/ conn[r].released, slot' = Freed(r),
           conn' = [conn EXCEPT ![r] = [conn[r] EXCEPT !.close = close, !.failure = failure, !.released = TRUE]],
           turn[r].step # "idle", UNCHANGED <<turn, worker, inbound>>
    PROVE  IInv'
<1>0. TypeInv /\ RunInv(r) /\ Holds(r) /\ conn[r] \in ConnState
  BY DEF IInv, TypeInv
<1>1. ASSUME NEW new, new = [conn[r] EXCEPT !.close = close, !.failure = failure, !.released = TRUE]
      PROVE  /\ new \in ConnState /\ new.released /\ new.term = conn[r].term
             /\ new.started = conn[r].started /\ new.revoked = conn[r].revoked /\ new.signalled = conn[r].signalled
  BY <1>0, <1>1 DEF ConnState
<1>2. /\ conn' \in [Run -> ConnState] /\ \A s \in Run \ {r} : conn'[s] = conn[s]
      /\ conn'[r].released /\ conn'[r].term = conn[r].term /\ conn'[r].started = conn[r].started
      /\ conn'[r].revoked = conn[r].revoked /\ conn'[r].signalled = conn[r].signalled
  BY <1>0, <1>1, ConnTyped
<1>3. TypeInv' /\ Rest(r)
  BY <1>0, <1>2 DEF TypeInv, Rest, Freed
<1>4. RunInv(r)' /\ Holds(r)'
  BY <1>0, <1>2 DEF RunInv, Untouched, Confirms, Revokes, Answering, Holds, GroupGone
<1>5. slot' = slot \/ slot \in {r, None}
  BY DEF Freed
<1> QED BY <1>3, <1>4, <1>5, OthersSound

LEMMA JoinedSound ==
    ASSUME TurnAssumption, IInv, NEW r \in Run, slot = r \/ conn[r].released, slot' = slot,
           NEW close \in {conn[r].close, "joined"}, NEW failure \in {conn[r].failure, "joined"},
           conn' = [conn EXCEPT ![r] = [conn[r] EXCEPT !.close = close, !.failure = failure,
                                            !.term = IF conn[r].term = "none" THEN "hook" ELSE conn[r].term]],
           turn[r].step # "idle", UNCHANGED <<turn, worker, inbound>>
    PROVE  IInv'
<1>0. TypeInv /\ RunInv(r) /\ Holds(r) /\ conn[r] \in ConnState
  BY DEF IInv, TypeInv
<1>1. ASSUME NEW new, new = [conn[r] EXCEPT !.close = close, !.failure = failure,
                                 !.term = IF conn[r].term = "none" THEN "hook" ELSE conn[r].term]
      PROVE  /\ new \in ConnState /\ new.released = conn[r].released
             /\ new.term = IF conn[r].term = "none" THEN "hook" ELSE conn[r].term
             /\ new.close = close /\ new.failure = failure
             /\ new.started = conn[r].started /\ new.revoked = conn[r].revoked /\ new.signalled = conn[r].signalled
  BY <1>0, <1>1 DEF ConnState, Ways, Terms
<1>2. /\ conn' \in [Run -> ConnState] /\ \A s \in Run \ {r} : conn'[s] = conn[s]
      /\ conn'[r].released = conn[r].released /\ conn'[r].started = conn[r].started
      /\ conn'[r].term = IF conn[r].term = "none" THEN "hook" ELSE conn[r].term
      /\ conn'[r].close = close /\ conn'[r].failure = failure
      /\ conn'[r].revoked = conn[r].revoked /\ conn'[r].signalled = conn[r].signalled
  BY <1>0, <1>1, ConnTyped
<1>3. TypeInv' /\ Rest(r)
  BY <1>0, <1>2 DEF TypeInv, Rest
<1>4. RunInv(r)' /\ Holds(r)'
  BY <1>0, <1>2 DEF RunInv, Untouched, Confirms, Revokes, Answering, Holds, GroupGone
<1> QED BY <1>3, <1>4, OthersSound

LEMMA EndingSound ==
    ASSUME TurnAssumption, IInv, NEW r \in Run, Ending(r)
    PROVE  IInv'
<1>0. /\ TypeInv /\ RunInv(r) /\ Holds(r) /\ conn[r] \in ConnState /\ conn \in [Run -> ConnState]
      /\ UNCHANGED <<turn, worker, inbound>>
  BY DEF IInv, TypeInv, Ending, CloseWaits, FailureChecks, Terminated
<1>1. turn[r].step # "idle" /\ (slot = r \/ conn[r].released)
  BY <1>0 DEF Ending, CloseWaits, FailureChecks, Terminated, Holds, RunInv, Untouched
<1>2. ASSUME NEW flow \in {"close", "failure"}, Confirmed(r), Release(r, flow) PROVE IInv'
  <2>1. CASE flow = "close"
    <3>1. conn' = [conn EXCEPT ![r] = [conn[r] EXCEPT !.close = "done", !.failure = conn[r].failure, !.released = TRUE]]
      BY <1>0, <1>2, <2>1 DEF Release, ConnState
    <3> QED BY <1>0, <1>1, <1>2, <3>1, ReleasedSound DEF Release, Confirmed, ConnState, Ways
  <2>2. CASE flow = "failure"
    <3>1. conn' = [conn EXCEPT ![r] = [conn[r] EXCEPT !.close = conn[r].close, !.failure = "done", !.released = TRUE]]
      BY <1>0, <1>2, <2>2 DEF Release, ConnState
    <3> QED BY <1>0, <1>1, <1>2, <3>1, ReleasedSound DEF Release, Confirmed, ConnState, Ways
  <2> QED BY <1>2, <2>1, <2>2
<1>3. ASSUME NEW flow \in {"close", "failure"}, Join(r, flow) PROVE IInv'
  <2>1. CASE flow = "close"
    <3>1. conn' = [conn EXCEPT ![r] = [conn[r] EXCEPT !.close = "joined", !.failure = conn[r].failure,
                                           !.term = IF conn[r].term = "none" THEN "hook" ELSE conn[r].term]]
      BY <1>0, <1>3, <2>1 DEF Join, ConnState
    <3> QED BY <1>0, <1>1, <1>3, <3>1, JoinedSound DEF Join
  <2>2. CASE flow = "failure"
    <3>1. conn' = [conn EXCEPT ![r] = [conn[r] EXCEPT !.close = conn[r].close, !.failure = "joined",
                                           !.term = IF conn[r].term = "none" THEN "hook" ELSE conn[r].term]]
      BY <1>0, <1>3, <2>2 DEF Join, ConnState
    <3> QED BY <1>0, <1>1, <1>3, <3>1, JoinedSound DEF Join
  <2> QED BY <1>3, <2>1, <2>2
<1>4. CASE Terminated(r)
  <2> DEFINE after(way) == IF way = "joined" THEN "done" ELSE way
  <2>1. conn' = [conn EXCEPT ![r] = [conn[r] EXCEPT !.close = after(conn[r].close),
                                         !.failure = after(conn[r].failure), !.released = TRUE]]
    BY <1>0, <1>4 DEF Terminated, ConnState
  <2>2. after(conn[r].close) \in Ways /\ after(conn[r].failure) \in Ways
    BY <1>0 DEF ConnState, Ways
  <2>3. GroupGone(r) /\ slot' = Freed(r)
    BY <1>0, <1>4 DEF Terminated, RunInv, Confirms
  <2> QED BY <1>0, <1>1, <2>1, <2>2, <2>3, ReleasedSound
<1> QED BY <1>2, <1>3, <1>4 DEF Ending, CloseWaits, FailureChecks

-----------------------------------------------------------------------------
\* The termination.

LEMMA TermMoves ==
    ASSUME TurnAssumption, IInv, NEW r \in Run, conn[r].term \notin {"none"}, slot' = slot,
           NEW at \in Terms, NEW onRecord \in BOOLEAN, NEW signalled \in BOOLEAN,
           conn' = [conn EXCEPT ![r] = [conn[r] EXCEPT !.term = at, !.revoked = onRecord, !.signalled = signalled]],
           conn[r].revoked => onRecord, signalled => onRecord, at \notin {"none", "hook"} => onRecord,
           at \in {"gone", "done"} => GroupGone(r),
           UNCHANGED <<turn, worker, inbound>>
    PROVE  IInv'
<1>0. TypeInv /\ RunInv(r) /\ Holds(r) /\ conn[r] \in ConnState /\ turn[r].step # "idle"
  BY DEF IInv, TypeInv, RunInv, Untouched
<1>1. ASSUME NEW new, new = [conn[r] EXCEPT !.term = at, !.revoked = onRecord, !.signalled = signalled]
      PROVE  /\ new \in ConnState /\ new.term = at /\ new.revoked = onRecord /\ new.signalled = signalled
             /\ new.close = conn[r].close /\ new.failure = conn[r].failure
             /\ new.started = conn[r].started /\ new.released = conn[r].released
  BY <1>0, <1>1 DEF ConnState
<1>2. /\ conn' \in [Run -> ConnState] /\ \A s \in Run \ {r} : conn'[s] = conn[s]
      /\ conn'[r].term = at /\ conn'[r].revoked = onRecord /\ conn'[r].signalled = signalled
      /\ conn'[r].close = conn[r].close /\ conn'[r].failure = conn[r].failure
      /\ conn'[r].started = conn[r].started /\ conn'[r].released = conn[r].released
  BY <1>0, <1>1, ConnTyped
<1>3. TypeInv' /\ Rest(r)
  BY <1>0, <1>2 DEF TypeInv, Rest
<1>4. RunInv(r)' /\ Holds(r)'
  BY <1>0, <1>2 DEF RunInv, Untouched, Confirms, Revokes, Answering, Holds, GroupGone
<1> QED BY <1>3, <1>4, OthersSound

LEMMA TermToSound ==
    ASSUME TurnAssumption, IInv, NEW r \in Run, conn[r].term \notin {"none", "hook"}, NEW at \in Terms, TermTo(r, at),
           at \in {"gone", "done"} => GroupGone(r)
    PROVE  IInv'
<1>0. conn \in [Run -> ConnState] /\ conn[r].revoked /\ conn[r] \in ConnState
  BY DEF IInv, TypeInv, RunInv, Revokes
<1>1. conn' = [conn EXCEPT ![r] = [conn[r] EXCEPT !.term = at, !.revoked = TRUE, !.signalled = conn[r].signalled]]
  BY <1>0 DEF TermTo, ConnState
<1>2. conn[r].signalled \in BOOLEAN
  BY <1>0 DEF ConnState
<1> QED BY <1>0, <1>1, <1>2, TermMoves DEF TermTo

LEMMA SignalSound ==
    ASSUME TurnAssumption, IInv, NEW r \in Run, conn[r].term \notin {"none", "hook"}, NEW at \in {"termed", "killed"},
           SignalWorker(r, at)
    PROVE  IInv'
<1>0. conn \in [Run -> ConnState] /\ conn[r].revoked /\ conn[r] \in ConnState /\ at \in Terms
  BY DEF IInv, TypeInv, RunInv, Revokes, Terms
<1>1. conn' = [conn EXCEPT ![r] = [conn[r] EXCEPT !.term = at, !.revoked = TRUE, !.signalled = TRUE]]
  BY <1>0 DEF SignalWorker, ConnState
<1> QED BY <1>0, <1>1, TermMoves DEF SignalWorker

LEMMA ThrowSound ==
    ASSUME TurnAssumption, IInv, NEW r \in Run, TermThrows(r), conn[r].term # "none"
    PROVE  IInv'
<1>0. TypeInv /\ RunInv(r) /\ Holds(r) /\ conn[r] \in ConnState /\ turn[r].step # "idle"
  BY DEF IInv, TypeInv, RunInv, Untouched
<1>1. /\ conn' \in [Run -> ConnState] /\ conn'[r] = Throws(conn[r]) /\ \A s \in Run \ {r} : conn'[s] = conn[s]
      /\ UNCHANGED <<slot, turn, worker, inbound>>
  BY <1>0, ThrowsKeeps DEF TermThrows, TypeInv
<1>2. TypeInv' /\ Rest(r)
  BY <1>0, <1>1 DEF TypeInv, Rest
<1>3. RunInv(r)' /\ Holds(r)'
  BY <1>0, <1>1, ThrowsKeeps DEF RunInv, Untouched, Confirms, Revokes, Answering, Holds, GroupGone
<1> QED BY <1>1, <1>2, <1>3, OthersSound

LEMMA TerminatingSound ==
    ASSUME TurnAssumption, IInv, NEW r \in Run, Terminating(r)
    PROVE  IInv'
<1>0. conn \in [Run -> ConnState] /\ conn[r] \in ConnState /\ RunInv(r)
  BY DEF IInv, TypeInv
<1>1. CASE Revoke(r)
  <2>1. CASE conn' = [conn EXCEPT ![r].revoked = TRUE, ![r].term = "look"] /\ UNCHANGED <<slot, turn, worker, inbound, troubles>>
    <3>1. conn' = [conn EXCEPT ![r] = [conn[r] EXCEPT !.term = "look", !.revoked = TRUE, !.signalled = conn[r].signalled]]
      BY <1>0, <2>1 DEF ConnState
    <3>2. conn[r].term \notin {"none"} /\ conn[r].signalled \in BOOLEAN /\ "look" \in Terms
      BY <1>0, <1>1 DEF Revoke, ConnState, Terms
    <3>3. slot' = slot /\ UNCHANGED <<turn, worker, inbound>>
      BY <2>1
    <3> QED BY <3>1, <3>2, <3>3, TermMoves
  <2>2. CASE TermThrows(r)
    BY <1>1, <2>2, ThrowSound DEF Revoke
  <2> QED BY <1>1, <2>1, <2>2 DEF Revoke
<1>2. CASE LookAtWorker(r)
  BY <1>2, TermToSound DEF LookAtWorker, Terms
<1>3. CASE LookAtGroup(r)
  BY <1>3, TermToSound, SignalSound, ThrowSound DEF LookAtGroup, Terms
<1>4. CASE WaitForClose(r)
  BY <1>0, <1>4, TermToSound, ThrowSound DEF WaitForClose, Terms, RunInv, Confirms
<1>5. CASE AfterSignal(r)
  BY <1>5, TermToSound, SignalSound, ThrowSound DEF AfterSignal, Terms, Confirmed
<1> QED BY <1>1, <1>2, <1>3, <1>4, <1>5 DEF Terminating

-----------------------------------------------------------------------------
\* The requests of the provider.

\* A step of the questions alone.
LEMMA QuestionSound ==
    ASSUME TurnAssumption, IInv, NEW r \in Run, UNCHANGED <<slot, turn, worker, conn>>,
           NEW new \in InboundState, inbound' = [inbound EXCEPT ![r] = new],
           new.queue # <<>> => turn[r].step # "idle" /\ (slot = r \/ conn[r].released),
           new.replies \subseteq {new.prior}, new.prior = None => new.replies = {},
           new.state # "idle" => new.prior = None, new.prior = "yes" => new.recorded = "yes"
    PROVE  IInv'
<1>0. TypeInv /\ RunInv(r) /\ Holds(r)
  BY DEF IInv
<1>1. inbound' \in [Run -> InboundState] /\ inbound'[r] = new /\ \A s \in Run \ {r} : inbound'[s] = inbound[s]
  BY <1>0 DEF TypeInv
<1>2. TypeInv' /\ Rest(r)
  BY <1>0, <1>1 DEF TypeInv, Rest
<1>3. RunInv(r)' /\ Holds(r)'
  BY <1>0, <1>1 DEF RunInv, Untouched, Confirms, Revokes, Answering, Holds, GroupGone
<1> QED BY <1>2, <1>3, OthersSound

\* Whatever is queued was asked over a connection.
LEMMA QueuedHeld ==
    ASSUME IInv, NEW r \in Run, inbound[r].queue # <<>>
    PROVE  turn[r].step # "idle" /\ (slot = r \/ conn[r].released)
BY DEF IInv, RunInv, Untouched, Holds

LEMMA SendSound ==
    ASSUME TurnAssumption, IInv, NEW r \in Run, NEW kind \in {"one", "other", "bad"}, Send(r, kind)
    PROVE  IInv'
<1>0. /\ inbound \in [Run -> InboundState] /\ inbound[r] \in InboundState /\ Answering(r)
      /\ UNCHANGED <<slot, turn, worker, conn>>
  BY DEF IInv, TypeInv, RunInv, Send
<1>1. turn[r].step # "idle" /\ (slot = r \/ conn[r].released)
  BY RequestNames DEF IInv, Holds, Send, Working
<1>2. inbound' = [inbound EXCEPT ![r] = [inbound[r] EXCEPT !.sent = inbound[r].sent + 1,
                                                           !.queue = Append(inbound[r].queue, kind)]]
  BY <1>0 DEF Send, InboundState
<1>3. ASSUME NEW queue \in Seq({"one", "other", "bad"}), NEW sent \in Nat,
             NEW new, new = [inbound[r] EXCEPT !.sent = sent, !.queue = queue]
      PROVE  /\ new \in InboundState /\ new.replies = inbound[r].replies /\ new.prior = inbound[r].prior
             /\ new.state = inbound[r].state /\ new.recorded = inbound[r].recorded
  BY <1>0, <1>3 DEF InboundState
<1>4. inbound[r].sent + 1 \in Nat /\ Append(inbound[r].queue, kind) \in Seq({"one", "other", "bad"})
  BY <1>0 DEF InboundState
<1> QED BY <1>0, <1>1, <1>2, <1>3, <1>4, QuestionSound DEF Answering

LEMMA HandleSound ==
    ASSUME TurnAssumption, IInv, NEW r \in Run, HandleRequest(r)
    PROVE  IInv'
<1>0. /\ TypeInv /\ RunInv(r) /\ Holds(r)
      /\ inbound \in [Run -> InboundState] /\ inbound[r] \in InboundState /\ Answering(r)
      /\ conn \in [Run -> ConnState] /\ conn[r] \in ConnState
      /\ inbound[r].state = "idle" /\ inbound[r].queue # <<>> /\ UNCHANGED <<slot, worker>>
  BY DEF IInv, TypeInv, RunInv, HandleRequest
<1>1. turn[r].step # "idle" /\ (slot = r \/ conn[r].released)
  BY <1>0, QueuedHeld
<1> DEFINE kind == Head(inbound[r].queue)
<1>2. kind \in {"one", "other", "bad"} /\ Tail(inbound[r].queue) \in Seq({"one", "other", "bad"})
  <2>1. inbound[r].queue \in Seq({"one", "other", "bad"})
    BY <1>0 DEF InboundState
  <2> QED BY <1>0, <2>1
<1>3. Taken(r) \in InboundState /\ Taken(r) = [inbound[r] EXCEPT !.queue = Tail(inbound[r].queue)]
  BY <1>0, <1>2 DEF Taken, InboundState
<1>4. /\ Taken(r).state = "idle" /\ Taken(r).prior = inbound[r].prior
      /\ Taken(r).replies = inbound[r].replies /\ Taken(r).recorded = inbound[r].recorded
  BY <1>0, <1>3 DEF InboundState
<1>5. CASE /\ kind # "bad" /\ ~Known(r)
           /\ inbound' = [inbound EXCEPT ![r] = [Taken(r) EXCEPT !.state = "recording", !.said = kind]]
           /\ UNCHANGED <<turn, conn>>
  <2>1. ASSUME NEW new, NEW k \in {"one", "other"}, new = [Taken(r) EXCEPT !.state = "recording", !.said = k]
        PROVE  /\ new \in InboundState /\ new.prior = inbound[r].prior
               /\ new.replies = inbound[r].replies /\ new.recorded = inbound[r].recorded
    BY <1>3, <1>4, <2>1 DEF InboundState
  <2> QED BY <1>0, <1>1, <1>2, <1>5, <2>1, QuestionSound DEF Answering, Known
<1>6. CASE /\ Known(r) /\ UNCHANGED <<turn, conn>>
           /\ inbound' = [inbound EXCEPT ![r] = [Taken(r) EXCEPT !.replies = @ \cup {inbound[r].prior}]]
  <2>1. ASSUME NEW new, new = [Taken(r) EXCEPT !.replies = @ \cup {inbound[r].prior}]
        PROVE  /\ new \in InboundState /\ new.prior = inbound[r].prior /\ new.state = "idle"
               /\ new.replies = inbound[r].replies \cup {inbound[r].prior}
               /\ new.recorded = inbound[r].recorded
    BY <1>0, <1>3, <1>4, <1>6, <2>1 DEF InboundState, Known
  <2> QED BY <1>0, <1>1, <1>6, <2>1, QuestionSound DEF Answering, Known
<1>7. CASE /\ Known(r) /\ UNCHANGED <<turn, conn>>
           /\ inbound' = [inbound EXCEPT ![r] = [Taken(r) EXCEPT !.conflicts = TRUE]]
  <2>1. ASSUME NEW new, new = [Taken(r) EXCEPT !.conflicts = TRUE]
        PROVE  /\ new \in InboundState /\ new.prior = inbound[r].prior /\ new.state = "idle"
               /\ new.replies = inbound[r].replies /\ new.recorded = inbound[r].recorded
    BY <1>3, <1>4, <2>1 DEF InboundState
  <2> QED BY <1>0, <1>1, <1>7, <2>1, QuestionSound DEF Answering
<1>8. CASE /\ inbound' = [inbound EXCEPT ![r] = Taken(r)]
           /\ conn' = [conn EXCEPT ![r] = IF MayFail(@) THEN Failing(@) ELSE @]
           /\ IF Working(r) THEN To(r, "closing", "failed") ELSE UNCHANGED turn
  <2>1. /\ inbound' \in [Run -> InboundState] /\ inbound'[r] = Taken(r)
        /\ \A s \in Run \ {r} : inbound'[s] = inbound[s]
    BY <1>0, <1>3, <1>8
  <2>2. /\ conn' \in [Run -> ConnState] /\ conn'[r] \in {conn[r], Failing(conn[r])}
        /\ \A s \in Run \ {r} : conn'[s] = conn[s]
    BY <1>0, <1>8, FailingKeeps
  <2>3. /\ turn' \in [Run -> TurnState] /\ \A s \in Run \ {r} : turn'[s] = turn[s]
        /\ turn'[r] = turn[r] \/ turn'[r].step = "closing"
    BY <1>0, <1>8, ToTyped DEF TypeInv, Steps, Decided
  <2>4. TypeInv' /\ Rest(r)
    BY <1>0, <2>1, <2>2, <2>3 DEF TypeInv, Rest
  <2>5. Untouched(r)' /\ Confirms(r)' /\ Revokes(r)' /\ Holds(r)'
    BY <1>0, <1>1, <2>1, <2>2, <2>3, FailingKeeps DEF RunInv, Untouched, Confirms, Revokes, Holds, GroupGone
  <2>6. Answering(r)'
    BY <1>0, <1>4, <2>1 DEF Answering
  <2> QED BY <1>0, <2>4, <2>5, <2>6, OthersSound DEF RunInv
<1> QED BY <1>5, <1>6, <1>7, <1>8 DEF HandleRequest

\* A reply is the first, of whatever is asked of the owner.
LEMMA ReplySound ==
    ASSUME TurnAssumption, IInv, NEW r \in Run, UNCHANGED <<slot, turn, worker, conn>>,
           inbound[r].state # "idle", NEW answer \in Answers, NEW recorded \in {"yes", "no", None},
           answer = "yes" => recorded = "yes",
           inbound' = [inbound EXCEPT ![r] = [inbound[r] EXCEPT !.state = "idle", !.recorded = recorded, !.prior = answer,
                                                  !.replies = inbound[r].replies \cup {answer}]]
    PROVE  IInv'
<1>0. inbound \in [Run -> InboundState] /\ inbound[r] \in InboundState /\ inbound[r].replies = {}
  BY DEF IInv, TypeInv, RunInv, Answering
<1>1. inbound[r].queue # <<>> => turn[r].step # "idle" /\ (slot = r \/ conn[r].released)
  BY QueuedHeld
<1>2. ASSUME NEW new, new = [inbound[r] EXCEPT !.state = "idle", !.recorded = recorded, !.prior = answer,
                                 !.replies = inbound[r].replies \cup {answer}]
      PROVE  /\ new \in InboundState /\ new.queue = inbound[r].queue /\ new.state = "idle"
             /\ new.prior = answer /\ new.replies = {answer} /\ new.recorded = recorded
  BY <1>0, <1>2 DEF InboundState
<1>3. answer # None
  BY DEF TurnAssumption, Answers
<1>4. ASSUME NEW new \in InboundState, inbound' = [inbound EXCEPT ![r] = new], new.queue = inbound[r].queue,
             new.state = "idle", new.prior = answer, new.replies = {answer}, new.recorded = recorded
      PROVE  IInv'
  <2>1. /\ new.queue # <<>> => turn[r].step # "idle" /\ (slot = r \/ conn[r].released)
        /\ new.replies \subseteq {new.prior} /\ new.prior # None /\ new.state = "idle"
        /\ new.prior = "yes" => new.recorded = "yes"
    BY <1>1, <1>3, <1>4
  <2> QED BY <1>4, <2>1, QuestionSound
<1> QED BY <1>2, <1>4

LEMMA AskedSound ==
    ASSUME TurnAssumption, IInv, NEW r \in Run, inbound[r].state # "idle",
           NEW state \in {"pending", "yes", "no", "stuck"}, UNCHANGED <<slot, turn, worker, conn>>,
           inbound' = [inbound EXCEPT ![r].state = state]
    PROVE  IInv'
<1>0. inbound \in [Run -> InboundState] /\ inbound[r] \in InboundState /\ Answering(r)
  BY DEF IInv, TypeInv, RunInv
<1>1. inbound[r].queue # <<>> => turn[r].step # "idle" /\ (slot = r \/ conn[r].released)
  BY QueuedHeld
<1>2. ASSUME NEW new, new = [inbound[r] EXCEPT !.state = state]
      PROVE  /\ new \in InboundState /\ new.queue = inbound[r].queue /\ new.recorded = inbound[r].recorded
             /\ new.prior = inbound[r].prior /\ new.replies = inbound[r].replies
  BY <1>0, <1>2 DEF InboundState
<1>3. inbound' = [inbound EXCEPT ![r] = [inbound[r] EXCEPT !.state = state]]
  BY <1>0
<1> QED BY <1>0, <1>1, <1>2, <1>3, QuestionSound DEF Answering

LEMMA AskingSound ==
    ASSUME TurnAssumption, IInv, NEW r \in Run, Asking(r)
    PROVE  IInv'
<1>0. /\ inbound \in [Run -> InboundState] /\ inbound[r] \in InboundState
      /\ inbound[r].recorded \in {"yes", "no", None}
  BY DEF IInv, TypeInv, InboundState
<1>1. ASSUME NEW answer \in {"denied"}, Reply(r, answer), inbound[r].state # "idle",
             UNCHANGED <<slot, turn, worker, conn>>
      PROVE  IInv'
  <2>1. inbound' = [inbound EXCEPT ![r] = [inbound[r] EXCEPT !.state = "idle", !.recorded = inbound[r].recorded,
                        !.prior = answer, !.replies = inbound[r].replies \cup {answer}]]
    BY <1>0, <1>1 DEF Reply, InboundState
  <2> QED BY <1>0, <1>1, <2>1, ReplySound DEF Answers
<1>2. CASE AskOwner(r)
  BY <1>1, <1>2, AskedSound DEF AskOwner
<1>3. CASE Expire(r)
  BY <1>1, <1>3 DEF Expire
<1>4. ASSUME NEW answer \in {"yes", "no"}, OwnerAnswers(r, answer) PROVE IInv'
  BY <1>4, AskedSound DEF OwnerAnswers
<1>5. ASSUME NEW answer \in {"yes", "no"}, AnswerRecorded(r, answer) PROVE IInv'
  <2>1. CASE inbound' = [inbound EXCEPT ![r].state = "idle", ![r].recorded = answer, ![r].prior = answer,
                                        ![r].replies = @ \cup {answer}]
    <3>1. inbound' = [inbound EXCEPT ![r] = [inbound[r] EXCEPT !.state = "idle", !.recorded = answer,
                          !.prior = answer, !.replies = inbound[r].replies \cup {answer}]]
      BY <1>0, <2>1 DEF InboundState
    <3> QED BY <1>5, <3>1, ReplySound DEF AnswerRecorded, Answers
  <2>2. CASE inbound' = [inbound EXCEPT ![r].state = "stuck"]
    BY <1>5, <2>2, AskedSound DEF AnswerRecorded
  <2> QED BY <1>5, <2>1, <2>2 DEF AnswerRecorded
<1> QED BY <1>2, <1>3, <1>4, <1>5, SendSound, HandleSound DEF Asking

-----------------------------------------------------------------------------
LEMMA NextSound == TurnAssumption /\ IInv /\ [Next]_vars => IInv'
<1> SUFFICES ASSUME TurnAssumption, IInv, [Next]_vars PROVE IInv'
  OBVIOUS
<1>1. CASE UNCHANGED vars
  <2>1. UNCHANGED <<slot, turn, worker, conn, inbound>>
    BY <1>1 DEF vars
  <2>2. TypeInv'
    BY <2>1 DEF IInv, TypeInv
  <2>3. ASSUME NEW r \in Run PROVE RunInv(r)' /\ Holds(r)'
    BY <2>1 DEF IInv, RunInv, Untouched, Confirms, Revokes, Answering, Holds, GroupGone
  <2> QED BY <2>2, <2>3 DEF IInv
<1>2. ASSUME NEW r \in Run,
             \/ Refused(r) \/ Spawn(r) \/ Identify(r) \/ Persist(r)
             \/ Answered(r) \/ Broken(r) \/ Cancel(r) \/ Dies(r) \/ ChildCloses(r)
             \/ Ending(r) \/ Terminating(r) \/ Return(r) \/ Asking(r)
      PROVE  IInv'
  BY <1>2, ConnectSound, WorkSound, WorkerSound, EndingSound, TerminatingSound, AskingSound
<1> QED BY <1>1, <1>2 DEF Next

(***************************************************************************)
(* The inductive invariant holds of any number of runs.                    *)
(***************************************************************************)
THEOREM Invariant == ASSUME TurnAssumption PROVE Spec => []IInv
<1>1. Init => IInv
  BY InitSound
<1>2. IInv /\ [Next]_vars => IInv'
  BY NextSound
<1> QED BY <1>1, <1>2, PTL DEF Spec

(***************************************************************************)
(* Whoever finds the transport free, or reads a decided outcome of a turn  *)
(* that started, finds no process of an earlier worker or of its group, in *)
(* whatever order the turn, its connection and its worker came to an end   *)
(* and whatever the probes said (execution/cursor-acp-stdio.ts).           *)
(***************************************************************************)
THEOREM NothingLeftHolds == ASSUME TurnAssumption PROVE Spec => [](SlotMeansGone /\ OutcomeMeansGone)
<1>1. IInv => SlotMeansGone /\ OutcomeMeansGone
  <2> SUFFICES ASSUME IInv PROVE SlotMeansGone /\ OutcomeMeansGone
    OBVIOUS
  <2>1. \A r \in Run : r # None
    BY DEF TurnAssumption
  <2> QED BY <2>1 DEF IInv, RunInv, Confirms, Holds, SlotMeansGone, OutcomeMeansGone
<1> QED BY <1>1, Invariant, PTL

(***************************************************************************)
(* All that a turn promises: the two above; a worker is signalled behind   *)
(* the revocation of its run on record; and a question of the provider,    *)
(* whatever is sent twice, denied or late, has one reply, of which         *)
(* approval is one that the owner gave on record.                          *)
(***************************************************************************)
THEOREM TurnsSafeHolds == ASSUME TurnAssumption PROVE Spec => []TurnsSafe
<1>1. IInv => SignalledOnRecord /\ OneAnswer
  BY DEF IInv, RunInv, Revokes, Answering, SignalledOnRecord, OneAnswer
<1> QED BY <1>1, Invariant, NothingLeftHolds, PTL DEF TurnsSafe

-----------------------------------------------------------------------------
\* Native tasks: the inductive invariant.

Kinds == {"prepare_intended", "thread_observed", "prepared", "turn_intended", "checked",
          "turn_observed", "interrupt_intended", "terminal", "uncertain"}
PreparingAt == {"connect", "found", "goal", "record"}
StartingAt == {"start", "resume", "activate", "guard", "validate", "dispatch"}
TurningAt == {"started", "wait"}
EndingAt == {"pause", "end", "close", "terminal", "uncertain"}
ExecutingAt == StartingAt \cup TurningAt \cup EndingAt
Outcomes == {"completed", "cancelled", "failed", None}
Cancels == {"none", "eof", "interrupt", "intended", "failed", "cut", "revoked", "done"}

CallState == [at : {"idle"} \cup PreparingAt \cup ExecutingAt, run : Run \cup {None},
              error : BOOLEAN, terminal : BOOLEAN, requested : BOOLEAN, outcome : Outcomes]
TaskState == [goal : {"none", "paused", "active"}, of : Run \cup {None, "others"},
              turn : {"none", "running", "completed", "failed", "interrupted", "cut"},
              by : Run \cup {None, "others"}]

TaskTypeInv ==
    /\ records \in [Run -> SUBSET Kinds]
    /\ outcome \in [Run -> Outcomes \cup {"interrupted_uncertain"}]
    /\ revoked \subseteq Run
    /\ task \in [Run -> TaskState]
    /\ call \in CallState
    /\ cancel \in Cancels
    /\ turns \in [Run -> Nat]
    /\ ended \in [Run -> {None, "completed", "failed", "late"}]
    /\ call.at # "idle" => call.run \in Run

RunningBy(t, r) == task[t].turn = "running" /\ task[t].by = r

\* The turn at the head of the queue is intended on record, and nobody knows its end.
CallInv ==
    /\ call.at \in ExecutingAt => Tasks!Unresolved(call.run)
    /\ call.at \in StartingAt => turns[call.run] = 0
    /\ call.at \in TurningAt => call.requested
    /\ \A r \in Run : turns[r] <= 1 /\ (turns[r] > 0 => "turn_intended" \in records[r])

\* One end at most is not known; whoever runs or holds a goal is of that run, on its own task.
HeldInv ==
    /\ \A q, r \in Run : Tasks!Unresolved(q) /\ Tasks!Unresolved(r) => q = r
    /\ \A t, r \in Run : RunningBy(t, r) => Tasks!Unresolved(r) /\ Tasks!Task(r) = t
    /\ \A t, r \in Run : task[t].goal = "active" /\ task[t].of = r => Tasks!Unresolved(r) /\ Tasks!Task(r) = t
    /\ call.at \in {"activate", "guard", "validate", "dispatch"} \cup TurningAt \cup {"pause", "end", "terminal"}
         => task[Tasks!Task(call.run)].of \in {call.run, "others"}
    /\ call.at \in {"end", "terminal"} =>
         ~(task[Tasks!Task(call.run)].goal = "active" /\ task[Tasks!Task(call.run)].of \in Run)
    /\ call.at = "terminal" => ~RunningBy(Tasks!Task(call.run), call.run)

\* Whoever is not cancelled is not revoked; and is cut off, or interrupted, behind that.
RevokedInv ==
    /\ ~Tasks!Active => cancel = "none"
    /\ call.at \in StartingAt \cup TurningAt /\ cancel = "none" => call.run \notin revoked
    /\ Tasks!Active /\ cancel = "revoked" => call.run \in revoked

\* A completed outcome is that of the run's turn, which ended before the run was revoked.
EndInv ==
    /\ \A r \in Run : outcome[r] = "completed" => "terminal" \in records[r] /\ ended[r] = "completed"
    /\ call.at \in TurningAt /\ call.terminal /\ ~call.error /\ task[Tasks!Task(call.run)].turn = "completed" =>
         ended[call.run] = "completed" \/ call.run \in revoked
    /\ call.at \in StartingAt \cup TurningAt => call.outcome = None
    /\ call.at \in EndingAt /\ call.outcome = "completed" =>
         ended[call.run] = "completed" /\ \A t \in Run : ~RunningBy(t, call.run)

TaskInv == TaskTypeInv /\ CallInv /\ HeldInv /\ RevokedInv /\ EndInv

-----------------------------------------------------------------------------
\* A task with some of its fields replaced.
LEMMA TaskSet ==
    ASSUME TaskTypeInv, NEW t \in Run, NEW new \in TaskState, task' = [task EXCEPT ![t] = new]
    PROVE  task' \in [Run -> TaskState] /\ task'[t] = new /\ \A u \in Run \ {t} : task'[u] = task[u]
BY DEF TaskTypeInv

LEMMA TaskOf == ASSUME Tasks!SupervisorAssumption, NEW r \in Run PROVE Tasks!Task(r) \in Run
BY DEF Tasks!SupervisorAssumption, Tasks!Task

\* The call moves on, and nothing else changes.
LEMMA CallSet ==
    ASSUME TaskTypeInv, NEW at \in {"idle"} \cup PreparingAt \cup ExecutingAt, Tasks!Goes(at)
    PROVE  /\ call' \in CallState /\ call'.at = at /\ call'.run = call.run /\ call'.outcome = call.outcome
           /\ call'.terminal = call.terminal /\ call'.error = call.error /\ call'.requested = call.requested
BY DEF TaskTypeInv, CallState, Tasks!Goes

LEMMA GivesUpSet ==
    ASSUME TaskTypeInv, Tasks!GivesUp
    PROVE  /\ call' \in CallState /\ call'.at = "close" /\ call'.run = call.run /\ call'.outcome = call.outcome
           /\ call'.terminal = FALSE /\ call'.error = call.error /\ call'.requested = call.requested
BY DEF TaskTypeInv, CallState, Tasks!GivesUp, PreparingAt, ExecutingAt, StartingAt, TurningAt, EndingAt

LEMMA GivesUpKeeps ==
    ASSUME Tasks!SupervisorAssumption, TaskInv, call.at \in ExecutingAt, Tasks!GivesUp,
           UNCHANGED <<records, outcome, revoked, task, cancel, turns, ended>>
    PROVE  TaskInv'
<1>0. TaskTypeInv /\ CallInv /\ HeldInv /\ RevokedInv /\ EndInv /\ call.run \in Run
  BY DEF TaskInv, TaskTypeInv, PreparingAt, ExecutingAt, StartingAt, TurningAt, EndingAt
<1>1. TaskTypeInv'
  BY <1>0, GivesUpSet DEF TaskTypeInv, PreparingAt, ExecutingAt, StartingAt, TurningAt, EndingAt
<1>2. CallInv'
  BY <1>0, GivesUpSet DEF CallInv, Tasks!Unresolved, PreparingAt, ExecutingAt, StartingAt, TurningAt,
       EndingAt
<1>3. HeldInv'
  BY <1>0, GivesUpSet DEF HeldInv, RunningBy, Tasks!Unresolved, Tasks!Task, PreparingAt, ExecutingAt,
       StartingAt, TurningAt, EndingAt
<1>4. RevokedInv'
  BY <1>0, GivesUpSet DEF RevokedInv, Tasks!Active, PreparingAt, ExecutingAt, StartingAt, TurningAt,
       EndingAt
<1>5. EndInv'
  <2>1. call.outcome = "completed" => call.at \in EndingAt
    BY <1>0 DEF EndInv, PreparingAt, ExecutingAt, StartingAt, TurningAt, EndingAt,
         Tasks!SupervisorAssumption
  <2> QED BY <1>0, <2>1, GivesUpSet DEF EndInv, RunningBy, PreparingAt, ExecutingAt, StartingAt, TurningAt,
       EndingAt
<1> QED BY <1>1, <1>2, <1>3, <1>4, <1>5 DEF TaskInv

LEMMA GoesKeeps ==
    ASSUME Tasks!SupervisorAssumption, TaskInv, call.at \in {"resume", "guard", "validate"},
           NEW at \in {"activate", "validate", "dispatch"}, Tasks!Goes(at),
           task[Tasks!Task(call.run)].of \in {call.run, "others"},
           UNCHANGED <<records, outcome, revoked, task, cancel, turns, ended>>
    PROVE  TaskInv'
<1>0. /\ TaskTypeInv /\ CallInv /\ HeldInv /\ RevokedInv /\ EndInv /\ call.run \in Run
      /\ at \in {"idle"} \cup PreparingAt \cup ExecutingAt
  BY DEF TaskInv, TaskTypeInv, PreparingAt, ExecutingAt, StartingAt, TurningAt, EndingAt
<1>1. TaskTypeInv'
  BY <1>0, CallSet DEF TaskTypeInv, PreparingAt, ExecutingAt, StartingAt, TurningAt, EndingAt
<1>2. CallInv'
  BY <1>0, CallSet DEF CallInv, Tasks!Unresolved, PreparingAt, ExecutingAt, StartingAt, TurningAt, EndingAt
<1>3. HeldInv'
  BY <1>0, CallSet DEF HeldInv, RunningBy, Tasks!Unresolved, Tasks!Task, PreparingAt, ExecutingAt,
       StartingAt, TurningAt, EndingAt
<1>4. RevokedInv'
  BY <1>0, CallSet DEF RevokedInv, Tasks!Active, PreparingAt, ExecutingAt, StartingAt, TurningAt, EndingAt
<1>5. EndInv'
  BY <1>0, CallSet DEF EndInv, RunningBy, PreparingAt, ExecutingAt, StartingAt, TurningAt, EndingAt
<1> QED BY <1>1, <1>2, <1>3, <1>4, <1>5 DEF TaskInv

\* One field of a task is replaced.
LEMMA GoalSet ==
    ASSUME TaskTypeInv, NEW t \in Run, NEW goal \in {"paused", "active"}, task' = [task EXCEPT ![t].goal = goal]
    PROVE  /\ task' \in [Run -> TaskState] /\ task'[t].goal = goal
           /\ \A u \in Run : /\ u # t => task'[u] = task[u]
                             /\ task'[u].of = task[u].of /\ task'[u].turn = task[u].turn /\ task'[u].by = task[u].by
<1>1. task' = [task EXCEPT ![t] = [task[t] EXCEPT !.goal = goal]]
  BY DEF TaskTypeInv, TaskState
<1>2. ASSUME NEW new, new = [task[t] EXCEPT !.goal = goal]
      PROVE  /\ new \in TaskState /\ new.goal = goal
             /\ new.of = task[t].of /\ new.turn = task[t].turn /\ new.by = task[t].by
  <2>1. task[t] \in TaskState
    BY DEF TaskTypeInv
  <2> QED BY <1>2, <2>1 DEF TaskState
<1> QED BY <1>1, <1>2, TaskSet

LEMMA TurnSet ==
    ASSUME TaskTypeInv, NEW t \in Run, NEW state \in {"none", "running", "completed", "failed", "interrupted", "cut"},
           task' = [task EXCEPT ![t].turn = state]
    PROVE  /\ task' \in [Run -> TaskState] /\ task'[t].turn = state
           /\ \A u \in Run : /\ u # t => task'[u] = task[u]
                             /\ task'[u].of = task[u].of /\ task'[u].goal = task[u].goal /\ task'[u].by = task[u].by
<1>1. task' = [task EXCEPT ![t] = [task[t] EXCEPT !.turn = state]]
  BY DEF TaskTypeInv, TaskState
<1>2. ASSUME NEW new, new = [task[t] EXCEPT !.turn = state]
      PROVE  /\ new \in TaskState /\ new.turn = state
             /\ new.of = task[t].of /\ new.goal = task[t].goal /\ new.by = task[t].by
  <2>1. task[t] \in TaskState
    BY DEF TaskTypeInv
  <2> QED BY <1>2, <2>1 DEF TaskState
<1> QED BY <1>1, <1>2, TaskSet

\* A turn of ours that is cut off does not run any more.
LEMMA CutOffSet ==
    ASSUME TaskTypeInv, NEW t \in Run, Tasks!CutOff(t)
    PROVE  /\ task' \in [Run -> TaskState]
           /\ task'[t].turn = IF task[t].turn = "running" /\ task[t].by \in Run THEN "cut" ELSE task[t].turn
           /\ \A u \in Run : /\ u # t => task'[u] = task[u]
                             /\ task'[u].of = task[u].of /\ task'[u].goal = task[u].goal /\ task'[u].by = task[u].by
<1> DEFINE state == IF task[t].turn = "running" /\ task[t].by \in Run THEN "cut" ELSE task[t].turn
<1>1. task' = [task EXCEPT ![t].turn = state]
  BY DEF Tasks!CutOff, TaskTypeInv, TaskState
<1>2. state \in {"none", "running", "completed", "failed", "interrupted", "cut"}
  BY DEF TaskTypeInv, TaskState
<1> HIDE DEF state
<1>3. /\ task' \in [Run -> TaskState] /\ task'[t].turn = state
      /\ \A u \in Run : /\ u # t => task'[u] = task[u]
                        /\ task'[u].of = task[u].of /\ task'[u].goal = task[u].goal /\ task'[u].by = task[u].by
  BY <1>1, <1>2, TurnSet
<1> QED BY <1>3 DEF state

\* The call is over, and nothing else changes.
LEMMA LeavesKeeps ==
    ASSUME Tasks!SupervisorAssumption, TaskInv, Tasks!Leaves, UNCHANGED <<records, outcome, revoked, task, turns, ended>>,
           cancel' = "none"
    PROVE  TaskInv'
<1>0. TaskTypeInv /\ CallInv /\ HeldInv /\ RevokedInv /\ EndInv
  BY DEF TaskInv
<1>1. call' \in CallState /\ call'.at = "idle"
  BY DEF Tasks!Leaves, Tasks!Idle, CallState, Outcomes
<1>2. TaskTypeInv'
  BY <1>0, <1>1 DEF TaskTypeInv, Cancels
<1>3. CallInv' /\ RevokedInv' /\ EndInv'
  BY <1>0, <1>1 DEF CallInv, RevokedInv, EndInv, Tasks!Unresolved, Tasks!Active, PreparingAt, ExecutingAt,
       StartingAt, TurningAt, EndingAt
<1>4. HeldInv'
  BY <1>0, <1>1 DEF HeldInv, RunningBy, Tasks!Unresolved, Tasks!Task, PreparingAt, ExecutingAt, StartingAt,
       TurningAt, EndingAt
<1> QED BY <1>2, <1>3, <1>4 DEF TaskInv

LEMMA FindTaskKeeps ==
    ASSUME Tasks!SupervisorAssumption, TaskInv, Tasks!FindTask
    PROVE  TaskInv'
<1>0. /\ TaskTypeInv /\ CallInv /\ HeldInv /\ RevokedInv /\ EndInv /\ call.run \in Run /\ call.at = "connect"
      /\ UNCHANGED <<records, outcome, revoked, cancel, turns, ended>>
  BY DEF TaskInv, TaskTypeInv, Tasks!FindTask, PreparingAt, ExecutingAt, StartingAt, TurningAt, EndingAt
<1>1. call' \in CallState /\ call'.at \in {"found", "idle"} /\ (call'.at # "idle" => call'.run = call.run)
  <2>1. Tasks!Goes("found") \/ Tasks!Leaves
    BY DEF Tasks!FindTask
  <2>2. Tasks!Goes("found") => call' \in CallState /\ call'.at = "found" /\ call'.run = call.run
    BY <1>0, CallSet DEF PreparingAt, ExecutingAt, StartingAt, TurningAt, EndingAt
  <2>3. Tasks!Leaves => call' \in CallState /\ call'.at = "idle"
    BY DEF Tasks!Leaves, Tasks!Idle, CallState, Outcomes
  <2> QED BY <2>1, <2>2, <2>3
<1>2. /\ task' \in [Run -> TaskState]
      /\ \A t \in Run : task'[t] = task[t] \/ (task'[t].turn = "none" /\ task'[t].goal = "none")
  <2>1. CASE UNCHANGED task
    BY <1>0, <2>1 DEF TaskTypeInv
  <2>2. CASE task' = [task EXCEPT ![call.run] = [Tasks!NoTask EXCEPT !.of = call.run]]
    <3>1. ASSUME NEW new, new = [Tasks!NoTask EXCEPT !.of = call.run]
          PROVE  new \in TaskState /\ new.turn = "none" /\ new.goal = "none"
      BY <1>0, <3>1 DEF Tasks!NoTask, TaskState
    <3> QED BY <1>0, <2>2, <3>1, TaskSet
  <2> QED BY <2>1, <2>2 DEF Tasks!FindTask
<1>3. TaskTypeInv'
  BY <1>0, <1>1, <1>2 DEF TaskTypeInv
<1>4. CallInv'
  BY <1>0, <1>1 DEF CallInv, Tasks!Unresolved, PreparingAt, ExecutingAt, StartingAt, TurningAt, EndingAt
<1>5. HeldInv'
  BY <1>0, <1>1, <1>2 DEF HeldInv, RunningBy, Tasks!Unresolved, Tasks!Task, PreparingAt, ExecutingAt,
       StartingAt, TurningAt, EndingAt
<1>6. RevokedInv' /\ EndInv'
  BY <1>0, <1>1 DEF RevokedInv, EndInv, Tasks!Active, PreparingAt, ExecutingAt, StartingAt, TurningAt,
       EndingAt
<1> QED BY <1>3, <1>4, <1>5, <1>6 DEF TaskInv

LEMMA ObserveThreadKeeps ==
    ASSUME Tasks!SupervisorAssumption, TaskInv, Tasks!ObserveThread
    PROVE  TaskInv'
<1>0. TaskTypeInv /\ CallInv /\ HeldInv /\ RevokedInv /\ EndInv
  BY DEF TaskInv
<1>1. TaskTypeInv'
  BY <1>0 DEF Tasks!ObserveThread, Tasks!Goes, Tasks!Records, TaskTypeInv, CallState, TaskState, Kinds,
       Outcomes, Cancels, PreparingAt, ExecutingAt, StartingAt, TurningAt, EndingAt
<1>2. CallInv'
  BY <1>0 DEF Tasks!ObserveThread, Tasks!Goes, Tasks!Records, Tasks!Unresolved, TaskTypeInv, CallState,
       CallInv, PreparingAt, ExecutingAt, StartingAt, TurningAt, EndingAt
<1>3. HeldInv'
  BY <1>0 DEF Tasks!ObserveThread, Tasks!Goes, Tasks!Records, Tasks!Task, Tasks!Unresolved, TaskTypeInv,
       CallState, TaskState, CallInv, HeldInv, RunningBy, PreparingAt, ExecutingAt, StartingAt, TurningAt,
       EndingAt
<1>4. RevokedInv'
  BY <1>0 DEF Tasks!ObserveThread, Tasks!Goes, Tasks!Records, Tasks!Unresolved, Tasks!Active, TaskTypeInv,
       CallState, CallInv, RevokedInv, PreparingAt, ExecutingAt, StartingAt, TurningAt, EndingAt
<1>5. EndInv'
  BY <1>0 DEF Tasks!ObserveThread, Tasks!Goes, Tasks!Records, Tasks!Task, Tasks!Unresolved, Tasks!Active,
       TaskTypeInv, CallState, TaskState, CallInv, HeldInv, RevokedInv, EndInv, RunningBy, PreparingAt,
       ExecutingAt, StartingAt, TurningAt, EndingAt
<1> QED BY <1>1, <1>2, <1>3, <1>4, <1>5 DEF TaskInv

LEMMA SetGoalKeeps ==
    ASSUME Tasks!SupervisorAssumption, TaskInv, Tasks!SetGoal
    PROVE  TaskInv'
<1>0. TaskTypeInv /\ CallInv /\ HeldInv /\ RevokedInv /\ EndInv
  BY DEF TaskInv
<1>1. TaskTypeInv'
  BY <1>0 DEF Tasks!SetGoal, Tasks!Goes, Tasks!Task, TaskTypeInv, CallState, TaskState, Kinds, Outcomes,
       Cancels, Tasks!SupervisorAssumption, PreparingAt, ExecutingAt, StartingAt, TurningAt, EndingAt
<1>2. CallInv'
  BY <1>0 DEF Tasks!SetGoal, Tasks!Goes, Tasks!Task, Tasks!Unresolved, TaskTypeInv, CallState, CallInv,
       PreparingAt, ExecutingAt, StartingAt, TurningAt, EndingAt
<1>3. HeldInv'
  BY <1>0 DEF Tasks!SetGoal, Tasks!Goes, Tasks!Task, Tasks!Unresolved, TaskTypeInv, CallState, TaskState,
       CallInv, HeldInv, RunningBy, PreparingAt, ExecutingAt, StartingAt, TurningAt, EndingAt
<1>4. RevokedInv'
  BY <1>0 DEF Tasks!SetGoal, Tasks!Goes, Tasks!Task, Tasks!Unresolved, Tasks!Active, TaskTypeInv, CallState,
       CallInv, RevokedInv, PreparingAt, ExecutingAt, StartingAt, TurningAt, EndingAt
<1>5. EndInv'
  BY <1>0 DEF Tasks!SetGoal, Tasks!Goes, Tasks!Task, Tasks!Unresolved, Tasks!Active, TaskTypeInv, CallState,
       TaskState, CallInv, HeldInv, RevokedInv, EndInv, RunningBy, PreparingAt, ExecutingAt, StartingAt,
       TurningAt, EndingAt
<1> QED BY <1>1, <1>2, <1>3, <1>4, <1>5 DEF TaskInv

LEMMA PreparedKeeps ==
    ASSUME Tasks!SupervisorAssumption, TaskInv, Tasks!Prepared
    PROVE  TaskInv'
<1>0. TaskTypeInv /\ CallInv /\ HeldInv /\ RevokedInv /\ EndInv
  BY DEF TaskInv
<1>1. TaskTypeInv'
  BY <1>0 DEF Tasks!Prepared, Tasks!Leaves, Tasks!Records, Tasks!Idle, TaskTypeInv, CallState, TaskState,
       Kinds, Outcomes, Cancels, PreparingAt, ExecutingAt, StartingAt, TurningAt, EndingAt
<1>2. CallInv'
  BY <1>0 DEF Tasks!Prepared, Tasks!Leaves, Tasks!Records, Tasks!Idle, Tasks!Unresolved, TaskTypeInv,
       CallState, CallInv, PreparingAt, ExecutingAt, StartingAt, TurningAt, EndingAt
<1>3. HeldInv'
  BY <1>0 DEF Tasks!Prepared, Tasks!Leaves, Tasks!Records, Tasks!Idle, Tasks!Task, Tasks!Unresolved,
       TaskTypeInv, CallState, TaskState, CallInv, HeldInv, RunningBy, PreparingAt, ExecutingAt, StartingAt,
       TurningAt, EndingAt
<1>4. RevokedInv'
  BY <1>0 DEF Tasks!Prepared, Tasks!Leaves, Tasks!Records, Tasks!Idle, Tasks!Unresolved, Tasks!Active,
       TaskTypeInv, CallState, CallInv, RevokedInv, PreparingAt, ExecutingAt, StartingAt, TurningAt,
       EndingAt
<1>5. EndInv'
  BY <1>0 DEF Tasks!Prepared, Tasks!Leaves, Tasks!Records, Tasks!Idle, Tasks!Task, Tasks!Unresolved,
       Tasks!Active, TaskTypeInv, CallState, TaskState, CallInv, HeldInv, RevokedInv, EndInv, RunningBy,
       PreparingAt, ExecutingAt, StartingAt, TurningAt, EndingAt
<1> QED BY <1>1, <1>2, <1>3, <1>4, <1>5 DEF TaskInv

LEMMA ConnectKeeps ==
    ASSUME Tasks!SupervisorAssumption, TaskInv, Tasks!Connect
    PROVE  TaskInv'
<1>0. TaskTypeInv /\ CallInv /\ HeldInv /\ RevokedInv /\ EndInv
  BY DEF TaskInv
<1>1. TaskTypeInv'
  BY <1>0 DEF Tasks!Connect, Tasks!Goes, TaskTypeInv, CallState, TaskState, Kinds, Outcomes, Cancels,
       PreparingAt, ExecutingAt, StartingAt, TurningAt, EndingAt
<1>2. CallInv'
  BY <1>0 DEF Tasks!Connect, Tasks!Goes, Tasks!Unresolved, TaskTypeInv, CallState, CallInv, PreparingAt,
       ExecutingAt, StartingAt, TurningAt, EndingAt
<1>3. HeldInv'
  BY <1>0 DEF Tasks!Connect, Tasks!Goes, Tasks!Task, Tasks!Unresolved, TaskTypeInv, CallState, TaskState,
       CallInv, HeldInv, RunningBy, PreparingAt, ExecutingAt, StartingAt, TurningAt, EndingAt
<1>4. RevokedInv'
  BY <1>0 DEF Tasks!Connect, Tasks!Goes, Tasks!Unresolved, Tasks!Active, TaskTypeInv, CallState, CallInv,
       RevokedInv, PreparingAt, ExecutingAt, StartingAt, TurningAt, EndingAt
<1>5. EndInv'
  BY <1>0 DEF Tasks!Connect, Tasks!Goes, Tasks!Task, Tasks!Unresolved, Tasks!Active, TaskTypeInv, CallState,
       TaskState, CallInv, HeldInv, RevokedInv, EndInv, RunningBy, PreparingAt, ExecutingAt, StartingAt,
       TurningAt, EndingAt
<1> QED BY <1>1, <1>2, <1>3, <1>4, <1>5 DEF TaskInv

LEMMA ResumeKeeps ==
    ASSUME Tasks!SupervisorAssumption, TaskInv, Tasks!Resume
    PROVE  TaskInv'
<1>1. CASE Tasks!Rests(call.run, call.run) /\ Tasks!Goes("activate")
  BY <1>1, GoesKeeps DEF Tasks!Resume, Tasks!Rests
<1>2. CASE Tasks!GivesUp
  BY <1>2, GivesUpKeeps DEF Tasks!Resume, PreparingAt, ExecutingAt, StartingAt, TurningAt, EndingAt
<1> QED BY <1>1, <1>2 DEF Tasks!Resume

LEMMA ActivateKeeps ==
    ASSUME Tasks!SupervisorAssumption, TaskInv, Tasks!Activate
    PROVE  TaskInv'
<1>0. /\ TaskTypeInv /\ CallInv /\ HeldInv /\ RevokedInv /\ EndInv /\ call.at = "activate"
      /\ call.run \in Run /\ Tasks!Task(call.run) \in Run /\ Tasks!Unresolved(call.run)
      /\ task[Tasks!Task(call.run)].of \in {call.run, "others"}
      /\ UNCHANGED <<outcome, revoked, cancel, turns, ended>>
  BY TaskOf DEF TaskInv, TaskTypeInv, CallInv, HeldInv, Tasks!Activate, PreparingAt, ExecutingAt,
       StartingAt, TurningAt, EndingAt
<1>1. CASE Tasks!GivesUp /\ UNCHANGED <<task, records>>
  BY <1>0, <1>1, GivesUpKeeps DEF PreparingAt, ExecutingAt, StartingAt, TurningAt, EndingAt
<1>2. CASE /\ task' = [task EXCEPT ![Tasks!Task(call.run)].goal = "active"]
           /\ Tasks!Records(call.run, "checked") /\ (Tasks!Goes("guard") \/ Tasks!GivesUp)
  <2>1. /\ call' \in CallState /\ call'.at \in {"guard", "close"} /\ call'.run = call.run
        /\ call'.outcome = call.outcome
    BY <1>0, <1>2, CallSet, GivesUpSet DEF PreparingAt, ExecutingAt, StartingAt, TurningAt, EndingAt
  <2>2. /\ records' \in [Run -> SUBSET Kinds]
        /\ \A q \in Run : records'[q] \ {"checked"} = records[q] \ {"checked"} /\ records[q] \subseteq records'[q]
    BY <1>0, <1>2 DEF Tasks!Records, TaskTypeInv, Kinds
  <2>3. \A q \in Run : Tasks!Unresolved(q)' <=> Tasks!Unresolved(q)
    BY <2>2 DEF Tasks!Unresolved
  <2>4. /\ task' \in [Run -> TaskState] /\ task'[Tasks!Task(call.run)].goal = "active"
        /\ \A t \in Run : /\ t # Tasks!Task(call.run) => task'[t] = task[t]
                          /\ task'[t].of = task[t].of /\ task'[t].turn = task[t].turn /\ task'[t].by = task[t].by
    BY <1>0, <1>2 DEF TaskTypeInv, TaskState
  <2>5. TaskTypeInv'
    BY <1>0, <2>1, <2>2, <2>4 DEF TaskTypeInv
  <2>6. CallInv'
    BY <1>0, <2>1, <2>2, <2>3 DEF CallInv, PreparingAt, ExecutingAt, StartingAt, TurningAt, EndingAt
  <2>7. HeldInv'
    <3>1. \A q \in Run : Tasks!Task(q)' = Tasks!Task(q)
      BY DEF Tasks!Task
    <3>2. \A t \in Run, q \in Run : task'[t].goal = "active" /\ task'[t].of = q =>
              (task[t].goal = "active" /\ task[t].of = q) \/ (t = Tasks!Task(call.run) /\ q = call.run)
      BY <1>0, <2>4 DEF Tasks!SupervisorAssumption
    <3> QED BY <1>0, <2>1, <2>3, <2>4, <3>1, <3>2 DEF HeldInv, RunningBy, PreparingAt, ExecutingAt,
         StartingAt, TurningAt, EndingAt
  <2>8. RevokedInv' /\ EndInv'
    BY <1>0, <2>1, <2>2, <2>4 DEF RevokedInv, EndInv, RunningBy, Tasks!Active, Tasks!SupervisorAssumption,
         PreparingAt, ExecutingAt, StartingAt, TurningAt, EndingAt
  <2> QED BY <2>5, <2>6, <2>7, <2>8 DEF TaskInv
<1> QED BY <1>1, <1>2 DEF Tasks!Activate

LEMMA GuardTurnKeeps ==
    ASSUME Tasks!SupervisorAssumption, TaskInv, Tasks!GuardTurn
    PROVE  TaskInv'
<1>1. CASE Tasks!Goes("validate")
  <2>1. task[Tasks!Task(call.run)].of \in {call.run, "others"}
    BY DEF Tasks!GuardTurn, TaskInv, HeldInv
  <2> QED BY <1>1, <2>1, GoesKeeps DEF Tasks!GuardTurn
<1>2. CASE Tasks!GivesUp
  BY <1>2, GivesUpKeeps DEF Tasks!GuardTurn, PreparingAt, ExecutingAt, StartingAt, TurningAt, EndingAt
<1> QED BY <1>1, <1>2 DEF Tasks!GuardTurn

LEMMA ValidateTurnKeeps ==
    ASSUME Tasks!SupervisorAssumption, TaskInv, Tasks!ValidateTurn
    PROVE  TaskInv'
<1>1. CASE Tasks!Goes("dispatch")
  <2>1. task[Tasks!Task(call.run)].of \in {call.run, "others"}
    BY DEF Tasks!ValidateTurn, TaskInv, HeldInv
  <2> QED BY <1>1, <2>1, GoesKeeps DEF Tasks!ValidateTurn
<1>2. CASE Tasks!GivesUp
  BY <1>2, GivesUpKeeps DEF Tasks!ValidateTurn, PreparingAt, ExecutingAt, StartingAt, TurningAt, EndingAt
<1> QED BY <1>1, <1>2 DEF Tasks!ValidateTurn

LEMMA StartTurnKeeps ==
    ASSUME Tasks!SupervisorAssumption, TaskInv, Tasks!StartTurn
    PROVE  TaskInv'
<1>0. /\ TaskTypeInv /\ CallInv /\ HeldInv /\ RevokedInv /\ EndInv /\ call.at = "dispatch"
      /\ call.run \in Run /\ Tasks!Task(call.run) \in Run /\ Tasks!Unresolved(call.run)
      /\ turns[call.run] = 0 /\ call.outcome = None
      /\ UNCHANGED <<records, outcome, revoked, cancel, ended>>
  BY TaskOf DEF TaskInv, TaskTypeInv, CallInv, EndInv, Tasks!StartTurn, PreparingAt, ExecutingAt,
       StartingAt, TurningAt, EndingAt
<1>1. CASE Tasks!GivesUp /\ UNCHANGED <<task, turns>>
  BY <1>0, <1>1, GivesUpKeeps DEF PreparingAt, ExecutingAt, StartingAt, TurningAt, EndingAt
<1>2. ASSUME turns' = [turns EXCEPT ![call.run] = @ + 1]
      PROVE  /\ turns' \in [Run -> Nat] /\ turns'[call.run] = 1
             /\ \A q \in Run : turns'[q] <= 1 /\ (turns'[q] > 0 => "turn_intended" \in records[q])
  BY <1>0, <1>2 DEF TaskTypeInv, CallInv, Tasks!Unresolved
<1>3. CASE Tasks!GivesUp /\ UNCHANGED task /\ turns' = [turns EXCEPT ![call.run] = @ + 1]
  <2>1. TaskTypeInv'
    BY <1>0, <1>2, <1>3, GivesUpSet DEF TaskTypeInv, PreparingAt, ExecutingAt, StartingAt, TurningAt,
         EndingAt
  <2>2. CallInv'
    BY <1>0, <1>2, <1>3, GivesUpSet DEF CallInv, Tasks!Unresolved, PreparingAt, ExecutingAt, StartingAt,
         TurningAt, EndingAt
  <2>3. HeldInv'
    BY <1>0, <1>3, GivesUpSet DEF HeldInv, RunningBy, Tasks!Unresolved, Tasks!Task, PreparingAt,
         ExecutingAt, StartingAt, TurningAt, EndingAt
  <2>4. RevokedInv' /\ EndInv'
    BY <1>0, <1>3, GivesUpSet DEF RevokedInv, EndInv, Tasks!Active, Tasks!SupervisorAssumption, PreparingAt,
         ExecutingAt, StartingAt, TurningAt, EndingAt
  <2> QED BY <2>1, <2>2, <2>3, <2>4 DEF TaskInv
<1>4. CASE /\ turns' = [turns EXCEPT ![call.run] = @ + 1]
           /\ task' = [task EXCEPT ![Tasks!Task(call.run)].turn = "running", ![Tasks!Task(call.run)].by = call.run]
           /\ call' = [call EXCEPT !.at = "started", !.requested = TRUE]
  <2>1. /\ call' \in CallState /\ call'.at = "started" /\ call'.run = call.run /\ call'.requested
        /\ call'.outcome = None
    BY <1>0, <1>4 DEF TaskTypeInv, CallState, PreparingAt, ExecutingAt, StartingAt, TurningAt, EndingAt
  <2>2. task' = [task EXCEPT ![Tasks!Task(call.run)] = [task[Tasks!Task(call.run)] EXCEPT !.turn = "running", !.by = call.run]]
    BY <1>0, <1>4 DEF TaskTypeInv, TaskState
  <2>3. ASSUME NEW new, new = [task[Tasks!Task(call.run)] EXCEPT !.turn = "running", !.by = call.run]
        PROVE  /\ new \in TaskState /\ new.turn = "running" /\ new.by = call.run
               /\ new.goal = task[Tasks!Task(call.run)].goal /\ new.of = task[Tasks!Task(call.run)].of
    <3>1. task[Tasks!Task(call.run)] \in TaskState
      BY <1>0 DEF TaskTypeInv
    <3> QED BY <1>0, <2>3, <3>1 DEF TaskState
  <2>4. /\ task' \in [Run -> TaskState] /\ task'[Tasks!Task(call.run)].turn = "running" /\ task'[Tasks!Task(call.run)].by = call.run
        /\ \A t \in Run : /\ t # Tasks!Task(call.run) => task'[t] = task[t]
                          /\ task'[t].goal = task[t].goal /\ task'[t].of = task[t].of
    BY <1>0, <2>2, <2>3, TaskSet
  <2>5. TaskTypeInv'
    BY <1>0, <1>2, <1>4, <2>1, <2>4 DEF TaskTypeInv
  <2>6. CallInv'
    BY <1>0, <1>2, <1>4, <2>1 DEF CallInv, Tasks!Unresolved, PreparingAt, ExecutingAt, StartingAt,
         TurningAt, EndingAt
  <2>7. HeldInv'
    <3>1. \A q \in Run : Tasks!Task(q)' = Tasks!Task(q) /\ (Tasks!Unresolved(q)' <=> Tasks!Unresolved(q))
      BY <1>0 DEF Tasks!Task, Tasks!Unresolved
    <3>2. \A t \in Run, q \in Run : RunningBy(t, q)' => RunningBy(t, q) \/ (t = Tasks!Task(call.run) /\ q = call.run)
      BY <1>0, <2>4 DEF RunningBy
    <3> QED BY <1>0, <2>1, <2>4, <3>1, <3>2 DEF HeldInv, PreparingAt, ExecutingAt, StartingAt, TurningAt,
         EndingAt
  <2>8. RevokedInv' /\ EndInv'
    <3>1. Tasks!Task(call.run)' = Tasks!Task(call'.run)
      BY DEF Tasks!Task
    <3>2. task'[Tasks!Task(call'.run)].turn = "running"
      BY <2>1, <2>4 DEF Tasks!Task
    <3> QED BY <1>0, <2>1, <2>4, <3>2 DEF RevokedInv, EndInv, Tasks!Task, Tasks!Active, PreparingAt,
         ExecutingAt, StartingAt, TurningAt, EndingAt
  <2> QED BY <2>5, <2>6, <2>7, <2>8 DEF TaskInv
<1> QED BY <1>1, <1>3, <1>4 DEF Tasks!StartTurn

LEMMA TurnObservedKeeps ==
    ASSUME Tasks!SupervisorAssumption, TaskInv, Tasks!TurnObserved
    PROVE  TaskInv'
<1>0. TaskTypeInv /\ CallInv /\ HeldInv /\ RevokedInv /\ EndInv
  BY DEF TaskInv
<1>1. TaskTypeInv'
  BY <1>0 DEF Tasks!TurnObserved, Tasks!Goes, Tasks!Records, TaskTypeInv, CallState, TaskState, Kinds,
       Outcomes, Cancels, PreparingAt, ExecutingAt, StartingAt, TurningAt, EndingAt
<1>2. CallInv'
  BY <1>0 DEF Tasks!TurnObserved, Tasks!Goes, Tasks!Records, Tasks!Unresolved, TaskTypeInv, CallState,
       CallInv, PreparingAt, ExecutingAt, StartingAt, TurningAt, EndingAt
<1>3. HeldInv'
  BY <1>0 DEF Tasks!TurnObserved, Tasks!Goes, Tasks!Records, Tasks!Task, Tasks!Unresolved, TaskTypeInv,
       CallState, TaskState, CallInv, HeldInv, RunningBy, PreparingAt, ExecutingAt, StartingAt, TurningAt,
       EndingAt
<1>4. RevokedInv'
  BY <1>0 DEF Tasks!TurnObserved, Tasks!Goes, Tasks!Records, Tasks!Unresolved, Tasks!Active, TaskTypeInv,
       CallState, CallInv, RevokedInv, PreparingAt, ExecutingAt, StartingAt, TurningAt, EndingAt
<1>5. EndInv'
  BY <1>0 DEF Tasks!TurnObserved, Tasks!Goes, Tasks!Records, Tasks!Task, Tasks!Unresolved, Tasks!Active,
       TaskTypeInv, CallState, TaskState, CallInv, HeldInv, RevokedInv, EndInv, RunningBy, PreparingAt,
       ExecutingAt, StartingAt, TurningAt, EndingAt
<1> QED BY <1>1, <1>2, <1>3, <1>4, <1>5 DEF TaskInv

LEMMA TurnEndsKeeps ==
    ASSUME Tasks!SupervisorAssumption, TaskInv, Tasks!TurnEnds
    PROVE  TaskInv'
<1>0. TaskTypeInv /\ CallInv /\ HeldInv /\ RevokedInv /\ EndInv
  BY DEF TaskInv
<1>1. TaskTypeInv'
  BY <1>0 DEF Tasks!TurnEnds, Tasks!Task, Tasks!OutcomeOf, TaskTypeInv, CallState, TaskState, Kinds,
       Outcomes, Cancels, PreparingAt, ExecutingAt, StartingAt, TurningAt, EndingAt
<1>2. CallInv'
  BY <1>0 DEF Tasks!TurnEnds, Tasks!Task, Tasks!Unresolved, Tasks!OutcomeOf, TaskTypeInv, CallState,
       CallInv, PreparingAt, ExecutingAt, StartingAt, TurningAt, EndingAt
<1>3. HeldInv'
  BY <1>0 DEF Tasks!TurnEnds, Tasks!Task, Tasks!Unresolved, Tasks!OutcomeOf, TaskTypeInv, CallState,
       TaskState, CallInv, HeldInv, RunningBy, PreparingAt, ExecutingAt, StartingAt, TurningAt, EndingAt
<1>4. RevokedInv'
  BY <1>0 DEF Tasks!TurnEnds, Tasks!Task, Tasks!Unresolved, Tasks!OutcomeOf, Tasks!Active, TaskTypeInv,
       CallState, CallInv, RevokedInv, PreparingAt, ExecutingAt, StartingAt, TurningAt, EndingAt
<1>5. EndInv'
  BY <1>0 DEF Tasks!TurnEnds, Tasks!Task, Tasks!Unresolved, Tasks!OutcomeOf, Tasks!Active, TaskTypeInv,
       CallState, TaskState, CallInv, HeldInv, RevokedInv, EndInv, RunningBy, PreparingAt, ExecutingAt,
       StartingAt, TurningAt, EndingAt
<1> QED BY <1>1, <1>2, <1>3, <1>4, <1>5 DEF TaskInv

LEMMA TurnFailsKeeps ==
    ASSUME Tasks!SupervisorAssumption, TaskInv, Tasks!TurnFails
    PROVE  TaskInv'
<1>0. TaskTypeInv /\ CallInv /\ HeldInv /\ RevokedInv /\ EndInv
  BY DEF TaskInv
<1>1. TaskTypeInv'
  BY <1>0 DEF Tasks!TurnFails, Tasks!GivesUp, TaskTypeInv, CallState, TaskState, Kinds, Outcomes, Cancels,
       PreparingAt, ExecutingAt, StartingAt, TurningAt, EndingAt
<1>2. CallInv'
  BY <1>0 DEF Tasks!TurnFails, Tasks!Unresolved, Tasks!GivesUp, TaskTypeInv, CallState, CallInv,
       PreparingAt, ExecutingAt, StartingAt, TurningAt, EndingAt
<1>3. HeldInv'
  BY <1>0 DEF Tasks!TurnFails, Tasks!Task, Tasks!Unresolved, Tasks!GivesUp, TaskTypeInv, CallState,
       TaskState, CallInv, HeldInv, RunningBy, PreparingAt, ExecutingAt, StartingAt, TurningAt, EndingAt
<1>4. RevokedInv'
  BY <1>0 DEF Tasks!TurnFails, Tasks!Unresolved, Tasks!GivesUp, Tasks!Active, TaskTypeInv, CallState,
       CallInv, RevokedInv, PreparingAt, ExecutingAt, StartingAt, TurningAt, EndingAt
<1>5. EndInv'
  BY <1>0 DEF Tasks!TurnFails, Tasks!Task, Tasks!Unresolved, Tasks!GivesUp, Tasks!Active, TaskTypeInv,
       CallState, TaskState, CallInv, HeldInv, RevokedInv, EndInv, RunningBy, Tasks!SupervisorAssumption,
       PreparingAt, ExecutingAt, StartingAt, TurningAt, EndingAt
<1> QED BY <1>1, <1>2, <1>3, <1>4, <1>5 DEF TaskInv

LEMMA PauseKeeps ==
    ASSUME Tasks!SupervisorAssumption, TaskInv, Tasks!Pause
    PROVE  TaskInv'
<1>0. /\ TaskTypeInv /\ CallInv /\ HeldInv /\ RevokedInv /\ EndInv /\ call.at = "pause"
      /\ call.run \in Run /\ Tasks!Task(call.run) \in Run
      /\ UNCHANGED <<records, outcome, revoked, cancel, turns, ended>>
  BY TaskOf DEF TaskInv, TaskTypeInv, Tasks!Pause
<1>1. /\ call' \in CallState /\ call'.at \in {"close", "end"} /\ call'.run = call.run
      /\ call'.outcome = call.outcome
  <2>1. Tasks!GivesUp \/ Tasks!Goes("end")
    BY DEF Tasks!Pause
  <2> QED BY <1>0, <2>1, CallSet, GivesUpSet DEF PreparingAt, ExecutingAt, StartingAt, TurningAt, EndingAt
<1>2. /\ task' \in [Run -> TaskState] /\ task'[Tasks!Task(call.run)].goal = "paused"
      /\ \A u \in Run : /\ u # Tasks!Task(call.run) => task'[u] = task[u]
                        /\ task'[u].of = task[u].of /\ task'[u].turn = task[u].turn /\ task'[u].by = task[u].by
  <2>1. task' = [task EXCEPT ![Tasks!Task(call.run)].goal = "paused"]
    BY DEF Tasks!Pause
  <2> QED BY <1>0, <2>1, GoalSet
<1>3. TaskTypeInv' /\ CallInv'
  BY <1>0, <1>1, <1>2 DEF TaskTypeInv, CallInv, Tasks!Unresolved, PreparingAt, ExecutingAt, StartingAt,
       TurningAt, EndingAt
<1>4. HeldInv'
  <2>1. \A q \in Run : Tasks!Task(q)' = Tasks!Task(q) /\ (Tasks!Unresolved(q)' <=> Tasks!Unresolved(q))
    BY <1>0 DEF Tasks!Task, Tasks!Unresolved
  <2>2. Tasks!Task(call.run)' = Tasks!Task(call.run)
    BY <1>1 DEF Tasks!Task
  <2>3. \A t, q \in Run : RunningBy(t, q)' <=> RunningBy(t, q)
    BY <1>2 DEF RunningBy
  <2>4. \A t \in Run : task'[t].goal = "active" => task'[t] = task[t]
    BY <1>2
  <2> QED BY <1>0, <1>1, <1>2, <2>1, <2>2, <2>3, <2>4 DEF HeldInv, TurningAt
<1>5. RevokedInv'
  BY <1>0, <1>1 DEF RevokedInv, Tasks!Active, PreparingAt, ExecutingAt, StartingAt, TurningAt, EndingAt
<1>6. EndInv'
  BY <1>0, <1>1, <1>2 DEF EndInv, RunningBy, PreparingAt, ExecutingAt, StartingAt, TurningAt, EndingAt
<1> QED BY <1>3, <1>4, <1>5, <1>6 DEF TaskInv

LEMMA CloseKeeps ==
    ASSUME Tasks!SupervisorAssumption, TaskInv, Tasks!Close
    PROVE  TaskInv'
<1>0. /\ TaskTypeInv /\ CallInv /\ HeldInv /\ RevokedInv /\ EndInv /\ call.at \in {"end", "close"}
      /\ call.run \in Run /\ Tasks!Task(call.run) \in Run
      /\ UNCHANGED <<records, outcome, revoked, cancel, turns, ended>>
  BY TaskOf DEF TaskInv, TaskTypeInv, Tasks!Close
<1>1. /\ call' \in CallState /\ call'.run = call.run /\ call'.outcome = call.outcome
      /\ call'.at = "uncertain" \/ (call.at = "end" /\ call'.at = "terminal" /\ Tasks!CutOff(Tasks!Task(call.run)))
  <2>1. Tasks!Goes("uncertain") \/ (call.at = "end" /\ Tasks!Goes("terminal") /\ Tasks!CutOff(Tasks!Task(call.run)))
    BY DEF Tasks!Close
  <2> QED BY <1>0, <2>1, CallSet DEF PreparingAt, ExecutingAt, StartingAt, TurningAt, EndingAt
<1>2. /\ task' \in [Run -> TaskState]
      /\ \A u \in Run : /\ task'[u].of = task[u].of /\ task'[u].goal = task[u].goal /\ task'[u].by = task[u].by
                        /\ task'[u].turn = "running" => task[u].turn = "running"
      /\ Tasks!CutOff(Tasks!Task(call.run)) => ~(task'[Tasks!Task(call.run)].turn = "running" /\ task'[Tasks!Task(call.run)].by \in Run)
  <2>1. CASE UNCHANGED task /\ ~Tasks!CutOff(Tasks!Task(call.run))
    BY <1>0, <2>1 DEF TaskTypeInv
  <2>2. CASE Tasks!CutOff(Tasks!Task(call.run))
    BY <1>0, <2>2, CutOffSet
  <2> QED BY <2>1, <2>2 DEF Tasks!Close
<1>3. TaskTypeInv' /\ CallInv'
  BY <1>0, <1>1, <1>2 DEF TaskTypeInv, CallInv, Tasks!Unresolved, PreparingAt, ExecutingAt, StartingAt,
       TurningAt, EndingAt
<1>4. HeldInv'
  <2>1. \A q \in Run : Tasks!Task(q)' = Tasks!Task(q) /\ (Tasks!Unresolved(q)' <=> Tasks!Unresolved(q))
    BY <1>0 DEF Tasks!Task, Tasks!Unresolved
  <2>2. Tasks!Task(call.run)' = Tasks!Task(call.run)
    BY <1>1 DEF Tasks!Task
  <2>3. \A t, q \in Run : RunningBy(t, q)' => RunningBy(t, q)
    BY <1>2 DEF RunningBy
  <2>4. call'.at = "terminal" => ~RunningBy(Tasks!Task(call.run), call.run)'
    BY <1>0, <1>1, <1>2, <2>2 DEF RunningBy
  <2> QED BY <1>0, <1>1, <1>2, <2>1, <2>2, <2>3, <2>4 DEF HeldInv, TurningAt
<1>5. RevokedInv'
  BY <1>0, <1>1 DEF RevokedInv, Tasks!Active, PreparingAt, ExecutingAt, StartingAt, TurningAt, EndingAt
<1>6. EndInv'
  BY <1>0, <1>1, <1>2 DEF EndInv, RunningBy, PreparingAt, ExecutingAt, StartingAt, TurningAt, EndingAt
<1> QED BY <1>3, <1>4, <1>5, <1>6 DEF TaskInv

LEMMA RecordResultKeeps ==
    ASSUME Tasks!SupervisorAssumption, TaskInv, Tasks!RecordResult
    PROVE  TaskInv'
<1>0. TaskTypeInv /\ CallInv /\ HeldInv /\ RevokedInv /\ EndInv
  BY DEF TaskInv
<1>1. TaskTypeInv'
  BY <1>0 DEF Tasks!RecordResult, Tasks!Leaves, Tasks!Records, Tasks!Idle, Tasks!KindOf, TaskTypeInv,
       CallState, TaskState, Kinds, Outcomes, Cancels, PreparingAt, ExecutingAt, StartingAt, TurningAt,
       EndingAt
<1>2. CallInv'
  BY <1>0 DEF Tasks!RecordResult, Tasks!Leaves, Tasks!Records, Tasks!Idle, Tasks!Unresolved, Tasks!KindOf,
       TaskTypeInv, CallState, CallInv, PreparingAt, ExecutingAt, StartingAt, TurningAt, EndingAt
<1>3. HeldInv'
  BY <1>0 DEF Tasks!RecordResult, Tasks!Leaves, Tasks!Records, Tasks!Idle, Tasks!Task, Tasks!Unresolved,
       Tasks!KindOf, TaskTypeInv, CallState, TaskState, CallInv, HeldInv, RunningBy, PreparingAt,
       ExecutingAt, StartingAt, TurningAt, EndingAt
<1>4. RevokedInv'
  BY <1>0 DEF Tasks!RecordResult, Tasks!Leaves, Tasks!Records, Tasks!Idle, Tasks!Unresolved, Tasks!KindOf,
       Tasks!Active, TaskTypeInv, CallState, CallInv, RevokedInv, PreparingAt, ExecutingAt, StartingAt,
       TurningAt, EndingAt
<1>5. EndInv'
  BY <1>0 DEF Tasks!RecordResult, Tasks!Leaves, Tasks!Records, Tasks!Idle, Tasks!Task, Tasks!Unresolved,
       Tasks!KindOf, Tasks!Active, TaskTypeInv, CallState, TaskState, CallInv, HeldInv, RevokedInv, EndInv,
       RunningBy, PreparingAt, ExecutingAt, StartingAt, TurningAt, EndingAt
<1> QED BY <1>1, <1>2, <1>3, <1>4, <1>5 DEF TaskInv

LEMMA CancelKeeps ==
    ASSUME Tasks!SupervisorAssumption, TaskInv, Tasks!Cancel
    PROVE  TaskInv'
<1>0. TaskTypeInv /\ CallInv /\ HeldInv /\ RevokedInv /\ EndInv
  BY DEF TaskInv
<1>1. TaskTypeInv'
  BY <1>0 DEF Tasks!Cancel, Tasks!Active, Tasks!Asked, TaskTypeInv, CallState, TaskState, Kinds, Outcomes,
       Cancels, PreparingAt, ExecutingAt, StartingAt, TurningAt, EndingAt
<1>2. CallInv'
  BY <1>0 DEF Tasks!Cancel, Tasks!Unresolved, Tasks!Active, Tasks!Asked, TaskTypeInv, CallState, CallInv,
       PreparingAt, ExecutingAt, StartingAt, TurningAt, EndingAt
<1>3. HeldInv'
  BY <1>0 DEF Tasks!Cancel, Tasks!Task, Tasks!Unresolved, Tasks!Active, Tasks!Asked, TaskTypeInv, CallState,
       TaskState, CallInv, HeldInv, RunningBy, PreparingAt, ExecutingAt, StartingAt, TurningAt, EndingAt
<1>4. RevokedInv'
  BY <1>0 DEF Tasks!Cancel, Tasks!Unresolved, Tasks!Active, Tasks!Asked, TaskTypeInv, CallState, CallInv,
       RevokedInv, PreparingAt, ExecutingAt, StartingAt, TurningAt, EndingAt
<1>5. EndInv'
  BY <1>0 DEF Tasks!Cancel, Tasks!Task, Tasks!Unresolved, Tasks!Active, Tasks!Asked, TaskTypeInv, CallState,
       TaskState, CallInv, HeldInv, RevokedInv, EndInv, RunningBy, PreparingAt, ExecutingAt, StartingAt,
       TurningAt, EndingAt
<1> QED BY <1>1, <1>2, <1>3, <1>4, <1>5 DEF TaskInv

LEMMA IntendKeeps ==
    ASSUME Tasks!SupervisorAssumption, TaskInv, Tasks!Intend
    PROVE  TaskInv'
<1>0. TaskTypeInv /\ CallInv /\ HeldInv /\ RevokedInv /\ EndInv
  BY DEF TaskInv
<1>1. TaskTypeInv'
  BY <1>0 DEF Tasks!Intend, Tasks!Records, Tasks!Active, TaskTypeInv, CallState, TaskState, Kinds, Outcomes,
       Cancels, PreparingAt, ExecutingAt, StartingAt, TurningAt, EndingAt
<1>2. CallInv'
  BY <1>0 DEF Tasks!Intend, Tasks!Records, Tasks!Unresolved, Tasks!Active, TaskTypeInv, CallState, CallInv,
       PreparingAt, ExecutingAt, StartingAt, TurningAt, EndingAt
<1>3. HeldInv'
  BY <1>0 DEF Tasks!Intend, Tasks!Records, Tasks!Task, Tasks!Unresolved, Tasks!Active, TaskTypeInv,
       CallState, TaskState, CallInv, HeldInv, RunningBy, PreparingAt, ExecutingAt, StartingAt, TurningAt,
       EndingAt
<1>4. RevokedInv'
  BY <1>0 DEF Tasks!Intend, Tasks!Records, Tasks!Unresolved, Tasks!Active, TaskTypeInv, CallState, CallInv,
       RevokedInv, PreparingAt, ExecutingAt, StartingAt, TurningAt, EndingAt
<1>5. EndInv'
  BY <1>0 DEF Tasks!Intend, Tasks!Records, Tasks!Task, Tasks!Unresolved, Tasks!Active, TaskTypeInv,
       CallState, TaskState, CallInv, HeldInv, RevokedInv, EndInv, RunningBy, PreparingAt, ExecutingAt,
       StartingAt, TurningAt, EndingAt
<1> QED BY <1>1, <1>2, <1>3, <1>4, <1>5 DEF TaskInv

LEMMA RevokeKeeps ==
    ASSUME Tasks!SupervisorAssumption, TaskInv, Tasks!Revoke
    PROVE  TaskInv'
<1>0. TaskTypeInv /\ CallInv /\ HeldInv /\ RevokedInv /\ EndInv
  BY DEF TaskInv
<1>1. TaskTypeInv'
  BY <1>0 DEF Tasks!Revoke, Tasks!Active, TaskTypeInv, CallState, TaskState, Kinds, Outcomes, Cancels,
       PreparingAt, ExecutingAt, StartingAt, TurningAt, EndingAt
<1>2. CallInv'
  BY <1>0 DEF Tasks!Revoke, Tasks!Unresolved, Tasks!Active, TaskTypeInv, CallState, CallInv, PreparingAt,
       ExecutingAt, StartingAt, TurningAt, EndingAt
<1>3. HeldInv'
  BY <1>0 DEF Tasks!Revoke, Tasks!Task, Tasks!Unresolved, Tasks!Active, TaskTypeInv, CallState, TaskState,
       CallInv, HeldInv, RunningBy, PreparingAt, ExecutingAt, StartingAt, TurningAt, EndingAt
<1>4. RevokedInv'
  BY <1>0 DEF Tasks!Revoke, Tasks!Unresolved, Tasks!Active, TaskTypeInv, CallState, CallInv, RevokedInv,
       PreparingAt, ExecutingAt, StartingAt, TurningAt, EndingAt
<1>5. EndInv'
  BY <1>0 DEF Tasks!Revoke, Tasks!Task, Tasks!Unresolved, Tasks!Active, TaskTypeInv, CallState, TaskState,
       CallInv, HeldInv, RevokedInv, EndInv, RunningBy, PreparingAt, ExecutingAt, StartingAt, TurningAt,
       EndingAt
<1> QED BY <1>1, <1>2, <1>3, <1>4, <1>5 DEF TaskInv

LEMMA InterruptKeeps ==
    ASSUME Tasks!SupervisorAssumption, TaskInv, Tasks!Interrupt
    PROVE  TaskInv'
<1>0. /\ TaskTypeInv /\ CallInv /\ HeldInv /\ RevokedInv /\ EndInv /\ Tasks!Active
      /\ call.run \in Run /\ Tasks!Task(call.run) \in Run /\ cancel' = "done"
      /\ UNCHANGED <<records, outcome, revoked, turns, ended>>
  BY TaskOf DEF TaskInv, TaskTypeInv, Tasks!Interrupt, Tasks!Active
<1>1. /\ call' \in CallState /\ call'.at = call.at /\ call'.run = call.run /\ call'.outcome = call.outcome
      /\ call'.error = call.error /\ call'.requested = call.requested
      /\ call'.terminal = call.terminal \/ task'[Tasks!Task(call.run)].turn = "interrupted"
      /\ task' \in [Run -> TaskState]
      /\ \A u \in Run : /\ task'[u].of = task[u].of /\ task'[u].goal = task[u].goal /\ task'[u].by = task[u].by
                        /\ task'[u].turn = task[u].turn \/ task'[u].turn = "interrupted"
  <2>1. CASE UNCHANGED <<task, call>>
    BY <1>0, <2>1 DEF TaskTypeInv
  <2>2. CASE /\ task' = [task EXCEPT ![Tasks!Task(call.run)].turn = "interrupted"]
             /\ call' = [call EXCEPT !.terminal = TRUE]
    <3>1. /\ call' \in CallState /\ call'.at = call.at /\ call'.run = call.run /\ call'.outcome = call.outcome
          /\ call'.error = call.error /\ call'.requested = call.requested
      BY <1>0, <2>2 DEF TaskTypeInv, CallState
    <3>2. /\ task' \in [Run -> TaskState] /\ task'[Tasks!Task(call.run)].turn = "interrupted"
          /\ \A u \in Run : /\ u # Tasks!Task(call.run) => task'[u] = task[u]
                            /\ task'[u].of = task[u].of /\ task'[u].goal = task[u].goal /\ task'[u].by = task[u].by
      BY <1>0, <2>2, TurnSet
    <3> QED BY <3>1, <3>2
  <2> QED BY <2>1, <2>2 DEF Tasks!Interrupt
<1>2. TaskTypeInv' /\ CallInv'
  BY <1>0, <1>1 DEF TaskTypeInv, CallInv, Cancels, Tasks!Unresolved, PreparingAt, ExecutingAt, StartingAt,
       TurningAt, EndingAt
<1>3. HeldInv'
  <2>1. \A q \in Run : Tasks!Task(q)' = Tasks!Task(q) /\ (Tasks!Unresolved(q)' <=> Tasks!Unresolved(q))
    BY <1>0 DEF Tasks!Task, Tasks!Unresolved
  <2>2. Tasks!Task(call.run)' = Tasks!Task(call.run)
    BY <1>1 DEF Tasks!Task
  <2>3. \A t, q \in Run : RunningBy(t, q)' => RunningBy(t, q)
    BY <1>1 DEF RunningBy
  <2> QED BY <1>0, <1>1, <2>1, <2>2, <2>3 DEF HeldInv
<1>4. RevokedInv'
  BY <1>0, <1>1 DEF RevokedInv, Tasks!Active, PreparingAt, ExecutingAt, StartingAt, TurningAt, EndingAt
<1>5. EndInv'
  <2>1. Tasks!Task(call.run)' = Tasks!Task(call.run)
    BY <1>1 DEF Tasks!Task
  <2> QED BY <1>0, <1>1, <2>1 DEF EndInv, RunningBy
<1> QED BY <1>2, <1>3, <1>4, <1>5 DEF TaskInv

LEMMA CutConnectionKeeps ==
    ASSUME Tasks!SupervisorAssumption, TaskInv, Tasks!CutConnection
    PROVE  TaskInv'
<1>0. /\ TaskTypeInv /\ CallInv /\ HeldInv /\ RevokedInv /\ EndInv /\ Tasks!Active
      /\ call.run \in Run /\ Tasks!Task(call.run) \in Run /\ cancel' = "done"
      /\ UNCHANGED <<records, outcome, revoked, turns, ended>>
  BY TaskOf DEF TaskInv, TaskTypeInv, Tasks!CutConnection, Tasks!Active
<1>1. /\ call' \in CallState /\ call'.at = call.at /\ call'.run = call.run /\ call'.outcome = call.outcome
      /\ call'.error = TRUE /\ call'.requested = call.requested
  BY <1>0 DEF Tasks!CutConnection, TaskTypeInv, CallState
<1>2. /\ task' \in [Run -> TaskState]
      /\ \A u \in Run : /\ task'[u].of = task[u].of /\ task'[u].goal = task[u].goal /\ task'[u].by = task[u].by
                        /\ task'[u].turn = "running" => task[u].turn = "running"
  <2>1. Tasks!CutOff(Tasks!Task(call.run))
    BY DEF Tasks!CutConnection
  <2> QED BY <1>0, <2>1, CutOffSet
<1>3. TaskTypeInv' /\ CallInv'
  BY <1>0, <1>1, <1>2 DEF TaskTypeInv, CallInv, Cancels, Tasks!Unresolved, PreparingAt, ExecutingAt,
       StartingAt, TurningAt, EndingAt
<1>4. HeldInv'
  <2>1. \A q \in Run : Tasks!Task(q)' = Tasks!Task(q) /\ (Tasks!Unresolved(q)' <=> Tasks!Unresolved(q))
    BY <1>0 DEF Tasks!Task, Tasks!Unresolved
  <2>2. Tasks!Task(call.run)' = Tasks!Task(call.run)
    BY <1>1 DEF Tasks!Task
  <2>3. \A t, q \in Run : RunningBy(t, q)' => RunningBy(t, q)
    BY <1>2 DEF RunningBy
  <2> QED BY <1>0, <1>1, <1>2, <2>1, <2>2, <2>3 DEF HeldInv
<1>5. RevokedInv'
  BY <1>0, <1>1 DEF RevokedInv, Tasks!Active, PreparingAt, ExecutingAt, StartingAt, TurningAt, EndingAt
<1>6. EndInv'
  BY <1>0, <1>1, <1>2 DEF EndInv, RunningBy
<1> QED BY <1>3, <1>4, <1>5, <1>6 DEF TaskInv

LEMMA CloseSupervisorKeeps ==
    ASSUME Tasks!SupervisorAssumption, TaskInv, Tasks!CloseSupervisor
    PROVE  TaskInv'
<1>0. TaskTypeInv /\ CallInv /\ HeldInv /\ RevokedInv /\ EndInv
  BY DEF TaskInv
<1>1. TaskTypeInv'
  BY <1>0 DEF Tasks!CloseSupervisor, Tasks!Active, Tasks!Asked, TaskTypeInv, CallState, TaskState, Kinds,
       Outcomes, Cancels, PreparingAt, ExecutingAt, StartingAt, TurningAt, EndingAt
<1>2. CallInv'
  BY <1>0 DEF Tasks!CloseSupervisor, Tasks!Unresolved, Tasks!Active, Tasks!Asked, TaskTypeInv, CallState,
       CallInv, PreparingAt, ExecutingAt, StartingAt, TurningAt, EndingAt
<1>3. HeldInv'
  BY <1>0 DEF Tasks!CloseSupervisor, Tasks!Task, Tasks!Unresolved, Tasks!Active, Tasks!Asked, TaskTypeInv,
       CallState, TaskState, CallInv, HeldInv, RunningBy, PreparingAt, ExecutingAt, StartingAt, TurningAt,
       EndingAt
<1>4. RevokedInv'
  BY <1>0 DEF Tasks!CloseSupervisor, Tasks!Unresolved, Tasks!Active, Tasks!Asked, TaskTypeInv, CallState,
       CallInv, RevokedInv, PreparingAt, ExecutingAt, StartingAt, TurningAt, EndingAt
<1>5. EndInv'
  BY <1>0 DEF Tasks!CloseSupervisor, Tasks!Task, Tasks!Unresolved, Tasks!Active, Tasks!Asked, TaskTypeInv,
       CallState, TaskState, CallInv, HeldInv, RevokedInv, EndInv, RunningBy, PreparingAt, ExecutingAt,
       StartingAt, TurningAt, EndingAt
<1> QED BY <1>1, <1>2, <1>3, <1>4, <1>5 DEF TaskInv

LEMMA FailsKeeps ==
    ASSUME Tasks!SupervisorAssumption, TaskInv, Tasks!Fails
    PROVE  TaskInv'
<1>0. UNCHANGED <<records, outcome, revoked, task, turns, ended>> /\ RevokedInv /\ TaskTypeInv
  BY DEF Tasks!Fails, TaskInv
<1>1. CASE Tasks!Leaves /\ cancel' = "none"
  BY <1>0, <1>1, LeavesKeeps
<1>2. CASE Tasks!Leaves /\ UNCHANGED cancel /\ ~Tasks!Active
  BY <1>0, <1>2, LeavesKeeps DEF RevokedInv
<1>3. CASE Tasks!GivesUp /\ UNCHANGED cancel /\ (Tasks!Active \/ call.at = "start")
  BY <1>0, <1>3, GivesUpKeeps DEF Tasks!Active, TaskTypeInv, CallState, PreparingAt, ExecutingAt,
       StartingAt, TurningAt, EndingAt
<1> QED BY <1>1, <1>2, <1>3 DEF Tasks!Fails

LEMMA CrashKeeps ==
    ASSUME Tasks!SupervisorAssumption, TaskInv, Tasks!Crash
    PROVE  TaskInv'
<1>0. TaskTypeInv /\ CallInv /\ HeldInv /\ RevokedInv /\ EndInv
  BY DEF TaskInv
<1>1. TaskTypeInv'
  BY <1>0 DEF Tasks!Crash, Tasks!Leaves, Tasks!Idle, Tasks!Task, Tasks!CutOff, Tasks!Active, TaskTypeInv,
       CallState, TaskState, Kinds, Outcomes, Cancels, PreparingAt, ExecutingAt, StartingAt, TurningAt,
       EndingAt
<1>2. CallInv'
  BY <1>0 DEF Tasks!Crash, Tasks!Leaves, Tasks!Idle, Tasks!Task, Tasks!Unresolved, Tasks!CutOff,
       Tasks!Active, TaskTypeInv, CallState, CallInv, PreparingAt, ExecutingAt, StartingAt, TurningAt,
       EndingAt
<1>3. HeldInv'
  BY <1>0 DEF Tasks!Crash, Tasks!Leaves, Tasks!Idle, Tasks!Task, Tasks!Unresolved, Tasks!CutOff,
       Tasks!Active, TaskTypeInv, CallState, TaskState, CallInv, HeldInv, RunningBy,
       Tasks!SupervisorAssumption, PreparingAt, ExecutingAt, StartingAt, TurningAt, EndingAt
<1>4. RevokedInv'
  BY <1>0 DEF Tasks!Crash, Tasks!Leaves, Tasks!Idle, Tasks!Task, Tasks!Unresolved, Tasks!CutOff,
       Tasks!Active, TaskTypeInv, CallState, CallInv, RevokedInv, PreparingAt, ExecutingAt, StartingAt,
       TurningAt, EndingAt
<1>5. EndInv'
  BY <1>0 DEF Tasks!Crash, Tasks!Leaves, Tasks!Idle, Tasks!Task, Tasks!Unresolved, Tasks!CutOff,
       Tasks!Active, TaskTypeInv, CallState, TaskState, CallInv, HeldInv, RevokedInv, EndInv, RunningBy,
       PreparingAt, ExecutingAt, StartingAt, TurningAt, EndingAt
<1> QED BY <1>1, <1>2, <1>3, <1>4, <1>5 DEF TaskInv

LEMMA PrepareKeeps ==
    ASSUME Tasks!SupervisorAssumption, TaskInv, NEW r \in Run, Tasks!Prepare(r)
    PROVE  TaskInv'
<1>0. TaskTypeInv /\ CallInv /\ HeldInv /\ RevokedInv /\ EndInv
  BY DEF TaskInv
<1>1. TaskTypeInv'
  BY <1>0 DEF Tasks!Prepare, Tasks!Records, Tasks!Idle, Tasks!Valid, TaskTypeInv, CallState, TaskState,
       Kinds, Outcomes, Cancels, PreparingAt, ExecutingAt, StartingAt, TurningAt, EndingAt
<1>2. CallInv'
  BY <1>0 DEF Tasks!Prepare, Tasks!Records, Tasks!Idle, Tasks!Valid, Tasks!Unresolved, TaskTypeInv,
       CallState, CallInv, PreparingAt, ExecutingAt, StartingAt, TurningAt, EndingAt
<1>3. HeldInv'
  BY <1>0 DEF Tasks!Prepare, Tasks!Records, Tasks!Idle, Tasks!Task, Tasks!Valid, Tasks!Unresolved,
       TaskTypeInv, CallState, TaskState, CallInv, HeldInv, RunningBy, PreparingAt, ExecutingAt, StartingAt,
       TurningAt, EndingAt
<1>4. RevokedInv'
  BY <1>0 DEF Tasks!Prepare, Tasks!Records, Tasks!Idle, Tasks!Valid, Tasks!Unresolved, Tasks!Active,
       TaskTypeInv, CallState, CallInv, RevokedInv, PreparingAt, ExecutingAt, StartingAt, TurningAt,
       EndingAt
<1>5. EndInv'
  BY <1>0 DEF Tasks!Prepare, Tasks!Records, Tasks!Idle, Tasks!Task, Tasks!Valid, Tasks!Unresolved,
       Tasks!Active, TaskTypeInv, CallState, TaskState, CallInv, HeldInv, RevokedInv, EndInv, RunningBy,
       PreparingAt, ExecutingAt, StartingAt, TurningAt, EndingAt
<1> QED BY <1>1, <1>2, <1>3, <1>4, <1>5 DEF TaskInv

LEMMA ExecuteKeeps ==
    ASSUME Tasks!SupervisorAssumption, TaskInv, NEW r \in Run, Tasks!Execute(r)
    PROVE  TaskInv'
<1>0. TaskTypeInv /\ CallInv /\ HeldInv /\ RevokedInv /\ EndInv
  BY DEF TaskInv
<1>1. TaskTypeInv'
  BY <1>0 DEF Tasks!Execute, Tasks!Records, Tasks!Idle, Tasks!Valid, Tasks!Unresolved, Tasks!Free,
       Tasks!Intention, TaskTypeInv, CallState, TaskState, Kinds, Outcomes, Cancels, PreparingAt,
       ExecutingAt, StartingAt, TurningAt, EndingAt
<1>2. CallInv'
  BY <1>0 DEF Tasks!Execute, Tasks!Records, Tasks!Idle, Tasks!Valid, Tasks!Unresolved, Tasks!Free,
       Tasks!Intention, TaskTypeInv, CallState, CallInv, PreparingAt, ExecutingAt, StartingAt, TurningAt,
       EndingAt
<1>3. HeldInv'
  BY <1>0 DEF Tasks!Execute, Tasks!Records, Tasks!Idle, Tasks!Task, Tasks!Valid, Tasks!Unresolved,
       Tasks!Free, Tasks!Intention, TaskTypeInv, CallState, TaskState, CallInv, HeldInv, RunningBy,
       PreparingAt, ExecutingAt, StartingAt, TurningAt, EndingAt
<1>4. RevokedInv'
  BY <1>0 DEF Tasks!Execute, Tasks!Records, Tasks!Idle, Tasks!Valid, Tasks!Unresolved, Tasks!Free,
       Tasks!Intention, Tasks!Active, TaskTypeInv, CallState, CallInv, RevokedInv, PreparingAt, ExecutingAt,
       StartingAt, TurningAt, EndingAt
<1>5. EndInv'
  BY <1>0 DEF Tasks!Execute, Tasks!Records, Tasks!Idle, Tasks!Task, Tasks!Valid, Tasks!Unresolved,
       Tasks!Free, Tasks!Intention, Tasks!Active, TaskTypeInv, CallState, TaskState, CallInv, HeldInv,
       RevokedInv, EndInv, RunningBy, PreparingAt, ExecutingAt, StartingAt, TurningAt, EndingAt
<1> QED BY <1>1, <1>2, <1>3, <1>4, <1>5 DEF TaskInv

LEMMA VendorEndsKeeps ==
    ASSUME Tasks!SupervisorAssumption, TaskInv, NEW r \in Run, Tasks!VendorEnds(r)
    PROVE  TaskInv'
<1>0. /\ TaskTypeInv /\ CallInv /\ HeldInv /\ RevokedInv /\ EndInv
      /\ task[r].turn = "running" /\ UNCHANGED <<records, outcome, revoked, cancel, turns>>
  BY DEF TaskInv, Tasks!VendorEnds
<1>1. PICK how \in {"completed", "failed"} :
          /\ task' = [task EXCEPT ![r].turn = how]
          /\ ended' = IF task[r].by \in Run
                      THEN [ended EXCEPT ![task[r].by] = IF task[r].by \in revoked THEN "late" ELSE how] ELSE ended
  BY DEF Tasks!VendorEnds
<1>2. /\ task' \in [Run -> TaskState] /\ task'[r].turn = how
      /\ \A u \in Run : /\ u # r => task'[u] = task[u]
                        /\ task'[u].of = task[u].of /\ task'[u].goal = task[u].goal /\ task'[u].by = task[u].by
  BY <1>0, <1>1, TurnSet
<1>3. /\ call' \in CallState /\ call'.at = call.at /\ call'.run = call.run /\ call'.outcome = call.outcome
      /\ call'.requested = call.requested
      /\ call'.error = call.error \/ call'.error = TRUE
      /\ call.at # "idle" /\ Tasks!Task(call.run) = r /\ ~call'.error => task[r].by = call.run
      /\ Tasks!Task(call.run) # r => call'.terminal = call.terminal
  <2>1. CASE call' = call /\ (call.at = "idle" \/ Tasks!Task(call.run) # r)
    BY <1>0, <2>1 DEF TaskTypeInv
  <2>2. CASE call' = [call EXCEPT !.terminal = TRUE] /\ task[r].by = call.run /\ Tasks!Task(call.run) = r
    BY <1>0, <2>2 DEF TaskTypeInv, CallState
  <2>3. CASE call' = [call EXCEPT !.error = TRUE]
    BY <1>0, <2>3 DEF TaskTypeInv, CallState
  <2> QED BY <2>1, <2>2, <2>3 DEF Tasks!VendorEnds
<1>4. /\ ended' \in [Run -> {None, "completed", "failed", "late"}]
      /\ \A q \in Run : IF q = task[r].by
                        THEN ended'[q] = IF q \in revoked THEN "late" ELSE how ELSE ended'[q] = ended[q]
  BY <1>0, <1>1 DEF TaskTypeInv
<1>5. TaskTypeInv' /\ CallInv'
  BY <1>0, <1>2, <1>3, <1>4 DEF TaskTypeInv, CallInv, Tasks!Unresolved
<1>6. \A q \in Run : Tasks!Task(q)' = Tasks!Task(q) /\ (Tasks!Unresolved(q)' <=> Tasks!Unresolved(q))
  BY <1>0 DEF Tasks!Task, Tasks!Unresolved
<1>7. Tasks!Task(call.run)' = Tasks!Task(call.run)
  BY <1>3 DEF Tasks!Task
<1>8. \A t, q \in Run : RunningBy(t, q)' => RunningBy(t, q)
  BY <1>2 DEF RunningBy
<1>9. HeldInv'
  <2>1. call.at # "idle" => call.run \in Run /\ Tasks!Task(call.run) \in Run
    BY <1>0, TaskOf DEF TaskTypeInv
  <2> QED BY <1>0, <1>2, <1>3, <1>6, <1>7, <1>8, <2>1 DEF HeldInv, TurningAt
<1>10. RevokedInv'
  BY <1>0, <1>3 DEF RevokedInv, Tasks!Active
<1>11. EndInv'
  <2>1. \A q \in Run : ended[q] = "completed" => ended'[q] = "completed" \/ RunningBy(r, q)
    BY <1>0, <1>4 DEF RunningBy
  <2>2. \A q \in Run : outcome[q] = "completed" => ~RunningBy(r, q)
    BY <1>0 DEF EndInv, HeldInv, Tasks!Unresolved
  <2>3. \A q \in Run : outcome'[q] = "completed" => "terminal" \in records'[q] /\ ended'[q] = "completed"
    BY <1>0, <2>1, <2>2 DEF EndInv
  <2>4. call'.at \in TurningAt /\ call'.terminal /\ ~call'.error /\ task'[Tasks!Task(call.run)'].turn = "completed" =>
            ended'[call'.run] = "completed" \/ call'.run \in revoked'
    <3>1. SUFFICES ASSUME call.at \in TurningAt, call'.terminal, ~call'.error, task'[Tasks!Task(call.run)].turn = "completed"
                   PROVE  ended'[call.run] = "completed" \/ call.run \in revoked
      BY <1>0, <1>3, <1>7
    <3>2. call.run \in Run /\ Tasks!Task(call.run) \in Run /\ call.at # "idle"
      BY <1>0, <3>1, TaskOf DEF TaskTypeInv, TurningAt
    <3>3. CASE Tasks!Task(call.run) = r
      BY <1>2, <1>3, <1>4, <3>1, <3>2, <3>3
    <3>4. CASE Tasks!Task(call.run) # r
      <4>1. task[Tasks!Task(call.run)].turn = "completed" /\ call.terminal /\ ~call.error
        BY <1>0, <1>2, <1>3, <3>1, <3>2, <3>4 DEF TaskTypeInv, CallState
      <4>2. ended[call.run] = "completed" \/ call.run \in revoked
        BY <1>0, <3>1, <4>1 DEF EndInv
      <4>3. ~RunningBy(r, call.run)
        BY <1>0, <3>2, <3>4 DEF HeldInv
      <4> QED BY <2>1, <3>2, <4>2, <4>3
    <3> QED BY <3>3, <3>4
  <2>5. call'.at \in EndingAt /\ call'.outcome = "completed" =>
            ended'[call'.run] = "completed" /\ \A t \in Run : ~RunningBy(t, call.run)'
    <3>1. ASSUME NEW q \in Run, call.run = q, call.at \in EndingAt, call.outcome = "completed"
          PROVE  ended'[q] = "completed" /\ \A t \in Run : ~RunningBy(t, q)'
      <4>1. ended[q] = "completed" /\ \A t \in Run : ~RunningBy(t, q)
        BY <1>0, <3>1 DEF EndInv
      <4> QED BY <1>8, <2>1, <4>1
    <3>2. call.at \in EndingAt => call.run \in Run
      BY <1>0 DEF TaskTypeInv, EndingAt
    <3> QED BY <1>3, <3>1, <3>2 DEF RunningBy
  <2>6. call'.at \in StartingAt \cup TurningAt => call'.outcome = None
    BY <1>0, <1>3 DEF EndInv
  <2> QED BY <2>3, <2>4, <2>5, <2>6 DEF EndInv
<1> QED BY <1>5, <1>9, <1>10, <1>11 DEF TaskInv

LEMMA OthersWorkKeeps ==
    ASSUME Tasks!SupervisorAssumption, TaskInv, NEW r \in Run, Tasks!OthersWork(r)
    PROVE  TaskInv'
<1>0. /\ TaskTypeInv /\ CallInv /\ HeldInv /\ RevokedInv /\ EndInv
      /\ UNCHANGED <<records, outcome, revoked, cancel, turns, ended>>
  BY DEF TaskInv, Tasks!OthersWork
<1>1. /\ call' \in CallState /\ call'.at = call.at /\ call'.run = call.run /\ call'.outcome = call.outcome
      /\ call'.requested = call.requested /\ call'.terminal = call.terminal
      /\ call'.error = call.error \/ call'.error = TRUE
  <2>1. call' = call \/ call' = [call EXCEPT !.error = TRUE]
    BY DEF Tasks!OthersWork
  <2> QED BY <1>0, <2>1 DEF TaskTypeInv, CallState
<1>2. /\ task' \in [Run -> TaskState] /\ \A u \in Run \ {r} : task'[u] = task[u]
      /\ \/ /\ task'[r].turn = "running" /\ task'[r].by = "others"
            /\ task'[r].goal = task[r].goal /\ task'[r].of = task[r].of
         \/ /\ task'[r].turn = task[r].turn /\ task'[r].by = task[r].by
            /\ task'[r].of \in {task[r].of, "others"} /\ (task'[r].goal = "active" => task'[r].of = "others")
  <2>0. task[r] \in TaskState
    BY <1>0 DEF TaskTypeInv
  <2>1. CASE task' = [task EXCEPT ![r].turn = "running", ![r].by = "others"]
    <3>1. task' = [task EXCEPT ![r] = [task[r] EXCEPT !.turn = "running", !.by = "others"]]
      BY <1>0, <2>1 DEF TaskTypeInv, TaskState
    <3>2. ASSUME NEW new, new = [task[r] EXCEPT !.turn = "running", !.by = "others"]
          PROVE  /\ new \in TaskState /\ new.turn = "running" /\ new.by = "others"
                 /\ new.goal = task[r].goal /\ new.of = task[r].of
      BY <2>0, <3>2 DEF TaskState
    <3> QED BY <1>0, <3>1, <3>2, TaskSet
  <2>2. ASSUME NEW goal \in {"paused", "active"}, NEW of \in {task[r].of, "others"}, goal = "active" => of = "others",
               task' = [task EXCEPT ![r].goal = goal, ![r].of = of]
        PROVE  /\ task' \in [Run -> TaskState] /\ \A u \in Run \ {r} : task'[u] = task[u]
               /\ task'[r].turn = task[r].turn /\ task'[r].by = task[r].by
               /\ task'[r].of \in {task[r].of, "others"} /\ (task'[r].goal = "active" => task'[r].of = "others")
    <3>1. task' = [task EXCEPT ![r] = [task[r] EXCEPT !.goal = goal, !.of = of]]
      BY <1>0, <2>2 DEF TaskTypeInv, TaskState
    <3>2. ASSUME NEW new, new = [task[r] EXCEPT !.goal = goal, !.of = of]
          PROVE  /\ new \in TaskState /\ new.turn = task[r].turn /\ new.by = task[r].by
                 /\ new.goal = goal /\ new.of = of
      BY <2>0, <2>2, <3>2 DEF TaskState
    <3> QED BY <1>0, <2>2, <3>1, <3>2, TaskSet
  <2> QED BY <2>1, <2>2 DEF Tasks!OthersWork
<1>3. TaskTypeInv' /\ CallInv'
  BY <1>0, <1>1, <1>2 DEF TaskTypeInv, CallInv, Tasks!Unresolved
<1>4. \A q \in Run : Tasks!Task(q)' = Tasks!Task(q) /\ (Tasks!Unresolved(q)' <=> Tasks!Unresolved(q))
  BY <1>0 DEF Tasks!Task, Tasks!Unresolved
<1>5. Tasks!Task(call.run)' = Tasks!Task(call.run)
  BY <1>1 DEF Tasks!Task
<1>6. \A t, q \in Run : RunningBy(t, q)' => RunningBy(t, q)
  BY <1>2 DEF RunningBy, Tasks!SupervisorAssumption
<1>7. \A t \in Run : /\ task'[t].of \in {task[t].of, "others"}
                     /\ task'[t].goal = "active" /\ task'[t].of \in Run =>
                            task[t].goal = "active" /\ task'[t].of = task[t].of
  BY <1>2 DEF Tasks!SupervisorAssumption
<1>8. HeldInv'
  <2>1. call.at # "idle" => call.run \in Run /\ Tasks!Task(call.run) \in Run
    BY <1>0, TaskOf DEF TaskTypeInv
  <2> QED BY <1>0, <1>1, <1>4, <1>5, <1>6, <1>7, <2>1 DEF HeldInv, TurningAt
<1>9. RevokedInv'
  BY <1>0, <1>1 DEF RevokedInv, Tasks!Active
<1>10. EndInv'
  <2>1. call.at # "idle" => call.run \in Run /\ Tasks!Task(call.run) \in Run
    BY <1>0, TaskOf DEF TaskTypeInv
  <2>2. \A t \in Run : task'[t].turn = "completed" => task[t].turn = "completed"
    BY <1>2
  <2>3. \A t \in Run : call'.at # "idle" /\ RunningBy(t, call.run)' => RunningBy(t, call.run)
    BY <1>1, <1>2, <2>1 DEF RunningBy, Tasks!SupervisorAssumption
  <2> QED BY <1>0, <1>1, <1>5, <2>1, <2>2, <2>3 DEF EndInv, PreparingAt, ExecutingAt, StartingAt, TurningAt,
       EndingAt
<1> QED BY <1>3, <1>8, <1>9, <1>10 DEF TaskInv

-----------------------------------------------------------------------------
LEMMA TaskInitSound == Tasks!SupervisorAssumption /\ Tasks!Init => TaskInv
<1> SUFFICES ASSUME Tasks!SupervisorAssumption, Tasks!Init PROVE TaskInv
  OBVIOUS
<1>1. TaskTypeInv
  BY DEF Tasks!Init, TaskTypeInv, Tasks!NoTask, Tasks!Idle, TaskState, CallState, Outcomes, Cancels
<1>2. CallInv /\ HeldInv /\ RevokedInv /\ EndInv
  BY DEF Tasks!Init, Tasks!NoTask, Tasks!Idle, CallInv, HeldInv, RevokedInv, EndInv, RunningBy,
       Tasks!Unresolved, Tasks!Active, Tasks!SupervisorAssumption, PreparingAt, ExecutingAt, StartingAt,
       TurningAt, EndingAt
<1> QED BY <1>1, <1>2 DEF TaskInv

LEMMA TaskNextSound == Tasks!SupervisorAssumption /\ TaskInv /\ [Tasks!Next]_(Tasks!vars) => TaskInv'
<1> SUFFICES ASSUME Tasks!SupervisorAssumption, TaskInv, [Tasks!Next]_(Tasks!vars) PROVE TaskInv'
  OBVIOUS
<1>1. CASE UNCHANGED Tasks!vars
  BY <1>1 DEF Tasks!vars, TaskInv, TaskTypeInv, CallInv, HeldInv, RevokedInv, EndInv, RunningBy,
       Tasks!Unresolved, Tasks!Active, Tasks!Task
<1>2. CASE Tasks!FindTask \/ Tasks!ObserveThread \/ Tasks!SetGoal \/ Tasks!Prepared \/ Tasks!Connect \/ Tasks!Resume \/ Tasks!Activate
  BY <1>2, FindTaskKeeps, ObserveThreadKeeps, SetGoalKeeps, PreparedKeeps, ConnectKeeps, ResumeKeeps, ActivateKeeps
<1>3. CASE Tasks!GuardTurn \/ Tasks!ValidateTurn \/ Tasks!StartTurn \/ Tasks!TurnObserved \/ Tasks!TurnEnds \/ Tasks!TurnFails
  BY <1>3, GuardTurnKeeps, ValidateTurnKeeps, StartTurnKeeps, TurnObservedKeeps, TurnEndsKeeps, TurnFailsKeeps
<1>4. CASE Tasks!Pause \/ Tasks!Close \/ Tasks!RecordResult \/ Tasks!Cancel \/ Tasks!Intend \/ Tasks!Revoke
  BY <1>4, PauseKeeps, CloseKeeps, RecordResultKeeps, CancelKeeps, IntendKeeps, RevokeKeeps
<1>5. CASE Tasks!Interrupt \/ Tasks!CutConnection \/ Tasks!CloseSupervisor \/ Tasks!Fails \/ Tasks!Crash
  BY <1>5, InterruptKeeps, CutConnectionKeeps, CloseSupervisorKeeps, FailsKeeps, CrashKeeps
<1>6. ASSUME NEW r \in Run, Tasks!Prepare(r) \/ Tasks!Execute(r) \/ Tasks!VendorEnds(r) \/ Tasks!OthersWork(r)
      PROVE  TaskInv'
  BY <1>6, PrepareKeeps, ExecuteKeeps, VendorEndsKeeps, OthersWorkKeeps
<1> QED BY <1>1, <1>2, <1>3, <1>4, <1>5, <1>6 DEF Tasks!Next

THEOREM TaskInvariant == ASSUME Tasks!SupervisorAssumption PROVE Tasks!Spec => []TaskInv
<1>1. Tasks!Init => TaskInv
  BY TaskInitSound
<1>2. TaskInv /\ [Tasks!Next]_(Tasks!vars) => TaskInv'
  BY TaskNextSound
<1> QED BY <1>1, <1>2, PTL DEF Tasks!Spec

\* A turn is requested for a run at most once, over failures and restarts.
THEOREM TurnOnceHolds == ASSUME Tasks!SupervisorAssumption PROVE Tasks!Spec => []Tasks!TurnOnce
<1>1. TaskInv => Tasks!TurnOnce
  BY DEF TaskInv, CallInv, Tasks!TurnOnce
<1> QED BY <1>1, TaskInvariant, PTL

\* At most one run of a profile has a turn whose end nobody knows.
THEOREM OneUnresolvedHolds == ASSUME Tasks!SupervisorAssumption PROVE Tasks!Spec => []Tasks!OneUnresolved
<1>1. TaskInv => Tasks!OneUnresolved
  BY DEF TaskInv, HeldInv, RunningBy, Tasks!OneUnresolved
<1> QED BY <1>1, TaskInvariant, PTL

\* An active goal of ours belongs to a run whose end is not on record.
THEOREM GoalHeldHolds == ASSUME Tasks!SupervisorAssumption PROVE Tasks!Spec => []Tasks!GoalHeld
<1>1. TaskInv => Tasks!GoalHeld
  BY DEF TaskInv, HeldInv, Tasks!GoalHeld
<1> QED BY <1>1, TaskInvariant, PTL

\* What is on record as completed was completed by the vendor before the run was revoked.
THEOREM CompletedInTimeHolds == ASSUME Tasks!SupervisorAssumption PROVE Tasks!Spec => []Tasks!CompletedInTime
<1>1. TaskInv => Tasks!CompletedInTime
  BY DEF TaskInv, EndInv, Tasks!CompletedInTime
<1> QED BY <1>1, TaskInvariant, PTL
\* A turn is interrupted only behind the revocation of its run.
LEMMA InterruptedBehind ==
    ASSUME Tasks!SupervisorAssumption, TaskInv, [Tasks!Next]_(Tasks!vars), NEW t \in Run,
           task[t].turn = "running", task'[t].turn = "interrupted"
    PROVE  task[t].by \in revoked
<1>0. task \in [Run -> TaskState] /\ (call.at # "idle" => call.run \in Run /\ Tasks!Task(call.run) \in Run)
  BY TaskOf DEF TaskInv, TaskTypeInv
<1>1. CASE Tasks!Interrupt
  <2>1. task' = [task EXCEPT ![Tasks!Task(call.run)].turn = "interrupted"] /\ task[Tasks!Task(call.run)].by = call.run
    BY <1>1 DEF Tasks!Interrupt
  <2>2. call.run \in revoked
    BY <1>1 DEF Tasks!Interrupt, Tasks!MayInterrupt, TaskInv, RevokedInv
  <2>3. t = Tasks!Task(call.run)
    BY <1>0, <2>1
  <2> QED BY <2>1, <2>2, <2>3
<1>2. CASE UNCHANGED task
  BY <1>2
<1>3. CASE Tasks!FindTask
  <2>1. task' = [task EXCEPT ![call.run] = [Tasks!NoTask EXCEPT !.of = call.run]]
    BY <1>3 DEF Tasks!FindTask
  <2>2. call.run \in Run
    BY <1>0, <1>3 DEF Tasks!FindTask
  <2> QED BY <1>0, <2>1, <2>2 DEF Tasks!NoTask
<1>4. CASE Tasks!SetGoal \/ Tasks!Activate \/ Tasks!StartTurn \/ Tasks!Pause
  BY <1>0, <1>4 DEF Tasks!SetGoal, Tasks!Activate, Tasks!StartTurn, Tasks!Pause, TaskState
<1>5. ASSUME NEW u \in Run, Tasks!CutOff(u)
      PROVE  FALSE
  BY <1>0, <1>5 DEF Tasks!CutOff, TaskState
<1>6. CASE Tasks!Close \/ Tasks!CutConnection \/ Tasks!Crash
  BY <1>0, <1>2, <1>5, <1>6 DEF Tasks!Close, Tasks!CutConnection, Tasks!Crash, Tasks!Active
<1>7. ASSUME NEW r \in Run, Tasks!VendorEnds(r) \/ Tasks!OthersWork(r)
      PROVE  FALSE
  BY <1>0, <1>7 DEF Tasks!VendorEnds, Tasks!OthersWork, TaskState
<1>8. CASE \/ Tasks!ObserveThread \/ Tasks!Prepared \/ Tasks!Connect \/ Tasks!Resume \/ Tasks!GuardTurn \/ Tasks!ValidateTurn \/ Tasks!TurnObserved
           \/ Tasks!TurnEnds \/ Tasks!TurnFails \/ Tasks!RecordResult \/ Tasks!Cancel \/ Tasks!Intend \/ Tasks!Revoke
           \/ Tasks!CloseSupervisor \/ Tasks!Fails \/ \E r \in Run : Tasks!Prepare(r) \/ Tasks!Execute(r)
  BY <1>2, <1>8 DEF Tasks!ObserveThread, Tasks!Prepared, Tasks!Connect, Tasks!Resume, Tasks!GuardTurn,
       Tasks!ValidateTurn, Tasks!TurnObserved,
      Tasks!TurnEnds, Tasks!TurnFails, Tasks!RecordResult, Tasks!Cancel, Tasks!Intend, Tasks!Revoke, Tasks!CloseSupervisor, Tasks!Fails, Tasks!Prepare, Tasks!Execute
<1> QED BY <1>1, <1>2, <1>3, <1>4, <1>6, <1>7, <1>8 DEF Tasks!Next, Tasks!vars

THEOREM RevokedFirstHolds == ASSUME Tasks!SupervisorAssumption PROVE Tasks!Spec => Tasks!RevokedFirst
<1>1. TaskInv /\ [Tasks!Next]_(Tasks!vars) =>
          [\A t \in Run : task[t].turn = "running" /\ task'[t].turn = "interrupted" => task[t].by \in revoked]_(Tasks!vars)
  BY InterruptedBehind
<1> QED BY <1>1, TaskInvariant, PTL DEF Tasks!Spec, Tasks!RevokedFirst

-----------------------------------------------------------------------------
\* Deliveries: the inductive invariant.

MoveSteps == {"idle", "look", "pull", "checks", "plan", "admit", "reconcile", "guard", "write", "receipt"}

Statuses == Human \cup {"ready", "deployed", "accepted"}
PullStates == {"open", "merged", "closed"}
SeenState == [status : Statuses \cup {None}, head : Heads \cup {None}, is : PullStates \cup {None}, green : BOOLEAN]
MoveState == [from : Statuses \cup {None}, to : {"ready", "deployed", "accepted"},
              kind : {"head", "merge"}, of : Heads \cup {None}]
AttemptState == [at : MoveSteps, look : 0..4, packet : Packets \cup {None}, seen : SeenState, move : MoveState \cup {None}]

MoveTypeInv ==
    /\ status \in Statuses /\ pull \in [head : Heads, is : PullStates]
    /\ packet \in Packets /\ posts \in [Moving!Moves -> Nat]
    /\ attempt \in AttemptState
    /\ attempt.at # "idle" => attempt.packet \in Packets
    /\ attempt.at = "idle" <=> attempt.look = 0

\* The look that an attempt ends with: what it has seen was so since it began.
Looking == attempt.look = 4 /\ attempt.at \in {"pull", "checks", "plan", "guard", "write"}

\* Whatever is so has been so since.
SinceInv ==
    /\ status \in since.status /\ pull \in since.pull /\ green \subseteq since.green /\ packet \in since.packet
    /\ since.pull \subseteq [head : Heads, is : PullStates]

SightInv ==
    /\ Looking =>
          /\ attempt.seen.status \in since.status /\ attempt.packet \in since.packet
          /\ ~since.authority => attempt.packet.run \in revoked
          /\ attempt.at # "pull" =>
                \E q \in since.pull : q.head = attempt.seen.head /\ q.is = attempt.seen.is
          /\ attempt.at \in {"plan", "guard", "write"} /\ attempt.seen.green => attempt.seen.head \in since.green
    /\ attempt.at \in {"guard", "write"} => attempt.move = Moving!Planned(attempt.packet, attempt.seen)
    /\ attempt.at = "write" => since.authority /\ Moving!Unresolved(attempt.packet.run) \subseteq {attempt.move}

\* From the third look on the move is the one that is signed.
SignedInv ==
    /\ attempt.look = 3 \/ Moving!InHand => attempt.move = attempt.packet.signed
    /\ attempt.at = "admit" => attempt.look = 3
    /\ attempt.at \in {"guard", "write"} => attempt.look = 4
    /\ attempt.at = "reconcile" => attempt.look = 3

\* What was requested is on record as intended, and what is in hand was not requested.
OnceInv ==
    /\ \A m \in Moving!Moves : posts[m] <= 1 /\ (posts[m] > 0 => m \in intents)
    /\ Moving!InHand => attempt.move \in intents /\ (attempt.at # "receipt" => posts[attempt.move] = 0)

MoveInv == MoveTypeInv /\ SinceInv /\ SightInv /\ SignedInv /\ OnceInv

-----------------------------------------------------------------------------
\* What is planned rests on what was seen, under the packet.
LEMMA PlannedSound ==
    ASSUME Moving!SyncAssumption, NEW p \in Packets, NEW seen \in SeenState, Moving!Planned(p, seen) # None
    PROVE  /\ Moving!Planned(p, seen) \in MoveState
           /\ Moving!Planned(p, seen).from = seen.status /\ seen.status \notin Protected
           /\ Moving!Planned(p, seen).of = seen.head /\ seen.is # "closed"
           /\ IF seen.is = "open" THEN Moving!Planned(p, seen).kind = "head" /\ Moving!Ready(p, seen)
              ELSE /\ Moving!Planned(p, seen).kind = "merge" /\ p.deployed = seen.head
                   /\ Moving!Planned(p, seen).to = "accepted" => p.accepted = seen.head
<1> DEFINE to == Moving!Target(p, seen)
           move == Moving!Move(seen.status, to, IF seen.is = "open" THEN "head" ELSE "merge", seen.head)
<1>1. Moving!Planned(p, seen) = move /\ seen.is # "closed" /\ seen.status \notin Protected /\ to # None
  BY DEF Moving!Planned
<1>2. /\ to \in {"ready", "deployed", "accepted"}
      /\ seen.is = "open" => Moving!Ready(p, seen)
      /\ seen.is # "open" => p.deployed = seen.head /\ (to = "accepted" => p.accepted = seen.head)
  BY <1>1 DEF Moving!Target, Moving!Verified, Moving!Accepted
<1> HIDE DEF to
<1>3. move \in MoveState /\ move.from = seen.status /\ move.to = to /\ move.of = seen.head
      /\ move.kind = IF seen.is = "open" THEN "head" ELSE "merge"
  BY <1>2 DEF Moving!Move, MoveState, SeenState
<1> QED BY <1>1, <1>2, <1>3

\* The attempt goes on, and nothing else of it changes.
LEMMA GoesSet ==
    ASSUME MoveTypeInv, NEW at \in MoveSteps, Moving!Goes(at)
    PROVE  /\ attempt' \in AttemptState /\ attempt'.at = at /\ attempt'.look = attempt.look
           /\ attempt'.packet = attempt.packet /\ attempt'.seen = attempt.seen /\ attempt'.move = attempt.move
BY DEF MoveTypeInv, AttemptState, Moving!Goes

LEMMA LookSet ==
    ASSUME MoveTypeInv, NEW look \in 0..4, attempt' = [attempt EXCEPT !.at = "look", !.look = look]
    PROVE  /\ attempt' \in AttemptState /\ attempt'.at = "look" /\ attempt'.look = look
           /\ attempt'.packet = attempt.packet /\ attempt'.move = attempt.move
<1>1. attempt \in AttemptState
  BY DEF MoveTypeInv
<1> QED BY <1>1 DEF AttemptState, MoveSteps

LEMMA IdleTyped == Moving!Idle \in AttemptState /\ Moving!Idle.at = "idle" /\ Moving!Idle.look = 0
BY DEF Moving!Idle, Moving!NoSight, AttemptState, SeenState, MoveSteps

\* An attempt is over; or the action in hand gets its receipt.
LEMMA OverSound ==
    ASSUME Moving!SyncAssumption, MoveInv, Moving!Over, UNCHANGED <<Moving!world, intents, posts>>, SinceInv'
    PROVE  MoveInv'
<1>1. MoveTypeInv'
  BY IdleTyped DEF MoveInv, MoveTypeInv, Moving!Over, Moving!world
<1>2. SightInv' /\ SignedInv' /\ OnceInv'
  BY IdleTyped DEF MoveInv, SightInv, SignedInv, OnceInv, Looking, Moving!InHand, Moving!Over
<1> QED BY <1>1, <1>2 DEF MoveInv

LEMMA ReceiptSound ==
    ASSUME Moving!SyncAssumption, MoveInv, Moving!InHand, Moving!Goes("receipt"), UNCHANGED <<Moving!world, intents, resolved, posts>>, SinceInv'
    PROVE  MoveInv'
<1>0. MoveTypeInv /\ SignedInv /\ OnceInv /\ attempt.at # "idle"
  BY DEF MoveInv, MoveTypeInv, Moving!InHand
<1>1. /\ attempt' \in AttemptState /\ attempt'.at = "receipt" /\ attempt'.look = attempt.look
      /\ attempt'.packet = attempt.packet /\ attempt'.move = attempt.move
  BY <1>0, GoesSet DEF MoveSteps
<1>2. MoveTypeInv'
  BY <1>0, <1>1 DEF MoveTypeInv, Moving!world
<1>3. SightInv' /\ SignedInv' /\ OnceInv'
  BY <1>0, <1>1 DEF SightInv, SignedInv, OnceInv, Looking, Moving!InHand
<1> QED BY <1>2, <1>3, MoveInv DEF MoveInv

LEMMA LookFailsSound ==
    ASSUME Moving!SyncAssumption, MoveInv, Moving!LookFails, UNCHANGED <<Moving!world, intents, resolved, posts>>, SinceInv'
    PROVE  MoveInv'
<1>1. CASE attempt.look = 4 /\ Moving!Goes("receipt")
  BY <1>1, ReceiptSound DEF Moving!InHand
<1>2. CASE Moving!Over
  BY <1>2, OverSound
<1> QED BY <1>1, <1>2 DEF Moving!LookFails

-----------------------------------------------------------------------------
LEMMA TickSound == ASSUME Moving!SyncAssumption, MoveInv, Moving!Tick PROVE MoveInv'
<1>0. UNCHANGED <<Moving!world, intents, resolved, posts, since>> /\ MoveTypeInv /\ SinceInv /\ OnceInv
  BY DEF Moving!Tick, MoveInv
<1>1. /\ attempt' \in AttemptState /\ attempt'.at = "look" /\ attempt'.look = 1 /\ attempt'.packet = packet
  <2>1. packet \in Packets /\ attempt' = [Moving!Idle EXCEPT !.at = "look", !.look = 1, !.packet = packet]
    BY <1>0 DEF Moving!Tick, MoveTypeInv
  <2>2. ASSUME NEW new, new = [Moving!Idle EXCEPT !.at = "look", !.look = 1, !.packet = packet]
        PROVE  new \in AttemptState /\ new.at = "look" /\ new.look = 1 /\ new.packet = packet
    <3>1. Moving!Idle \in AttemptState
      BY IdleTyped
    <3>2. new = [at |-> "look", look |-> 1, packet |-> packet, seen |-> Moving!Idle.seen, move |-> Moving!Idle.move]
      BY <2>2 DEF Moving!Idle
    <3> QED BY <2>1, <3>1, <3>2 DEF AttemptState, MoveSteps
  <2> QED BY <2>1, <2>2
<1>2. MoveTypeInv' /\ SinceInv'
  BY <1>0, <1>1 DEF MoveTypeInv, SinceInv, Moving!world
<1>3. SightInv' /\ SignedInv' /\ OnceInv'
  BY <1>0, <1>1 DEF SightInv, SignedInv, OnceInv, Looking, Moving!InHand
<1> QED BY <1>2, <1>3 DEF MoveInv

LEMMA TicketSound == ASSUME Moving!SyncAssumption, MoveInv, Moving!LookAtTicket PROVE MoveInv'
<1>0. /\ UNCHANGED <<Moving!world, intents, resolved, posts>> /\ MoveTypeInv /\ SinceInv /\ SightInv /\ SignedInv /\ OnceInv
      /\ attempt.at = "look" /\ since' = IF attempt.look = 4 THEN Moving!Now ELSE since
  BY DEF Moving!LookAtTicket, MoveInv
<1>1. SinceInv'
  BY <1>0 DEF SinceInv, Moving!Now, Moving!world
<1>2. CASE Moving!LookFails
  BY <1>0, <1>1, <1>2, LookFailsSound
<1>3. CASE /\ packet = attempt.packet
           /\ attempt' = [attempt EXCEPT !.at = "pull", !.seen = [Moving!NoSight EXCEPT !.status = status]]
  <2>1. ASSUME NEW seen, seen = [Moving!NoSight EXCEPT !.status = status]
        PROVE  seen \in SeenState /\ seen.status = status
    BY <1>0, <2>1 DEF Moving!NoSight, SeenState, MoveTypeInv
  <2>2. /\ attempt' \in AttemptState /\ attempt'.at = "pull" /\ attempt'.look = attempt.look
        /\ attempt'.packet = packet /\ attempt'.move = attempt.move /\ attempt'.seen.status = status
    BY <1>0, <1>3, <2>1 DEF MoveTypeInv, AttemptState, MoveSteps
  <2>3. MoveTypeInv'
    BY <1>0, <2>2 DEF MoveTypeInv, Moving!world
  <2>4. SightInv'
    BY <1>0, <2>2 DEF SightInv, Looking, Moving!Now, Moving!world
  <2>5. SignedInv' /\ OnceInv'
    BY <1>0, <1>3, <2>2 DEF SignedInv, OnceInv, Moving!InHand
  <2> QED BY <1>1, <2>3, <2>4, <2>5 DEF MoveInv
<1> QED BY <1>2, <1>3 DEF Moving!LookAtTicket

LEMMA PullSound == ASSUME Moving!SyncAssumption, MoveInv, Moving!LookAtPull PROVE MoveInv'
<1>0. /\ UNCHANGED <<Moving!world, intents, resolved, posts, since>>
      /\ MoveTypeInv /\ SinceInv /\ SightInv /\ SignedInv /\ OnceInv /\ attempt.at = "pull"
      /\ attempt.seen \in SeenState /\ pull \in [head : Heads, is : PullStates]
  BY DEF Moving!LookAtPull, MoveInv, MoveTypeInv, AttemptState
<1>1. attempt' = [attempt EXCEPT !.at = "checks", !.seen = [attempt.seen EXCEPT !.head = pull.head, !.is = pull.is]]
  BY <1>0 DEF Moving!LookAtPull, MoveTypeInv, AttemptState, SeenState
<1>2. ASSUME NEW seen, seen = [attempt.seen EXCEPT !.head = pull.head, !.is = pull.is]
      PROVE  seen \in SeenState /\ seen.head = pull.head /\ seen.is = pull.is /\ seen.status = attempt.seen.status
  BY <1>0, <1>2 DEF SeenState
<1>3. /\ attempt' \in AttemptState /\ attempt'.at = "checks" /\ attempt'.look = attempt.look
      /\ attempt'.packet = attempt.packet /\ attempt'.move = attempt.move
      /\ attempt'.seen.head = pull.head /\ attempt'.seen.is = pull.is /\ attempt'.seen.status = attempt.seen.status
  BY <1>0, <1>1, <1>2 DEF MoveTypeInv, AttemptState, MoveSteps
<1>4. MoveTypeInv' /\ SinceInv'
  BY <1>0, <1>3 DEF MoveTypeInv, SinceInv, Moving!world
<1>5. SightInv'
  BY <1>0, <1>3 DEF SightInv, SinceInv, Looking, Moving!world
<1>6. SignedInv' /\ OnceInv'
  BY <1>0, <1>3 DEF SignedInv, OnceInv, Moving!InHand
<1> QED BY <1>4, <1>5, <1>6 DEF MoveInv

LEMMA ChecksSound == ASSUME Moving!SyncAssumption, MoveInv, Moving!LookAtChecks PROVE MoveInv'
<1>0. /\ UNCHANGED <<Moving!world, intents, resolved, posts, since>>
      /\ MoveTypeInv /\ SinceInv /\ SightInv /\ SignedInv /\ OnceInv /\ attempt.at = "checks"
      /\ attempt.seen \in SeenState
  BY DEF Moving!LookAtChecks, MoveInv, MoveTypeInv, AttemptState
<1>1. attempt' = [attempt EXCEPT !.at = "plan", !.seen = [attempt.seen EXCEPT !.green = attempt.seen.head \in green]]
  BY <1>0 DEF Moving!LookAtChecks, MoveTypeInv, AttemptState, SeenState
<1>2. ASSUME NEW seen, seen = [attempt.seen EXCEPT !.green = attempt.seen.head \in green]
      PROVE  /\ seen \in SeenState /\ seen.head = attempt.seen.head /\ seen.is = attempt.seen.is
             /\ seen.status = attempt.seen.status /\ seen.green = (attempt.seen.head \in green)
  <2>1. seen = [status |-> attempt.seen.status, head |-> attempt.seen.head, is |-> attempt.seen.is,
                green |-> attempt.seen.head \in green]
    BY <1>0, <1>2 DEF SeenState
  <2> QED BY <1>0, <2>1 DEF SeenState
<1>3. /\ attempt' \in AttemptState /\ attempt'.at = "plan" /\ attempt'.look = attempt.look
      /\ attempt'.packet = attempt.packet /\ attempt'.move = attempt.move
      /\ attempt'.seen.head = attempt.seen.head /\ attempt'.seen.is = attempt.seen.is
      /\ attempt'.seen.status = attempt.seen.status
      /\ attempt'.seen.green = (attempt.seen.head \in green)
  BY <1>0, <1>1, <1>2 DEF MoveTypeInv, AttemptState, MoveSteps
<1>4. MoveTypeInv' /\ SinceInv'
  BY <1>0, <1>3 DEF MoveTypeInv, SinceInv, Moving!world
<1>5. SightInv'
  BY <1>0, <1>3 DEF SightInv, SinceInv, Looking, Moving!world
<1>6. SignedInv' /\ OnceInv'
  BY <1>0, <1>3 DEF SignedInv, OnceInv, Moving!InHand
<1> QED BY <1>4, <1>5, <1>6 DEF MoveInv

LEMMA PlanSound == ASSUME Moving!SyncAssumption, MoveInv, Moving!Plan PROVE MoveInv'
<1> DEFINE move == Moving!Planned(attempt.packet, attempt.seen)
<1>0. /\ UNCHANGED <<Moving!world, intents, resolved, posts, since>>
      /\ MoveTypeInv /\ SinceInv /\ SightInv /\ SignedInv /\ OnceInv /\ SinceInv' /\ attempt.at = "plan"
      /\ attempt.seen \in SeenState /\ attempt.packet \in Packets
  BY DEF Moving!Plan, MoveInv, MoveTypeInv, AttemptState, SinceInv, Moving!world
<1>1. CASE Moving!LookFails \/ Moving!Over
  BY <1>0, <1>1, LookFailsSound, OverSound
<1>2. CASE attempt.look = 4 /\ Moving!Goes("receipt")
  BY <1>0, <1>2, ReceiptSound DEF Moving!InHand
<1>3. CASE attempt.look = 1 /\ move # None /\ attempt' = [attempt EXCEPT !.at = "look", !.look = 2, !.move = move]
  <2>1. move \in MoveState
    BY <1>0, <1>3, PlannedSound
  <2> HIDE DEF move
  <2>2. attempt' \in AttemptState /\ attempt'.at = "look" /\ attempt'.look = 2 /\ attempt'.packet = attempt.packet
    <3>1. ASSUME NEW new, new = [attempt EXCEPT !.at = "look", !.look = 2, !.move = move]
          PROVE  new \in AttemptState /\ new.at = "look" /\ new.look = 2 /\ new.packet = attempt.packet
      <4>1. attempt \in AttemptState
        BY <1>0 DEF MoveTypeInv
      <4>2. new = [at |-> "look", look |-> 2, packet |-> attempt.packet, seen |-> attempt.seen, move |-> move]
        BY <3>1, <4>1 DEF AttemptState
      <4> QED BY <2>1, <4>1, <4>2 DEF AttemptState, MoveSteps
    <3> QED BY <1>3, <3>1
  <2>3. MoveTypeInv' /\ SightInv' /\ SignedInv' /\ OnceInv'
    BY <1>0, <2>2 DEF MoveTypeInv, SightInv, SignedInv, OnceInv, Looking, Moving!InHand, Moving!world
  <2> QED BY <1>0, <2>3 DEF MoveInv
<1>4. CASE /\ attempt.look = 2 /\ attempt.packet.signed = attempt.move
           /\ attempt' = [attempt EXCEPT !.at = "look", !.look = 3]
  <2>1. /\ attempt' \in AttemptState /\ attempt'.at = "look" /\ attempt'.look = 3
        /\ attempt'.packet = attempt.packet /\ attempt'.move = attempt.move
    BY <1>0, <1>4, LookSet
  <2>2. MoveTypeInv' /\ SightInv' /\ SignedInv' /\ OnceInv'
    BY <1>0, <1>4, <2>1 DEF MoveTypeInv, SightInv, SignedInv, OnceInv, Looking, Moving!InHand, Moving!world
  <2> QED BY <1>0, <2>2 DEF MoveInv
<1>5. CASE attempt.look = 3 /\ Moving!Goes("admit")
  <2>1. /\ attempt' \in AttemptState /\ attempt'.at = "admit" /\ attempt'.look = 3
        /\ attempt'.packet = attempt.packet /\ attempt'.move = attempt.move
    BY <1>0, <1>5, GoesSet DEF MoveSteps
  <2>2. MoveTypeInv' /\ SightInv' /\ SignedInv' /\ OnceInv'
    BY <1>0, <1>5, <2>1 DEF MoveTypeInv, SightInv, SignedInv, OnceInv, Looking, Moving!InHand, Moving!world
  <2> QED BY <1>0, <2>2 DEF MoveInv
<1>6. CASE attempt.look = 4 /\ Moving!StillPlanned(attempt.move) /\ Moving!Goes("guard")
  <2>1. /\ attempt' \in AttemptState /\ attempt'.at = "guard" /\ attempt'.look = 4
        /\ attempt'.packet = attempt.packet /\ attempt'.move = attempt.move /\ attempt'.seen = attempt.seen
    BY <1>0, <1>6, GoesSet DEF MoveSteps
  <2>2. MoveTypeInv' /\ SignedInv' /\ OnceInv'
    BY <1>0, <1>6, <2>1 DEF MoveTypeInv, SignedInv, OnceInv, Moving!InHand, Moving!world
  <2>3. attempt'.move = Moving!Planned(attempt'.packet, attempt'.seen)
    BY <1>6, <2>1 DEF Moving!StillPlanned
  <2>4. SightInv'
    BY <1>0, <1>6, <2>1, <2>3 DEF SightInv, Looking, Moving!world, Moving!Planned, Moving!Target,
         Moving!Ready, Moving!Verified, Moving!Accepted, Moving!Move
  <2> QED BY <1>0, <2>2, <2>4 DEF MoveInv
<1>7. \/ Moving!LookFails \/ Moving!Over \/ (attempt.look = 4 /\ Moving!Goes("receipt"))
      \/ attempt.look = 1 /\ move # None /\ attempt' = [attempt EXCEPT !.at = "look", !.look = 2, !.move = move]
      \/ /\ attempt.look = 2 /\ attempt.packet.signed = attempt.move
         /\ attempt' = [attempt EXCEPT !.at = "look", !.look = 3]
      \/ attempt.look = 3 /\ Moving!Goes("admit")
      \/ attempt.look = 4 /\ Moving!StillPlanned(attempt.move) /\ Moving!Goes("guard")
  <2>1. attempt.look \in 1..4
    BY <1>0 DEF MoveTypeInv, AttemptState
  <2>2. CASE packet # attempt.packet
    BY <2>2 DEF Moving!Plan
  <2>3. CASE packet = attempt.packet /\ attempt.look = 1
    BY <2>3 DEF Moving!Plan
  <2>4. CASE packet = attempt.packet /\ attempt.look = 2
    BY <2>4 DEF Moving!Plan
  <2>5. CASE packet = attempt.packet /\ attempt.look = 3
    BY <2>5 DEF Moving!Plan
  <2>6. CASE packet = attempt.packet /\ attempt.look = 4
    BY <2>6 DEF Moving!Plan
  <2> QED BY <2>1, <2>2, <2>3, <2>4, <2>5, <2>6
<1> QED BY <1>1, <1>2, <1>3, <1>4, <1>5, <1>6, <1>7

LEMMA AdmitSound == ASSUME Moving!SyncAssumption, MoveInv, Moving!Admit PROVE MoveInv'
<1>0. /\ UNCHANGED <<Moving!world, resolved, posts, since>>
      /\ MoveTypeInv /\ SinceInv /\ SightInv /\ SignedInv /\ OnceInv /\ SinceInv' /\ attempt.at = "admit"
      /\ attempt.look = 3 /\ attempt.packet \in Packets /\ attempt.move = attempt.packet.signed
  BY DEF Moving!Admit, MoveInv, MoveTypeInv, SinceInv, SignedInv, Moving!world
<1>1. CASE Moving!Over /\ UNCHANGED intents
  BY <1>0, <1>1, OverSound
<1>2. CASE Moving!New(attempt.move) /\ intents' = intents \cup {attempt.move} /\ Moving!Goes("reconcile")
  <2>1. /\ attempt' \in AttemptState /\ attempt'.at = "reconcile" /\ attempt'.look = 3
        /\ attempt'.packet = attempt.packet /\ attempt'.move = attempt.move
    BY <1>0, <1>2, GoesSet DEF MoveSteps
  <2>2. attempt.move \in Moving!Moves /\ posts[attempt.move] = 0
    BY <1>0, <1>2 DEF Moving!Moves, OnceInv, Moving!New, MoveTypeInv
  <2>3. MoveTypeInv' /\ SightInv' /\ SignedInv' /\ OnceInv'
    BY <1>0, <1>2, <2>1, <2>2 DEF MoveTypeInv, SightInv, SignedInv, OnceInv, Looking, Moving!InHand,
         Moving!world
  <2> QED BY <1>0, <2>3 DEF MoveInv
<1> QED BY <1>1, <1>2 DEF Moving!Admit

LEMMA ReconcileSound == ASSUME Moving!SyncAssumption, MoveInv, Moving!Reconcile PROVE MoveInv'
<1>0. /\ UNCHANGED <<Moving!world, intents, resolved, posts, since>>
      /\ MoveTypeInv /\ SinceInv /\ SightInv /\ SignedInv /\ OnceInv /\ SinceInv' /\ attempt.at = "reconcile"
  BY DEF Moving!Reconcile, MoveInv, SinceInv, Moving!world
<1>1. CASE Moving!Goes("receipt")
  BY <1>0, <1>1, ReceiptSound DEF Moving!InHand
<1>2. CASE attempt' = [attempt EXCEPT !.at = "look", !.look = 4]
  <2>1. /\ attempt' \in AttemptState /\ attempt'.at = "look" /\ attempt'.look = 4
        /\ attempt'.packet = attempt.packet /\ attempt'.move = attempt.move
    BY <1>0, <1>2, LookSet
  <2>2. MoveTypeInv' /\ SightInv' /\ SignedInv' /\ OnceInv'
    BY <1>0, <2>1 DEF MoveTypeInv, SightInv, SignedInv, OnceInv, Looking, Moving!InHand, Moving!world
  <2> QED BY <1>0, <2>2 DEF MoveInv
<1> QED BY <1>1, <1>2 DEF Moving!Reconcile

LEMMA GuardSound == ASSUME Moving!SyncAssumption, MoveInv, Moving!Guard PROVE MoveInv'
<1>0. /\ UNCHANGED <<Moving!world, intents, resolved, posts, since>> /\ attempt.look = 4
      /\ MoveTypeInv /\ SinceInv /\ SightInv /\ SignedInv /\ OnceInv /\ SinceInv' /\ attempt.at = "guard"
  BY DEF Moving!Guard, MoveInv, SinceInv, SignedInv, Moving!world
<1>1. CASE Moving!Goes("receipt")
  BY <1>0, <1>1, ReceiptSound DEF Moving!InHand
<1>2. CASE Moving!Guarded /\ Moving!Goes("write")
  <2>1. /\ attempt' \in AttemptState /\ attempt'.at = "write" /\ attempt'.look = 4
        /\ attempt'.packet = attempt.packet /\ attempt'.move = attempt.move /\ attempt'.seen = attempt.seen
    BY <1>0, <1>2, GoesSet DEF MoveSteps
  <2>2. MoveTypeInv' /\ SignedInv' /\ OnceInv'
    BY <1>0, <2>1 DEF MoveTypeInv, SignedInv, OnceInv, Moving!InHand, Moving!world
  <2>3. attempt'.move = Moving!Planned(attempt'.packet, attempt'.seen)
    BY <1>0, <2>1 DEF SightInv
  <2>4. since.authority /\ Moving!Unresolved(attempt.packet.run) \subseteq {attempt.move}
    BY <1>0, <1>2 DEF SightInv, Looking, Moving!Guarded, Moving!Authority
  <2>5. Moving!Unresolved(attempt.packet.run)' \subseteq {attempt'.move}
    BY <1>0, <2>1, <2>4 DEF Moving!Unresolved
  <2>6. SightInv'
    BY <1>0, <2>1, <2>3, <2>4, <2>5 DEF SightInv, Looking, Moving!world
  <2> QED BY <1>0, <2>2, <2>6 DEF MoveInv
<1> QED BY <1>1, <1>2 DEF Moving!Guard

\* What is requested of Jira, at the step that requests it.
LEMMA WriteSound == ASSUME Moving!SyncAssumption, MoveInv, Moving!Write PROVE MoveInv'
<1>0. /\ UNCHANGED <<pull, green, packet, revoked, intents, resolved>> /\ attempt.look = 4
      /\ MoveTypeInv /\ SinceInv /\ SightInv /\ SignedInv /\ OnceInv /\ attempt.at = "write"
      /\ attempt.packet \in Packets /\ attempt.seen \in SeenState /\ Moving!Goes("receipt")
  BY DEF Moving!Write, MoveInv, SignedInv, MoveTypeInv, AttemptState
<1>1. attempt.move # None /\ attempt.move \in Moving!Moves /\ attempt.move \in MoveState
  BY <1>0, PlannedSound DEF SightInv, SignedInv, Moving!Moves, Moving!SyncAssumption, Moving!InHand
<1>2. /\ attempt' \in AttemptState /\ attempt'.at = "receipt" /\ attempt'.look = 4
      /\ attempt'.packet = attempt.packet /\ attempt'.move = attempt.move
  BY <1>0, GoesSet DEF MoveSteps
<1>3. status' \in Statuses
  BY <1>0, <1>1 DEF Moving!Write, MoveTypeInv, MoveState, Statuses
<1>4. SinceInv'
  BY <1>0 DEF SinceInv, Moving!Write
<1>5. /\ posts' \in [Moving!Moves -> Nat] /\ \A m \in Moving!Moves \ {attempt.move} : posts'[m] = posts[m]
      /\ posts'[attempt.move] \in {posts[attempt.move], posts[attempt.move] + 1}
  BY <1>0, <1>1 DEF Moving!Write, MoveTypeInv
<1>6. MoveTypeInv'
  BY <1>0, <1>2, <1>3, <1>5 DEF MoveTypeInv
<1>7. OnceInv'
  BY <1>0, <1>1, <1>2, <1>5 DEF OnceInv, Moving!InHand
<1>8. SightInv' /\ SignedInv'
  BY <1>0, <1>2 DEF SightInv, SignedInv, Looking, Moving!InHand
<1> QED BY <1>4, <1>6, <1>7, <1>8 DEF MoveInv

LEMMA EndSound == ASSUME Moving!SyncAssumption, MoveInv, Moving!Receipt \/ Moving!Fails PROVE MoveInv'
<1>1. SinceInv' /\ UNCHANGED <<Moving!world, intents, posts>>
  BY DEF MoveInv, SinceInv, Moving!Receipt, Moving!Fails, Moving!world
<1>2. CASE Moving!Over
  BY <1>1, <1>2, OverSound
<1>3. CASE Moving!InHand /\ Moving!Goes("receipt") /\ UNCHANGED resolved
  BY <1>1, <1>3, ReceiptSound
<1> QED BY <1>2, <1>3 DEF Moving!Receipt, Moving!Fails

LEMMA PeopleSound == ASSUME Moving!SyncAssumption, MoveInv, Moving!PeopleWork PROVE MoveInv'
<1>0. /\ UNCHANGED <<intents, resolved, attempt, posts>>
      /\ MoveTypeInv /\ SinceInv /\ SightInv /\ SignedInv /\ OnceInv
  BY DEF Moving!PeopleWork, MoveInv
<1>1. /\ since'.status = since.status \cup {status'} /\ since'.pull = since.pull \cup {pull'}
      /\ since'.green = since.green \cup green' /\ since'.packet = since.packet \cup {packet'}
      /\ since'.authority = since.authority
  BY DEF Moving!PeopleWork
<1>2. status' \in Statuses /\ packet' \in Packets /\ revoked \subseteq revoked'
  BY <1>0 DEF Moving!PeopleWork, Moving!Moved, Moving!PullChanges, Moving!Checked, MoveTypeInv, Statuses
<1>3. pull' \in [head : Heads, is : PullStates]
  <2>1. CASE Moving!PullChanges
    BY <1>0, <2>1 DEF Moving!PullChanges, MoveTypeInv, PullStates
  <2>2. CASE pull' = pull
    BY <1>0, <2>2 DEF MoveTypeInv
  <2> QED BY <2>1, <2>2 DEF Moving!PeopleWork, Moving!Moved
<1>4. MoveTypeInv' /\ SinceInv'
  BY <1>0, <1>1, <1>2, <1>3 DEF MoveTypeInv, SinceInv
<1>5. SignedInv' /\ OnceInv'
  BY <1>0 DEF SignedInv, OnceInv, Moving!InHand
<1>6. attempt.at = "write" => Moving!Unresolved(attempt.packet.run)' = Moving!Unresolved(attempt.packet.run)
  BY <1>0 DEF Moving!Unresolved
<1>7. Moving!Planned(attempt.packet, attempt.seen)' = Moving!Planned(attempt.packet, attempt.seen)
  BY <1>0 DEF Moving!Planned, Moving!Target, Moving!Ready, Moving!Verified, Moving!Accepted, Moving!Move
<1>8. SightInv'
  BY <1>0, <1>1, <1>2, <1>6, <1>7 DEF SightInv, Looking
<1> QED BY <1>4, <1>5, <1>8 DEF MoveInv

LEMMA MoveInitSound == ASSUME Moving!SyncAssumption, Moving!Init PROVE MoveInv
<1>1. MoveTypeInv
  BY IdleTyped DEF Moving!Init, MoveTypeInv, Statuses, PullStates
<1>2. SinceInv /\ SightInv /\ SignedInv /\ OnceInv
  BY IdleTyped DEF Moving!Init, SinceInv, Moving!Now, PullStates, SightInv, SignedInv, OnceInv, Looking,
       Moving!InHand
<1> QED BY <1>1, <1>2 DEF MoveInv

LEMMA MoveNextSound == ASSUME Moving!SyncAssumption, MoveInv, [Moving!Next]_(Moving!vars) PROVE MoveInv'
<1>1. CASE UNCHANGED Moving!vars
  BY <1>1 DEF Moving!vars, MoveInv, MoveTypeInv, SinceInv, SightInv, SignedInv, OnceInv, Looking,
       Moving!InHand, Moving!Unresolved,
      Moving!Planned, Moving!Target, Moving!Ready, Moving!Verified, Moving!Accepted, Moving!Move
<1> QED BY <1>1, TickSound, TicketSound, PullSound, ChecksSound, PlanSound, AdmitSound, ReconcileSound,
        GuardSound, WriteSound, EndSound, PeopleSound DEF Moving!Next

THEOREM MoveInvariant == ASSUME Moving!SyncAssumption PROVE Moving!Spec => []MoveInv
<1>1. Moving!Init => MoveInv
  BY MoveInitSound
<1>2. MoveInv /\ [Moving!Next]_(Moving!vars) => MoveInv'
  BY MoveNextSound
<1> QED BY <1>1, <1>2, PTL DEF Moving!Spec

\* A move is requested of Jira at most once, over failures, restarts and new packets.
THEOREM MovedOnceHolds == ASSUME Moving!SyncAssumption PROVE Moving!Spec => []Moving!MovedOnce
<1>1. MoveInv => Moving!MovedOnce
  BY DEF MoveInv, OnceInv, Moving!MovedOnce
<1> QED BY <1>1, MoveInvariant, PTL

-----------------------------------------------------------------------------
\* What is requested is the move of the attempt, behind its fourth look and its guard.
LEMMA PostedSound ==
    ASSUME Moving!SyncAssumption, MoveInv, [Moving!Next]_(Moving!vars), NEW m \in Moving!Moves, Moving!Posted(m)
    PROVE  /\ attempt.at = "write" /\ attempt.look = 4 /\ m = attempt.move
           /\ attempt.packet \in Packets /\ attempt.seen \in SeenState
<1>1. posts # posts'
  BY DEF Moving!Posted, MoveInv, MoveTypeInv
<1>2. Moving!Write
  BY <1>1 DEF Moving!Next, Moving!vars, Moving!Tick, Moving!LookAtTicket, Moving!LookAtPull,
       Moving!LookAtChecks, Moving!Plan, Moving!Admit, Moving!Reconcile, Moving!Guard, Moving!Receipt,
      Moving!Fails, Moving!PeopleWork
<1>3. posts' = [posts EXCEPT ![attempt.move] = @ + 1]
  BY <1>1, <1>2 DEF Moving!Write
<1>4. m = attempt.move
  BY <1>3 DEF Moving!Posted, MoveInv, MoveTypeInv
<1> QED BY <1>2, <1>4 DEF Moving!Write, MoveInv, MoveTypeInv, SignedInv, AttemptState

\* A move rests on what was so at some moment since the last look began.
THEOREM MovedOnSightHolds == ASSUME Moving!SyncAssumption PROVE Moving!Spec => Moving!MovedOnSight
<1>1. ASSUME MoveInv, [Moving!Next]_(Moving!vars), NEW m \in Moving!Moves, Moving!Posted(m)
      PROVE  /\ m.from \in since.status \ Protected
             /\ \E p \in since.packet, q \in since.pull :
                   /\ p.signed = m /\ q.head = m.of
                   /\ IF m.kind = "head" THEN q.is = "open" /\ m.of \in p.reviewed \cap since.green
                      ELSE q.is = "merged" /\ p.deployed = m.of /\ (m.to = "accepted" => p.accepted = m.of)
  <2>1. /\ attempt.at = "write" /\ attempt.look = 4 /\ m = attempt.move
        /\ attempt.packet \in Packets /\ attempt.seen \in SeenState
    BY <1>1, PostedSound
  <2>2. /\ m = attempt.packet.signed /\ m = Moving!Planned(attempt.packet, attempt.seen) /\ m # None
        /\ attempt.seen.status \in since.status /\ attempt.packet \in since.packet
        /\ attempt.seen.green => attempt.seen.head \in since.green
    BY <1>1, <2>1 DEF MoveInv, SightInv, SignedInv, Moving!InHand, Looking, Moving!SyncAssumption
  <2>3. PICK q \in since.pull : q.head = attempt.seen.head /\ q.is = attempt.seen.is
    BY <1>1, <2>1 DEF MoveInv, SightInv, Looking
  <2>4. /\ m.from = attempt.seen.status /\ m.from \notin Protected
        /\ m.of = attempt.seen.head /\ attempt.seen.is # "closed"
        /\ IF attempt.seen.is = "open" THEN m.kind = "head" /\ Moving!Ready(attempt.packet, attempt.seen)
           ELSE /\ m.kind = "merge" /\ attempt.packet.deployed = attempt.seen.head
                /\ m.to = "accepted" => attempt.packet.accepted = attempt.seen.head
    BY <2>1, <2>2, PlannedSound
  <2>5. attempt.seen.is \in PullStates
    BY <1>1, <2>1, <2>3 DEF MoveInv, SinceInv
  <2> QED BY <2>2, <2>3, <2>4, <2>5 DEF Moving!Ready, PullStates
<1>2. MoveInv /\ [Moving!Next]_(Moving!vars) =>
        [\A m \in Moving!Moves : Moving!Posted(m) =>
            /\ m.from \in since.status \ Protected
            /\ \E p \in since.packet, q \in since.pull :
                  /\ p.signed = m /\ q.head = m.of
                  /\ IF m.kind = "head" THEN q.is = "open" /\ m.of \in p.reviewed \cap since.green
                     ELSE q.is = "merged" /\ p.deployed = m.of /\ (m.to = "accepted" => p.accepted = m.of)]_(Moving!vars)
  BY <1>1
<1> QED BY <1>2, MoveInvariant, PTL DEF Moving!Spec, Moving!MovedOnSight

\* A run that is revoked when the last look begins moves nothing.
THEOREM AuthorityStandsHolds == ASSUME Moving!SyncAssumption PROVE Moving!Spec => Moving!AuthorityStands
<1>1. MoveInv /\ [Moving!Next]_(Moving!vars) => [\A m \in Moving!Moves : Moving!Posted(m) => since.authority]_(Moving!vars)
  BY PostedSound DEF MoveInv, SightInv
<1> QED BY <1>1, MoveInvariant, PTL DEF Moving!Spec, Moving!AuthorityStands

\* Nothing is moved under a run with another move that nobody knows the end of.
THEOREM UnresolvedHoldsHolds == ASSUME Moving!SyncAssumption PROVE Moving!Spec => Moving!UnresolvedHolds
<1>1. MoveInv /\ [Moving!Next]_(Moving!vars) => [\A m \in Moving!Moves : Moving!Posted(m) => Moving!Unresolved(attempt.packet.run) \subseteq {m}]_(Moving!vars)
  BY PostedSound DEF MoveInv, SightInv
<1> QED BY <1>1, MoveInvariant, PTL DEF Moving!Spec, Moving!UnresolvedHolds

-----------------------------------------------------------------------------
\* Notifications: the inductive invariant.

Acting == {"intend", "authorize", "block", "send", "wait", "confirm", "doubt", "ask", "prove", "note"}
OutSteps == {"idle", "event", "subject", "look", "acknowledge"} \cup Acting

Line == [kind : {"intent", "blocked", "delivery", "uncertain", "acknowledged"}, of : Note]
PostState == [of : Note, state : {"under way", "delivered", "lost"}]
CallerState == [at : OutSteps, op : Outbox!Operations \cup {None}, of : Note \cup {None}, post : Nat]

OutTypeInv ==
    /\ journal \in Seq(Line) /\ posts \in Seq(PostState)
    /\ event \in [Outbox!Events -> Caller \cup {None, Left}]
    /\ call \in [Caller -> CallerState]
    /\ \A c \in Caller : call[c].at # "idle" => call[c].of \in Note
    /\ told \subseteq Outbox!Events

\* What is recorded and sent of an event is of one notification, one post of which may be there; what
\* is denied is final and was not sent, what is told is there and the last that was said.
RecordsInv ==
    /\ \A i, j \in DOMAIN journal : journal[i].of.event = journal[j].of.event => journal[i].of = journal[j].of
    /\ \A p \in DOMAIN posts : \E i \in DOMAIN journal : journal[i].of = posts[p].of
    /\ \A p, q \in DOMAIN posts :
          posts[p].of.event = posts[q].of.event /\ posts[p].state # "lost" /\ posts[q].state # "lost" => p = q
    /\ \A i \in DOMAIN journal : journal[i].kind = "blocked" =>
          /\ \A p \in DOMAIN posts : posts[p].of.event # journal[i].of.event
          /\ Outbox!Said(journal[i].of.event) \subseteq {i}
    /\ \A i \in DOMAIN journal : journal[i].kind = "delivery" =>
          \E p \in DOMAIN posts : posts[p].of = journal[i].of /\ posts[p].state = "delivered"
    /\ \A e \in told : Outbox!LastOf(Outbox!Said(e), "delivery")

Claimed(c) == call[c].at \notin {"idle", "event"}
PostsOf(c) == {p \in DOMAIN posts : posts[p].of.event = Outbox!Event(c)}

\* What a call found under its claims stays so until it is done: its claim; what binds its event; that
\* nothing final is known; that nothing is under way; and its own post, or that of a receipt.
ClaimInv(c) == Claimed(c) => event[Outbox!Event(c)] = c
BoundInv(c) ==
    /\ (call[c].at # "idle" /\ call[c].op # "dispatch") \/ call[c].at \in Acting \ {"intend"} =>
          \E i \in DOMAIN journal : journal[i].of = call[c].of
    /\ call[c].at \in {"acknowledge", "prove"} => call[c].op # "dispatch"
OpenInv(c) ==
    call[c].at \in Acting =>
        /\ \A i \in Outbox!On(Outbox!Event(c)) : journal[i].of = call[c].of /\ journal[i].kind # "blocked"
        /\ Outbox!Event(c) \notin told
UnsentInv(c) ==
    /\ call[c].at = "intend" => Outbox!On(Outbox!Event(c)) = {}
    /\ call[c].at \in {"authorize", "block", "send"} => \A p \in PostsOf(c) : posts[p].state = "lost"
    /\ call[c].at = "block" \/ (call[c].at = "authorize" /\ call[c].op = "dispatch") =>
          PostsOf(c) = {} /\ Outbox!Said(Outbox!Event(c)) = {}
SentInv(c) ==
    /\ call[c].at \in {"wait", "confirm"} => call[c].post \in DOMAIN posts /\ posts[call[c].post].of = call[c].of
    /\ call[c].at = "confirm" => posts[call[c].post].state = "delivered"
    /\ call[c].at = "note" => \E p \in DOMAIN posts : posts[p].of = call[c].of /\ posts[p].state = "delivered"

CallerInv(c) == ClaimInv(c) /\ BoundInv(c) /\ OpenInv(c) /\ UnsentInv(c) /\ SentInv(c)
OutInv == OutTypeInv /\ RecordsInv /\ \A c \in Caller : CallerInv(c)

-----------------------------------------------------------------------------
\* One element more.
LEMMA Longer ==
    ASSUME NEW S, NEW s \in Seq(S), NEW x \in S
    PROVE  /\ Append(s, x) \in Seq(S)
           /\ DOMAIN Append(s, x) = DOMAIN s \cup {Len(s) + 1} /\ Len(s) + 1 \notin DOMAIN s
           /\ Append(s, x)[Len(s) + 1] = x /\ Len(s) + 1 \in Nat
           /\ \A i \in DOMAIN s : i < Len(s) + 1 /\ i \in Nat /\ Append(s, x)[i] = s[i]
  OBVIOUS

\* What the others found stays so, as long as what is added is of other events than theirs.
LEMMA OthersKeep ==
    ASSUME OutInv, NEW c \in Caller, CallerInv(c), NEW E,
           call'[c] = call[c],
           Claimed(c) => event'[Outbox!Event(c)] = c /\ Outbox!Event(c) \notin E,
           DOMAIN journal \subseteq DOMAIN journal', DOMAIN posts \subseteq DOMAIN posts',
           \A i \in DOMAIN journal : journal'[i] = journal[i],
           \A i \in DOMAIN journal' \ DOMAIN journal : journal'[i].of.event \in E,
           \A p \in DOMAIN posts : /\ posts'[p].of = posts[p].of
                                   /\ posts[p].state # "under way" => posts'[p] = posts[p],
           \A p \in DOMAIN posts' \ DOMAIN posts : posts'[p].of.event \in E,
           told' \subseteq told \cup E
    PROVE  CallerInv(c)'
<1> DEFINE e == Outbox!Event(c)
<1>1. e' = e /\ Claimed(c)' = Claimed(c) BY DEF Outbox!Event, Claimed
<1>2. call[c].at \in Acting => Claimed(c) BY DEF Acting, Claimed
<1>3. Claimed(c) => Outbox!On(e)' = Outbox!On(e) /\ Outbox!Said(e)' = Outbox!Said(e) /\ PostsOf(c)' = PostsOf(c)
  BY <1>1 DEF Outbox!On, Outbox!Said, PostsOf
<1>4. ClaimInv(c)'
  BY <1>1 DEF CallerInv, ClaimInv
<1>5. BoundInv(c)'
  <2>1. ASSUME NEW i \in DOMAIN journal, journal[i].of = call[c].of
        PROVE  \E j \in DOMAIN journal' : journal'[j].of = call[c].of
    BY <2>1
  <2> QED BY <2>1 DEF CallerInv, BoundInv
<1>6. OpenInv(c)'
  BY <1>1, <1>2, <1>3 DEF CallerInv, OpenInv, Outbox!On
<1>7. UnsentInv(c)'
  <2>1. \A p \in PostsOf(c) : posts[p].state = "lost" => posts'[p].state = "lost"
    BY DEF PostsOf
  <2> QED BY <1>1, <1>2, <1>3, <2>1 DEF CallerInv, UnsentInv, Acting
<1>8. SentInv(c)'
  <2>1. \A p \in DOMAIN posts : /\ posts'[p].of = posts[p].of /\ p \in DOMAIN posts'
                                /\ posts[p].state = "delivered" => posts'[p].state = "delivered"
    OBVIOUS
  <2> QED BY <2>1 DEF CallerInv, SentInv
<1> QED
  BY <1>4, <1>5, <1>6, <1>7, <1>8 DEF CallerInv

LEMMA Elsewhere ==
    ASSUME OutInv, NEW c \in Caller, NEW d \in Caller, c # d, Claimed(c), Claimed(d)
    PROVE  Outbox!Event(c) # Outbox!Event(d)
  BY DEF OutInv, CallerInv, ClaimInv

LEMMA EventOf == ASSUME OutTypeInv, NEW c \in Caller, call[c].at # "idle"
                 PROVE  call[c].of \in Note /\ Outbox!Event(c) \in Outbox!Events
  BY DEF OutTypeInv, Outbox!Event, Outbox!Events

\* One call changes, and with it nothing that is recorded, sent or told.
LEMMA CallKeeps ==
    ASSUME OutInv, OutTypeInv', NEW c \in Caller, CallerInv(c)', UNCHANGED <<journal, posts, told>>,
           \A d \in Caller \ {c} : /\ call'[d] = call[d]
                                   /\ Claimed(d) => event'[Outbox!Event(d)] = d
    PROVE  OutInv'
<1>1. RecordsInv'
  BY DEF OutInv, RecordsInv, Outbox!Said, Outbox!On, Outbox!LastOf
<1>2. ASSUME NEW d \in Caller, d # c PROVE CallerInv(d)'
  <2>1. CallerInv(d) BY DEF OutInv
  <2>2. Claimed(d) => event'[Outbox!Event(d)] = d /\ Outbox!Event(d) \notin {} BY <1>2
  <2>3. /\ call'[d] = call[d] /\ journal' = journal /\ posts' = posts /\ told' = told
        /\ \A i \in DOMAIN journal' \ DOMAIN journal : journal'[i].of.event \in {}
        /\ \A i \in DOMAIN posts' \ DOMAIN posts : posts'[i].of.event \in {}
        /\ told' \subseteq told \cup {}
    BY <1>2
  <2> QED BY <2>1, <2>2, <2>3, OthersKeep
<1> QED BY <1>1, <1>2 DEF OutInv

\* A call goes on.
LEMMA GoSet ==
    ASSUME OutTypeInv, NEW c \in Caller, call[c].at # "idle", NEW x \in OutSteps, Outbox!Go(c, x)
    PROVE  /\ call' \in [Caller -> CallerState]
           /\ \A d \in Caller : call'[d].at # "idle" => call'[d].of \in Note
           /\ call'[c] = [call[c] EXCEPT !.at = x] /\ call'[c].at = x
           /\ call'[c].op = call[c].op /\ call'[c].of = call[c].of /\ call'[c].post = call[c].post
           /\ Outbox!Event(c)' = Outbox!Event(c)
           /\ \A d \in Caller \ {c} : call'[d] = call[d]
  BY DEF OutTypeInv, CallerState, Outbox!Go, Outbox!Event

LEMMA GoesOn ==
    ASSUME OutInv, NEW c \in Caller, call[c].at # "idle", NEW x \in OutSteps, Outbox!Go(c, x), CallerInv(c)',
           UNCHANGED <<journal, posts, told, event>>
    PROVE  OutInv'
<1>1. OutTypeInv'
  BY GoSet DEF OutInv, OutTypeInv
<1> QED BY <1>1, CallKeeps, GoSet DEF OutInv, CallerInv, ClaimInv

\* A call returns, and gives up its claims.
LEMMA IdleKeeps == ASSUME NEW c \in Caller, call'[c].at = "idle" PROVE CallerInv(c)'
  BY DEF CallerInv, ClaimInv, BoundInv, OpenInv, UnsentInv, SentInv, Claimed, Acting

LEMMA ReturnSet ==
    ASSUME OutTypeInv, NEW c \in Caller, Outbox!Return(c), Outbox!OutboxAssumption
    PROVE  /\ call' \in [Caller -> CallerState] /\ CallerInv(c)'
           /\ \A d \in Caller : call'[d].at # "idle" => call'[d].of \in Note
           /\ event' \in [Outbox!Events -> Caller \cup {None, Left}]
           /\ \A d \in Caller \ {c} : /\ call'[d] = call[d]
                                      /\ Claimed(d) /\ event[Outbox!Event(d)] = d => event'[Outbox!Event(d)] = d
<1>1. call' = [call EXCEPT ![c] = Outbox!Idle] /\ event' = [e \in Outbox!Events |-> IF event[e] = c THEN None ELSE event[e]]
  BY DEF Outbox!Return, Outbox!Release
<1>2. Outbox!Idle \in CallerState /\ Outbox!Idle.at = "idle"
  BY DEF Outbox!Idle, CallerState, OutSteps
<1>3. /\ call' \in [Caller -> CallerState] /\ call'[c].at = "idle"
      /\ \A d \in Caller \ {c} : call'[d] = call[d]
  BY <1>1, <1>2 DEF OutTypeInv
<1>4. event' \in [Outbox!Events -> Caller \cup {None, Left}]
  BY <1>1 DEF OutTypeInv
<1>5. ASSUME NEW d \in Caller \ {c}, Claimed(d), event[Outbox!Event(d)] = d PROVE event'[Outbox!Event(d)] = d
  BY <1>1, <1>5, EventOf DEF Claimed
<1> QED BY <1>3, <1>4, <1>5, IdleKeeps DEF OutTypeInv

LEMMA Returns ==
    ASSUME OutInv, NEW c \in Caller, Outbox!Return(c), UNCHANGED <<journal, posts, told>>, Outbox!OutboxAssumption
    PROVE  OutInv'
<1>1. OutTypeInv'
  BY ReturnSet DEF OutInv, OutTypeInv
<1> QED BY <1>1, CallKeeps, ReturnSet DEF OutInv, CallerInv, ClaimInv

-----------------------------------------------------------------------------
\* Records.

LEMMA KindIs ==
    ASSUME NEW c \in Caller, Outbox!Appending(c)
    PROVE  /\ call[c].at \in {"intend", "block", "confirm", "doubt", "note", "acknowledge"}
           /\ Outbox!Kind[call[c].at] \in {"intent", "blocked", "delivery", "uncertain", "acknowledged"}
           /\ Outbox!Kind[call[c].at] = "blocked" <=> call[c].at = "block"
           /\ Outbox!Kind[call[c].at] = "delivery" <=> call[c].at \in {"confirm", "note"}
           /\ Outbox!Kind[call[c].at] \in Outbox!Outcomes => call[c].at \in {"block", "confirm", "doubt", "note"}
           /\ call[c].at # "acknowledge" => call[c].at \in Acting
           /\ Claimed(c) /\ call[c].at # "idle"
<1>1. call[c].at \in {"intend", "block", "confirm", "doubt", "note", "acknowledge"}
  BY DEF Outbox!Appending, Outbox!Kind
<1> QED BY <1>1 DEF Outbox!Kind, Outbox!Outcomes, Acting, Claimed

LEMMA WriteSet ==
    ASSUME OutTypeInv, NEW c \in Caller, Outbox!Appending(c), NEW end, Outbox!Write(c, end)
    PROVE  \E n \in Nat :
             /\ journal' \in Seq(Line) /\ n \notin DOMAIN journal
             /\ DOMAIN journal' = DOMAIN journal \cup {n}
             /\ \A i \in DOMAIN journal : i <= n /\ journal'[i] = journal[i]
             /\ journal'[n].kind = Outbox!Kind[call[c].at] /\ journal'[n].of = call[c].of
             /\ \A e : e # Outbox!Event(c) => Outbox!On(e)' = Outbox!On(e) /\ Outbox!Said(e)' = Outbox!Said(e)
             /\ \A e : /\ Outbox!On(e)' \subseteq Outbox!On(e) \cup {n}
                       /\ Outbox!Said(e)' \subseteq Outbox!Said(e) \cup {n}
             /\ Outbox!Kind[call[c].at] \notin Outbox!Outcomes => \A e : Outbox!Said(e)' = Outbox!Said(e)
             /\ Outbox!Kind[call[c].at] \in Outbox!Outcomes =>
                  n \in {i \in DOMAIN journal' : /\ journal'[i].of.event = call[c].of.event
                                                 /\ journal'[i].kind \in Outbox!Outcomes}
<1> DEFINE x == [kind |-> Outbox!Kind[call[c].at], of |-> call[c].of]
           n == Len(journal) + 1
<1>1. x \in Line /\ journal' = Append(journal, x)
  BY KindIs, EventOf DEF Outbox!Write, Line
<1>2. x.kind = Outbox!Kind[call[c].at] /\ x.of = call[c].of
  OBVIOUS
<1> HIDE DEF x
<1>3. /\ journal' \in Seq(Line) /\ n \in Nat /\ n \notin DOMAIN journal
      /\ DOMAIN journal' = DOMAIN journal \cup {n} /\ journal'[n] = x
      /\ \A i \in DOMAIN journal : i <= n /\ journal'[i] = journal[i]
  BY <1>1, Longer DEF OutTypeInv
<1> HIDE DEF n
<1>4. Outbox!Event(c) = x.of.event
  BY <1>2 DEF Outbox!Event
<1>5. \A e : /\ e # x.of.event => Outbox!On(e)' = Outbox!On(e)
             /\ Outbox!On(e)' \subseteq Outbox!On(e) \cup {n}
  BY <1>3 DEF Outbox!On
<1>6. \A e : /\ e # x.of.event => Outbox!Said(e)' = Outbox!Said(e)
             /\ Outbox!Said(e)' \subseteq Outbox!Said(e) \cup {n}
  BY <1>3, <1>5 DEF Outbox!Said, Outbox!On
<1>7. x.kind \notin Outbox!Outcomes => \A e : Outbox!Said(e)' = Outbox!Said(e)
  BY <1>3 DEF Outbox!Said, Outbox!On
<1>8. x.kind \in Outbox!Outcomes => n \in {i \in DOMAIN journal' : journal'[i].of.event = call[c].of.event
                                                              /\ journal'[i].kind \in Outbox!Outcomes}
  BY <1>2, <1>3
<1> WITNESS n \in Nat
<1> QED BY <1>2, <1>3, <1>4, <1>5, <1>6, <1>7, <1>8

\* A record under a call's claims; with the delivery, the event may be told.
LEMMA WriteKeeps ==
    ASSUME OutInv, NEW c \in Caller, Outbox!Appending(c), NEW end, Outbox!Write(c, end), posts' = posts,
           \/ told' = told
           \/ told' = told \cup {call[c].of.event} /\ Outbox!Kind[call[c].at] = "delivery"
    PROVE  /\ RecordsInv' /\ journal' \in Seq(Line) /\ told' \subseteq Outbox!Events
           /\ \A d \in Caller \ {c} :
                 call'[d] = call[d] /\ (Claimed(d) => event'[Outbox!Event(d)] = d) => CallerInv(d)'
           /\ \E i \in DOMAIN journal' : journal'[i].of = call[c].of
           /\ \A i \in DOMAIN journal' :
                 \/ i \in DOMAIN journal /\ journal'[i] = journal[i]
                 \/ journal'[i].of = call[c].of /\ journal'[i].kind = Outbox!Kind[call[c].at]
           /\ Outbox!Kind[call[c].at] \notin Outbox!Outcomes => \A f : Outbox!Said(f)' = Outbox!Said(f)
<1> DEFINE e == call[c].of.event
<1>0. /\ OutTypeInv /\ RecordsInv /\ CallerInv(c) /\ Claimed(c)
      /\ call[c].of \in Note /\ e \in Outbox!Events /\ Outbox!Event(c) = e
  BY KindIs, EventOf DEF OutInv, Outbox!Event
<1>1. PICK n \in Nat :
             /\ journal' \in Seq(Line) /\ n \notin DOMAIN journal
             /\ DOMAIN journal' = DOMAIN journal \cup {n}
             /\ \A i \in DOMAIN journal : i <= n /\ journal'[i] = journal[i]
             /\ journal'[n].kind = Outbox!Kind[call[c].at] /\ journal'[n].of = call[c].of
             /\ \A f : f # e => Outbox!On(f)' = Outbox!On(f) /\ Outbox!Said(f)' = Outbox!Said(f)
             /\ \A f : /\ Outbox!On(f)' \subseteq Outbox!On(f) \cup {n}
                       /\ Outbox!Said(f)' \subseteq Outbox!Said(f) \cup {n}
             /\ Outbox!Kind[call[c].at] \notin Outbox!Outcomes => \A f : Outbox!Said(f)' = Outbox!Said(f)
             /\ Outbox!Kind[call[c].at] \in Outbox!Outcomes =>
                  n \in {i \in DOMAIN journal' : /\ journal'[i].of.event = e
                                                 /\ journal'[i].kind \in Outbox!Outcomes}
  BY <1>0, WriteSet
<1>2. \A i \in DOMAIN journal : journal[i].of.event = e => journal[i].of = call[c].of
  <2>1. CASE call[c].at = "acknowledge"
    BY <1>0, <2>1 DEF CallerInv, BoundInv, RecordsInv
  <2>2. CASE call[c].at \in Acting
    BY <1>0, <2>2 DEF CallerInv, OpenInv, Outbox!On
  <2> QED BY <2>1, <2>2, KindIs
<1>3. \A i, j \in DOMAIN journal' : journal'[i].of.event = journal'[j].of.event => journal'[i].of = journal'[j].of
  BY <1>0, <1>1, <1>2 DEF RecordsInv
<1>4. \A p \in DOMAIN posts : \E i \in DOMAIN journal' : journal'[i].of = posts[p].of
  <2> SUFFICES ASSUME NEW p \in DOMAIN posts PROVE \E i \in DOMAIN journal' : journal'[i].of = posts[p].of
    OBVIOUS
  <2>1. PICK i \in DOMAIN journal : journal[i].of = posts[p].of BY <1>0 DEF RecordsInv
  <2> QED BY <2>1, <1>1
<1>5. ASSUME NEW i \in DOMAIN journal', journal'[i].kind = "blocked"
      PROVE  /\ \A p \in DOMAIN posts : posts[p].of.event # journal'[i].of.event
             /\ \A f : f = journal'[i].of.event => Outbox!Said(f)' \subseteq {i}
  <2>1. CASE i = n
    <3>1. call[c].at = "block" BY <1>1, <1>5, <2>1, KindIs
    <3>2. PostsOf(c) = {} /\ Outbox!Said(e) = {}
      BY <1>0, <3>1 DEF CallerInv, UnsentInv
    <3> QED BY <1>0, <1>1, <2>1, <3>2 DEF PostsOf
  <2>2. CASE i \in DOMAIN journal /\ journal[i].of.event # e
    <3>1. journal'[i] = journal[i] /\ journal[i].kind = "blocked" BY <1>1, <1>5, <2>2
    <3>2. /\ \A p \in DOMAIN posts : posts[p].of.event # journal[i].of.event
          /\ Outbox!Said(journal[i].of.event) \subseteq {i}
      BY <1>0, <2>2, <3>1 DEF RecordsInv
    <3>3. \A f : f = journal[i].of.event => Outbox!Said(f)' = Outbox!Said(f)
      BY <1>1, <2>2
    <3> QED BY <3>1, <3>2, <3>3
  <2>3. CASE i \in DOMAIN journal /\ journal[i].of.event = e
    <3>1. journal[i].kind = "blocked" BY <1>1, <1>5, <2>3
    <3>2. call[c].at \notin Acting
      BY <1>0, <2>3, <3>1 DEF CallerInv, OpenInv, Outbox!On
    <3>3. \A f : Outbox!Said(f)' = Outbox!Said(f)
      BY <1>1, <3>2, KindIs DEF Acting
    <3>4. /\ \A p \in DOMAIN posts : posts[p].of.event # journal[i].of.event
          /\ Outbox!Said(journal[i].of.event) \subseteq {i}
      BY <1>0, <2>3, <3>1 DEF RecordsInv
    <3>5. journal'[i] = journal[i] BY <1>1, <2>3
    <3> QED BY <3>3, <3>4, <3>5
  <2> QED BY <1>1, <2>1, <2>2, <2>3
<1>6. \A i \in DOMAIN journal' : journal'[i].kind = "delivery" =>
          \E p \in DOMAIN posts : posts[p].of = journal'[i].of /\ posts[p].state = "delivered"
  <2>1. call[c].at \in {"confirm", "note"} =>
          \E p \in DOMAIN posts : posts[p].of = call[c].of /\ posts[p].state = "delivered"
    BY <1>0 DEF CallerInv, SentInv
  <2>2. ASSUME NEW i \in DOMAIN journal, journal[i].kind = "delivery"
        PROVE  \E p \in DOMAIN posts : posts[p].of = journal[i].of /\ posts[p].state = "delivered"
    BY <1>0, <2>2 DEF RecordsInv
  <2> QED BY <1>1, <2>1, <2>2, KindIs
<1>7. ASSUME NEW f \in told' PROVE Outbox!LastOf(Outbox!Said(f), "delivery")'
  <2>1. CASE f \in told /\ f # e
    BY <1>0, <1>1, <2>1 DEF RecordsInv, Outbox!LastOf, Outbox!Said, Outbox!On
  <2>2. CASE f \in told /\ f = e
    <3>1. call[c].at \notin Acting
      BY <1>0, <2>2 DEF CallerInv, OpenInv
    <3>2. Outbox!Said(f)' = Outbox!Said(f)
      BY <1>1, <3>1, KindIs DEF Acting
    <3> QED BY <1>0, <1>1, <2>2, <3>2 DEF RecordsInv, Outbox!LastOf, Outbox!Said, Outbox!On
  <2>3. CASE f \notin told
    <3>1. f = e /\ Outbox!Kind[call[c].at] = "delivery"
      BY <1>7, <2>3
    <3>2. n \in Outbox!Said(f)'
      BY <1>1, <3>1 DEF Outbox!Said, Outbox!On, Outbox!Outcomes
    <3>3. \A j \in Outbox!Said(f)' : j <= n
      BY <1>1 DEF Outbox!Said, Outbox!On
    <3> QED BY <1>1, <3>1, <3>2, <3>3 DEF Outbox!LastOf
  <2> QED BY <2>1, <2>2, <2>3
<1>8. RecordsInv'
  BY <1>0, <1>3, <1>4, <1>5, <1>6, <1>7 DEF RecordsInv
<1>9. ASSUME NEW d \in Caller \ {c}, call'[d] = call[d], Claimed(d) => event'[Outbox!Event(d)] = d
      PROVE  CallerInv(d)'
  <2>1. CallerInv(d) BY DEF OutInv
  <2>2. Claimed(d) => event'[Outbox!Event(d)] = d /\ Outbox!Event(d) \notin {e}
    BY <1>0, <1>9, Elsewhere
  <2>3. /\ call'[d] = call[d] /\ DOMAIN journal \subseteq DOMAIN journal'
        /\ \A i \in DOMAIN journal : journal'[i] = journal[i]
        /\ \A i \in DOMAIN journal' \ DOMAIN journal : journal'[i].of.event \in {e}
        /\ DOMAIN posts \subseteq DOMAIN posts' /\ \A p \in DOMAIN posts : posts'[p] = posts[p]
        /\ \A i \in DOMAIN posts' \ DOMAIN posts : posts'[i].of.event \in {e}
        /\ told' \subseteq told \cup {e}
    BY <1>1, <1>9
  <2> QED BY <2>1, <2>2, <2>3, OthersKeep
<1>10. told' \subseteq Outbox!Events
  BY <1>0 DEF OutTypeInv
<1>11. /\ \E i \in DOMAIN journal' : journal'[i].of = call[c].of
       /\ \A i \in DOMAIN journal' :
             \/ i \in DOMAIN journal /\ journal'[i] = journal[i]
             \/ journal'[i].of = call[c].of /\ journal'[i].kind = Outbox!Kind[call[c].at]
  <2>1. n \in DOMAIN journal' /\ journal'[n].of = call[c].of /\ journal'[n].kind = Outbox!Kind[call[c].at]
    BY <1>1
  <2>2. \A i \in DOMAIN journal' : i = n \/ (i \in DOMAIN journal /\ journal'[i] = journal[i])
    BY <1>1
  <2>3. \E i \in DOMAIN journal' : journal'[i].of = call[c].of BY <2>1
  <2>4. \A i \in DOMAIN journal' :
          \/ i \in DOMAIN journal /\ journal'[i] = journal[i]
          \/ journal'[i].of = call[c].of /\ journal'[i].kind = Outbox!Kind[call[c].at]
    BY <2>1, <2>2
  <2> QED BY <2>3, <2>4
<1> QED BY <1>1, <1>8, <1>9, <1>10, <1>11

-----------------------------------------------------------------------------
\* The steps of a call.

LEMMA BeginSound ==
    ASSUME Outbox!OutboxAssumption, OutInv, NEW c \in Caller, Outbox!Begin(c)
    PROVE  OutInv'
<1>1. PICK op \in Outbox!Operations, n \in Note :
        /\ op # "dispatch" => Outbox!Bound(n)
        /\ call' = [call EXCEPT ![c] = [at |-> "event", op |-> op, of |-> n, post |-> 0]]
  BY DEF Outbox!Begin
<1>2. UNCHANGED <<journal, event, posts, told>>
  BY DEF Outbox!Begin
<1>3. [at |-> "event", op |-> op, of |-> n, post |-> 0] \in CallerState
  BY DEF CallerState, OutSteps
<1>4. /\ call' \in [Caller -> CallerState]
      /\ call'[c].at = "event" /\ call'[c].op = op /\ call'[c].of = n
      /\ \A d \in Caller \ {c} : call'[d] = call[d]
  BY <1>1, <1>3 DEF OutInv, OutTypeInv
<1>5. OutTypeInv'
  BY <1>2, <1>4 DEF OutInv, OutTypeInv
<1>6. op # "dispatch" => \E i \in DOMAIN journal : journal[i].of = n
  <2>1. ASSUME NEW i, i \in Outbox!On(n.event), journal[i] = [kind |-> "intent", of |-> n]
        PROVE  i \in DOMAIN journal /\ journal[i].of = n
    BY <2>1 DEF Outbox!On
  <2> QED BY <1>1, <2>1 DEF Outbox!Bound
<1>7. CallerInv(c)'
  BY <1>2, <1>4, <1>6 DEF CallerInv, ClaimInv, BoundInv, OpenInv, UnsentInv, SentInv, Claimed, Acting
<1> QED BY <1>2, <1>4, <1>5, <1>7, CallKeeps DEF OutInv, CallerInv, ClaimInv

LEMMA ClaimEventSound ==
    ASSUME Outbox!OutboxAssumption, OutInv, NEW c \in Caller, Outbox!ClaimEvent(c)
    PROVE  OutInv'
<1>1. /\ call[c].at = "event" /\ event[Outbox!Event(c)] = None
      /\ event' = [event EXCEPT ![Outbox!Event(c)] = c]
      /\ Outbox!Go(c, "subject") /\ UNCHANGED <<journal, posts, told>>
  BY DEF Outbox!ClaimEvent, Outbox!At
<1>2. OutTypeInv /\ CallerInv(c) /\ "subject" \in OutSteps /\ call[c].at # "idle"
  BY <1>1 DEF OutInv, OutSteps
<1>3. /\ call' \in [Caller -> CallerState]
      /\ \A d \in Caller : call'[d].at # "idle" => call'[d].of \in Note
      /\ call'[c].at = "subject" /\ call'[c].op = call[c].op /\ call'[c].of = call[c].of
      /\ Outbox!Event(c)' = Outbox!Event(c)
      /\ \A d \in Caller \ {c} : call'[d] = call[d]
  BY <1>1, <1>2, GoSet
<1>4. OutTypeInv' /\ event'[Outbox!Event(c)] = c
  BY <1>1, <1>2, <1>3, EventOf DEF OutTypeInv
<1>5. CallerInv(c)'
  BY <1>1, <1>2, <1>3, <1>4 DEF CallerInv, ClaimInv, BoundInv, OpenInv, UnsentInv, SentInv, Claimed, Acting
<1>6. ASSUME NEW d \in Caller \ {c}, Claimed(d) PROVE event'[Outbox!Event(d)] = d
  <2>1. event[Outbox!Event(d)] = d BY <1>6 DEF OutInv, CallerInv, ClaimInv
  <2>2. d # None BY DEF Outbox!OutboxAssumption
  <2>3. Outbox!Event(d) \in Outbox!Events BY <1>2, <1>6, EventOf DEF Claimed
  <2> QED BY <1>1, <1>2, <2>1, <2>2, <2>3 DEF OutTypeInv
<1> QED BY <1>1, <1>3, <1>4, <1>5, <1>6, CallKeeps

\* A call goes on, with what it has found and nothing else new.
LEMMA GoesSound ==
    ASSUME OutInv, NEW c \in Caller, call[c].at # "idle", NEW x \in OutSteps, Outbox!Go(c, x), x # "idle",
           UNCHANGED <<journal, posts, told, event>>,
           Claimed(c) \/ x = "event",
           x = "acknowledge" \/ x = "prove" => call[c].op # "dispatch",
           x \in Acting /\ call[c].at \notin Acting =>
             /\ \A i \in Outbox!On(Outbox!Event(c)) : journal[i].of = call[c].of /\ journal[i].kind # "blocked"
             /\ Outbox!Event(c) \notin told,
           x = "intend" => Outbox!On(Outbox!Event(c)) = {},
           x \in Acting \ {"intend"} => \E i \in DOMAIN journal : journal[i].of = call[c].of,
           x \in {"authorize", "block", "send"} => \A p \in PostsOf(c) : posts[p].state = "lost",
           x = "block" \/ (x = "authorize" /\ call[c].op = "dispatch") =>
              PostsOf(c) = {} /\ Outbox!Said(Outbox!Event(c)) = {},
           x \in {"wait", "confirm"} => call[c].post \in DOMAIN posts /\ posts[call[c].post].of = call[c].of,
           x = "confirm" => posts[call[c].post].state = "delivered",
           x = "note" => \E p \in DOMAIN posts : posts[p].of = call[c].of /\ posts[p].state = "delivered"
    PROVE  OutInv'
<1>1. OutTypeInv /\ CallerInv(c)
  BY DEF OutInv
<1>2. /\ call'[c].at = x /\ call'[c].op = call[c].op /\ call'[c].of = call[c].of
      /\ call'[c].post = call[c].post /\ Outbox!Event(c)' = Outbox!Event(c)
  BY <1>1, GoSet
<1>3. PostsOf(c)' = PostsOf(c)
  BY <1>2 DEF PostsOf
<1>4. \A e : Outbox!On(e)' = Outbox!On(e) /\ Outbox!Said(e)' = Outbox!Said(e)
  BY DEF Outbox!On, Outbox!Said
<1>5. ClaimInv(c)' /\ BoundInv(c)'
  BY <1>1, <1>2 DEF CallerInv, ClaimInv, BoundInv, Claimed, Acting
<1>6. OpenInv(c)'
  BY <1>1, <1>2, <1>4 DEF CallerInv, OpenInv, Outbox!On
<1>7. UnsentInv(c)'
  BY <1>2, <1>3, <1>4 DEF UnsentInv
<1>8. SentInv(c)'
  BY <1>2 DEF SentInv
<1>9. CallerInv(c)'
  BY <1>5, <1>6, <1>7, <1>8 DEF CallerInv
<1> QED BY <1>9, GoesOn

LEMMA AtOf == ASSUME NEW c \in Caller, NEW x, Outbox!At(c, x) PROVE call[c].at = x
  BY DEF Outbox!At

LEMMA ClaimSubjectSound ==
    ASSUME OutInv, NEW c \in Caller, Outbox!ClaimSubject(c)
    PROVE  OutInv'
<1>1. /\ call[c].at = "subject" /\ Outbox!Go(c, "look") /\ UNCHANGED <<journal, posts, told, event>>
  BY DEF Outbox!ClaimSubject, Outbox!At
<1>2. "look" \in OutSteps /\ Claimed(c)
  BY <1>1 DEF OutSteps, Claimed
<1> QED BY <1>1, <1>2, GoesSound DEF Acting

\* A lock file is left by nobody, or the claim of the event is given up with that of the subject.
LEMMA ClaimFailsSound ==
    ASSUME Outbox!OutboxAssumption, OutInv, NEW c \in Caller, Outbox!ClaimFails(c)
    PROVE  OutInv'
<1>1. /\ call' = [call EXCEPT ![c] = Outbox!Idle] /\ UNCHANGED <<journal, posts, told>>
      /\ \/ /\ call[c].at = "event" /\ event[Outbox!Event(c)] = None
            /\ event' = [event EXCEPT ![Outbox!Event(c)] = Left]
         \/ /\ call[c].at = "subject"
            /\ event' = [event EXCEPT ![Outbox!Event(c)] = None]
  BY DEF Outbox!ClaimFails, Outbox!At
<1>2. OutTypeInv /\ CallerInv(c) /\ Outbox!Event(c) \in Outbox!Events
  BY <1>1, EventOf DEF OutInv
<1>3. Outbox!Idle \in CallerState /\ Outbox!Idle.at = "idle"
  BY DEF Outbox!Idle, CallerState, OutSteps
<1>4. /\ call' \in [Caller -> CallerState] /\ call'[c].at = "idle"
      /\ \A d \in Caller \ {c} : call'[d] = call[d]
  BY <1>1, <1>2, <1>3 DEF OutTypeInv
<1>5. OutTypeInv'
  BY <1>1, <1>2, <1>4 DEF OutTypeInv
<1>6. ASSUME NEW d \in Caller \ {c}, Claimed(d) PROVE event'[Outbox!Event(d)] = d
  <2>1. event[Outbox!Event(d)] = d BY <1>6 DEF OutInv, CallerInv, ClaimInv
  <2>2. d # None BY DEF Outbox!OutboxAssumption
  <2>3. Outbox!Event(d) \in Outbox!Events BY <1>2, <1>6, EventOf DEF Claimed
  <2>4. call[c].at = "subject" => Outbox!Event(d) # Outbox!Event(c)
    BY <1>6, Elsewhere DEF Claimed
  <2> QED BY <1>1, <1>2, <2>1, <2>2, <2>3, <2>4 DEF OutTypeInv
<1> QED BY <1>1, <1>4, <1>5, <1>6, IdleKeeps, CallKeeps

\* What is decided is said last, and nothing is of an event without a record.
LEMMA DeliveryIs ==
    ASSUME OutTypeInv, NEW e
    PROVE  /\ Outbox!Delivery(e) = "none" <=> Outbox!On(e) = {}
           /\ \A k \in Outbox!Outcomes : Outbox!Delivery(e) = k <=> Outbox!LastOf(Outbox!Said(e), k)
<1> DEFINE Says(k) == Outbox!LastOf(Outbox!Said(e), k)
           said == CHOOSE k \in Outbox!Outcomes : Says(k)
<1>0. Outbox!Delivery(e) = IF Outbox!On(e) = {} THEN "none"
                           ELSE IF \E k \in Outbox!Outcomes : Says(k) THEN said ELSE "intended"
  BY Zenon DEF Outbox!Delivery, Outbox!DeliveryBy
<1>1. \A i \in Outbox!Said(e) : i \in Nat /\ i \in Outbox!On(e)
  BY DEF Outbox!Said, Outbox!On, OutTypeInv
<1>2. \A k, l \in Outbox!Outcomes : Says(k) /\ Says(l) => k = l
  BY <1>1 DEF Outbox!LastOf
<1>3. \A k : Says(k) => Outbox!On(e) # {}
  BY <1>1 DEF Outbox!LastOf
<1>4. (\E k \in Outbox!Outcomes : Says(k)) => said \in Outbox!Outcomes /\ Says(said)
  BY Zenon
<1>5. "none" \notin Outbox!Outcomes /\ "intended" \notin Outbox!Outcomes
  BY DEF Outbox!Outcomes
<1> HIDE DEF Says, said
<1>6. /\ Outbox!Delivery(e) = "none" <=> Outbox!On(e) = {}
      /\ \A k \in Outbox!Outcomes : Outbox!Delivery(e) = k <=> Says(k)
  BY <1>0, <1>2, <1>3, <1>4, <1>5
<1> QED BY <1>6 DEF Says

LEMMA LookSound ==
    ASSUME OutInv, NEW c \in Caller, Outbox!Look(c)
    PROVE  OutInv'
<1> DEFINE e == Outbox!Event(c)
           x == IF call[c].op = "retry" THEN "prove" ELSE IF Outbox!Delivery(e) = "none" THEN "intend" ELSE "ask"
<1>1. /\ call[c].at = "look" /\ Outbox!Go(c, x) /\ UNCHANGED <<journal, posts, told, event>>
      /\ \A i \in Outbox!On(e) : journal[i].of = call[c].of
      /\ Outbox!Delivery(e) \notin {"delivery", "blocked"}
  BY DEF Outbox!Look, Outbox!At, Outbox!Binds
<1>2. OutTypeInv /\ RecordsInv /\ CallerInv(c) /\ Claimed(c) /\ {"delivery", "blocked"} \subseteq Outbox!Outcomes
  BY <1>1 DEF OutInv, Claimed, Outbox!Outcomes
<1>3. /\ Outbox!Delivery(e) = "none" <=> Outbox!On(e) = {}
      /\ ~Outbox!LastOf(Outbox!Said(e), "delivery") /\ ~Outbox!LastOf(Outbox!Said(e), "blocked")
  BY <1>1, <1>2, DeliveryIs
<1>4. \A i \in Outbox!On(e) : journal[i].of = call[c].of /\ journal[i].kind # "blocked"
  <2> SUFFICES ASSUME NEW i \in Outbox!On(e), journal[i].kind = "blocked" PROVE FALSE
    BY <1>1
  <2>1. i \in DOMAIN journal /\ journal[i].of.event = e /\ i \in Nat
    BY <1>2 DEF Outbox!On, OutTypeInv
  <2>2. Outbox!Said(e) \subseteq {i} /\ i \in Outbox!Said(e)
    BY <1>2, <2>1 DEF RecordsInv, Outbox!Said, Outbox!Outcomes
  <2> QED BY <1>3, <2>1, <2>2 DEF Outbox!LastOf
<1>5. e \notin told
  BY <1>2, <1>3 DEF RecordsInv
<1>6. x # "intend" => \E i \in DOMAIN journal : journal[i].of = call[c].of
  <2>1. CASE call[c].op = "retry"
    BY <1>1, <1>2, <2>1 DEF CallerInv, BoundInv
  <2>2. CASE Outbox!On(e) # {}
    BY <1>1, <2>2 DEF Outbox!On
  <2> QED BY <1>3, <2>1, <2>2
<1>7. x \in {"prove", "intend", "ask"} /\ x \in OutSteps /\ x # "idle"
  BY DEF OutSteps, Acting
<1>8. x = "prove" <=> call[c].op = "retry"
  OBVIOUS
<1>9. x = "intend" => Outbox!On(e) = {}
  BY <1>3
<1> HIDE DEF x
<1> QED BY <1>1, <1>2, <1>4, <1>5, <1>6, <1>7, <1>8, <1>9, GoesSound

LEMMA LookIsFinalSound ==
    ASSUME Outbox!OutboxAssumption, OutInv, NEW c \in Caller, Outbox!LookIsFinal(c)
    PROVE  OutInv'
<1> DEFINE e == Outbox!Event(c)
<1>1. /\ call[c].at = "look" /\ Outbox!Return(c) /\ UNCHANGED <<journal, posts>>
      /\ \/ told' = told
         \/ told' = told \cup {e} /\ Outbox!Delivery(e) = "delivery"
  BY DEF Outbox!LookIsFinal, Outbox!At, Outbox!Tell
<1>2. /\ OutTypeInv /\ RecordsInv /\ Claimed(c) /\ e \in Outbox!Events /\ "delivery" \in Outbox!Outcomes
      /\ call[c].at # "idle"
  BY <1>1, EventOf DEF OutInv, Claimed, Outbox!Outcomes
<1>3. /\ call' \in [Caller -> CallerState] /\ CallerInv(c)'
      /\ \A d \in Caller : call'[d].at # "idle" => call'[d].of \in Note
      /\ event' \in [Outbox!Events -> Caller \cup {None, Left}]
      /\ \A d \in Caller \ {c} : /\ call'[d] = call[d]
                                 /\ Claimed(d) /\ event[Outbox!Event(d)] = d => event'[Outbox!Event(d)] = d
  BY <1>1, <1>2, ReturnSet
<1>4. OutTypeInv'
  BY <1>1, <1>2, <1>3 DEF OutTypeInv
<1>5. \A f \in told' : Outbox!LastOf(Outbox!Said(f), "delivery")
  BY <1>1, <1>2, DeliveryIs DEF RecordsInv
<1>6. RecordsInv'
  BY <1>1, <1>2, <1>5 DEF RecordsInv, Outbox!LastOf, Outbox!Said, Outbox!On
<1>7. ASSUME NEW d \in Caller \ {c} PROVE CallerInv(d)'
  <2>1. CallerInv(d) BY DEF OutInv
  <2>2. Claimed(d) => event'[Outbox!Event(d)] = d /\ Outbox!Event(d) \notin {e}
    BY <1>2, <1>3, <2>1, Elsewhere DEF CallerInv, ClaimInv
  <2>3. /\ call'[d] = call[d] /\ journal' = journal /\ posts' = posts
        /\ \A i \in DOMAIN journal' \ DOMAIN journal : journal'[i].of.event \in {e}
        /\ \A i \in DOMAIN posts' \ DOMAIN posts : posts'[i].of.event \in {e}
        /\ told' \subseteq told \cup {e}
    BY <1>1, <1>3
  <2> QED BY <2>1, <2>2, <2>3, OthersKeep
<1> QED BY <1>3, <1>4, <1>6, <1>7 DEF OutInv

\* The other steps that end a call, or take it further.
LEMMA QuietSound ==
    ASSUME Outbox!OutboxAssumption, OutInv, NEW c \in Caller,
           \/ Outbox!GiveUp(c) \/ Outbox!LookThrows(c) \/ Outbox!StaysUncertain(c)
    PROVE  OutInv'
<1>1. Outbox!Return(c) /\ UNCHANGED <<journal, posts, told>>
  BY DEF Outbox!GiveUp, Outbox!LookThrows, Outbox!StaysUncertain
<1> QED BY <1>1, Returns

LEMMA AcknowledgeSound ==
    ASSUME Outbox!OutboxAssumption, OutInv, NEW c \in Caller, Outbox!Acknowledge(c)
    PROVE  OutInv'
<1>1. /\ call[c].at = "look" /\ call[c].op = "acknowledge" /\ UNCHANGED <<journal, posts, told>>
      /\ Outbox!Return(c) \/ (Outbox!Go(c, "acknowledge") /\ event' = event)
  BY DEF Outbox!Acknowledge, Outbox!At
<1>2. Claimed(c) /\ "acknowledge" \in OutSteps
  BY <1>1 DEF Claimed, OutSteps
<1>3. CASE Outbox!Return(c) BY <1>1, <1>3, Returns
<1>4. CASE Outbox!Go(c, "acknowledge") /\ event' = event
  BY <1>1, <1>2, <1>4, GoesSound DEF Acting
<1> QED BY <1>1, <1>3, <1>4

LEMMA AuthorizeSound ==
    ASSUME Outbox!OutboxAssumption, OutInv, NEW c \in Caller, Outbox!Authorized(c) \/ Outbox!Denied(c)
    PROVE  OutInv'
<1>1. /\ call[c].at = "authorize" /\ UNCHANGED <<journal, posts, told>>
      /\ \/ Outbox!Return(c)
         \/ Outbox!Go(c, "send") /\ event' = event
         \/ Outbox!Go(c, "block") /\ event' = event /\ call[c].op = "dispatch"
  BY DEF Outbox!Authorized, Outbox!Denied, Outbox!At
<1>2. CallerInv(c) /\ Claimed(c) /\ {"send", "block"} \subseteq OutSteps /\ "authorize" \in Acting
  BY <1>1 DEF OutInv, Claimed, OutSteps, Acting
<1>3. /\ \E i \in DOMAIN journal : journal[i].of = call[c].of
      /\ \A p \in PostsOf(c) : posts[p].state = "lost"
      /\ call[c].op = "dispatch" => PostsOf(c) = {} /\ Outbox!Said(Outbox!Event(c)) = {}
  BY <1>1, <1>2 DEF CallerInv, BoundInv, UnsentInv
<1>4. CASE Outbox!Return(c) BY <1>1, <1>4, Returns
<1>5. CASE Outbox!Go(c, "send") /\ event' = event
  BY <1>1, <1>2, <1>3, <1>5, GoesSound
<1>6. CASE Outbox!Go(c, "block") /\ event' = event /\ call[c].op = "dispatch"
  BY <1>1, <1>2, <1>3, <1>6, GoesSound
<1> QED BY <1>1, <1>4, <1>5, <1>6

LEMMA AnswerSound ==
    ASSUME OutInv, NEW c \in Caller, Outbox!Confirmed(c) \/ Outbox!Ambiguous(c)
    PROVE  OutInv'
<1>1. /\ call[c].at = "wait" /\ UNCHANGED <<journal, posts, told, event>>
      /\ \/ Outbox!Go(c, "doubt")
         \/ Outbox!Go(c, "confirm") /\ posts[call[c].post].state = "delivered"
  BY DEF Outbox!Confirmed, Outbox!Ambiguous, Outbox!At
<1>2. CallerInv(c) /\ Claimed(c) /\ {"doubt", "confirm"} \subseteq OutSteps /\ "wait" \in Acting
  BY <1>1 DEF OutInv, Claimed, OutSteps, Acting
<1>3. /\ \E i \in DOMAIN journal : journal[i].of = call[c].of
      /\ call[c].post \in DOMAIN posts /\ posts[call[c].post].of = call[c].of
  BY <1>1, <1>2 DEF CallerInv, BoundInv, SentInv
<1>4. CASE Outbox!Go(c, "doubt")
  BY <1>1, <1>2, <1>3, <1>4, GoesSound
<1>5. CASE Outbox!Go(c, "confirm") /\ posts[call[c].post].state = "delivered"
  BY <1>1, <1>2, <1>3, <1>5, GoesSound
<1> QED BY <1>1, <1>4, <1>5

LEMMA ReceiptDeliveredSound ==
    ASSUME OutInv, NEW c \in Caller, Outbox!ReceiptDelivered(c)
    PROVE  OutInv'
<1>1. /\ call[c].at \in {"ask", "prove"} /\ UNCHANGED <<journal, posts, told, event>> /\ Outbox!Go(c, "note")
      /\ Outbox!Delivered(call[c].of)
  BY DEF Outbox!ReceiptDelivered
<1>2. CallerInv(c) /\ Claimed(c) /\ "note" \in OutSteps /\ call[c].at \in Acting
  BY <1>1 DEF OutInv, Claimed, OutSteps, Acting
<1>3. /\ \E i \in DOMAIN journal : journal[i].of = call[c].of
      /\ \E p \in DOMAIN posts : posts[p].of = call[c].of /\ posts[p].state = "delivered"
  BY <1>1, <1>2 DEF CallerInv, BoundInv, Outbox!Delivered, Outbox!Requests, Outbox!ToSet
<1> QED BY <1>1, <1>2, <1>3, GoesSound

\* Whatever was sent of the event was of this notification.
LEMMA ReceiptAbsentSound ==
    ASSUME OutInv, NEW c \in Caller, Outbox!ReceiptAbsent(c)
    PROVE  OutInv'
<1>1. /\ call[c].at = "prove" /\ UNCHANGED <<journal, posts, told, event>> /\ Outbox!Go(c, "authorize")
      /\ Outbox!Absent(call[c].of)
  BY DEF Outbox!ReceiptAbsent, Outbox!At
<1>2. RecordsInv /\ CallerInv(c) /\ Claimed(c) /\ "authorize" \in OutSteps /\ "prove" \in Acting
  BY <1>1 DEF OutInv, Claimed, OutSteps, Acting
<1>3. /\ \E i \in DOMAIN journal : journal[i].of = call[c].of
      /\ \A i \in Outbox!On(Outbox!Event(c)) : journal[i].of = call[c].of
      /\ call[c].op # "dispatch"
  BY <1>1, <1>2 DEF CallerInv, BoundInv, OpenInv
<1>4. ASSUME NEW p \in PostsOf(c) PROVE posts[p].state = "lost"
  <2>1. p \in DOMAIN posts /\ posts[p].of.event = Outbox!Event(c) BY DEF PostsOf
  <2>2. PICK i \in DOMAIN journal : journal[i].of = posts[p].of BY <1>2, <2>1 DEF RecordsInv
  <2>3. posts[p].of = call[c].of BY <1>3, <2>1, <2>2 DEF Outbox!On
  <2> QED BY <1>1, <2>1, <2>3 DEF Outbox!Absent, Outbox!Requests, Outbox!ToSet
<1> QED BY <1>1, <1>2, <1>3, <1>4, GoesSound

\* A message is sent on a binding, and where no other is under way.
LEMMA PostSound ==
    ASSUME OutInv, NEW c \in Caller, Outbox!Post(c)
    PROVE  OutInv'
<1> DEFINE x == [of |-> call[c].of, state |-> "under way"]
           n == Len(posts) + 1
           e == Outbox!Event(c)
<1>1. /\ call[c].at = "send" /\ UNCHANGED <<journal, told, event>> /\ posts' = Append(posts, x)
      /\ call' = [call EXCEPT ![c].at = "wait", ![c].post = n]
  BY DEF Outbox!Post, Outbox!At
<1>2. /\ OutTypeInv /\ RecordsInv /\ CallerInv(c) /\ Claimed(c) /\ call[c].at \in Acting
      /\ call[c].of \in Note /\ call[c].of.event = e
  BY <1>1, EventOf DEF OutInv, Claimed, Acting, Outbox!Event
<1>3. /\ x \in PostState /\ x.of = call[c].of /\ x.state = "under way"
  BY <1>2 DEF PostState
<1> HIDE DEF x
<1>4. /\ posts' \in Seq(PostState) /\ n \in Nat /\ n \notin DOMAIN posts
      /\ DOMAIN posts' = DOMAIN posts \cup {n} /\ posts'[n] = x
      /\ \A p \in DOMAIN posts : posts'[p] = posts[p]
  <2>1. posts \in Seq(PostState) /\ x \in PostState /\ posts' = Append(posts, x)
    BY <1>1, <1>2, <1>3 DEF OutTypeInv
  <2> QED BY <2>1, Longer
<1> HIDE DEF n
<1>n. /\ journal' = journal /\ told' = told /\ event' = event
      /\ DOMAIN posts' = DOMAIN posts \cup {n}
      /\ posts'[n].of = call[c].of /\ posts'[n].of.event = e /\ posts'[n].state = "under way"
      /\ \A p \in DOMAIN posts : posts'[p] = posts[p]
  BY <1>1, <1>2, <1>3, <1>4
<1>5. /\ call' \in [Caller -> CallerState]
      /\ call'[c].at = "wait" /\ call'[c].op = call[c].op /\ call'[c].of = call[c].of /\ call'[c].post = n
      /\ \A d \in Caller \ {c} : call'[d] = call[d]
  BY <1>1, <1>2, <1>4 DEF OutTypeInv, CallerState, OutSteps, Acting
<1>6. OutTypeInv'
  BY <1>1, <1>2, <1>4, <1>5 DEF OutTypeInv
<1>7. /\ \E i \in DOMAIN journal : journal[i].of = call[c].of
      /\ \A i \in Outbox!On(e) : journal[i].of = call[c].of /\ journal[i].kind # "blocked"
      /\ e \notin told
      /\ \A p \in PostsOf(c) : posts[p].state = "lost"
      /\ event[e] = c
  BY <1>1, <1>2 DEF CallerInv, ClaimInv, BoundInv, OpenInv, UnsentInv
<1>8. RecordsInv'
  <2>1. \A p \in DOMAIN posts' : \E i \in DOMAIN journal' : journal'[i].of = posts'[p].of
    <3>1. \A p \in DOMAIN posts : \E i \in DOMAIN journal : journal[i].of = posts[p].of
      BY <1>2 DEF RecordsInv
    <3> QED BY <1>n, <1>7, <3>1
  <2>2. \A p, q \in DOMAIN posts' :
          posts'[p].of.event = posts'[q].of.event /\ posts'[p].state # "lost" /\ posts'[q].state # "lost" => p = q
    <3>1. \A p \in DOMAIN posts : posts[p].of.event = e => posts[p].state = "lost"
      BY <1>7 DEF PostsOf
    <3>2. \A p, q \in DOMAIN posts :
            posts[p].of.event = posts[q].of.event /\ posts[p].state # "lost" /\ posts[q].state # "lost" => p = q
      BY <1>2 DEF RecordsInv
    <3> SUFFICES ASSUME NEW p \in DOMAIN posts', NEW q \in DOMAIN posts',
                        posts'[p].of.event = posts'[q].of.event,
                        posts'[p].state # "lost", posts'[q].state # "lost"
                 PROVE  p = q
      OBVIOUS
    <3>3. CASE p \in DOMAIN posts /\ q \in DOMAIN posts BY <1>n, <3>2, <3>3
    <3>4. CASE p = n /\ q \in DOMAIN posts BY <1>n, <3>1, <3>4
    <3>5. CASE p \in DOMAIN posts /\ q = n BY <1>n, <3>1, <3>5
    <3> QED BY <1>n, <3>3, <3>4, <3>5
  <2>3. \A i \in DOMAIN journal : journal[i].kind = "blocked" =>
          /\ \A p \in DOMAIN posts' : posts'[p].of.event # journal[i].of.event
          /\ Outbox!Said(journal[i].of.event) \subseteq {i}
    <3>1. \A i \in DOMAIN journal : journal[i].kind = "blocked" => journal[i].of.event # e
      BY <1>7 DEF Outbox!On
    <3>2. \A i \in DOMAIN journal : journal[i].kind = "blocked" =>
            /\ \A p \in DOMAIN posts : posts[p].of.event # journal[i].of.event
            /\ Outbox!Said(journal[i].of.event) \subseteq {i}
      BY <1>2 DEF RecordsInv
    <3> QED BY <1>n, <3>1, <3>2
  <2>4. \A i \in DOMAIN journal : journal[i].kind = "delivery" =>
          \E p \in DOMAIN posts' : posts'[p].of = journal[i].of /\ posts'[p].state = "delivered"
    BY <1>2, <1>4 DEF RecordsInv
  <2>5. /\ \A i, j \in DOMAIN journal : journal[i].of.event = journal[j].of.event => journal[i].of = journal[j].of
        /\ \A f \in told : Outbox!LastOf(Outbox!Said(f), "delivery")
    BY <1>2 DEF RecordsInv
  <2>6. journal' = journal /\ told' = told BY <1>1
  <2> QED BY <2>1, <2>2, <2>3, <2>4, <2>5, <2>6 DEF RecordsInv, Outbox!LastOf, Outbox!Said, Outbox!On
<1>9. CallerInv(c)'
  BY <1>2, <1>n, <1>5, <1>7
     DEF CallerInv, ClaimInv, BoundInv, OpenInv, UnsentInv, SentInv, Claimed, Acting, Outbox!On, Outbox!Event
<1>10. ASSUME NEW d \in Caller \ {c} PROVE CallerInv(d)'
  <2>1. CallerInv(d) BY DEF OutInv
  <2>2. Claimed(d) => event'[Outbox!Event(d)] = d /\ Outbox!Event(d) \notin {e}
    BY <1>1, <1>2, <2>1, Elsewhere DEF CallerInv, ClaimInv
  <2>3. /\ call'[d] = call[d] /\ journal' = journal /\ DOMAIN posts \subseteq DOMAIN posts'
        /\ \A p \in DOMAIN posts : posts'[p] = posts[p]
        /\ \A i \in DOMAIN journal' \ DOMAIN journal : journal'[i].of.event \in {e}
        /\ \A p \in DOMAIN posts' \ DOMAIN posts : posts'[p].of.event \in {e}
        /\ told' \subseteq told \cup {e}
    BY <1>n, <1>5
  <2> QED BY <2>1, <2>2, <2>3, OthersKeep
<1> QED BY <1>6, <1>8, <1>9, <1>10 DEF OutInv

\* A call that records and returns, told or not.
LEMMA WritesAndReturns ==
    ASSUME Outbox!OutboxAssumption, OutInv, NEW c \in Caller, Outbox!Appending(c), NEW end, Outbox!Write(c, end),
           posts' = posts, Outbox!Return(c),
           \/ told' = told
           \/ told' = told \cup {call[c].of.event} /\ Outbox!Kind[call[c].at] = "delivery"
    PROVE  OutInv'
<1>1. OutTypeInv BY DEF OutInv
<1>2. /\ RecordsInv' /\ journal' \in Seq(Line) /\ told' \subseteq Outbox!Events
      /\ \A d \in Caller \ {c} :
            call'[d] = call[d] /\ (Claimed(d) => event'[Outbox!Event(d)] = d) => CallerInv(d)'
  BY WriteKeeps
<1>3. /\ call' \in [Caller -> CallerState] /\ CallerInv(c)'
      /\ \A d \in Caller : call'[d].at # "idle" => call'[d].of \in Note
      /\ event' \in [Outbox!Events -> Caller \cup {None, Left}]
      /\ \A d \in Caller \ {c} : /\ call'[d] = call[d]
                                 /\ Claimed(d) /\ event[Outbox!Event(d)] = d => event'[Outbox!Event(d)] = d
  BY <1>1, ReturnSet
<1>4. OutTypeInv'
  BY <1>1, <1>2, <1>3 DEF OutTypeInv
<1>5. ASSUME NEW d \in Caller \ {c} PROVE CallerInv(d)'
  <2>1. Claimed(d) => event[Outbox!Event(d)] = d BY DEF OutInv, CallerInv, ClaimInv
  <2> QED BY <1>2, <1>3, <2>1
<1> QED BY <1>2, <1>3, <1>4, <1>5 DEF OutInv

\* A call that records and goes on: from its intent to the authority, and from a doubt to the receipt.
LEMMA WritesAndGoes ==
    ASSUME OutInv, NEW c \in Caller, Outbox!Appending(c), NEW end, Outbox!Write(c, end), UNCHANGED <<posts, told, event>>,
           NEW x, Outbox!Go(c, x),
           \/ call[c].at = "intend" /\ x = "authorize"
           \/ call[c].at = "doubt" /\ x = "ask"
           \/ call[c].at = "confirm" /\ x = "doubt"
    PROVE  OutInv'
<1> DEFINE e == Outbox!Event(c)
<1>1. /\ OutTypeInv /\ RecordsInv /\ CallerInv(c) /\ Claimed(c) /\ x \in OutSteps /\ call[c].at # "idle"
      /\ call[c].at \in Acting /\ x \in Acting
  BY KindIs DEF OutInv, OutSteps, Acting
<1>2. /\ RecordsInv' /\ journal' \in Seq(Line) /\ told' \subseteq Outbox!Events
      /\ \A d \in Caller \ {c} :
            call'[d] = call[d] /\ (Claimed(d) => event'[Outbox!Event(d)] = d) => CallerInv(d)'
      /\ \E i \in DOMAIN journal' : journal'[i].of = call[c].of
      /\ \A i \in DOMAIN journal' :
            \/ i \in DOMAIN journal /\ journal'[i] = journal[i]
            \/ journal'[i].of = call[c].of /\ journal'[i].kind = Outbox!Kind[call[c].at]
      /\ Outbox!Kind[call[c].at] \notin Outbox!Outcomes => \A f : Outbox!Said(f)' = Outbox!Said(f)
  BY WriteKeeps
<1>3. /\ call' \in [Caller -> CallerState]
      /\ \A d \in Caller : call'[d].at # "idle" => call'[d].of \in Note
      /\ call'[c].at = x /\ call'[c].op = call[c].op /\ call'[c].of = call[c].of
      /\ Outbox!Event(c)' = Outbox!Event(c)
      /\ \A d \in Caller \ {c} : call'[d] = call[d]
  BY <1>1, GoSet
<1>4. OutTypeInv'
  BY <1>1, <1>2, <1>3 DEF OutTypeInv
<1>5. OpenInv(c)'
  <2>1. /\ \A i \in Outbox!On(e) : journal[i].of = call[c].of /\ journal[i].kind # "blocked"
        /\ e \notin told
    BY <1>1 DEF CallerInv, OpenInv
  <2>2. Outbox!Kind[call[c].at] # "blocked" BY KindIs
  <2> QED BY <1>2, <1>3, <2>1, <2>2 DEF OpenInv, Outbox!On
<1>6. UnsentInv(c)'
  <2>1. CASE call[c].at = "intend"
    <3>1. Outbox!On(e) = {} BY <1>1, <2>1 DEF CallerInv, UnsentInv
    <3>2. PostsOf(c) = {}
      BY <1>1, <3>1 DEF RecordsInv, PostsOf, Outbox!On
    <3>3. Outbox!Said(e) = {} BY <3>1 DEF Outbox!Said
    <3>4. Outbox!Kind[call[c].at] \notin Outbox!Outcomes
      BY <2>1, KindIs
    <3>5. PostsOf(c)' = {}
      BY <1>3, <3>2 DEF PostsOf
    <3> QED BY <1>2, <1>3, <2>1, <3>3, <3>4, <3>5 DEF UnsentInv
  <2>2. CASE call[c].at # "intend"
    BY <1>3, <2>2 DEF UnsentInv
  <2> QED BY <2>1, <2>2
<1>7. ClaimInv(c)' /\ BoundInv(c)' /\ SentInv(c)'
  BY <1>1, <1>2, <1>3 DEF CallerInv, ClaimInv, BoundInv, SentInv
<1>8. ASSUME NEW d \in Caller \ {c} PROVE CallerInv(d)'
  BY <1>2, <1>3 DEF OutInv, CallerInv, ClaimInv
<1> QED BY <1>2, <1>4, <1>5, <1>6, <1>7, <1>8 DEF OutInv, CallerInv

LEMMA RecordSound ==
    ASSUME Outbox!OutboxAssumption, OutInv, NEW c \in Caller, Outbox!Record(c)
    PROVE  OutInv'
<1>1. /\ Outbox!Appending(c) /\ Outbox!Write(c, "whole") /\ posts' = posts
      /\ \/ call[c].at = "intend" /\ Outbox!Go(c, "authorize") /\ UNCHANGED <<event, told>>
         \/ call[c].at = "doubt" /\ Outbox!Go(c, "ask") /\ UNCHANGED <<event, told>>
         \/ Outbox!Return(c) /\ told' = told
         \/ /\ call[c].at \notin {"intend", "doubt", "block", "acknowledge"}
            /\ Outbox!Return(c) /\ told' = told \cup {call[c].of.event}
  BY DEF Outbox!Record, Outbox!At, Outbox!Tell, Outbox!Event
<1>2. CASE call[c].at = "intend" /\ Outbox!Go(c, "authorize") /\ UNCHANGED <<event, told>>
  BY <1>1, <1>2, WritesAndGoes
<1>3. CASE call[c].at = "doubt" /\ Outbox!Go(c, "ask") /\ UNCHANGED <<event, told>>
  BY <1>1, <1>3, WritesAndGoes
<1>4. CASE Outbox!Return(c) /\ told' = told
  BY <1>1, <1>4, WritesAndReturns
<1>5. CASE /\ call[c].at \notin {"intend", "doubt", "block", "acknowledge"}
           /\ Outbox!Return(c) /\ told' = told \cup {call[c].of.event}
  <2>1. Outbox!Kind[call[c].at] = "delivery"
    BY <1>1, <1>5, KindIs
  <2> QED BY <1>1, <1>5, <2>1, WritesAndReturns
<1> QED BY <1>1, <1>2, <1>3, <1>4, <1>5

LEMMA RecordFailsSound ==
    ASSUME Outbox!OutboxAssumption, OutInv, NEW c \in Caller, Outbox!RecordFails(c)
    PROVE  OutInv'
<1>1. /\ Outbox!Appending(c) /\ UNCHANGED <<posts, told>>
      /\ journal' = journal \/ \E end : Outbox!Write(c, end)
      /\ \/ call[c].at = "confirm" /\ Outbox!Go(c, "doubt") /\ event' = event
         \/ Outbox!Return(c)
  BY DEF Outbox!RecordFails, Outbox!At, Outbox!MayWrite
<1>2. ASSUME NEW end, Outbox!Write(c, end) PROVE OutInv'
  BY <1>1, <1>2, WritesAndGoes, WritesAndReturns
<1>3. CASE journal' = journal /\ Outbox!Return(c)
  BY <1>1, <1>3, Returns
<1>4. CASE journal' = journal /\ call[c].at = "confirm" /\ Outbox!Go(c, "doubt") /\ event' = event
  <2>1. CallerInv(c) /\ Claimed(c) /\ "doubt" \in OutSteps /\ "confirm" \in Acting
    BY <1>4 DEF OutInv, Claimed, OutSteps, Acting
  <2>2. \E i \in DOMAIN journal : journal[i].of = call[c].of
    BY <1>4, <2>1 DEF CallerInv, BoundInv
  <2> QED BY <1>1, <1>4, <2>1, <2>2, GoesSound
<1> QED BY <1>1, <1>2, <1>3, <1>4

-----------------------------------------------------------------------------
\* Around the calls.

LEMMA SettleSound ==
    ASSUME OutInv, NEW p \in DOMAIN posts, NEW new \in {"delivered", "lost"}, Outbox!Settle(p, new)
    PROVE  OutInv'
<1>1. /\ posts[p].state = "under way" /\ posts' = [posts EXCEPT ![p].state = new]
      /\ UNCHANGED <<journal, event, call, told>>
  BY DEF Outbox!Settle
<1>2. OutTypeInv /\ RecordsInv
  BY DEF OutInv
<1>3. /\ posts' \in Seq(PostState) /\ DOMAIN posts' = DOMAIN posts
      /\ posts'[p].of = posts[p].of /\ posts'[p].state = new
      /\ \A q \in DOMAIN posts \ {p} : posts'[q] = posts[q]
  <2>1. posts \in Seq(PostState) /\ p \in DOMAIN posts /\ posts[p] \in PostState
    BY <1>2 DEF OutTypeInv
  <2>2. [posts[p] EXCEPT !.state = new] \in PostState
    BY <2>1 DEF PostState
  <2>3. posts' = [posts EXCEPT ![p] = [posts[p] EXCEPT !.state = new]]
    BY <1>1
  <2> DEFINE x == [posts[p] EXCEPT !.state = new]
  <2>4. x.of = posts[p].of /\ x.state = new /\ x \in PostState
    BY <2>1, <2>2 DEF PostState
  <2> HIDE DEF x
  <2>5. posts' = [posts EXCEPT ![p] = x] BY <2>3 DEF x
  <2>6. posts' \in Seq(PostState) /\ DOMAIN posts' = DOMAIN posts /\ posts'[p] = x
        /\ \A q \in DOMAIN posts \ {p} : posts'[q] = posts[q]
    BY <2>1, <2>4, <2>5
  <2> QED BY <2>4, <2>6
<1>4. OutTypeInv'
  BY <1>1, <1>2, <1>3 DEF OutTypeInv
<1>5. /\ DOMAIN posts' = DOMAIN posts
      /\ \A q \in DOMAIN posts : /\ posts'[q].of = posts[q].of
                                 /\ posts[q].state # "under way" => posts'[q] = posts[q]
                                 /\ posts'[q].state # "lost" => posts[q].state # "lost"
  BY <1>1, <1>3
<1>6. RecordsInv'
  <2>1. \A q \in DOMAIN posts' : \E i \in DOMAIN journal' : journal'[i].of = posts'[q].of
    <3>1. \A q \in DOMAIN posts : \E i \in DOMAIN journal : journal[i].of = posts[q].of
      BY <1>2 DEF RecordsInv
    <3>2. journal' = journal BY <1>1
    <3> QED BY <1>5, <3>1, <3>2
  <2>2. \A q, o \in DOMAIN posts' :
          posts'[q].of.event = posts'[o].of.event /\ posts'[q].state # "lost" /\ posts'[o].state # "lost" => q = o
    BY <1>2, <1>5 DEF RecordsInv
  <2>3. \A i \in DOMAIN journal : journal[i].kind = "blocked" =>
          /\ \A q \in DOMAIN posts' : posts'[q].of.event # journal[i].of.event
          /\ Outbox!Said(journal[i].of.event) \subseteq {i}
    <3>1. \A i \in DOMAIN journal : journal[i].kind = "blocked" =>
            /\ \A q \in DOMAIN posts : posts[q].of.event # journal[i].of.event
            /\ Outbox!Said(journal[i].of.event) \subseteq {i}
      BY <1>2 DEF RecordsInv
    <3> QED BY <1>5, <3>1
  <2>4. \A i \in DOMAIN journal : journal[i].kind = "delivery" =>
          \E q \in DOMAIN posts' : posts'[q].of = journal[i].of /\ posts'[q].state = "delivered"
    <3> SUFFICES ASSUME NEW i \in DOMAIN journal, journal[i].kind = "delivery"
                 PROVE  \E q \in DOMAIN posts' : posts'[q].of = journal[i].of /\ posts'[q].state = "delivered"
      OBVIOUS
    <3>1. PICK q \in DOMAIN posts : posts[q].of = journal[i].of /\ posts[q].state = "delivered"
      BY <1>2 DEF RecordsInv
    <3> QED BY <1>5, <3>1
  <2>5. /\ \A i, j \in DOMAIN journal : journal[i].of.event = journal[j].of.event => journal[i].of = journal[j].of
        /\ \A f \in told : Outbox!LastOf(Outbox!Said(f), "delivery")
    BY <1>2 DEF RecordsInv
  <2>6. journal' = journal /\ told' = told BY <1>1
  <2> QED BY <2>1, <2>2, <2>3, <2>4, <2>5, <2>6 DEF RecordsInv, Outbox!LastOf, Outbox!Said, Outbox!On
<1>7. ASSUME NEW c \in Caller PROVE CallerInv(c)'
  <2>1. CallerInv(c) BY DEF OutInv
  <2>2. Claimed(c) => event'[Outbox!Event(c)] = c /\ Outbox!Event(c) \notin {}
    BY <1>1, <2>1 DEF CallerInv, ClaimInv
  <2>3. /\ call'[c] = call[c] /\ journal' = journal
        /\ \A i \in DOMAIN journal' \ DOMAIN journal : journal'[i].of.event \in {}
        /\ \A q \in DOMAIN posts' \ DOMAIN posts : posts'[q].of.event \in {}
        /\ told' \subseteq told \cup {}
    BY <1>1, <1>5
  <2> QED BY <1>5, <2>1, <2>2, <2>3, OthersKeep
<1> QED BY <1>4, <1>6, <1>7 DEF OutInv

\* A process ends, its record written or not, and leaves its lock files.
LEMMA CrashSound ==
    ASSUME Outbox!OutboxAssumption, OutInv, NEW c \in Caller, Outbox!Crash(c)
    PROVE  OutInv'
<1>1. /\ call' = [call EXCEPT ![c] = Outbox!Idle] /\ UNCHANGED <<posts, told>>
      /\ event' = [e \in Outbox!Events |-> IF event[e] = c THEN Left ELSE event[e]]
      /\ journal' = journal \/ (Outbox!Appending(c) /\ \E end : Outbox!Write(c, end))
  BY DEF Outbox!Crash, Outbox!MayWrite
<1>2. OutTypeInv
  BY DEF OutInv
<1>3. Outbox!Idle \in CallerState /\ Outbox!Idle.at = "idle"
  BY DEF Outbox!Idle, CallerState, OutSteps
<1>4. /\ call' \in [Caller -> CallerState] /\ call'[c].at = "idle"
      /\ \A d \in Caller \ {c} : call'[d] = call[d]
  BY <1>1, <1>2, <1>3 DEF OutTypeInv
<1>5. event' \in [Outbox!Events -> Caller \cup {None, Left}]
  BY <1>1, <1>2 DEF OutTypeInv
<1>6. ASSUME NEW d \in Caller \ {c}, Claimed(d) PROVE event'[Outbox!Event(d)] = d
  <2>1. event[Outbox!Event(d)] = d BY <1>6 DEF OutInv, CallerInv, ClaimInv
  <2>2. Outbox!Event(d) \in Outbox!Events BY <1>2, <1>6, EventOf DEF Claimed
  <2> QED BY <1>1, <2>1, <2>2
<1>7. CallerInv(c)' BY <1>4, IdleKeeps
<1>8. CASE journal' = journal
  <2>1. OutTypeInv'
    BY <1>1, <1>2, <1>4, <1>5, <1>8 DEF OutTypeInv
  <2> QED BY <1>1, <1>4, <1>6, <1>7, <1>8, <2>1, CallKeeps
<1>9. ASSUME Outbox!Appending(c), NEW end, Outbox!Write(c, end) PROVE OutInv'
  <2>1. /\ RecordsInv' /\ journal' \in Seq(Line) /\ told' \subseteq Outbox!Events
        /\ \A d \in Caller \ {c} :
              call'[d] = call[d] /\ (Claimed(d) => event'[Outbox!Event(d)] = d) => CallerInv(d)'
    BY <1>1, <1>9, WriteKeeps
  <2>2. OutTypeInv'
    BY <1>1, <1>2, <1>4, <1>5, <2>1 DEF OutTypeInv
  <2> QED BY <1>4, <1>6, <1>7, <2>1, <2>2 DEF OutInv
<1> QED BY <1>1, <1>8, <1>9

LEMMA LocksRemovedSound ==
    ASSUME Outbox!OutboxAssumption, OutInv, Outbox!LocksRemoved
    PROVE  OutInv'
<1>1. /\ UNCHANGED <<journal, call, posts, told>>
      /\ event' = [e \in Outbox!Events |-> IF event[e] = Left THEN None ELSE event[e]]
  BY DEF Outbox!LocksRemoved
<1>2. OutTypeInv'
  BY <1>1 DEF OutInv, OutTypeInv
<1>3. ASSUME NEW d \in Caller, Claimed(d) PROVE event'[Outbox!Event(d)] = d
  <2>1. event[Outbox!Event(d)] = d BY <1>3 DEF OutInv, CallerInv, ClaimInv
  <2>2. Outbox!Event(d) \in Outbox!Events BY <1>3, EventOf DEF Claimed, OutInv
  <2>3. d # Left BY DEF Outbox!OutboxAssumption
  <2> QED BY <1>1, <2>1, <2>2, <2>3
<1>4. CASE Caller = {}
  BY <1>1, <1>2, <1>4 DEF OutInv, RecordsInv, Outbox!LastOf, Outbox!Said, Outbox!On
<1>5. CASE Caller # {}
  <2>1. PICK c \in Caller : TRUE BY <1>5
  <2>2. CallerInv(c)'
    BY <1>1, <1>3 DEF OutInv, CallerInv, ClaimInv, BoundInv, OpenInv, UnsentInv, SentInv, Claimed,
                      Outbox!On, Outbox!Said, Outbox!Event, PostsOf
  <2>3. \A d \in Caller \ {c} : call'[d] = call[d] /\ (Claimed(d) => event'[Outbox!Event(d)] = d)
    BY <1>1, <1>3
  <2> QED BY <1>1, <1>2, <2>1, <2>2, <2>3, CallKeeps
<1> QED BY <1>4, <1>5

LEMMA OutInitSound == Outbox!OutboxAssumption /\ Outbox!Init => OutInv
<1> SUFFICES ASSUME Outbox!OutboxAssumption, Outbox!Init PROVE OutInv
  OBVIOUS
<1>1. Outbox!Idle \in CallerState /\ Outbox!Idle.at = "idle"
  BY DEF Outbox!Idle, CallerState, OutSteps
<1>2. OutTypeInv
  BY <1>1 DEF Outbox!Init, OutTypeInv
<1>3. RecordsInv
  BY DEF Outbox!Init, RecordsInv
<1>4. \A c \in Caller : CallerInv(c)
  BY <1>1 DEF Outbox!Init, CallerInv, ClaimInv, BoundInv, OpenInv, UnsentInv, SentInv, Claimed, Acting
<1> QED BY <1>2, <1>3, <1>4 DEF OutInv

LEMMA OutNextSound == Outbox!OutboxAssumption /\ OutInv /\ [Outbox!Next]_(Outbox!vars) => OutInv'
<1> SUFFICES ASSUME Outbox!OutboxAssumption, OutInv, [Outbox!Next]_(Outbox!vars) PROVE OutInv'
  OBVIOUS
<1>1. ASSUME NEW c \in Caller,
             \/ Outbox!Begin(c) \/ Outbox!ClaimEvent(c) \/ Outbox!ClaimSubject(c) \/ Outbox!GiveUp(c)
             \/ Outbox!ClaimFails(c) \/ Outbox!Look(c) \/ Outbox!LookIsFinal(c) \/ Outbox!LookThrows(c)
             \/ Outbox!Acknowledge(c) \/ Outbox!Authorized(c) \/ Outbox!Denied(c) \/ Outbox!Post(c)
             \/ Outbox!Confirmed(c) \/ Outbox!Ambiguous(c) \/ Outbox!ReceiptDelivered(c)
             \/ Outbox!ReceiptAbsent(c) \/ Outbox!StaysUncertain(c)
             \/ Outbox!Record(c) \/ Outbox!RecordFails(c) \/ Outbox!Crash(c)
      PROVE  OutInv'
  BY <1>1, BeginSound, ClaimEventSound, ClaimSubjectSound, ClaimFailsSound, LookSound, LookIsFinalSound,
     QuietSound, AcknowledgeSound, AuthorizeSound, AnswerSound, PostSound, ReceiptDeliveredSound,
     ReceiptAbsentSound, RecordSound, RecordFailsSound, CrashSound
<1>2. ASSUME NEW p \in DOMAIN posts, Outbox!Settle(p, "delivered") \/ Outbox!Settle(p, "lost") PROVE OutInv'
  BY <1>2, SettleSound
<1>3. CASE UNCHANGED Outbox!vars
  BY <1>3 DEF Outbox!vars, OutInv, OutTypeInv, RecordsInv, CallerInv, ClaimInv, BoundInv, OpenInv, UnsentInv,
     SentInv, Claimed, PostsOf, Outbox!On, Outbox!Said, Outbox!Event, Outbox!LastOf
<1> QED BY <1>1, <1>2, <1>3, LocksRemovedSound DEF Outbox!Next

\* The inductive invariant of notifications, over every order of calls, claims left behind and lost answers.
THEOREM OutboxInvariant == ASSUME Outbox!OutboxAssumption PROVE Outbox!Spec => []OutInv
<1>1. Outbox!Init => OutInv BY OutInitSound
<1>2. OutInv /\ [Outbox!Next]_(Outbox!vars) => OutInv' BY OutNextSound
<1> QED BY <1>1, <1>2, PTL DEF Outbox!Spec

\* An event has at most one message in Slack, or one under way: whatever was sent is looked up before it is
\* sent again, and an event has one caller at a time (sendLocked, retryAfterReconciliation).
THEOREM OneMessageHolds == ASSUME Outbox!OutboxAssumption PROVE Outbox!Spec => []Outbox!OneMessage
<1>1. OutInv => Outbox!OneMessage
  BY DEF OutInv, RecordsInv, Outbox!OneMessage
<1> QED BY <1>1, OutboxInvariant, PTL

\* An event that is denied on record was not sent and never is, whoever asks for it (dispatch, record).
THEOREM BlockedUnsentHolds == ASSUME Outbox!OutboxAssumption PROVE Outbox!Spec => []Outbox!BlockedUnsent
<1>1. OutInv => Outbox!BlockedUnsent
  BY DEF OutInv, RecordsInv, Outbox!BlockedUnsent, Outbox!ToSet
<1> QED BY <1>1, OutboxInvariant, PTL

\* Who was told that a notification is delivered was told the truth, and the journal says it ever after.
THEOREM ToldStandsHolds == ASSUME Outbox!OutboxAssumption PROVE Outbox!Spec => []Outbox!ToldStands
<1>1. OutInv => Outbox!ToldStands
  <2> SUFFICES ASSUME OutInv, NEW e \in told
               PROVE  /\ \E p \in Outbox!ToSet(posts) : p.of.event = e /\ p.state = "delivered"
                      /\ Outbox!Delivery(e) = "delivery"
    BY DEF Outbox!ToldStands
  <2>1. OutTypeInv /\ Outbox!LastOf(Outbox!Said(e), "delivery") /\ "delivery" \in Outbox!Outcomes
    BY DEF OutInv, RecordsInv, Outbox!Outcomes
  <2>2. PICK i \in DOMAIN journal : journal[i].of.event = e /\ journal[i].kind = "delivery"
    BY <2>1 DEF Outbox!LastOf, Outbox!Said, Outbox!On
  <2>3. PICK p \in DOMAIN posts : posts[p].of = journal[i].of /\ posts[p].state = "delivered"
    BY <2>2 DEF OutInv, RecordsInv
  <2>4. posts[p] \in Outbox!ToSet(posts)
    BY DEF Outbox!ToSet
  <2> QED BY <2>1, <2>2, <2>3, <2>4, DeliveryIs
<1> QED BY <1>1, OutboxInvariant, PTL

\* All that is recorded or sent of an event is one notification: a second text of an event is refused (stateFor).
THEOREM OneBindingHolds == ASSUME Outbox!OutboxAssumption PROVE Outbox!Spec => []Outbox!OneBinding
<1>1. OutInv => Outbox!OneBinding
  BY DEF OutInv, RecordsInv, Outbox!OneBinding, Outbox!ToSet
<1> QED BY <1>1, OutboxInvariant, PTL
=============================================================================
