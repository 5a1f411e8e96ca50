------------------------ MODULE RunLifecycleProofs ------------------------
(***************************************************************************)
(* Proofs about the life of a run, for any number of runs, any limits and  *)
(* any number of outages: the callbacks know what they act on, no run is   *)
(* launched twice, no worker is signalled before the record, the workers   *)
(* alive keep within the admitted places, and a confirmed owner cancel     *)
(* comes after the turn's own result.                                      *)
(***************************************************************************)
EXTENDS RunLifecycle, SequenceTheorems, FiniteSetTheorems, TLAPS

-----------------------------------------------------------------------------
\* The inductive invariant.

\* What one host record says by itself.  A preparation is observed once
\* because a second attempt needs a turn that still runs, no preparation left
\* and somebody who waits for it.
Attempting == {"revoking", "intending"}
Active == {"starting", "running"}

Sound(h) ==
    /\ "observing" \in {h.turn, h.owner} =>
           h.taken # None /\ h.prepared = None /\ h.term \notin Attempting
    /\ ~(h.turn = "observing" /\ h.owner = "observing")
    /\ h.term \notin {"none", "over"} => h.reason # None
    /\ h.turn = "closing" => h.final # None
    /\ h.prepared # None => h.term \notin Attempting
    /\ h.turn \in Active =>
           /\ h.owner = "observing" => h.limit # "none"
           /\ h.prepared # None => h.limit # "none" \/ h.owner \in {"authorized", "awaiting"}
           /\ h.term \in Attempting => h.owner = "cancelling" \/ h.limit = "firing"

HostSound == \A r \in Runs : Sound(host[r])

Pending(by, r, kind) == \E e \in Unwritten : e.by = by /\ e.run = r /\ e.kind = kind

\* Nobody has asked anything of the run's worker.
Untouched(h) == h.owner = "idle" /\ h.term = "none" /\ h.prepared = None

Early == {"intent", "spawned", "receipt"}

LaunchAt(r) ==
    /\ spawns[r] <= 1
    /\ spawns[r] # 0 => Delivered(r)
    /\ host[r].turn = "intent" =>
           /\ spawns[r] = 0
           /\ Admitted(ledger[r])
           /\ Delivered(r) \/ Pending("turn", r, "effect.intended")
    /\ host[r].turn \notin {"idle", "intent"} => Delivered(r)
    /\ ledger[r].worker \/ Pending("turn", r, "worker.started") => Delivered(r)
    /\ Delivered(r) => Admitted(ledger[r])
    /\ ~Delivered(r) \/ host[r].turn \in Early => Untouched(host[r])
    /\ host[r].turn \in Early => ~ledger[r].worker /\ ~Pending("turn", r, "worker.started")

LaunchInv ==
    /\ \A r \in Runs : LaunchAt(r)
    /\ \A e \in Unwritten : e.kind = "worker.started" => e.by = "turn"

IntentPending(r) ==
    \E e \in Unwritten : /\ e.by = "term" /\ e.run = r
                         /\ e.kind = "worker.termination.intended"
                         /\ e.op = host[r].reason

SignalAt(r) ==
    /\ signalled[r] \/ host[r].term \in {"signal", "waiting"} =>
           ledger[r].revoked /\ ledger[r].intended \cap TerminationReason # {}
    /\ host[r].term = "revoking" =>
           ledger[r].revoked \/ Pending("term", r, "authority.revoked")
    /\ host[r].term = "intending" =>
           ledger[r].revoked /\ (host[r].reason \in ledger[r].intended \/ IntentPending(r))
    /\ host[r].term \in Attempting => Admitted(ledger[r])

SignalInv == \A r \in Runs : SignalAt(r)

IInv == TypeOK /\ HostSound /\ LaunchInv /\ SignalInv

-----------------------------------------------------------------------------
\* The ledger: every record keeps a snapshot a snapshot, and no record takes
\* back an admission, a revocation or an intent.

LEMMA Constants ==
    /\ None \notin Outcome /\ None \notin TerminationReason /\ None \notin Operation
    /\ TerminationReason = {"cancelled", "timeout"}
    /\ Operation = {"turn", "cancelled", "timeout"}
    /\ ExitOutcome \subseteq Outcome
    /\ ExitUsage \subseteq Usage /\ InterruptUsage \subseteq Usage
BY LifecycleAssumption DEF TerminationReason, Operation

LEMMA TerminalStates ==
    ASSUME NEW outcome \in Outcome
    PROVE  TerminalState(outcome) \in Terminal
BY DEF TerminalState, Outcome, Terminal

Grows(s, t) ==
    /\ t \in Snapshot
    /\ s.intended \subseteq t.intended
    /\ s.revoked => t.revoked
    /\ Admitted(s) => Admitted(t)

LEMMA IntendGrows ==
    ASSUME NEW s \in Snapshot, NEW op \in Operation
    PROVE  /\ Grows(s, Intend(s, op))
           /\ op \in Intend(s, op).intended
           /\ Intend(s, op).worker = s.worker
           /\ Admitted(Intend(s, op))  <=> Admitted(s) \/ op \notin s.intended
BY DEF Snapshot, Intend, RunState, Admitted, Grows

LEMMA ReceiveGrows ==
    ASSUME NEW s \in Snapshot, NEW op \in Operation, NEW exited \in BOOLEAN
    PROVE  /\ Grows(s, Receive(s, op))
           /\ Receive(s, op).worker = s.worker
           /\ Grows(s, ObserveTermination(s, op, exited))
           /\ ObserveTermination(s, op, exited).worker = s.worker
BY DEF Snapshot, Receive, ObserveTermination, RunState, Terminal, Admitted, Grows

LEMMA RequireGrows ==
    ASSUME NEW s \in Snapshot
    PROVE  Grows(s, Require(s)) /\ Require(s).worker = s.worker
BY DEF Snapshot, Require, RunState, Admitted, Grows

LEMMA ResolveGrows ==
    ASSUME NEW s \in Snapshot, NEW d \in Disposition
    PROVE  Grows(s, Resolve(s, d)) /\ ~Resolve(s, d).worker
<1> DEFINE st == IF d = "blocked" THEN "blocked"
                 ELSE IF s.result = None THEN "interrupted_uncertain"
                 ELSE TerminalState(s.result)
<1>1. st \in Terminal
  <2>1. CASE s.result \in Outcome
    BY <2>1, TerminalStates DEF Terminal
  <2>2. CASE s.result = None
    BY <2>2 DEF Terminal
  <2> QED BY <2>1, <2>2 DEF Snapshot
<1>2. st \in RunState /\ st # "absent"
  BY <1>1 DEF RunState, Terminal
<1>3. Resolve(s, d) = [s EXCEPT !.recovery = FALSE, !.worker = FALSE, !.unresolved = {},
                                !.revoked = @ \/ d = "authority_revoked", !.state = st]
  BY DEF Resolve
<1> HIDE DEF st
<1>4. ASSUME NEW v \in BOOLEAN, s.revoked => v, NEW t,
             t = [s EXCEPT !.recovery = FALSE, !.worker = FALSE, !.unresolved = {},
                           !.revoked = v, !.state = st]
      PROVE  Grows(s, t) /\ ~t.worker
  BY <1>2, <1>4 DEF Snapshot, Grows, Admitted
<1> QED BY <1>3, <1>4

\* What a record of the coordinator does to the snapshot of its run.
LEMMA ApplyGrows ==
    ASSUME NEW s \in Snapshot, NEW e \in Write
    PROVE  /\ Grows(s, Apply(s, e))
           /\ Apply(s, e).worker => s.worker \/ e.kind = "worker.started"
           /\ Admitted(s) /\ e.kind \in {"effect.intended", "worker.termination.intended"} =>
                  e.op \in Apply(s, e).intended
           /\ Admitted(s) /\ e.kind = "authority.revoked" => Apply(s, e).revoked
           /\ ~Admitted(s) => Apply(s, e).intended = s.intended
<1>1. /\ e.kind \in Kind
      /\ e.kind \in {"effect.intended", "effect.receipt"} => e.op = "turn"
      /\ e.kind \in {"worker.termination.intended", "worker.termination.observed"}
             => e.op \in TerminationReason
      /\ e.kind = "provider.final" => e.arg \in Outcome
      /\ e.kind = "reservation.released" => e.arg \in Usage
  BY DEF Write, WriteField
<1>2. e.kind \in {"effect.intended", "effect.receipt", "worker.termination.intended",
                  "worker.termination.observed"} => e.op \in Operation
  BY <1>1 DEF Operation
<1>3. CASE e.kind = "run.admitted"
  <2>1. PICK t : t = Apply(s, e)
    OBVIOUS
  <2>2. /\ t \in Snapshot /\ Admitted(t)
        /\ t.intended = s.intended /\ t.revoked = s.revoked /\ t.worker = s.worker
    BY <1>3, <2>1 DEF Apply, Snapshot, RunState, Reservation, Admitted
  <2> QED BY <2>1, <2>2, <1>3 DEF Grows
<1>4. CASE s.state = "absent" /\ e.kind # "run.admitted"
  <2>1. Apply(s, e) = s
    BY <1>4 DEF Apply
  <2> QED BY <2>1, <1>4 DEF Admitted, Grows
<1>5. CASE s.state # "absent" /\ e.kind = "worker.started"
  BY <1>5 DEF Apply, Snapshot, RunState, Admitted, Grows
<1>6. CASE s.state # "absent"
           /\ e.kind \in {"effect.intended", "worker.termination.intended"}
  <2>1. Apply(s, e) = Intend(s, e.op)
    BY <1>6 DEF Apply
  <2> QED BY <2>1, <1>2, <1>6, IntendGrows DEF Admitted
<1>7. CASE s.state # "absent" /\ e.kind = "effect.receipt"
  <2>1. Apply(s, e) = Receive(s, e.op)
    BY <1>7 DEF Apply
  <2> QED BY <2>1, <1>2, <1>7, ReceiveGrows DEF Admitted
<1>8. CASE s.state # "absent" /\ e.kind = "worker.termination.observed"
  <2>1. Apply(s, e) = ObserveTermination(s, e.op, e.arg = "completed")
    BY <1>8 DEF Apply
  <2>2. (e.arg = "completed") \in BOOLEAN
    OBVIOUS
  <2> QED BY <2>1, <2>2, <1>2, <1>8, ReceiveGrows DEF Admitted
<1>9. CASE s.state # "absent" /\ e.kind = "effect.unresolved"
  BY <1>9 DEF Apply, Snapshot, RunState, Admitted, Grows
<1>10. CASE s.state # "absent" /\ e.kind = "authority.revoked"
  BY <1>10 DEF Apply, Snapshot, RunState, Admitted, Grows
<1>11. CASE s.state # "absent" /\ e.kind = "reservation.released"
  BY <1>1, <1>11 DEF Apply, Snapshot, Reservation, Usage, Admitted, Grows
<1>12. CASE s.state # "absent" /\ e.kind = "provider.final"
  <2>1. Apply(s, e) = [s EXCEPT !.result = e.arg, !.state = TerminalState(e.arg)]
    BY <1>12 DEF Apply
  <2>2. TerminalState(e.arg) \in RunState /\ TerminalState(e.arg) # "absent"
    BY <1>1, <1>12, TerminalStates DEF RunState, Terminal
  <2>3. e.arg \in Outcome
    BY <1>1, <1>12
  <2> QED BY <2>1, <2>2, <2>3, <1>12 DEF Snapshot, Admitted, Grows
<1> QED
  BY <1>1, <1>3, <1>4, <1>5, <1>6, <1>7, <1>8, <1>9, <1>10, <1>11, <1>12 DEF Kind

-----------------------------------------------------------------------------
\* The journal's queue.

Entry(by, r, kind, op, arg) == [by |-> by, run |-> r, kind |-> kind, op |-> op, arg |-> arg]

LEMMA Recorded ==
    ASSUME inflight \in Seq(Write), NEW e \in Write, inflight' = Append(inflight, e)
    PROVE  inflight' \in Seq(Write) /\ Unwritten' = Unwritten \cup {e}
<1>1. /\ inflight' \in Seq(Write) /\ Len(inflight') = Len(inflight) + 1
      /\ \A i \in 1..Len(inflight) : inflight'[i] = inflight[i]
      /\ inflight'[Len(inflight) + 1] = e
  BY AppendProperties
<1>2. /\ Len(inflight) \in Nat
      /\ DOMAIN inflight = 1..Len(inflight) /\ DOMAIN inflight' = 1..(Len(inflight) + 1)
  BY <1>1, LenProperties
<1> QED BY <1>1, <1>2 DEF Unwritten

LEMMA Written ==
    ASSUME inflight \in Seq(Write), inflight # <<>>, inflight' = Tail(inflight)
    PROVE  /\ inflight' \in Seq(Write)
           /\ Head(inflight) \in Write
           /\ Unwritten' \subseteq Unwritten
           /\ Unwritten \subseteq Unwritten' \cup {Head(inflight)}
           /\ Head(inflight) \in Unwritten
<1>1. /\ Head(inflight) \in Write /\ inflight' \in Seq(Write)
      /\ Len(inflight') = Len(inflight) - 1
      /\ \A i \in 1..Len(inflight') : inflight'[i] = inflight[i + 1]
  BY HeadTailProperties
<1>2. /\ Len(inflight) \in Nat
      /\ DOMAIN inflight = 1..Len(inflight) /\ DOMAIN inflight' = 1..(Len(inflight) - 1)
  BY <1>1, LenProperties
<1>3. Len(inflight) # 0 /\ Head(inflight) = inflight[1]
  BY EmptySeq
<1>4. \A i \in DOMAIN inflight : i = 1 \/ i - 1 \in DOMAIN inflight'
  BY <1>2
<1>5. \A i \in DOMAIN inflight : i # 1 => inflight[i] = inflight'[i - 1]
  BY <1>1, <1>2
<1>6. \A i \in DOMAIN inflight' : i + 1 \in DOMAIN inflight /\ inflight'[i] = inflight[i + 1]
  BY <1>1, <1>2
<1>7. 1 \in DOMAIN inflight
  BY <1>2, <1>3
<1>8. Unwritten' \subseteq Unwritten
  BY <1>6 DEF Unwritten
<1>9. Unwritten \subseteq Unwritten' \cup {Head(inflight)}
  BY <1>3, <1>4, <1>5 DEF Unwritten
<1>10. Head(inflight) \in Unwritten
  BY <1>3, <1>7 DEF Unwritten
<1> QED BY <1>1, <1>8, <1>9, <1>10

LEMMA Writes ==
    ASSUME NEW e \in Write
    PROVE  e.by \in Actor /\ e.run \in Runs /\ e.kind \in Kind
BY DEF Write, WriteField

LEMMA Entries ==
    ASSUME NEW by \in Actor, NEW r \in Runs, NEW kind \in Kind, NEW op \in Operation \cup {None},
           NEW arg \in Outcome \cup Usage \cup {None},
           kind \in {"effect.intended", "effect.receipt"} => op = "turn",
           kind \in {"worker.termination.intended", "worker.termination.observed"}
               => op \in TerminationReason,
           kind = "provider.final" => arg \in Outcome,
           kind = "reservation.released" => arg \in Usage
    PROVE  /\ Entry(by, r, kind, op, arg) \in Write
           /\ Entry(by, r, kind, op, arg).by = by
           /\ Entry(by, r, kind, op, arg).run = r
           /\ Entry(by, r, kind, op, arg).kind = kind
           /\ Entry(by, r, kind, op, arg).op = op
BY DEF Write, WriteField, Entry

\* A record that an actor issues joins the queue and is what it says.
LEMMA Issued ==
    ASSUME inflight \in Seq(Write),
           NEW by \in Actor, NEW r \in Runs, NEW kind \in Kind, NEW op \in Operation \cup {None},
           NEW arg \in Outcome \cup Usage \cup {None},
           kind \in {"effect.intended", "effect.receipt"} => op = "turn",
           kind \in {"worker.termination.intended", "worker.termination.observed"}
               => op \in TerminationReason,
           kind = "provider.final" => arg \in Outcome,
           kind = "reservation.released" => arg \in Usage,
           Record(by, r, kind, op, arg)
    PROVE  /\ inflight' \in Seq(Write)
           /\ \E e \in Write : /\ Unwritten' = Unwritten \cup {e}
                               /\ e.by = by /\ e.run = r /\ e.kind = kind /\ e.op = op
<1>1. inflight' = Append(inflight, Entry(by, r, kind, op, arg))
  BY DEF Record, Entry
<1>2. PICK e \in Write : /\ e = Entry(by, r, kind, op, arg)
                        /\ e.by = by /\ e.run = r /\ e.kind = kind /\ e.op = op
  BY Entries
<1>3. inflight' \in Seq(Write) /\ Unwritten' = Unwritten \cup {e}
  BY <1>1, <1>2, Recorded
<1> QED BY <1>2, <1>3

-----------------------------------------------------------------------------
\* The host record of a run: what each callback makes of it is sound again.

Kept(h) == h \in Host /\ Sound(h)

LEMMA HostFields ==
    ASSUME NEW h \in Host
    PROVE  /\ h.turn \in Turn /\ h.final \in Outcome \cup {None} /\ h.usage \in Usage
           /\ h.limit \in {"none", "firing", "done"} /\ h.term \in Termination
           /\ h.reason \in TerminationReason \cup {None} /\ h.owner \in Cancel
           /\ h.prepared \in TerminationReason \cup {None}
           /\ h.taken \in TerminationReason \cup {None}
BY DEF Host

LEMMA FreshKept == Kept(FreshHost) /\ Untouched(FreshHost) /\ FreshHost.turn = "idle"
<1>1. FreshHost \in Host
  BY DEF FreshHost, Host, Turn, Usage, Termination, Cancel
<1>2. /\ FreshHost.turn = "idle" /\ FreshHost.owner = "idle" /\ FreshHost.term = "none"
      /\ FreshHost.prepared = None
  BY DEF FreshHost
<1> QED BY <1>1, <1>2 DEF Kept, Sound, Active, Untouched

LEMMA DeliveryKeeps ==
    ASSUME NEW h \in Host, Sound(h)
    PROVE  /\ h.turn = "idle" => Kept([h EXCEPT !.turn = "intent"])
           /\ h.turn = "intent" => Kept([h EXCEPT !.turn = "spawned"])
           /\ Kept([h EXCEPT !.turn = "failing"])
           /\ Kept([h EXCEPT !.turn = "receipt"])
           /\ Untouched(h) => Kept([h EXCEPT !.turn = "starting"])
           /\ h.turn = "starting" => Kept([h EXCEPT !.turn = "running"])
           /\ Kept([h EXCEPT !.turn = "final", !.final = None])
           /\ Kept([h EXCEPT !.turn = "release", !.usage = "uncertain"])
           /\ Kept([h EXCEPT !.turn = "observe"])
<1> USE DEF Kept, Sound, Turn, Delivering, Observing
<1>1. h.turn = "idle" => Kept([h EXCEPT !.turn = "intent"])
  BY DEF Host, Active
<1>2. h.turn = "intent" => Kept([h EXCEPT !.turn = "spawned"])
  BY DEF Host, Active
<1>3. Kept([h EXCEPT !.turn = "failing"])
  BY DEF Host, Active
<1>4. Kept([h EXCEPT !.turn = "receipt"])
  BY DEF Host, Active
<1>5. Untouched(h) => Kept([h EXCEPT !.turn = "starting"])
  BY DEF Host, Untouched, Active, Attempting
<1>6. h.turn = "starting" => Kept([h EXCEPT !.turn = "running"])
  BY DEF Host, Active
<1>7. ASSUME NEW k, k = [h EXCEPT !.turn = "final", !.final = None] PROVE Kept(k)
  <2>1. k \in Host
    BY <1>7 DEF Host
  <2>2. /\ k.turn = "final" /\ k.owner = h.owner /\ k.taken = h.taken
        /\ k.prepared = h.prepared /\ k.term = h.term /\ k.reason = h.reason
    BY <1>7 DEF Host
  <2> QED BY <2>1, <2>2 DEF Active
<1>8. ASSUME NEW k, k = [h EXCEPT !.turn = "release", !.usage = "uncertain"] PROVE Kept(k)
  <2>1. k \in Host
    BY <1>8 DEF Host, Usage
  <2>2. /\ k.turn = "release" /\ k.owner = h.owner /\ k.taken = h.taken
        /\ k.prepared = h.prepared /\ k.term = h.term /\ k.reason = h.reason
    BY <1>8 DEF Host
  <2> QED BY <2>1, <2>2 DEF Active
<1>9. Kept([h EXCEPT !.turn = "observe"])
  BY DEF Host, Active
<1> QED BY <1>1, <1>2, <1>3, <1>4, <1>5, <1>6, <1>7, <1>8, <1>9

LEMMA CompleteKeeps ==
    ASSUME NEW h \in Host, Sound(h), NEW outcome \in Outcome, NEW usage \in Usage,
           h.turn = "running"
    PROVE  Kept([h EXCEPT !.turn = "closing", !.final = outcome, !.usage = usage,
                          !.cancelled = FALSE, !.limit = "none",
                          !.term = IF @ = "over" THEN "none" ELSE @])
<1> DEFINE tm == IF h.term = "over" THEN "none" ELSE h.term
<1>1. /\ tm \in Termination /\ (tm \in Attempting <=> h.term \in Attempting)
      /\ tm \notin {"none", "over"} <=> h.term \notin {"none", "over"}
  BY HostFields DEF Termination, Attempting
<1> HIDE DEF tm
<1>2. PICK k : k = [h EXCEPT !.turn = "closing", !.final = outcome, !.usage = usage,
                             !.cancelled = FALSE, !.limit = "none", !.term = tm]
  OBVIOUS
<1>3. k \in Host
  BY <1>1, <1>2 DEF Host, Turn, Delivering
<1>4. /\ k.turn = "closing" /\ k.final = outcome /\ k.term = tm /\ k.owner = h.owner
      /\ k.taken = h.taken /\ k.prepared = h.prepared /\ k.reason = h.reason
  BY <1>2 DEF Host
<1>5. Sound(k)
  BY <1>1, <1>4, Constants DEF Sound, Active
<1> QED BY <1>2, <1>3, <1>5 DEF Kept, tm

LEMMA EndAttemptKeeps ==
    ASSUME NEW h \in Host, NEW how \in {"none", "over"},
           "observing" \in {h.turn, h.owner} => h.taken # None /\ h.prepared = None,
           ~(h.turn = "observing" /\ h.owner = "observing"),
           h.turn = "closing" => h.final # None,
           h.turn \in Active /\ h.owner = "observing" => h.limit # "none",
           h.turn \in Active /\ h.prepared # None =>
               h.limit # "none" \/ h.owner \in {"authorized", "awaiting"}
    PROVE  /\ Kept(EndAttempt(h, how))
           /\ EndAttempt(h, how).turn = h.turn
           /\ EndAttempt(h, how).term = how
<1> DEFINE k == EndAttempt(h, how)
           ow == CASE h.owner = "authorized" -> "awaiting"
                   [] h.owner \in {"cancelling", "joining"} -> "observe"
                   [] OTHER -> h.owner
           lm == IF h.limit = "firing" THEN "done" ELSE h.limit
<1>1. /\ ow \in Cancel /\ (ow = "observing" <=> h.owner = "observing")
      /\ h.owner \in {"authorized", "awaiting"} => ow = "awaiting"
  BY HostFields DEF Cancel, Observing
<1>2. lm \in {"none", "firing", "done"} /\ (lm = "none" <=> h.limit = "none")
  BY HostFields
<1>3. k = [h EXCEPT !.term = how, !.reason = None, !.limit = lm, !.owner = ow]
  BY DEF EndAttempt
<1> HIDE DEF k, ow, lm
<1>4. k \in Host
  BY <1>1, <1>2, <1>3 DEF Host, Termination
<1>5. /\ k.term = how /\ k.limit = lm /\ k.owner = ow /\ k.turn = h.turn
      /\ k.taken = h.taken /\ k.prepared = h.prepared /\ k.final = h.final
  BY <1>3 DEF Host
<1>6. Sound(k)
  BY <1>1, <1>2, <1>5 DEF Sound, Attempting
<1> QED BY <1>4, <1>5, <1>6 DEF Kept, k

\* g is the host with its new waiter, see BeginAttempt.
LEMMA BeginKeeps ==
    ASSUME NEW g \in Host, NEW why \in TerminationReason,
           g.turn \in Active, g.owner # "observing",
           g.owner = "cancelling" \/ g.limit = "firing",
           g.prepared # None => g.limit # "none" \/ g.owner \in {"authorized", "awaiting"}
    PROVE  /\ Kept(EndAttempt(g, "none"))
           /\ g.prepared = None => /\ Kept([g EXCEPT !.term = "intending", !.reason = why])
                                   /\ Kept([g EXCEPT !.term = "revoking", !.reason = why])
<1>1. g.turn # "observing" /\ g.turn # "closing"
  BY DEF Active
<1>2. Kept(EndAttempt(g, "none"))
  BY <1>1, EndAttemptKeeps
<1>3. ASSUME g.prepared = None, NEW tm \in Attempting,
             NEW k, k = [g EXCEPT !.term = tm, !.reason = why]
      PROVE  Kept(k)
  <2>1. k \in Host
    BY <1>3 DEF Host, Attempting, Termination
  <2>2. /\ k.term = tm /\ k.reason = why /\ k.owner = g.owner /\ k.turn = g.turn
        /\ k.prepared = None /\ k.limit = g.limit
    BY <1>3 DEF Host
  <2> QED BY <1>1, <2>1, <2>2, Constants DEF Kept, Sound
<1>4. "intending" \in Attempting /\ "revoking" \in Attempting
  BY DEF Attempting
<1> QED BY <1>2, <1>3, <1>4

LEMMA TerminationKeeps ==
    ASSUME NEW h \in Host, Sound(h)
    PROVE  /\ h.owner = "idle" => Kept([h EXCEPT !.owner = "joining"])
           /\ h.owner = "idle" /\ h.turn \notin Active => Kept([h EXCEPT !.owner = "observe"])
           /\ h.owner = "awaiting" /\ h.turn \notin Delivering =>
                  Kept([h EXCEPT !.owner = "observe"])
           /\ h.limit = "none" =>
                  \A l \in {"firing", "done"} : Kept([h EXCEPT !.limit = l])
           /\ h.term = "revoking" => Kept([h EXCEPT !.term = "intending"])
           /\ h.term = "signal" => Kept([h EXCEPT !.term = "waiting"])
<1>1. ASSUME h.owner = "idle", NEW k, k = [h EXCEPT !.owner = "joining"] PROVE Kept(k)
  <2>1. k \in Host
    BY <1>1 DEF Host, Cancel
  <2>2. /\ k.owner = "joining" /\ k.turn = h.turn /\ k.taken = h.taken /\ k.limit = h.limit
        /\ k.prepared = h.prepared /\ k.term = h.term /\ k.reason = h.reason /\ k.final = h.final
    BY <1>1 DEF Host
  <2> QED BY <1>1, <2>1, <2>2 DEF Kept, Sound
<1>2. ASSUME h.owner \in {"idle", "awaiting"}, h.turn \notin Active,
             NEW k, k = [h EXCEPT !.owner = "observe"]
      PROVE  Kept(k)
  <2>1. k \in Host
    BY <1>2 DEF Host, Cancel, Observing
  <2>2. /\ k.owner = "observe" /\ k.turn = h.turn /\ k.taken = h.taken /\ k.limit = h.limit
        /\ k.prepared = h.prepared /\ k.term = h.term /\ k.reason = h.reason /\ k.final = h.final
    BY <1>2 DEF Host
  <2> QED BY <1>2, <2>1, <2>2 DEF Kept, Sound
<1>3. ASSUME h.limit = "none", NEW l \in {"firing", "done"}, NEW k, k = [h EXCEPT !.limit = l]
      PROVE  Kept(k)
  <2>1. k \in Host
    BY <1>3 DEF Host
  <2>2. /\ k.owner = h.owner /\ k.turn = h.turn /\ k.taken = h.taken /\ k.limit = l
        /\ k.prepared = h.prepared /\ k.term = h.term /\ k.reason = h.reason /\ k.final = h.final
    BY <1>3 DEF Host
  <2> QED BY <1>3, <2>1, <2>2 DEF Kept, Sound
<1>4. ASSUME NEW from, NEW to, <<from, to>> \in {<<"revoking", "intending">>, <<"signal", "waiting">>},
             h.term = from, NEW k, k = [h EXCEPT !.term = to]
      PROVE  Kept(k)
  <2>1. k \in Host
    BY <1>4 DEF Host, Termination
  <2>2. /\ k.owner = h.owner /\ k.turn = h.turn /\ k.taken = h.taken /\ k.limit = h.limit
        /\ k.prepared = h.prepared /\ k.term = to /\ k.reason = h.reason /\ k.final = h.final
    BY <1>4 DEF Host
  <2> QED BY <1>4, <2>1, <2>2 DEF Kept, Sound, Attempting
<1>5. h.term = "revoking" => Kept([h EXCEPT !.term = "intending"])
  BY <1>4
<1>6. h.term = "signal" => Kept([h EXCEPT !.term = "waiting"])
  BY <1>4
<1>7. h.limit = "none" => \A l \in {"firing", "done"} : Kept([h EXCEPT !.limit = l])
  BY <1>3
<1>8. h.owner = "idle" => Kept([h EXCEPT !.owner = "joining"])
  BY <1>1
<1>9. h.owner = "idle" /\ h.turn \notin Active => Kept([h EXCEPT !.owner = "observe"])
  BY <1>2
<1>10. h.owner = "awaiting" /\ h.turn \notin Delivering => Kept([h EXCEPT !.owner = "observe"])
  BY <1>2 DEF Active, Delivering
<1> QED BY <1>5, <1>6, <1>7, <1>8, <1>9, <1>10

LEMMA PrepareKeeps ==
    ASSUME NEW h \in Host, Sound(h), h.term = "intending"
    PROVE  Kept([h EXCEPT !.term = "signal", !.prepared = h.reason,
                          !.cancelled = @ \/ h.reason = "cancelled",
                          !.owner = IF @ = "cancelling" THEN "authorized" ELSE @])
<1>1. ASSUME NEW c \in BOOLEAN, NEW ow, ow = IF h.owner = "cancelling" THEN "authorized" ELSE h.owner,
             NEW k, k = [h EXCEPT !.term = "signal", !.prepared = h.reason, !.cancelled = c,
                                  !.owner = ow]
      PROVE  Kept(k)
  <2>1. ow \in Cancel
    BY <1>1, HostFields DEF Cancel
  <2>2. k \in Host
    BY <1>1, <2>1 DEF Host, Termination
  <2>3. /\ k.owner = ow /\ k.turn = h.turn /\ k.taken = h.taken /\ k.limit = h.limit
        /\ k.prepared = h.reason /\ k.term = "signal" /\ k.reason = h.reason /\ k.final = h.final
    BY <1>1 DEF Host
  <2> QED BY <1>1, <2>2, <2>3 DEF Kept, Sound, Attempting
<1> QED BY <1>1

LEMMA ObservationKeeps ==
    ASSUME NEW h \in Host, Sound(h), NEW who \in {"turn", "owner"}
    PROVE  /\ h[who] = "observe" /\ h.prepared # None =>
                  Kept([h EXCEPT ![who] = "observing", !.prepared = None, !.taken = h.prepared])
           /\ h[who] = "observe" => Kept([h EXCEPT ![who] = "idle"])
           /\ h[who] = "observing" => Kept([h EXCEPT ![who] = "observed", !.taken = None])
           /\ h[who] = "observed" => Kept([h EXCEPT ![who] = "reserving"])
           /\ h[who] = "reserving" => Kept([h EXCEPT ![who] = "idle"])
<1>1. ASSUME NEW to \in {"idle", "observed", "reserving", "observing"},
             NEW tk \in TerminationReason \cup {None}, NEW pr \in TerminationReason \cup {None},
             pr # None => pr = h.prepared,
             to = "observing" => pr = None /\ tk # None /\ h.prepared # None /\ h[who] = "observe",
             to # "observing" => pr = h.prepared /\ (tk = h.taken \/ h[who] = "observing"),
             h[who] \in Observing,
             NEW k, k = [h EXCEPT ![who] = to, !.prepared = pr, !.taken = tk]
      PROVE  Kept(k)
  <2>1. CASE who = "turn"
    <3>1. k \in Host
      BY <1>1, <2>1 DEF Host, Turn, Observing
    <3>2. /\ k.owner = h.owner /\ k.turn = to /\ k.taken = tk /\ k.limit = h.limit
          /\ k.prepared = pr /\ k.term = h.term /\ k.reason = h.reason /\ k.final = h.final
      BY <1>1, <2>1 DEF Host
    <3>3. k.turn \notin Active /\ k.turn # "closing" /\ h.turn = h[who]
      BY <2>1, <3>2 DEF Active
    <3> QED BY <1>1, <3>1, <3>2, <3>3 DEF Kept, Sound
  <2>2. CASE who = "owner"
    <3>1. k \in Host
      BY <1>1, <2>2 DEF Host, Cancel, Observing
    <3>2. /\ k.owner = to /\ k.turn = h.turn /\ k.taken = tk /\ k.limit = h.limit
          /\ k.prepared = pr /\ k.term = h.term /\ k.reason = h.reason /\ k.final = h.final
      BY <1>1, <2>2 DEF Host
    <3>3. h.owner = h[who] /\ h.owner \notin {"authorized", "awaiting", "cancelling"}
      BY <1>1, <2>2 DEF Observing
    <3> QED BY <1>1, <3>1, <3>2, <3>3 DEF Kept, Sound
  <2> QED BY <2>1, <2>2
<1>2. /\ h.prepared \in TerminationReason \cup {None} /\ h.taken \in TerminationReason \cup {None}
      /\ {"observe", "observing", "observed", "reserving"} \subseteq Observing
  BY HostFields DEF Observing
<1>3. h[who] = "observe" /\ h.prepared # None =>
          Kept([h EXCEPT ![who] = "observing", !.prepared = None, !.taken = h.prepared])
  BY <1>1, <1>2
<1>4. ASSUME NEW to \in {"idle", "reserving"}, h[who] \in {"observe", "observed", "reserving"}
      PROVE  Kept([h EXCEPT ![who] = to])
  <2>1. PICK k : k = [h EXCEPT ![who] = to, !.prepared = h.prepared, !.taken = h.taken]
    OBVIOUS
  <2>2. Kept(k)
    BY <1>1, <1>2, <1>4, <2>1
  <2>3. k = [h EXCEPT ![who] = to]
    BY <2>1 DEF Host
  <2> QED BY <2>2, <2>3
<1>5. h[who] = "observing" => Kept([h EXCEPT ![who] = "observed", !.taken = None])
  <2>1. [h EXCEPT ![who] = "observed", !.taken = None]
        = [h EXCEPT ![who] = "observed", !.prepared = h.prepared, !.taken = None]
    BY DEF Host
  <2> QED BY <1>1, <1>2, <2>1
<1> QED BY <1>3, <1>4, <1>5

-----------------------------------------------------------------------------
\* Types.

LEMMA HostMoves ==
    ASSUME host \in [Runs -> Host], HostSound, NEW r \in Runs, NEW h, Kept(h), SetHost(r, h)
    PROVE  host' \in [Runs -> Host] /\ HostSound' /\ host'[r] = h
           /\ \A q \in Runs : q # r => host'[q] = host[q]
BY DEF HostSound, Kept, SetHost

HostNext == host' \in [Runs -> Host] /\ HostSound'
QueueNext == inflight' \in Seq(Write)

LEMMA DeliveryTypes ==
    ASSUME TypeOK, HostSound, LaunchInv, NEW r \in Runs, DeliveryStep(r)
    PROVE  HostNext /\ QueueNext
<1> DEFINE h == host[r]
<1>1. h \in Host /\ Sound(h) /\ host \in [Runs -> Host] /\ inflight \in Seq(Write)
  BY DEF TypeOK, HostSound
<1> USE DEF HostNext, QueueNext
<1>2. CASE Deliver(r)
  <2>1. SetHost(r, [h EXCEPT !.turn = "intent"]) /\ Kept([h EXCEPT !.turn = "intent"])
    BY <1>1, <1>2, DeliveryKeeps DEF Deliver, MayDeliver
  <2>2. Record("turn", r, "effect.intended", "turn", None)
    BY <1>2 DEF Deliver
  <2>3. inflight' \in Seq(Write)
    BY <1>1, <2>2, Issued DEF Actor, Kind, Operation
  <2> QED BY <1>1, <2>1, <2>3, HostMoves
<1>3. CASE Replay(r)
  <2>1. SetHost(r, [h EXCEPT !.turn = "observe"]) /\ Kept([h EXCEPT !.turn = "observe"])
    BY <1>1, <1>3, DeliveryKeeps DEF Replay
  <2> QED BY <1>1, <1>3, <2>1, HostMoves DEF Replay
<1>4. CASE Launch(r)
  <2>1. SetHost(r, [h EXCEPT !.turn = "spawned"]) /\ Kept([h EXCEPT !.turn = "spawned"])
    BY <1>1, <1>4, DeliveryKeeps DEF Launch, At
  <2> QED BY <1>1, <1>4, <2>1, HostMoves DEF Launch
<1>5. CASE LaunchFails(r)
  <2>1. SetHost(r, [h EXCEPT !.turn = "failing"]) /\ Kept([h EXCEPT !.turn = "failing"])
    BY <1>1, <1>5, DeliveryKeeps DEF LaunchFails
  <2>2. Record("turn", r, "effect.receipt", "turn", None)
    BY <1>5 DEF LaunchFails
  <2>3. inflight' \in Seq(Write)
    BY <1>1, <2>2, Issued DEF Actor, Kind, Operation
  <2> QED BY <1>1, <2>1, <2>3, HostMoves
<1>6. CASE Identify(r)
  <2>1. SetHost(r, [h EXCEPT !.turn = "receipt"]) /\ Kept([h EXCEPT !.turn = "receipt"])
    BY <1>1, <1>6, DeliveryKeeps DEF Identify
  <2>2. Record("turn", r, "effect.receipt", "turn", None)
    BY <1>6 DEF Identify
  <2>3. inflight' \in Seq(Write)
    BY <1>1, <2>2, Issued DEF Actor, Kind, Operation
  <2> QED BY <1>1, <2>1, <2>3, HostMoves
<1>7. CASE ReportWorker(r)
  <2>1. Untouched(h)
    BY <1>7 DEF ReportWorker, At, LaunchInv, LaunchAt, Early
  <2>2. SetHost(r, [h EXCEPT !.turn = "starting"]) /\ Kept([h EXCEPT !.turn = "starting"])
    BY <1>1, <1>7, <2>1, DeliveryKeeps DEF ReportWorker
  <2>3. Record("turn", r, "worker.started", None, None)
    BY <1>7 DEF ReportWorker
  <2>4. inflight' \in Seq(Write)
    BY <1>1, <2>3, Issued DEF Actor, Kind
  <2> QED BY <1>1, <2>2, <2>4, HostMoves
<1>8. CASE Started(r)
  <2>1. SetHost(r, [h EXCEPT !.turn = "running"]) /\ Kept([h EXCEPT !.turn = "running"])
    BY <1>1, <1>8, DeliveryKeeps DEF Started, At
  <2> QED BY <1>1, <1>8, <2>1, HostMoves DEF Started
<1>9. CASE Complete(r)
  <2>1. PICK outcome \in Outcome, usage \in Usage :
            SetHost(r, [h EXCEPT !.turn = "closing", !.final = outcome, !.usage = usage,
                                 !.cancelled = FALSE, !.limit = "none",
                                 !.term = IF @ = "over" THEN "none" ELSE @])
    BY <1>9, Constants DEF Complete, Outcome
  <2>2. h.turn = "running" /\ UNCHANGED inflight
    BY <1>9 DEF Complete, At
  <2> QED BY <1>1, <2>1, <2>2, CompleteKeeps, HostMoves
<1>10. CASE Finalize(r)
  <2>1. SetHost(r, [h EXCEPT !.turn = "final", !.final = None])
        /\ Kept([h EXCEPT !.turn = "final", !.final = None])
    BY <1>1, <1>10, DeliveryKeeps DEF Finalize
  <2>2. PICK outcome \in Outcome : Record("turn", r, "provider.final", None, outcome)
    <3>1. h.turn \in {"failing", "closing"}
      BY <1>10 DEF Finalize, At
    <3>2. h.turn # "failing" => h.final \in Outcome
      BY <1>1, <3>1, HostFields DEF Sound
    <3>3. "interrupted_uncertain" \in Outcome
      BY DEF Outcome
    <3> QED BY <1>10, <3>2, <3>3 DEF Finalize
  <2>3. inflight' \in Seq(Write)
    BY <1>1, <2>2, Issued DEF Actor, Kind
  <2> QED BY <1>1, <2>1, <2>3, HostMoves
<1>11. CASE Settle(r)
  <2>1. SetHost(r, [h EXCEPT !.turn = "release", !.usage = "uncertain"])
        /\ Kept([h EXCEPT !.turn = "release", !.usage = "uncertain"])
    BY <1>1, <1>11, DeliveryKeeps DEF Settle
  <2>2. Record("turn", r, "reservation.released", None, h.usage) /\ h.usage \in Usage
    BY <1>1, <1>11, HostFields DEF Settle
  <2>3. inflight' \in Seq(Write)
    BY <1>1, <2>2, Issued DEF Actor, Kind
  <2> QED BY <1>1, <2>1, <2>3, HostMoves
<1>12. CASE DeliveryReturns(r)
  <2>1. SetHost(r, [h EXCEPT !.turn = "observe"]) /\ Kept([h EXCEPT !.turn = "observe"])
    BY <1>1, <1>12, DeliveryKeeps DEF DeliveryReturns
  <2> QED BY <1>1, <1>12, <2>1, HostMoves DEF DeliveryReturns
<1> QED BY <1>2, <1>3, <1>4, <1>5, <1>6, <1>7, <1>8, <1>9, <1>10, <1>11, <1>12 DEF DeliveryStep

LEMMA BeginTypes ==
    ASSUME TypeOK, HostSound, NEW r \in Runs, NEW why \in TerminationReason,
           NEW g \in Host, BeginAttempt(r, why, g),
           g.turn \in Active, g.owner # "observing",
           g.owner = "cancelling" \/ g.limit = "firing",
           g.prepared # None => g.limit # "none" \/ g.owner \in {"authorized", "awaiting"}
    PROVE  HostNext /\ QueueNext
<1>1. host \in [Runs -> Host] /\ inflight \in Seq(Write)
  BY DEF TypeOK
<1> USE DEF HostNext, QueueNext
<1>2. CASE g.prepared # None
  <2>1. SetHost(r, EndAttempt(g, "none")) /\ UNCHANGED inflight
    BY <1>2 DEF BeginAttempt
  <2>2. Kept(EndAttempt(g, "none"))
    BY BeginKeeps
  <2> QED BY <1>1, <2>1, <2>2, HostMoves
<1>3. CASE g.prepared = None /\ ledger[r].revoked
  <2>1. /\ SetHost(r, [g EXCEPT !.term = "intending", !.reason = why])
        /\ Record("term", r, "worker.termination.intended", why, None)
    BY <1>3 DEF BeginAttempt
  <2>2. Kept([g EXCEPT !.term = "intending", !.reason = why])
    BY <1>3, BeginKeeps
  <2>3. inflight' \in Seq(Write)
    BY <1>1, <2>1, Issued DEF Actor, Kind, Operation
  <2> QED BY <1>1, <2>1, <2>2, <2>3, HostMoves
<1>4. CASE g.prepared = None /\ ~ledger[r].revoked
  <2>1. /\ SetHost(r, [g EXCEPT !.term = "revoking", !.reason = why])
        /\ Record("term", r, "authority.revoked", None, None)
    BY <1>4 DEF BeginAttempt
  <2>2. Kept([g EXCEPT !.term = "revoking", !.reason = why])
    BY <1>4, BeginKeeps
  <2>3. inflight' \in Seq(Write)
    BY <1>1, <2>1, Issued DEF Actor, Kind
  <2> QED BY <1>1, <2>1, <2>2, <2>3, HostMoves
<1> QED BY <1>2, <1>3, <1>4

\* What CancelRun and LimitFires hand to BeginAttempt.
LEMMA Waiters ==
    ASSUME NEW h \in Host, Sound(h), h.turn \in Active
    PROVE  /\ h.owner = "idle" =>
                \E g \in Host : /\ g = [h EXCEPT !.owner = "cancelling"]
                                /\ g.turn = h.turn /\ g.owner = "cancelling"
                                /\ g.prepared # None => g.limit # "none"
                                /\ g.prepared = h.prepared /\ g.term = h.term
           /\ h.limit = "none" =>
                \E g \in Host : /\ g = [h EXCEPT !.limit = "firing"]
                                /\ g.turn = h.turn /\ g.limit = "firing"
                                /\ g.owner = h.owner /\ g.owner # "observing"
                                /\ g.prepared = h.prepared /\ g.term = h.term
<1>1. ASSUME h.owner = "idle", NEW g, g = [h EXCEPT !.owner = "cancelling"]
      PROVE  /\ g \in Host /\ g.turn = h.turn /\ g.owner = "cancelling"
             /\ g.prepared # None => g.limit # "none"
             /\ g.prepared = h.prepared /\ g.term = h.term
  <2>1. g \in Host
    BY <1>1 DEF Host, Cancel
  <2>2. /\ g.turn = h.turn /\ g.owner = "cancelling" /\ g.prepared = h.prepared
        /\ g.limit = h.limit /\ g.term = h.term
    BY <1>1 DEF Host
  <2> QED BY <1>1, <2>1, <2>2 DEF Sound
<1>2. ASSUME h.limit = "none", NEW g, g = [h EXCEPT !.limit = "firing"]
      PROVE  /\ g \in Host /\ g.turn = h.turn /\ g.limit = "firing"
             /\ g.owner = h.owner /\ g.owner # "observing"
             /\ g.prepared = h.prepared /\ g.term = h.term
  <2>1. g \in Host
    BY <1>2 DEF Host
  <2>2. /\ g.turn = h.turn /\ g.limit = "firing" /\ g.owner = h.owner
        /\ g.prepared = h.prepared /\ g.term = h.term
    BY <1>2 DEF Host
  <2> QED BY <1>2, <2>1, <2>2 DEF Sound
<1> QED BY <1>1, <1>2

LEMMA TerminationTypes ==
    ASSUME TypeOK, HostSound, NEW r \in Runs, TerminationStep(r)
    PROVE  HostNext /\ QueueNext
<1> DEFINE h == host[r]
<1>1. h \in Host /\ Sound(h) /\ host \in [Runs -> Host] /\ inflight \in Seq(Write)
  BY DEF TypeOK, HostSound
<1>2. /\ "cancelled" \in TerminationReason /\ "timeout" \in TerminationReason
      /\ \A x : x \in {"starting", "running"} <=> x \in Active
  BY DEF TerminationReason, Active
<1>3. CASE CancelRun(r)
  <2>1. h.owner = "idle"
    BY <1>3 DEF CancelRun
  <2>2. CASE h.turn \in Active /\ h.term = "none"
    <3>1. BeginAttempt(r, "cancelled", [h EXCEPT !.owner = "cancelling"])
      BY <1>2, <1>3, <2>2 DEF CancelRun
    <3>2. PICK g \in Host : /\ g = [h EXCEPT !.owner = "cancelling"]
                            /\ g.turn = h.turn /\ g.owner = "cancelling"
                            /\ g.prepared # None => g.limit # "none"
      BY <1>1, <2>1, <2>2, Waiters
    <3> QED BY <1>2, <2>2, <3>1, <3>2, BeginTypes
  <2>3. CASE h.turn \in Active /\ h.term # "none"
    <3>1. SetHost(r, [h EXCEPT !.owner = "joining"]) /\ UNCHANGED inflight
      BY <1>2, <1>3, <2>3 DEF CancelRun
    <3>2. Kept([h EXCEPT !.owner = "joining"])
      BY <1>1, <2>1, TerminationKeeps
    <3> QED BY <1>1, <3>1, <3>2, HostMoves DEF HostNext, QueueNext
  <2>4. CASE h.turn \notin Active
    <3>1. SetHost(r, [h EXCEPT !.owner = "observe"]) /\ UNCHANGED inflight
      BY <1>2, <1>3, <2>4 DEF CancelRun
    <3>2. Kept([h EXCEPT !.owner = "observe"])
      BY <1>1, <2>1, <2>4, TerminationKeeps
    <3> QED BY <1>1, <3>1, <3>2, HostMoves DEF HostNext, QueueNext
  <2> QED BY <2>2, <2>3, <2>4
<1>4. CASE LimitFires(r)
  <2>1. h.turn \in Active /\ h.limit = "none"
    BY <1>2, <1>4 DEF LimitFires
  <2>2. CASE h.term = "none"
    <3>1. BeginAttempt(r, "timeout", [h EXCEPT !.limit = "firing"])
      BY <1>4, <2>2 DEF LimitFires
    <3>2. PICK g \in Host : /\ g = [h EXCEPT !.limit = "firing"]
                            /\ g.turn = h.turn /\ g.limit = "firing" /\ g.owner # "observing"
      BY <1>1, <2>1, Waiters
    <3> QED BY <1>2, <2>1, <3>1, <3>2, BeginTypes
  <2>3. CASE h.term # "none"
    <3>1. PICK l \in {"firing", "done"} : SetHost(r, [h EXCEPT !.limit = l])
      BY <1>4, <2>3 DEF LimitFires
    <3>2. Kept([h EXCEPT !.limit = l]) /\ UNCHANGED inflight
      BY <1>1, <1>4, <2>1, <2>3, TerminationKeeps DEF LimitFires
    <3> QED BY <1>1, <3>1, <3>2, HostMoves DEF HostNext, QueueNext
  <2> QED BY <2>2, <2>3
<1>5. CASE IntendTermination(r)
  <2>1. h.term = "revoking"
    BY <1>5 DEF IntendTermination, AttemptAt
  <2>2. /\ SetHost(r, [h EXCEPT !.term = "intending"])
        /\ Record("term", r, "worker.termination.intended", h.reason, None)
    BY <1>5 DEF IntendTermination
  <2>3. Kept([h EXCEPT !.term = "intending"]) /\ h.reason \in TerminationReason
    BY <1>1, <2>1, TerminationKeeps, HostFields DEF Sound
  <2>4. inflight' \in Seq(Write)
    BY <1>1, <2>2, <2>3, Issued DEF Actor, Kind, Operation
  <2> QED BY <1>1, <2>2, <2>3, <2>4, HostMoves DEF HostNext, QueueNext
<1>6. CASE Prepare(r)
  <2>1. Kept([h EXCEPT !.term = "signal", !.prepared = h.reason,
                       !.cancelled = @ \/ h.reason = "cancelled",
                       !.owner = IF @ = "cancelling" THEN "authorized" ELSE @])
    BY <1>1, <1>6, PrepareKeeps DEF Prepare, AttemptAt
  <2> QED BY <1>1, <1>6, <2>1, HostMoves DEF Prepare, HostNext, QueueNext
<1>7. CASE Signal(r)
  <2>1. Kept([h EXCEPT !.term = "waiting"])
    BY <1>1, <1>7, TerminationKeeps DEF Signal
  <2> QED BY <1>1, <1>7, <2>1, HostMoves DEF Signal, HostNext, QueueNext
<1>8. CASE ExitConfirmed(r) \/ AttemptFails(r)
  <2>1. PICK how \in {"none", "over"} : SetHost(r, EndAttempt(h, how)) /\ UNCHANGED inflight
    BY <1>8 DEF ExitConfirmed, AttemptFails
  <2>2. Kept(EndAttempt(h, how))
    BY <1>1, EndAttemptKeeps DEF Sound
  <2> QED BY <1>1, <2>1, <2>2, HostMoves DEF HostNext, QueueNext
<1>9. CASE CancelReturns(r)
  <2>1. Kept([h EXCEPT !.owner = "observe"])
    BY <1>1, <1>9, TerminationKeeps DEF CancelReturns
  <2> QED BY <1>1, <1>9, <2>1, HostMoves DEF CancelReturns, HostNext, QueueNext
<1> QED BY <1>3, <1>4, <1>5, <1>6, <1>7, <1>8, <1>9 DEF TerminationStep

LEMMA ObservationTypes ==
    ASSUME TypeOK, HostSound, NEW r \in Runs, NEW who \in {"turn", "owner"},
           ObservationStep(r, who)
    PROVE  HostNext /\ QueueNext
<1> DEFINE h == host[r]
<1>1. h \in Host /\ Sound(h) /\ host \in [Runs -> Host] /\ inflight \in Seq(Write)
  BY DEF TypeOK, HostSound
<1> USE DEF HostNext, QueueNext
<1>2. CASE TakePreparation(r, who)
  <2>1. Kept([h EXCEPT ![who] = "observing", !.prepared = None, !.taken = h.prepared])
    BY <1>1, <1>2, ObservationKeeps DEF TakePreparation
  <2> QED BY <1>1, <1>2, <2>1, HostMoves DEF TakePreparation
<1>3. CASE NothingPrepared(r, who) \/ ObservationReturns(r, who)
  <2>1. SetHost(r, [h EXCEPT ![who] = "idle"]) /\ Kept([h EXCEPT ![who] = "idle"])
        /\ UNCHANGED inflight
    BY <1>1, <1>3, ObservationKeeps DEF NothingPrepared, ObservationReturns
  <2> QED BY <1>1, <2>1, HostMoves
<1>4. CASE ObserveExit(r, who)
  <2>1. SetHost(r, [h EXCEPT ![who] = "observed", !.taken = None])
        /\ Kept([h EXCEPT ![who] = "observed", !.taken = None])
    BY <1>1, <1>4, ObservationKeeps DEF ObserveExit
  <2>2. h.taken \in TerminationReason
    BY <1>1, <1>4, HostFields DEF ObserveExit, Sound
  <2>3. PICK outcome \in {"completed", "uncertain"} :
            Record(who, r, "worker.termination.observed", h.taken, outcome)
    BY <1>4 DEF ObserveExit
  <2>4. outcome \in Outcome \cup Usage
    BY DEF Outcome, Usage
  <2>5. inflight' \in Seq(Write)
    BY <1>1, <2>2, <2>3, <2>4, Issued DEF Actor, Kind, Operation
  <2> QED BY <1>1, <2>1, <2>5, HostMoves
<1>5. CASE KeepReservation(r, who)
  <2>1. SetHost(r, [h EXCEPT ![who] = "reserving"]) /\ Kept([h EXCEPT ![who] = "reserving"])
    BY <1>1, <1>5, ObservationKeeps DEF KeepReservation
  <2>2. Record(who, r, "reservation.released", None, "uncertain")
    BY <1>5 DEF KeepReservation
  <2>3. inflight' \in Seq(Write)
    BY <1>1, <2>2, Issued DEF Actor, Kind, Usage
  <2> QED BY <1>1, <2>1, <2>3, HostMoves
<1> QED BY <1>2, <1>3, <1>4, <1>5 DEF ObservationStep

LEMMA SoundIsKnown == HostSound => HostKnown
BY DEF HostSound, Sound, HostKnown

LEMMA TypeInit == Init => TypeOK /\ HostSound
<1> SUFFICES ASSUME Init PROVE TypeOK /\ HostSound
  OBVIOUS
<1>1. host \in [Runs -> Host] /\ HostSound
  BY FreshKept DEF Init, HostSound, Kept
<1>2. AbsentRun \in Snapshot
  BY DEF AbsentRun, Snapshot, RunState, Reservation
<1>3. <<>> \in Seq(Write)
  OBVIOUS
<1> QED BY <1>1, <1>2, <1>3, SoundIsKnown DEF Init, TypeOK, Proc

LEMMA TypeStep ==
    ASSUME TypeOK, HostSound, LaunchInv, [Next]_vars
    PROVE  TypeOK' /\ HostSound'
<1>1. /\ ledger \in [Runs -> Snapshot] /\ inflight \in Seq(Write) /\ proc \in [Runs -> Proc]
      /\ host \in [Runs -> Host] /\ up \in {"down", "recovering", "up"} /\ todo \subseteq Runs
      /\ outages \in Nat /\ spawns \in [Runs -> Nat] /\ signalled \in [Runs -> BOOLEAN]
  BY DEF TypeOK
<1> DEFINE Rest == /\ ledger' \in [Runs -> Snapshot] /\ proc' \in [Runs -> Proc]
                   /\ up' \in {"down", "recovering", "up"} /\ todo' \subseteq Runs
                   /\ outages' \in Nat /\ spawns' \in [Runs -> Nat]
                   /\ signalled' \in [Runs -> BOOLEAN]
<1>2. Rest /\ HostNext /\ QueueNext => TypeOK' /\ HostSound'
  <2>1. HostSound' => HostKnown'
    BY SoundIsKnown, PTL
  <2> QED BY <2>1 DEF TypeOK, HostNext, QueueNext
<1> USE DEF history, process
<1>3. CASE Commit
  <2>1. QueueNext /\ Head(inflight) \in Write
    BY <1>1, <1>3, Written DEF Commit, QueueNext
  <2>2. Head(inflight).run \in Runs
    BY <2>1, Writes
  <2>3. Apply(ledger[Head(inflight).run], Head(inflight)) \in Snapshot
    BY <1>1, <2>1, <2>2, ApplyGrows DEF Grows
  <2>4. ledger' \in [Runs -> Snapshot]
    BY <1>1, <1>3, <2>2, <2>3 DEF Commit
  <2>5. HostNext
    BY <1>1, <1>3 DEF Commit, HostNext, HostSound
  <2> QED BY <1>1, <1>2, <1>3, <2>1, <2>4, <2>5 DEF Commit
<1>4. ASSUME NEW r \in Runs, Admit(r) PROVE TypeOK' /\ HostSound'
  <2>1. Record("admit", r, "run.admitted", None, None)
    BY <1>4 DEF Admit
  <2>2. QueueNext
    BY <1>1, <2>1, Issued DEF Actor, Kind, QueueNext
  <2>3. HostNext
    BY <1>1, <1>4 DEF Admit, HostNext, HostSound
  <2> QED BY <1>1, <1>2, <1>4, <2>2, <2>3 DEF Admit
<1>5. ASSUME NEW r \in Runs, Exit(r) PROVE TypeOK' /\ HostSound'
  <2>1. HostNext /\ QueueNext
    BY <1>1, <1>5 DEF Exit, HostNext, QueueNext, HostSound
  <2>2. proc' \in [Runs -> Proc]
    BY <1>1, <1>5 DEF Exit, Proc
  <2> QED BY <1>1, <1>2, <1>5, <2>1, <2>2 DEF Exit
<1>6. ASSUME NEW r \in Runs, DeliveryStep(r) PROVE TypeOK' /\ HostSound'
  <2>1. HostNext /\ QueueNext
    BY <1>6, DeliveryTypes
  <2>2. proc' \in [Runs -> Proc] /\ spawns' \in [Runs -> Nat]
        /\ UNCHANGED <<ledger, process, signalled>>
    <3>1. CASE Launch(r)
      BY <1>1, <3>1 DEF Launch, Proc
    <3>2. CASE ~Launch(r)
      BY <1>1, <1>6, <3>2 DEF DeliveryStep, Deliver, Replay, LaunchFails, Identify,
           ReportWorker, Started, Complete, Finalize, Settle, DeliveryReturns
    <3> QED BY <3>1, <3>2
  <2> QED BY <1>1, <1>2, <2>1, <2>2
<1>7. ASSUME NEW r \in Runs, TerminationStep(r) PROVE TypeOK' /\ HostSound'
  <2>1. HostNext /\ QueueNext
    BY <1>7, TerminationTypes
  <2>2. signalled' \in [Runs -> BOOLEAN] /\ UNCHANGED <<ledger, proc, process, spawns>>
    BY <1>1, <1>7 DEF TerminationStep, CancelRun, LimitFires, IntendTermination, Prepare,
         Signal, ExitConfirmed, AttemptFails, CancelReturns
  <2> QED BY <1>1, <1>2, <2>1, <2>2
<1>8. ASSUME NEW r \in Runs, NEW who \in {"turn", "owner"}, ObservationStep(r, who)
      PROVE  TypeOK' /\ HostSound'
  <2>1. HostNext /\ QueueNext
    BY <1>8, ObservationTypes
  <2>2. UNCHANGED <<ledger, proc, process, history>>
    BY <1>8 DEF ObservationStep, TakePreparation, NothingPrepared, ObserveExit,
         KeepReservation, ObservationReturns
  <2> QED BY <1>1, <1>2, <2>1, <2>2
<1>9. CASE OutageStep
  <2>1. CASE Crash
    <3>1. HostNext /\ QueueNext
      BY <1>1, <2>1, FreshKept DEF Crash, HostNext, QueueNext, HostSound, Kept
    <3> QED BY <1>1, <1>2, <2>1, <3>1 DEF Crash
  <2>2. CASE Restart \/ Recovered
    <3>1. HostNext /\ QueueNext
      BY <1>1, <2>2 DEF Restart, Recovered, HostNext, QueueNext, HostSound
    <3> QED BY <1>1, <1>2, <2>2, <3>1 DEF Restart, Recovered
  <2>3. CASE Restore
    <3>1. HostNext /\ QueueNext
      BY <1>1, <2>3 DEF Restore, HostNext, QueueNext, HostSound
    <3>2. ledger' \in [Runs -> Snapshot]
      BY <1>1, <2>3, RequireGrows DEF Restore, Grows
    <3> QED BY <1>1, <1>2, <2>3, <3>1, <3>2 DEF Restore
  <2>4. ASSUME NEW r \in Runs, RecoverRun(r) PROVE TypeOK' /\ HostSound'
    <3>1. Record("recover", r, "effect.unresolved", None, None)
      BY <2>4 DEF RecoverRun
    <3>2. QueueNext
      BY <1>1, <3>1, Issued DEF Actor, Kind, QueueNext
    <3>3. HostNext
      BY <1>1, <2>4 DEF RecoverRun, HostNext, HostSound
    <3> QED BY <1>1, <1>2, <2>4, <3>2, <3>3 DEF RecoverRun
  <2>5. ASSUME NEW r \in Runs, NEW d \in Disposition, ResolveRun(r, d)
        PROVE  TypeOK' /\ HostSound'
    <3>1. HostNext /\ QueueNext
      BY <1>1, <2>5 DEF ResolveRun, HostNext, QueueNext, HostSound
    <3>2. ledger' \in [Runs -> Snapshot]
      BY <1>1, <2>5, ResolveGrows DEF ResolveRun, Grows
    <3> QED BY <1>1, <1>2, <2>5, <3>1, <3>2 DEF ResolveRun
  <2> QED BY <1>9, <2>1, <2>2, <2>3, <2>4, <2>5 DEF OutageStep
<1>10. CASE UNCHANGED vars
  BY <1>10 DEF vars, TypeOK, HostSound, HostKnown
<1> QED BY <1>3, <1>4, <1>5, <1>6, <1>7, <1>8, <1>9, <1>10 DEF Next

-----------------------------------------------------------------------------
\* Launches.

LEMMA Appended ==
    ASSUME inflight \in Seq(Write), inflight' \in Seq(Write), NEW e, inflight' = Append(inflight, e)
    PROVE  Unwritten' = Unwritten \cup {e}
<1> DEFINE S == Write \cup {e}
<1>1. inflight \in Seq(S)
  BY SeqMonotonic
<1>2. /\ Len(inflight') = Len(inflight) + 1
      /\ \A i \in 1..Len(inflight) : inflight'[i] = inflight[i]
      /\ inflight'[Len(inflight) + 1] = e
  BY <1>1, AppendProperties
<1>3. /\ Len(inflight) \in Nat
      /\ DOMAIN inflight = 1..Len(inflight) /\ DOMAIN inflight' = 1..(Len(inflight) + 1)
  BY <1>2, LenProperties
<1> QED BY <1>2, <1>3 DEF Unwritten

LEMMA Adds ==
    ASSUME inflight \in Seq(Write), inflight' \in Seq(Write),
           NEW by, NEW r, NEW kind, NEW op, NEW arg, Record(by, r, kind, op, arg)
    PROVE  \E e : /\ Unwritten' = Unwritten \cup {e}
                  /\ e.by = by /\ e.run = r /\ e.kind = kind /\ e.op = op /\ e.arg = arg
<1>1. inflight' = Append(inflight, Entry(by, r, kind, op, arg))
  BY DEF Record, Entry
<1>2. PICK e : e = Entry(by, r, kind, op, arg)
  OBVIOUS
<1>3. e.by = by /\ e.run = r /\ e.kind = kind /\ e.op = op /\ e.arg = arg
  BY <1>2 DEF Entry
<1>4. Unwritten' = Unwritten \cup {e}
  BY <1>1, <1>2, Appended
<1> QED BY <1>3, <1>4

\* A step that launches nothing and reports no worker keeps LaunchInv.
LEMMA QuietLaunch ==
    ASSUME LaunchInv, UNCHANGED <<ledger, spawns>>,
           Unwritten \subseteq Unwritten',
           \A e \in Unwritten' \ Unwritten : e.kind # "worker.started",
           \A q \in Runs : host'[q] # host[q] =>
               /\ Delivered(q) /\ host'[q].turn # "intent"
               /\ host'[q].turn \in Early => Untouched(host'[q]) /\ host[q].turn \in Early
    PROVE  LaunchInv'
<1>1. \A e \in Unwritten' : e.kind = "worker.started" => e \in Unwritten
  OBVIOUS
<1>2. ASSUME NEW q \in Runs PROVE LaunchAt(q)'
  <2>1. /\ Delivered(q)' = Delivered(q) /\ Admitted(ledger[q])' = Admitted(ledger[q])
        /\ spawns'[q] = spawns[q] /\ ledger'[q] = ledger[q]
    BY DEF Delivered
  <2>2. Pending("turn", q, "worker.started")' => Pending("turn", q, "worker.started")
    BY <1>1 DEF Pending
  <2>3. Pending("turn", q, "effect.intended") => Pending("turn", q, "effect.intended")'
    BY DEF Pending
  <2>4. LaunchAt(q)
    BY DEF LaunchInv
  <2> QED BY <2>1, <2>2, <2>3, <2>4 DEF LaunchAt, Untouched
<1> QED BY <1>1, <1>2 DEF LaunchInv

\* Whoever terminates or observes a worker has one to act on: its turn is
\* recorded and past its launch.
LEMMA Later ==
    ASSUME LaunchInv, NEW r \in Runs,
           ~Untouched(host[r]) \/ ledger[r].worker \/ host[r].turn \notin Early \cup {"idle"}
    PROVE  Delivered(r) /\ host[r].turn \notin Early
BY DEF LaunchInv, LaunchAt, Early

LEMMA TerminationFrame ==
    ASSUME TypeOK, TypeOK', LaunchInv, NEW r \in Runs, TerminationStep(r)
    PROVE  /\ UNCHANGED <<ledger, spawns>>
           /\ \A q \in Runs : host'[q] # host[q] => q = r
           /\ host'[r].turn = host[r].turn
           /\ Delivered(r) /\ host[r].turn \notin Early
           /\ Unwritten \subseteq Unwritten'
           /\ \A e \in Unwritten' \ Unwritten : e.by = "term" /\ e.kind # "worker.started"
<1> DEFINE h == host[r]
<1>1. /\ h \in Host /\ host \in [Runs -> Host]
      /\ inflight \in Seq(Write) /\ inflight' \in Seq(Write)
  BY DEF TypeOK
<1>2. UNCHANGED <<ledger, spawns>>
  BY DEF TerminationStep, CancelRun, LimitFires, IntendTermination, Prepare, Signal,
         ExitConfirmed, AttemptFails, CancelReturns, history
<1>3. ASSUME NEW g \in Host PROVE EndAttempt(g, "none").turn = g.turn /\ EndAttempt(g, "over").turn = g.turn
  BY <1>3 DEF EndAttempt, Host
<1>4. ASSUME NEW g \in Host, g.turn = h.turn, NEW why, BeginAttempt(r, why, g)
      PROVE  /\ \E k : SetHost(r, k) /\ k.turn = h.turn
             /\ UNCHANGED inflight \/ \E kind, op : /\ Record("term", r, kind, op, None)
                                                   /\ kind # "worker.started"
  <2>1. CASE g.prepared # None
    BY <1>3, <1>4, <2>1 DEF BeginAttempt
  <2>2. CASE g.prepared = None /\ ledger[r].revoked
    <3>1. [g EXCEPT !.term = "intending", !.reason = why].turn = g.turn
      BY DEF Host
    <3>2. /\ SetHost(r, [g EXCEPT !.term = "intending", !.reason = why])
          /\ Record("term", r, "worker.termination.intended", why, None)
      BY <1>4, <2>2 DEF BeginAttempt
    <3>3. "worker.termination.intended" # "worker.started"
      OBVIOUS
    <3> QED BY <1>4, <3>1, <3>2, <3>3
  <2>3. CASE g.prepared = None /\ ~ledger[r].revoked
    <3>1. [g EXCEPT !.term = "revoking", !.reason = why].turn = g.turn
      BY DEF Host
    <3>2. /\ SetHost(r, [g EXCEPT !.term = "revoking", !.reason = why])
          /\ Record("term", r, "authority.revoked", None, None)
      BY <1>4, <2>3 DEF BeginAttempt
    <3>3. "authority.revoked" # "worker.started"
      OBVIOUS
    <3> QED BY <1>4, <3>1, <3>2, <3>3
  <2> QED BY <2>1, <2>2, <2>3
<1>5. /\ \E k : SetHost(r, k) /\ k.turn = h.turn
      /\ UNCHANGED inflight \/ \E kind, op : /\ Record("term", r, kind, op, None)
                                            /\ kind # "worker.started"
  <2>1. /\ [h EXCEPT !.owner = "cancelling"] \in Host
        /\ [h EXCEPT !.owner = "cancelling"].turn = h.turn
        /\ [h EXCEPT !.owner = "joining"].turn = h.turn
        /\ [h EXCEPT !.owner = "observe"].turn = h.turn
    BY <1>1 DEF Host, Cancel
  <2>2. /\ [h EXCEPT !.limit = "firing"] \in Host
        /\ [h EXCEPT !.limit = "firing"].turn = h.turn
        /\ \A l : [h EXCEPT !.limit = l].turn = h.turn
    BY <1>1 DEF Host
  <2>3. \A tm : [h EXCEPT !.term = tm].turn = h.turn
    BY <1>1 DEF Host
  <2>4. CASE CancelRun(r)
    <3>1. CASE BeginAttempt(r, "cancelled", [h EXCEPT !.owner = "cancelling"])
      BY <1>4, <2>1, <3>1
    <3>2. CASE ~BeginAttempt(r, "cancelled", [h EXCEPT !.owner = "cancelling"])
      BY <2>1, <2>4, <3>2 DEF CancelRun
    <3> QED BY <3>1, <3>2
  <2>5. CASE LimitFires(r)
    <3>1. CASE BeginAttempt(r, "timeout", [h EXCEPT !.limit = "firing"])
      BY <1>4, <2>2, <3>1
    <3>2. CASE ~BeginAttempt(r, "timeout", [h EXCEPT !.limit = "firing"])
      BY <2>2, <2>5, <3>2 DEF LimitFires
    <3> QED BY <3>1, <3>2
  <2>6. CASE IntendTermination(r)
    <3>1. /\ SetHost(r, [h EXCEPT !.term = "intending"])
          /\ Record("term", r, "worker.termination.intended", h.reason, None)
      BY <2>6 DEF IntendTermination
    <3>2. "worker.termination.intended" # "worker.started"
      OBVIOUS
    <3> QED BY <2>3, <3>1, <3>2
  <2>7. CASE Prepare(r)
    <3>1. [h EXCEPT !.term = "signal", !.prepared = h.reason,
                    !.cancelled = @ \/ h.reason = "cancelled",
                    !.owner = IF @ = "cancelling" THEN "authorized" ELSE @].turn = h.turn
      BY <1>1 DEF Host
    <3> QED BY <2>7, <3>1 DEF Prepare
  <2>8. CASE Signal(r)
    BY <2>3, <2>8 DEF Signal
  <2>9. CASE ExitConfirmed(r) \/ AttemptFails(r)
    BY <1>1, <1>3, <2>9 DEF ExitConfirmed, AttemptFails
  <2>10. CASE CancelReturns(r)
    BY <2>1, <2>10 DEF CancelReturns
  <2> QED BY <2>4, <2>5, <2>6, <2>7, <2>8, <2>9, <2>10 DEF TerminationStep
<1>6. Delivered(r) /\ h.turn \notin Early
  <2>1. ~Untouched(h) \/ ledger[r].worker \/ h.turn = "running"
    BY DEF TerminationStep, CancelRun, LimitFires, IntendTermination, Prepare, Signal,
           ExitConfirmed, AttemptFails, CancelReturns, AttemptAt, Untouched
  <2> QED BY <2>1, Later DEF Early
<1>7. /\ Unwritten \subseteq Unwritten'
      /\ \A e \in Unwritten' \ Unwritten : e.by = "term" /\ e.kind # "worker.started"
  <2>1. CASE UNCHANGED inflight
    BY <2>1 DEF Unwritten
  <2>2. ASSUME NEW kind, NEW op, Record("term", r, kind, op, None), kind # "worker.started"
        PROVE  /\ Unwritten \subseteq Unwritten'
               /\ \A e \in Unwritten' \ Unwritten : e.by = "term" /\ e.kind # "worker.started"
    BY <1>1, <2>2, Adds
  <2> QED BY <1>5, <2>1, <2>2
<1> QED BY <1>1, <1>2, <1>5, <1>6, <1>7 DEF SetHost

LEMMA ObservationFrame ==
    ASSUME TypeOK, TypeOK', LaunchInv, NEW r \in Runs, NEW who \in {"turn", "owner"},
           ObservationStep(r, who)
    PROVE  /\ UNCHANGED <<ledger, spawns, signalled>>
           /\ \A q \in Runs : host'[q] # host[q] => q = r
           /\ host'[r].turn \notin Early /\ Delivered(r)
           /\ host'[r].term = host[r].term /\ host'[r].reason = host[r].reason
           /\ Unwritten \subseteq Unwritten'
           /\ \A e \in Unwritten' \ Unwritten : e.kind # "worker.started"
<1> DEFINE h == host[r]
<1>1. /\ h \in Host /\ host \in [Runs -> Host]
      /\ inflight \in Seq(Write) /\ inflight' \in Seq(Write)
  BY DEF TypeOK
<1>2. UNCHANGED <<ledger, spawns, signalled>>
  BY DEF ObservationStep, TakePreparation, NothingPrepared, ObserveExit, KeepReservation,
         ObservationReturns, history
<1>3. /\ h[who] \in {"observe", "observing", "observed", "reserving"}
      /\ \E to \in {"idle", "observing", "observed", "reserving"} : \E pr, tk :
             SetHost(r, [h EXCEPT ![who] = to, !.prepared = pr, !.taken = tk])
  <2>1. ASSUME NEW to, SetHost(r, [h EXCEPT ![who] = to])
        PROVE  SetHost(r, [h EXCEPT ![who] = to, !.prepared = h.prepared, !.taken = h.taken])
    <3>1. [h EXCEPT ![who] = to]
          = [h EXCEPT ![who] = to, !.prepared = h.prepared, !.taken = h.taken]
      BY <1>1 DEF Host
    <3> QED BY <2>1, <3>1
  <2>2. ASSUME NEW to, SetHost(r, [h EXCEPT ![who] = to, !.taken = None])
        PROVE  SetHost(r, [h EXCEPT ![who] = to, !.prepared = h.prepared, !.taken = None])
    <3>1. [h EXCEPT ![who] = to, !.taken = None]
          = [h EXCEPT ![who] = to, !.prepared = h.prepared, !.taken = None]
      BY <1>1 DEF Host
    <3> QED BY <2>2, <3>1
  <2>3. CASE TakePreparation(r, who)
    BY <2>3 DEF TakePreparation
  <2>4. CASE NothingPrepared(r, who) \/ ObservationReturns(r, who)
    <3>1. SetHost(r, [h EXCEPT ![who] = "idle"]) /\ h[who] \in {"observe", "reserving"}
      BY <2>4 DEF NothingPrepared, ObservationReturns
    <3> QED BY <2>1, <3>1
  <2>5. CASE ObserveExit(r, who)
    <3>1. SetHost(r, [h EXCEPT ![who] = "observed", !.taken = None]) /\ h[who] = "observing"
      BY <2>5 DEF ObserveExit
    <3> QED BY <2>2, <3>1
  <2>6. CASE KeepReservation(r, who)
    <3>1. SetHost(r, [h EXCEPT ![who] = "reserving"]) /\ h[who] = "observed"
      BY <2>6 DEF KeepReservation
    <3> QED BY <2>1, <3>1
  <2> QED BY <2>3, <2>4, <2>5, <2>6 DEF ObservationStep
<1>4. Delivered(r) /\ h.turn \notin Early
  <2>1. CASE who = "turn"
    BY <1>3, <2>1, Later DEF Early
  <2>2. CASE who = "owner"
    BY <1>3, <2>2, Later DEF Untouched
  <2> QED BY <2>1, <2>2
<1>5. PICK to \in {"idle", "observing", "observed", "reserving"} : \E pr, tk :
          host' = [host EXCEPT ![r] = [h EXCEPT ![who] = to, !.prepared = pr, !.taken = tk]]
  BY <1>3 DEF SetHost
<1>50. PICK pr, tk :
          host' = [host EXCEPT ![r] = [h EXCEPT ![who] = to, !.prepared = pr, !.taken = tk]]
  BY <1>5
<1>6. /\ host'[r].turn = to \/ host'[r].turn = h.turn
      /\ host'[r].term = h.term /\ host'[r].reason = h.reason
  <2>1. CASE who = "turn"
    BY <1>1, <1>50, <2>1 DEF Host
  <2>2. CASE who = "owner"
    BY <1>1, <1>50, <2>2 DEF Host
  <2> QED BY <2>1, <2>2
<1>7. host'[r].turn \notin Early /\ \A q \in Runs : host'[q] # host[q] => q = r
  BY <1>1, <1>4, <1>50, <1>6 DEF Early
<1>8. /\ Unwritten \subseteq Unwritten'
      /\ \A e \in Unwritten' \ Unwritten : e.kind # "worker.started"
  <2>1. CASE UNCHANGED inflight
    BY <2>1 DEF Unwritten
  <2>2. CASE ObserveExit(r, who)
    <3>1. PICK outcome : Record(who, r, "worker.termination.observed", h.taken, outcome)
      BY <2>2 DEF ObserveExit
    <3> QED BY <1>1, <3>1, Adds
  <2>3. CASE KeepReservation(r, who)
    <3>1. Record(who, r, "reservation.released", None, "uncertain")
      BY <2>3 DEF KeepReservation
    <3> QED BY <1>1, <3>1, Adds
  <2> QED BY <2>1, <2>2, <2>3 DEF ObservationStep, TakePreparation, NothingPrepared,
         ObservationReturns
<1> QED BY <1>2, <1>4, <1>6, <1>7, <1>8

\* A delivery touches what it has to, and launches after its intent only.
LEMMA DeliveryFrame ==
    ASSUME TypeOK, TypeOK', NEW r \in Runs, DeliveryStep(r)
    PROVE  /\ UNCHANGED <<ledger, signalled>>
           /\ \A q \in Runs : host'[q] # host[q] => q = r
           /\ host'[r].reason = host[r].reason
           /\ host'[r].term # host[r].term => host[r].turn = "running" /\ host'[r].term = "none"
           /\ host'[r].prepared = host[r].prepared /\ host'[r].owner = host[r].owner
           /\ Unwritten \subseteq Unwritten'
           /\ \A e \in Unwritten' \ Unwritten :
                  e.by = "turn" /\ (e.kind = "worker.started" => ReportWorker(r))
<1> DEFINE h == host[r]
<1>1. /\ h \in Host /\ host \in [Runs -> Host]
      /\ inflight \in Seq(Write) /\ inflight' \in Seq(Write)
  BY DEF TypeOK
<1>2. UNCHANGED <<ledger, signalled>>
  BY DEF DeliveryStep, Deliver, Replay, Launch, LaunchFails, Identify, ReportWorker, Started,
         Complete, Finalize, Settle, DeliveryReturns, history
<1>3. CASE Complete(r)
  <2>1. PICK outcome, usage :
            SetHost(r, [h EXCEPT !.turn = "closing", !.final = outcome, !.usage = usage,
                                 !.cancelled = FALSE, !.limit = "none",
                                 !.term = IF @ = "over" THEN "none" ELSE @])
    BY <1>3 DEF Complete
  <2>2. UNCHANGED inflight /\ h.turn = "running"
    BY <1>3 DEF Complete, At
  <2>3. PICK tm : tm = IF h.term = "over" THEN "none" ELSE h.term
    OBVIOUS
  <2>4. host' = [host EXCEPT ![r] = [h EXCEPT !.turn = "closing", !.final = outcome,
                 !.usage = usage, !.cancelled = FALSE, !.limit = "none", !.term = tm]]
    BY <2>1, <2>3 DEF SetHost
  <2>5. /\ host'[r].reason = h.reason /\ host'[r].term = tm
        /\ host'[r].prepared = h.prepared /\ host'[r].owner = h.owner
        /\ \A q \in Runs : host'[q] # host[q] => q = r
    BY <1>1, <2>4 DEF Host
  <2> QED BY <1>2, <2>2, <2>3, <2>5 DEF Unwritten
<1>4. CASE ~Complete(r)
  <2>1. \E turn, final, usage :
            host' = [host EXCEPT ![r] = [h EXCEPT !.turn = turn, !.final = final, !.usage = usage]]
    <3>1. \/ \E turn : SetHost(r, [h EXCEPT !.turn = turn])
          \/ \E turn : SetHost(r, [h EXCEPT !.turn = turn, !.final = None])
          \/ \E turn : SetHost(r, [h EXCEPT !.turn = turn, !.usage = "uncertain"])
      BY <1>4 DEF DeliveryStep, Deliver, Replay, Launch, LaunchFails, Identify, ReportWorker,
              Started, Finalize, Settle, DeliveryReturns
    <3>2. ASSUME NEW turn PROVE
            /\ [h EXCEPT !.turn = turn]
               = [h EXCEPT !.turn = turn, !.final = h.final, !.usage = h.usage]
            /\ [h EXCEPT !.turn = turn, !.final = None]
               = [h EXCEPT !.turn = turn, !.final = None, !.usage = h.usage]
            /\ [h EXCEPT !.turn = turn, !.usage = "uncertain"]
               = [h EXCEPT !.turn = turn, !.final = h.final, !.usage = "uncertain"]
      BY <1>1 DEF Host
    <3>3. CASE \E turn : SetHost(r, [h EXCEPT !.turn = turn])
      <4>1. PICK turn : host' = [host EXCEPT ![r] = [h EXCEPT !.turn = turn]]
        BY <3>3 DEF SetHost
      <4>2. host' = [host EXCEPT ![r] = [h EXCEPT !.turn = turn, !.final = h.final, !.usage = h.usage]]
        BY <3>2, <4>1
      <4> QED BY <4>2
    <3>4. CASE \E turn : SetHost(r, [h EXCEPT !.turn = turn, !.final = None])
      <4>1. PICK turn : host' = [host EXCEPT ![r] = [h EXCEPT !.turn = turn, !.final = None]]
        BY <3>4 DEF SetHost
      <4>2. host' = [host EXCEPT ![r] = [h EXCEPT !.turn = turn, !.final = None, !.usage = h.usage]]
        BY <3>2, <4>1
      <4> QED BY <4>2
    <3>5. CASE \E turn : SetHost(r, [h EXCEPT !.turn = turn, !.usage = "uncertain"])
      <4>1. PICK turn : host' = [host EXCEPT ![r] = [h EXCEPT !.turn = turn, !.usage = "uncertain"]]
        BY <3>5 DEF SetHost
      <4>2. host' = [host EXCEPT ![r] = [h EXCEPT !.turn = turn, !.final = h.final, !.usage = "uncertain"]]
        BY <3>2, <4>1
      <4> QED BY <4>2
    <3> QED BY <3>1, <3>3, <3>4, <3>5
  <2>2. /\ host'[r].reason = h.reason /\ host'[r].term = h.term
        /\ host'[r].prepared = h.prepared /\ host'[r].owner = h.owner
        /\ \A q \in Runs : host'[q] # host[q] => q = r
    BY <1>1, <2>1 DEF Host
  <2>3. \/ UNCHANGED inflight
        \/ \E kind, op, arg : /\ Record("turn", r, kind, op, arg)
                              /\ kind = "worker.started" => ReportWorker(r)
    BY <1>4 DEF DeliveryStep, Deliver, Replay, Launch, LaunchFails, Identify, ReportWorker,
            Started, Finalize, Settle, DeliveryReturns
  <2>4. ASSUME NEW kind, NEW op, NEW arg, Record("turn", r, kind, op, arg),
               kind = "worker.started" => ReportWorker(r)
        PROVE  /\ Unwritten \subseteq Unwritten'
               /\ \A e \in Unwritten' \ Unwritten :
                      e.by = "turn" /\ (e.kind = "worker.started" => ReportWorker(r))
    BY <1>1, <2>4, Adds
  <2>5. UNCHANGED inflight => Unwritten' = Unwritten
    BY DEF Unwritten
  <2> QED BY <1>2, <2>2, <2>3, <2>4, <2>5
<1> QED BY <1>3, <1>4

LEMMA DeliveryLaunches ==
    ASSUME TypeOK, TypeOK', LaunchInv, NEW r \in Runs, DeliveryStep(r)
    PROVE  LaunchInv'
<1> DEFINE h == host[r]
<1>1. /\ h \in Host /\ host \in [Runs -> Host] /\ spawns \in [Runs -> Nat] /\ LaunchAt(r)
      /\ inflight \in Seq(Write) /\ inflight' \in Seq(Write)
  BY DEF TypeOK, LaunchInv
<1>2. /\ ledger' = ledger
      /\ \A q \in Runs : host'[q] # host[q] => q = r
      /\ host'[r].prepared = h.prepared /\ host'[r].owner = h.owner
      /\ host'[r].term # h.term => h.turn = "running" /\ host'[r].term = "none"
      /\ Unwritten \subseteq Unwritten'
      /\ \A e \in Unwritten' \ Unwritten :
             e.by = "turn" /\ (e.kind = "worker.started" => ReportWorker(r))
  BY DeliveryFrame
\* The run itself: others keep what they had, as the ledger is unchanged.
<1>3. ASSUME LaunchAt(r)', \A q \in Runs : q # r => spawns'[q] = spawns[q],
             ~ReportWorker(r) \/ \A e \in Unwritten' \ Unwritten : e.run = r
      PROVE  LaunchInv'
  <2>1. \A e \in Unwritten' : e.kind = "worker.started" => e.by = "turn"
    BY <1>2 DEF LaunchInv
  <2>2. ASSUME NEW q \in Runs, q # r PROVE LaunchAt(q)'
    <3>1. /\ Delivered(q)' = Delivered(q) /\ spawns'[q] = spawns[q]
          /\ ledger'[q] = ledger[q] /\ host'[q] = host[q]
      BY <1>2, <1>3, <2>2 DEF Delivered
    <3>2. Pending("turn", q, "worker.started")' => Pending("turn", q, "worker.started")
      BY <1>2, <1>3, <2>2 DEF Pending
    <3>3. Pending("turn", q, "effect.intended") => Pending("turn", q, "effect.intended")'
      BY <1>2 DEF Pending
    <3>4. LaunchAt(q)
      BY DEF LaunchInv
    <3> QED BY <3>1, <3>2, <3>3, <3>4 DEF LaunchAt, Untouched, Admitted
  <2> QED BY <1>3, <2>1, <2>2 DEF LaunchInv
<1>4. CASE Deliver(r)
  <2>1. h.turn = "idle" /\ ~Delivered(r) /\ Admitted(ledger[r]) /\ spawns' = spawns
    BY <1>4 DEF Deliver, MayDeliver, history
  <2>2. spawns[r] = 0 /\ Untouched(h) /\ ~ledger[r].worker
        /\ ~Pending("turn", r, "worker.started")
    BY <1>1, <2>1 DEF LaunchAt
  <2>3. host'[r].turn = "intent"
    BY <1>1, <1>4 DEF Deliver, SetHost, Host
  <2>4. Untouched(host'[r])
    BY <1>2, <2>1, <2>2 DEF Untouched
  <2>5. Record("turn", r, "effect.intended", "turn", None)
    BY <1>4 DEF Deliver
  <2>6. PICK e : /\ Unwritten' = Unwritten \cup {e}
                 /\ e.by = "turn" /\ e.run = r /\ e.kind = "effect.intended" /\ e.op = "turn"
    BY <1>1, <2>5, Adds
  <2>7. Pending("turn", r, "effect.intended")' /\ ~Pending("turn", r, "worker.started")'
    BY <2>2, <2>6 DEF Pending
  <2>8. LaunchAt(r)'
    BY <1>2, <2>1, <2>2, <2>3, <2>4, <2>7 DEF LaunchAt, Delivered, Admitted
  <2> QED BY <1>3, <2>1, <2>6, <2>8
<1>5. CASE Launch(r)
  <2>1. h.turn = "intent" /\ ~Awaits("turn", r) /\ UNCHANGED inflight
        /\ spawns' = [spawns EXCEPT ![r] = @ + 1]
    BY <1>5 DEF Launch, At
  <2>2. Delivered(r) /\ Admitted(ledger[r]) /\ spawns'[r] = 1
    BY <1>1, <2>1 DEF LaunchAt, Awaits, Pending
  <2>3. Untouched(h) /\ ~ledger[r].worker /\ ~Pending("turn", r, "worker.started")
    BY <1>1, <2>1 DEF LaunchAt, Early
  <2>4. host'[r].turn = "spawned"
    BY <1>1, <1>5 DEF Launch, SetHost, Host
  <2>5. Untouched(host'[r]) /\ ~Pending("turn", r, "worker.started")'
    BY <1>2, <2>1, <2>3 DEF Untouched, Pending, Unwritten
  <2>6. LaunchAt(r)'
    BY <1>2, <2>2, <2>3, <2>4, <2>5 DEF LaunchAt, Delivered, Admitted
  <2>7. ~ReportWorker(r)
    BY <2>1 DEF ReportWorker, At
  <2> QED BY <1>1, <1>3, <2>1, <2>6, <2>7
<1>6. CASE ReportWorker(r)
  <2>1. h.turn = "receipt" /\ Record("turn", r, "worker.started", None, None) /\ spawns' = spawns
    BY <1>6 DEF ReportWorker, At, history
  <2>2. Delivered(r) /\ Admitted(ledger[r])
    BY <1>1, <2>1 DEF LaunchAt
  <2>3. host'[r].turn = "starting"
    BY <1>1, <1>6 DEF ReportWorker, SetHost, Host
  <2>4. LaunchAt(r)'
    BY <1>1, <1>2, <2>1, <2>2, <2>3 DEF LaunchAt, Delivered, Admitted, Early
  <2>5. \A e \in Unwritten' \ Unwritten : e.run = r
    BY <1>1, <2>1, Adds
  <2> QED BY <1>3, <2>1, <2>4, <2>5
<1>7. CASE ~Deliver(r) /\ ~Launch(r) /\ ~ReportWorker(r)
  <2>1. UNCHANGED <<ledger, spawns>>
    BY <1>2, <1>7 DEF DeliveryStep, Replay, LaunchFails, Identify, Started,
            Complete, Finalize, Settle, DeliveryReturns, history
  <2>2. Delivered(r)
    <3>1. h.turn \notin {"idle", "intent"} \/ Delivered(r) \/ (h.turn = "intent" /\ ~Awaits("turn", r))
      BY <1>7 DEF DeliveryStep, Replay, LaunchFails, Identify, Started, At,
              Complete, Finalize, Settle, DeliveryReturns
    <3> QED BY <1>1, <3>1 DEF LaunchAt, Awaits, Pending
  <2>3. /\ host'[r].turn # "intent"
        /\ host'[r].turn \in Early => h.turn \in Early
    <3>1. CASE Identify(r)
      <4>1. h.turn = "spawned" /\ host'[r].turn = "receipt"
        BY <1>1, <3>1 DEF Identify, At, SetHost, Host
      <4> QED BY <4>1 DEF Early
    <3>2. CASE Complete(r)
      <4>1. host'[r].turn = "closing"
        BY <1>1, <3>2 DEF Complete, SetHost, Host
      <4> QED BY <4>1 DEF Early
    <3>3. CASE Replay(r) \/ LaunchFails(r) \/ Started(r)
      <4>1. host'[r].turn \in {"observe", "failing", "running"}
        BY <1>1, <3>3 DEF Replay, LaunchFails, Started, SetHost, Host
      <4> QED BY <4>1 DEF Early
    <3>4. CASE Finalize(r) \/ Settle(r) \/ DeliveryReturns(r)
      <4>1. host'[r].turn \in {"final", "release", "observe"}
        BY <1>1, <3>4 DEF Finalize, Settle, DeliveryReturns, SetHost, Host
      <4> QED BY <4>1 DEF Early
    <3> QED BY <1>7, <3>1, <3>2, <3>3, <3>4 DEF DeliveryStep
  <2>4. host'[r].turn \in Early => Untouched(host'[r])
    BY <1>1, <1>2, <2>3 DEF LaunchAt, Untouched, Early
  <2> QED BY <1>2, <1>7, <2>1, <2>2, <2>3, <2>4, QuietLaunch
<1> QED BY <1>4, <1>5, <1>6, <1>7

LEMMA LaunchInit == Init => LaunchInv
<1> SUFFICES ASSUME Init PROVE LaunchInv
  OBVIOUS
<1>1. Unwritten = {}
  BY DEF Init, Unwritten
<1>2. ASSUME NEW r \in Runs PROVE LaunchAt(r)
  BY <1>1, FreshKept DEF Init, LaunchAt, Delivered, AbsentRun, Pending, Early
<1> QED BY <1>1, <1>2 DEF LaunchInv

\* Records that are lost, and snapshots that only grow.
LEMMA LedgerLaunch ==
    ASSUME TypeOK, LaunchInv, spawns' = spawns, Unwritten' \subseteq Unwritten,
           \A q \in Runs : /\ Grows(ledger[q], ledger'[q])
                           /\ ledger'[q].worker =>
                                  ledger[q].worker \/ Pending("turn", q, "worker.started")
                           /\ Delivered(q)' => Admitted(ledger'[q])
                           /\ \/ /\ host'[q] = host[q]
                                 /\ Pending("turn", q, "effect.intended") =>
                                        \/ Pending("turn", q, "effect.intended")'
                                        \/ Delivered(q)'
                                        \/ ~Admitted(ledger[q])
                              \/ host'[q] = FreshHost
    PROVE  LaunchInv'
<1>1. ASSUME NEW q \in Runs PROVE LaunchAt(q)'
  <2>1. LaunchAt(q)
    BY DEF LaunchInv
  <2>2. Delivered(q) => Delivered(q)'
    BY DEF Delivered, Grows
  <2>3. Admitted(ledger[q]) => Admitted(ledger'[q])
    BY DEF Grows
  <2>4. Pending("turn", q, "worker.started")' => Pending("turn", q, "worker.started")
    BY DEF Pending
  <2>5. host'[q] = host[q] => LaunchAt(q)'
    BY <2>1, <2>2, <2>3, <2>4, FreshKept DEF LaunchAt, Untouched, Early, Admitted
  <2>6. host'[q] = FreshHost => LaunchAt(q)'
    BY <2>1, <2>2, <2>4, FreshKept DEF LaunchAt, Untouched, Early, Admitted
  <2> QED BY <2>5, <2>6
<1> QED BY <1>1 DEF LaunchInv

LEMMA CommitLedger ==
    ASSUME TypeOK, Commit, NEW q \in Runs
    PROVE  /\ Grows(ledger[q], ledger'[q])
           /\ \A e \in Unwritten : e.run = q /\ e \notin Unwritten' =>
                  /\ ledger'[q].worker => ledger[q].worker \/ e.kind = "worker.started"
                  /\ Admitted(ledger[q])
                         /\ e.kind \in {"effect.intended", "worker.termination.intended"} =>
                         e.op \in ledger'[q].intended
                  /\ Admitted(ledger[q]) /\ e.kind = "authority.revoked" => ledger'[q].revoked
           /\ ledger'[q].worker =>
                  ledger[q].worker \/ \E e \in Unwritten : e.run = q /\ e.kind = "worker.started"
           /\ ~Admitted(ledger[q]) => ledger'[q].intended = ledger[q].intended
           /\ Unwritten' \subseteq Unwritten
           /\ UNCHANGED <<host, spawns, signalled>>
<1> DEFINE e == Head(inflight)
<1>1. ledger \in [Runs -> Snapshot] /\ inflight \in Seq(Write)
  BY DEF TypeOK
<1>2. /\ inflight # <<>> /\ inflight' = Tail(inflight)
      /\ ledger' = [ledger EXCEPT ![e.run] = Apply(@, e)]
      /\ UNCHANGED <<host, spawns, signalled>>
  BY DEF Commit, history
<1>3. /\ e \in Write /\ e \in Unwritten /\ Unwritten' \subseteq Unwritten
      /\ Unwritten \subseteq Unwritten' \cup {e}
  BY <1>1, <1>2, Written
<1> HIDE DEF e
<1>4. CASE q = e.run
  <2>1. ledger'[q] = Apply(ledger[q], e) /\ ledger[q] \in Snapshot
    BY <1>1, <1>2, <1>4
  <2>2. /\ Grows(ledger[q], ledger'[q])
        /\ ledger'[q].worker => ledger[q].worker \/ e.kind = "worker.started"
        /\ Admitted(ledger[q]) /\ e.kind \in {"effect.intended", "worker.termination.intended"} =>
               e.op \in ledger'[q].intended
        /\ Admitted(ledger[q]) /\ e.kind = "authority.revoked" => ledger'[q].revoked
        /\ ~Admitted(ledger[q]) => ledger'[q].intended = ledger[q].intended
    BY <1>3, <2>1, ApplyGrows
  <2> QED BY <1>2, <1>3, <1>4, <2>2
<1>5. CASE q # e.run
  <2>1. ledger'[q] = ledger[q] /\ ledger[q] \in Snapshot
    BY <1>1, <1>2, <1>5
  <2> QED BY <1>2, <1>3, <1>5, <2>1 DEF Grows
<1> QED BY <1>4, <1>5

LEMMA LaunchStep ==
    ASSUME TypeOK, TypeOK', LaunchInv, [Next]_vars
    PROVE  LaunchInv'
<1>1. /\ ledger \in [Runs -> Snapshot] /\ inflight \in Seq(Write) /\ inflight' \in Seq(Write)
      /\ host \in [Runs -> Host]
  BY DEF TypeOK
<1>2. CASE Commit
  <2>1. spawns' = spawns /\ host' = host
    BY <1>2 DEF Commit, history
  <2>2. Unwritten' \subseteq Unwritten
    BY <1>1, <1>2, Written DEF Commit
  <2>3. ASSUME NEW q \in Runs
        PROVE  /\ Grows(ledger[q], ledger'[q])
               /\ ledger'[q].worker => ledger[q].worker \/ Pending("turn", q, "worker.started")
               /\ Delivered(q)' => Admitted(ledger'[q])
               /\ Pending("turn", q, "effect.intended") =>
                      Pending("turn", q, "effect.intended")' \/ Delivered(q)'
                      \/ ~Admitted(ledger[q])
    <3>1. Grows(ledger[q], ledger'[q])
      BY <1>2, CommitLedger
    <3>2. ledger'[q].worker => ledger[q].worker \/ Pending("turn", q, "worker.started")
      BY <1>2, CommitLedger DEF Pending, LaunchInv
    <3>3. Delivered(q)' => Admitted(ledger'[q])
      <4>1. CASE Admitted(ledger[q])
        BY <3>1, <4>1 DEF Grows
      <4>2. CASE ~Admitted(ledger[q])
        <5>1. ledger'[q].intended = ledger[q].intended
          BY <1>2, <4>2, CommitLedger
        <5> QED BY <4>2, <5>1 DEF Delivered, LaunchInv, LaunchAt
      <4> QED BY <4>1, <4>2
    <3>4. ASSUME NEW e \in Unwritten, e.by = "turn", e.run = q, e.kind = "effect.intended",
                 e \notin Unwritten', Admitted(ledger[q])
          PROVE  Delivered(q)'
      <4>1. e.op = "turn"
        <5>1. e \in Write
          BY <1>1, ElementOfSeq, LenProperties DEF Unwritten
        <5> QED BY <3>4, <5>1 DEF Write
      <4>2. e.op \in ledger'[q].intended
        BY <1>2, <3>4, CommitLedger
      <4> QED BY <4>1, <4>2 DEF Delivered
    <3> QED BY <3>1, <3>2, <3>3, <3>4 DEF Pending
  <2> QED BY <2>1, <2>2, <2>3, LedgerLaunch
<1>3. ASSUME NEW r \in Runs, Admit(r) \/ Exit(r) PROVE LaunchInv'
  <2>1. UNCHANGED <<ledger, host, spawns>>
    BY <1>3 DEF Admit, Exit, history
  <2>2. /\ Unwritten \subseteq Unwritten'
        /\ \A e \in Unwritten' \ Unwritten : e.kind # "worker.started"
    <3>1. CASE Admit(r)
      BY <1>1, <3>1, Adds DEF Admit
    <3>2. CASE Exit(r)
      BY <3>2 DEF Exit, Unwritten
    <3> QED BY <1>3, <3>1, <3>2
  <2> QED BY <2>1, <2>2, QuietLaunch
<1>4. ASSUME NEW r \in Runs, DeliveryStep(r) PROVE LaunchInv'
  BY <1>4, DeliveryLaunches
<1>5. ASSUME NEW r \in Runs, TerminationStep(r) PROVE LaunchInv'
  <2>1. /\ UNCHANGED <<ledger, spawns>>
        /\ \A q \in Runs : host'[q] # host[q] => q = r
        /\ host'[r].turn = host[r].turn
        /\ Delivered(r) /\ host[r].turn \notin Early
        /\ Unwritten \subseteq Unwritten'
        /\ \A e \in Unwritten' \ Unwritten : e.kind # "worker.started"
    BY <1>5, TerminationFrame
  <2> QED BY <2>1, QuietLaunch DEF Early
<1>6. ASSUME NEW r \in Runs, NEW who \in {"turn", "owner"}, ObservationStep(r, who)
      PROVE  LaunchInv'
  <2>1. /\ UNCHANGED <<ledger, spawns>>
        /\ \A q \in Runs : host'[q] # host[q] => q = r
        /\ host'[r].turn \notin Early /\ Delivered(r)
        /\ Unwritten \subseteq Unwritten'
        /\ \A e \in Unwritten' \ Unwritten : e.kind # "worker.started"
    BY <1>6, ObservationFrame
  <2> QED BY <2>1, QuietLaunch DEF Early
<1>7. CASE OutageStep
  <2>1. CASE Crash
    <3>1. Unwritten' = {} /\ UNCHANGED <<ledger, spawns>>
      BY <2>1 DEF Crash, Unwritten, history
    <3>2. \A q \in Runs : host'[q] = FreshHost /\ Grows(ledger[q], ledger[q])
      BY <1>1, <2>1 DEF Crash, Grows
    <3>3. \A q \in Runs : Delivered(q)' => Admitted(ledger'[q])
      BY <3>1 DEF LaunchInv, LaunchAt, Delivered
    <3> QED BY <3>1, <3>2, <3>3, LedgerLaunch
  <2>2. CASE Restart \/ Recovered
    <3>1. UNCHANGED <<ledger, spawns, host, inflight>>
      BY <2>2 DEF Restart, Recovered, history
    <3> QED BY <3>1, QuietLaunch DEF Unwritten
  <2>3. ASSUME UNCHANGED <<inflight, host, spawns>>,
               \A q \in Runs : /\ Grows(ledger[q], ledger'[q])
                               /\ ledger'[q].worker => ledger[q].worker
                               /\ ledger'[q].intended = ledger[q].intended
        PROVE  LaunchInv'
    <3>1. Unwritten' = Unwritten
      BY <2>3 DEF Unwritten
    <3>2. \A q \in Runs : Delivered(q)' => Admitted(ledger'[q])
      BY <2>3 DEF LaunchInv, LaunchAt, Delivered, Grows
    <3>3. \A q \in Runs : Pending("turn", q, "effect.intended")'
                          <=> Pending("turn", q, "effect.intended")
      BY <3>1 DEF Pending
    <3> QED BY <2>3, <3>1, <3>2, <3>3, LedgerLaunch
  <2>4. CASE Restore
    <3>1. \A q \in Runs : /\ Grows(ledger[q], ledger'[q])
                          /\ ledger'[q].worker => ledger[q].worker
                          /\ ledger'[q].intended = ledger[q].intended
      <4> SUFFICES ASSUME NEW q \in Runs
                   PROVE  /\ Grows(ledger[q], ledger'[q])
                          /\ ledger'[q].worker => ledger[q].worker
                          /\ ledger'[q].intended = ledger[q].intended
        OBVIOUS
      <4>1. ledger'[q] = ledger[q] \/ ledger'[q] = Require(ledger[q])
        BY <2>4 DEF Restore
      <4>2. Require(ledger[q]).intended = ledger[q].intended
        BY <1>1 DEF Require, Snapshot
      <4> QED BY <1>1, <4>1, <4>2, RequireGrows DEF Grows
    <3> QED BY <2>3, <2>4, <3>1 DEF Restore, history
  <2>5. ASSUME NEW r \in Runs, RecoverRun(r) PROVE LaunchInv'
    <3>1. Record("recover", r, "effect.unresolved", None, None)
          /\ UNCHANGED <<ledger, spawns, host>>
      BY <2>5 DEF RecoverRun, history
    <3>2. "effect.unresolved" # "worker.started"
      OBVIOUS
    <3> QED BY <1>1, <3>1, <3>2, Adds, QuietLaunch
  <2>6. ASSUME NEW r \in Runs, NEW d \in Disposition, ResolveRun(r, d) PROVE LaunchInv'
    <3>1. ledger[r] \in Snapshot /\ Resolve(ledger[r], d).intended = ledger[r].intended
      BY <1>1 DEF Resolve, Snapshot
    <3>2. \A q \in Runs : IF q = r THEN ledger'[q] = Resolve(ledger[r], d)
                          ELSE ledger'[q] = ledger[q]
      BY <1>1, <2>6 DEF ResolveRun
    <3>3. \A q \in Runs : /\ Grows(ledger[q], ledger'[q])
                          /\ ledger'[q].worker => ledger[q].worker
                          /\ ledger'[q].intended = ledger[q].intended
      BY <1>1, <3>1, <3>2, ResolveGrows DEF Grows
    <3> QED BY <2>3, <2>6, <3>3 DEF ResolveRun, history
  <2> QED BY <1>7, <2>1, <2>2, <2>4, <2>5, <2>6 DEF OutageStep
<1>8. CASE UNCHANGED vars
  <2>1. UNCHANGED <<ledger, host, spawns, inflight>>
    BY <1>8 DEF vars
  <2> QED BY <2>1, QuietLaunch DEF Unwritten
<1> QED BY <1>2, <1>3, <1>4, <1>5, <1>6, <1>7, <1>8 DEF Next

-----------------------------------------------------------------------------
\* Signals.

LEMMA SignalInit == Init => SignalInv
BY DEF Init, SignalInv, SignalAt, FreshHost, Attempting

\* A run whose attempt does not move, or ends, keeps its record.
LEMMA SignalKept ==
    ASSUME NEW r \in Runs, SignalAt(r), Grows(ledger[r], ledger'[r]), signalled'[r] = signalled[r],
           \/ host'[r].term = host[r].term /\ host'[r].reason = host[r].reason
           \/ host'[r].term \in {"none", "over"},
           Pending("term", r, "authority.revoked") /\ Admitted(ledger[r]) =>
               Pending("term", r, "authority.revoked")' \/ ledger'[r].revoked,
           IntentPending(r) /\ Admitted(ledger[r]) /\ host'[r].reason = host[r].reason =>
               IntentPending(r)' \/ host[r].reason \in ledger'[r].intended
    PROVE  SignalAt(r)'
<1>1. /\ ledger[r].revoked => ledger'[r].revoked
      /\ ledger[r].intended \subseteq ledger'[r].intended
      /\ Admitted(ledger[r]) => Admitted(ledger'[r])
  BY DEF Grows
<1>2. CASE host'[r].term = host[r].term /\ host'[r].reason = host[r].reason
  <2>1. signalled'[r] \/ host'[r].term \in {"signal", "waiting"} =>
            ledger'[r].revoked /\ ledger'[r].intended \cap TerminationReason # {}
    BY <1>1, <1>2 DEF SignalAt
  <2>2. host'[r].term = "revoking" =>
            ledger'[r].revoked \/ Pending("term", r, "authority.revoked")'
    BY <1>1, <1>2 DEF SignalAt, Attempting
  <2>3. host'[r].term = "intending" =>
            ledger'[r].revoked /\ (host'[r].reason \in ledger'[r].intended \/ IntentPending(r)')
    BY <1>1, <1>2 DEF SignalAt, Attempting
  <2>4. host'[r].term \in Attempting => Admitted(ledger'[r])
    BY <1>1, <1>2 DEF SignalAt
  <2> QED BY <2>1, <2>2, <2>3, <2>4 DEF SignalAt, Admitted
<1>3. CASE host'[r].term \in {"none", "over"}
  BY <1>1, <1>3 DEF SignalAt, Attempting
<1> QED BY <1>2, <1>3

LEMMA QuietSignal ==
    ASSUME TypeOK, SignalInv, UNCHANGED <<ledger, signalled>>, Unwritten \subseteq Unwritten',
           \A q \in Runs : \/ host'[q].term = host[q].term /\ host'[q].reason = host[q].reason
                           \/ host'[q].term \in {"none", "over"}
    PROVE  SignalInv'
<1>1. ASSUME NEW q \in Runs PROVE SignalAt(q)'
  <2>1. Grows(ledger[q], ledger'[q]) /\ SignalAt(q) /\ signalled'[q] = signalled[q]
    BY DEF TypeOK, Grows, SignalInv
  <2>2. Pending("term", q, "authority.revoked") => Pending("term", q, "authority.revoked")'
    BY DEF Pending
  <2>3. IntentPending(q) /\ host'[q].reason = host[q].reason => IntentPending(q)'
    BY DEF IntentPending
  <2> QED BY <2>1, <2>2, <2>3, SignalKept
<1> QED BY <1>1 DEF SignalInv

LEMMA BeginSignals ==
    ASSUME TypeOK, TypeOK', SignalInv, NEW r \in Runs, NEW why \in TerminationReason,
           NEW g \in Host, BeginAttempt(r, why, g), Admitted(ledger[r]),
           g.term = "none", UNCHANGED <<ledger, signalled>>
    PROVE  SignalAt(r)'
<1>1. /\ host \in [Runs -> Host] /\ inflight \in Seq(Write) /\ inflight' \in Seq(Write)
      /\ SignalAt(r) /\ Admitted(ledger'[r])
  BY DEF TypeOK, SignalInv, Admitted
<1>2. CASE g.prepared # None
  <2>1. host'[r].term = "none"
    <3>1. host'[r] = EndAttempt(g, "none")
      BY <1>1, <1>2 DEF BeginAttempt, SetHost
    <3> QED BY <3>1 DEF EndAttempt, Host
  <2> QED BY <1>1, <2>1 DEF SignalAt, Attempting
<1>3. CASE g.prepared = None /\ ledger[r].revoked
  <2>1. host'[r].term = "intending" /\ host'[r].reason = why
    <3>1. host'[r] = [g EXCEPT !.term = "intending", !.reason = why]
      BY <1>1, <1>3 DEF BeginAttempt, SetHost
    <3> QED BY <3>1 DEF Host
  <2>2. Record("term", r, "worker.termination.intended", why, None)
    BY <1>3 DEF BeginAttempt
  <2>3. IntentPending(r)'
    BY <1>1, <2>1, <2>2, Adds DEF IntentPending
  <2> QED BY <1>1, <1>3, <2>1, <2>3 DEF SignalAt
<1>4. CASE g.prepared = None /\ ~ledger[r].revoked
  <2>1. host'[r].term = "revoking" /\ host'[r].reason = why
    <3>1. host'[r] = [g EXCEPT !.term = "revoking", !.reason = why]
      BY <1>1, <1>4 DEF BeginAttempt, SetHost
    <3> QED BY <3>1 DEF Host
  <2>2. Record("term", r, "authority.revoked", None, None)
    BY <1>4 DEF BeginAttempt
  <2>3. Pending("term", r, "authority.revoked")'
    BY <1>1, <2>2, Adds DEF Pending
  <2> QED BY <1>1, <2>1, <2>3 DEF SignalAt
<1> QED BY <1>2, <1>3, <1>4

LEMMA TerminationSignals ==
    ASSUME TypeOK, TypeOK', HostSound, LaunchInv, SignalInv, NEW r \in Runs, TerminationStep(r)
    PROVE  SignalInv'
<1> DEFINE h == host[r]
<1>1. /\ h \in Host /\ host \in [Runs -> Host] /\ signalled \in [Runs -> BOOLEAN]
      /\ inflight \in Seq(Write) /\ inflight' \in Seq(Write)
      /\ SignalAt(r) /\ Sound(h) /\ ledger[r] \in Snapshot
  BY DEF TypeOK, SignalInv, HostSound
<1>2. /\ ledger' = ledger
      /\ \A q \in Runs : host'[q] # host[q] => q = r
      /\ Delivered(r) /\ Unwritten \subseteq Unwritten'
  BY TerminationFrame
<1>3. Admitted(ledger[r])
  BY <1>2 DEF LaunchInv, LaunchAt
<1>4. ASSUME UNCHANGED signalled,
             \/ host'[r].term = h.term /\ host'[r].reason = h.reason
             \/ host'[r].term \in {"none", "over"}
      PROVE  SignalInv'
  <2>1. \A q \in Runs : \/ host'[q].term = host[q].term /\ host'[q].reason = host[q].reason
                        \/ host'[q].term \in {"none", "over"}
    BY <1>2, <1>4
  <2> QED BY <1>2, <1>4, <2>1, QuietSignal
<1>5. ASSUME SignalAt(r)', \A q \in Runs : q # r => signalled'[q] = signalled[q] PROVE SignalInv'
  <2>1. ASSUME NEW q \in Runs, q # r PROVE SignalAt(q)'
    <3>1. /\ host'[q] = host[q] /\ ledger'[q] = ledger[q] /\ SignalAt(q)
          /\ ledger[q] \in Snapshot /\ signalled'[q] = signalled[q]
      BY <1>2, <1>5, <2>1 DEF SignalInv, TypeOK
    <3>2. Pending("term", q, "authority.revoked") => Pending("term", q, "authority.revoked")'
      BY <1>2 DEF Pending
    <3>3. IntentPending(q) => IntentPending(q)'
      BY <1>2, <3>1 DEF IntentPending
    <3> QED BY <3>1, <3>2, <3>3, SignalKept DEF Grows
  <2> QED BY <1>5, <2>1 DEF SignalInv
<1>6. CASE CancelRun(r)
  <2>1. UNCHANGED signalled
    BY <1>6 DEF CancelRun, history
  <2>2. CASE BeginAttempt(r, "cancelled", [h EXCEPT !.owner = "cancelling"]) /\ h.term = "none"
    <3>1. PICK g \in Host : g = [h EXCEPT !.owner = "cancelling"] /\ g.term = "none"
      <4>1. [h EXCEPT !.owner = "cancelling"] \in Host
            /\ [h EXCEPT !.owner = "cancelling"].term = h.term
        BY <1>1 DEF Host, Cancel
      <4> QED BY <2>2, <4>1
    <3>2. SignalAt(r)'
      BY <1>2, <1>3, <2>1, <2>2, <3>1, BeginSignals DEF TerminationReason
    <3> QED BY <1>5, <2>1, <3>2
  <2>3. CASE ~(BeginAttempt(r, "cancelled", [h EXCEPT !.owner = "cancelling"]) /\ h.term = "none")
    <3>1. PICK ow : SetHost(r, [h EXCEPT !.owner = ow])
      BY <1>6, <2>3 DEF CancelRun
    <3>2. host'[r].term = h.term /\ host'[r].reason = h.reason
      BY <1>1, <3>1 DEF SetHost, Host
    <3> QED BY <1>4, <2>1, <3>2
  <2> QED BY <2>2, <2>3
<1>7. CASE LimitFires(r)
  <2>1. UNCHANGED signalled
    BY <1>7 DEF LimitFires, history
  <2>2. CASE BeginAttempt(r, "timeout", [h EXCEPT !.limit = "firing"]) /\ h.term = "none"
    <3>1. PICK g \in Host : g = [h EXCEPT !.limit = "firing"] /\ g.term = "none"
      <4>1. [h EXCEPT !.limit = "firing"] \in Host
            /\ [h EXCEPT !.limit = "firing"].term = h.term
        BY <1>1 DEF Host
      <4> QED BY <2>2, <4>1
    <3>2. SignalAt(r)'
      BY <1>2, <1>3, <2>1, <2>2, <3>1, BeginSignals DEF TerminationReason
    <3> QED BY <1>5, <2>1, <3>2
  <2>3. CASE ~(BeginAttempt(r, "timeout", [h EXCEPT !.limit = "firing"]) /\ h.term = "none")
    <3>1. PICK l : SetHost(r, [h EXCEPT !.limit = l])
      BY <1>7, <2>3 DEF LimitFires
    <3>2. host'[r].term = h.term /\ host'[r].reason = h.reason
      BY <1>1, <3>1 DEF SetHost, Host
    <3> QED BY <1>4, <2>1, <3>2
  <2> QED BY <2>2, <2>3
<1>8. CASE IntendTermination(r)
  <2>1. h.term = "revoking" /\ ~Awaits("term", r) /\ signalled' = signalled
        /\ Record("term", r, "worker.termination.intended", h.reason, None)
    BY <1>8 DEF IntendTermination, AttemptAt, history
  <2>2. ledger[r].revoked
    BY <1>1, <2>1 DEF SignalAt, Pending, Awaits
  <2>3. host'[r].term = "intending" /\ host'[r].reason = h.reason
    BY <1>1, <1>8 DEF IntendTermination, SetHost, Host
  <2>4. IntentPending(r)'
    BY <1>1, <2>1, <2>3, Adds DEF IntentPending
  <2>5. SignalAt(r)'
    BY <1>1, <1>2, <1>3, <2>1, <2>2, <2>3, <2>4 DEF SignalAt, Admitted
  <2> QED BY <1>5, <2>1, <2>5
<1>9. CASE Prepare(r)
  <2>1. h.term = "intending" /\ ~Awaits("term", r) /\ signalled' = signalled
    BY <1>9 DEF Prepare, AttemptAt, history
  <2>2. ledger[r].revoked /\ h.reason \in ledger[r].intended
    BY <1>1, <2>1 DEF SignalAt, IntentPending, Awaits
  <2>3. h.reason \in TerminationReason
    BY <1>1, <2>1, HostFields DEF Sound
  <2>4. host'[r].term = "signal"
    BY <1>1, <1>9 DEF Prepare, SetHost, Host
  <2>5. SignalAt(r)'
    BY <1>2, <1>3, <2>1, <2>2, <2>3, <2>4 DEF SignalAt, Attempting
  <2> QED BY <1>5, <2>1, <2>5
<1>10. CASE Signal(r)
  <2>1. h.term = "signal" /\ signalled' = [signalled EXCEPT ![r] = TRUE]
    BY <1>10 DEF Signal
  <2>2. host'[r].term = "waiting"
    BY <1>1, <1>10 DEF Signal, SetHost, Host
  <2>3. SignalAt(r)'
    BY <1>1, <1>2, <2>1, <2>2 DEF SignalAt, Attempting
  <2> QED BY <1>1, <1>5, <2>1, <2>3
<1>11. CASE ExitConfirmed(r) \/ AttemptFails(r)
  <2>1. UNCHANGED signalled /\ \E how \in {"none", "over"} : SetHost(r, EndAttempt(h, how))
    BY <1>11 DEF ExitConfirmed, AttemptFails, history
  <2>2. host'[r].term \in {"none", "over"}
    BY <1>1, <2>1 DEF SetHost, EndAttempt, Host
  <2> QED BY <1>4, <2>1, <2>2
<1>12. CASE CancelReturns(r)
  <2>1. host'[r].term = h.term /\ host'[r].reason = h.reason /\ UNCHANGED signalled
    BY <1>1, <1>12 DEF CancelReturns, SetHost, Host, history
  <2> QED BY <1>4, <2>1
<1> QED BY <1>6, <1>7, <1>8, <1>9, <1>10, <1>11, <1>12 DEF TerminationStep

LEMMA SignalStep ==
    ASSUME TypeOK, TypeOK', HostSound, LaunchInv, SignalInv, [Next]_vars
    PROVE  SignalInv'
<1>1. /\ ledger \in [Runs -> Snapshot] /\ inflight \in Seq(Write) /\ inflight' \in Seq(Write)
      /\ host \in [Runs -> Host]
  BY DEF TypeOK
<1>2. CASE Commit
  <2>1. ASSUME NEW q \in Runs PROVE SignalAt(q)'
    <3>1. Grows(ledger[q], ledger'[q]) /\ UNCHANGED <<host, signalled>> /\ SignalAt(q)
      BY <1>2, CommitLedger DEF SignalInv
    <3>2. ASSUME NEW e \in Unwritten, e.run = q, Admitted(ledger[q])
          PROVE  \/ e \in Unwritten'
                 \/ /\ e.kind = "authority.revoked" => ledger'[q].revoked
                    /\ e.kind = "worker.termination.intended" => e.op \in ledger'[q].intended
      BY <1>2, <3>2, CommitLedger
    <3>3. Pending("term", q, "authority.revoked") /\ Admitted(ledger[q]) =>
              Pending("term", q, "authority.revoked")' \/ ledger'[q].revoked
      BY <3>2 DEF Pending
    <3>4. IntentPending(q) /\ Admitted(ledger[q]) /\ host'[q].reason = host[q].reason =>
              IntentPending(q)' \/ host[q].reason \in ledger'[q].intended
      BY <3>2 DEF IntentPending
    <3> QED BY <3>1, <3>3, <3>4, SignalKept
  <2> QED BY <2>1 DEF SignalInv
<1>3. ASSUME NEW r \in Runs, Admit(r) \/ Exit(r) PROVE SignalInv'
  <2>1. UNCHANGED <<ledger, host, signalled>>
    BY <1>3 DEF Admit, Exit, history
  <2>2. Unwritten \subseteq Unwritten'
    <3>1. CASE Admit(r)
      BY <1>1, <3>1, Adds DEF Admit
    <3>2. CASE Exit(r)
      BY <3>2 DEF Exit, Unwritten
    <3> QED BY <1>3, <3>1, <3>2
  <2> QED BY <2>1, <2>2, QuietSignal
<1>4. ASSUME NEW r \in Runs, DeliveryStep(r) PROVE SignalInv'
  <2>1. /\ UNCHANGED <<ledger, signalled>>
        /\ \A q \in Runs : host'[q] # host[q] => q = r
        /\ host'[r].reason = host[r].reason
        /\ host'[r].term # host[r].term => host'[r].term = "none"
        /\ Unwritten \subseteq Unwritten'
    BY <1>4, DeliveryFrame
  <2>2. \A q \in Runs : \/ host'[q].term = host[q].term /\ host'[q].reason = host[q].reason
                        \/ host'[q].term \in {"none", "over"}
    BY <2>1
  <2> QED BY <2>1, <2>2, QuietSignal
<1>5. ASSUME NEW r \in Runs, TerminationStep(r) PROVE SignalInv'
  BY <1>5, TerminationSignals
<1>6. ASSUME NEW r \in Runs, NEW who \in {"turn", "owner"}, ObservationStep(r, who)
      PROVE  SignalInv'
  <2>1. /\ UNCHANGED <<ledger, signalled>>
        /\ \A q \in Runs : host'[q] # host[q] => q = r
        /\ host'[r].term = host[r].term /\ host'[r].reason = host[r].reason
        /\ Unwritten \subseteq Unwritten'
    BY <1>6, ObservationFrame
  <2>2. \A q \in Runs : host'[q].term = host[q].term /\ host'[q].reason = host[q].reason
    BY <2>1
  <2> QED BY <2>1, <2>2, QuietSignal
<1>7. CASE OutageStep
  <2>1. CASE Crash
    <3>1. /\ \A q \in Runs : host'[q] = FreshHost
          /\ UNCHANGED <<ledger, signalled>>
      BY <1>1, <2>1 DEF Crash, history
    <3>2. FreshHost.term = "none"
      BY FreshKept DEF Untouched
    <3>3. ASSUME NEW q \in Runs PROVE SignalAt(q)'
      BY <3>1, <3>2 DEF SignalInv, SignalAt, Attempting
    <3> QED BY <3>3 DEF SignalInv
  <2>2. CASE Restart \/ Recovered
    <3>1. UNCHANGED <<ledger, signalled, host, inflight>>
      BY <2>2 DEF Restart, Recovered, history
    <3> QED BY <3>1, QuietSignal DEF Unwritten
  <2>3. ASSUME UNCHANGED <<inflight, host, signalled>>,
               \A q \in Runs : Grows(ledger[q], ledger'[q])
        PROVE  SignalInv'
    <3>1. ASSUME NEW q \in Runs PROVE SignalAt(q)'
      <4>1. (Pending("term", q, "authority.revoked")' <=> Pending("term", q, "authority.revoked"))
            /\ (IntentPending(q)' <=> IntentPending(q))
        BY <2>3 DEF Pending, IntentPending, Unwritten
      <4> QED BY <2>3, <4>1, SignalKept DEF SignalInv
    <3> QED BY <3>1 DEF SignalInv
  <2>4. CASE Restore
    <3>1. \A q \in Runs : ledger'[q] = ledger[q] \/ ledger'[q] = Require(ledger[q])
      BY <2>4 DEF Restore
    <3>2. \A q \in Runs : Grows(ledger[q], ledger'[q])
      BY <1>1, <3>1, RequireGrows DEF Grows
    <3> QED BY <2>3, <2>4, <3>2 DEF Restore, history
  <2>5. ASSUME NEW r \in Runs, RecoverRun(r) PROVE SignalInv'
    <3>1. Record("recover", r, "effect.unresolved", None, None)
          /\ UNCHANGED <<ledger, signalled, host>>
      BY <2>5 DEF RecoverRun, history
    <3>2. Unwritten \subseteq Unwritten'
      BY <1>1, <3>1, Adds
    <3> QED BY <3>1, <3>2, QuietSignal
  <2>6. ASSUME NEW r \in Runs, NEW d \in Disposition, ResolveRun(r, d) PROVE SignalInv'
    <3>1. \A q \in Runs : IF q = r THEN ledger'[q] = Resolve(ledger[r], d)
                          ELSE ledger'[q] = ledger[q]
      BY <1>1, <2>6 DEF ResolveRun
    <3>2. \A q \in Runs : Grows(ledger[q], ledger'[q])
      BY <1>1, <3>1, ResolveGrows DEF Grows
    <3> QED BY <2>3, <2>6, <3>2 DEF ResolveRun, history
  <2> QED BY <1>7, <2>1, <2>2, <2>4, <2>5, <2>6 DEF OutageStep
<1>8. CASE UNCHANGED vars
  <2>1. UNCHANGED <<ledger, host, signalled, inflight>>
    BY <1>8 DEF vars
  <2> QED BY <2>1, QuietSignal DEF Unwritten
<1> QED BY <1>2, <1>3, <1>4, <1>5, <1>6, <1>7, <1>8 DEF Next

-----------------------------------------------------------------------------
\* The theorems.

LEMMA Inductive == Spec => []IInv
<1>1. Init => IInv
  BY TypeInit, LaunchInit, SignalInit DEF IInv
<1>2. IInv /\ [Next]_vars => IInv'
  <2>1. ASSUME IInv, [Next]_vars PROVE TypeOK' /\ HostSound'
    BY <2>1, TypeStep DEF IInv
  <2>2. ASSUME IInv, [Next]_vars, TypeOK' PROVE LaunchInv'
    BY <2>2, LaunchStep DEF IInv
  <2>3. ASSUME IInv, [Next]_vars, TypeOK' PROVE SignalInv'
    BY <2>3, SignalStep DEF IInv
  <2> QED BY <2>1, <2>2, <2>3 DEF IInv
<1> QED BY <1>1, <1>2, PTL DEF Spec

\* For any number of runs every variable has its type in every reachable
\* state; in particular each termination is observed by one callback only,
\* which knows its operation, and each result recorded is one the worker gave.
THEOREM TypeCorrect == Spec => []TypeOK
<1>1. IInv => TypeOK
  BY DEF IInv
<1> QED BY <1>1, Inductive, PTL

\* For any number of runs, crashes, restarts and restores, no run is ever
\* given a second worker process.
THEOREM OneLaunchHolds == Spec => []OneLaunch
<1>1. IInv => OneLaunch
  BY DEF IInv, LaunchInv, LaunchAt, OneLaunch
<1> QED BY <1>1, Inductive, PTL

\* Whoever asks for it and however the attempts overlap, a worker is signalled
\* only with the revocation and the termination intent in the journal.
THEOREM SignalOnRecordHolds == Spec => []SignalOnRecord
<1>1. IInv => SignalOnRecord
  BY DEF IInv, SignalInv, SignalAt, SignalOnRecord
<1> QED BY <1>1, Inductive, PTL

-----------------------------------------------------------------------------
\* Places.

\* A record of the running coordinator frees a place only with a result or
\* with a confirmed termination.
LEMMA ApplyFrees ==
    ASSUME NEW s \in Snapshot, NEW e \in Write, Occupies(s), ~Occupies(Apply(s, e))
    PROVE  Apply(s, e).result # None \/ Apply(s, e).state = "cancelled"
<1> USE DEF Occupies, IsTerminal, Terminal, Admitted
<1>1. e.kind \in Kind /\ (e.kind = "provider.final" => e.arg \in Outcome)
  BY DEF Write, WriteField
<1>2. s.state # "absent"
  OBVIOUS
<1>3. ASSUME NEW t, t = Apply(s, e), e.kind \notin {"provider.final", "worker.termination.observed"}
      PROVE  Occupies(t)
  <2>1. CASE e.kind \in {"effect.intended", "worker.termination.intended"}
    <3>1. t = Intend(s, e.op)
      BY <1>2, <1>3, <2>1 DEF Apply
    <3>2. t = s \/ t.state \in {"launching", "cancelling"}
      BY <3>1 DEF Intend, Snapshot
    <3> QED BY <3>2
  <2>2. CASE e.kind \in {"run.admitted", "effect.receipt", "reservation.released"}
    <3>1. t.state = s.state /\ t.worker = s.worker
      BY <1>2, <1>3, <2>2 DEF Apply, Receive, Snapshot
    <3> QED BY <3>1
  <2>3. CASE e.kind \in {"worker.started", "effect.unresolved", "authority.revoked"}
    <3>1. t.state \in {"running", "reconciling", "cancelling"}
      BY <1>2, <1>3, <2>3 DEF Apply, Snapshot
    <3> QED BY <3>1
  <2> QED BY <1>1, <1>3, <2>1, <2>2, <2>3 DEF Kind
<1>4. ASSUME NEW t, t = Apply(s, e), e.kind = "provider.final"
      PROVE  t.result # None
  <2>1. t.result = e.arg
    BY <1>2, <1>4 DEF Apply, Snapshot
  <2> QED BY <1>1, <1>4, <2>1, Constants
<1>5. ASSUME NEW t, t = Apply(s, e), e.kind = "worker.termination.observed"
      PROVE  t.state = "cancelled" \/ Occupies(t)
  <2>1. t = ObserveTermination(s, e.op, e.arg = "completed")
    BY <1>2, <1>5 DEF Apply
  <2>2. t.worker = s.worker /\ (t.state = "cancelled" \/ t.state = s.state)
    BY <2>1 DEF ObserveTermination, Receive, Snapshot
  <2> QED BY <2>2
<1> QED BY <1>3, <1>4, <1>5

\* For any number of runs, a place is given up only with a result, with a
\* confirmed termination, or by the owner's offline decision.
THEOREM PlaceKeptHolds == Spec => PlaceKept
<1> DEFINE Step == \A r \in Runs : Occupies(ledger[r]) /\ ~Occupies(ledger'[r]) =>
                      ledger'[r].result # None \/ ledger'[r].state = "cancelled" \/ up = "down"
<1>1. TypeOK /\ [Next]_vars => [Step]_vars
  <2> SUFFICES ASSUME TypeOK, Next, NEW r \in Runs, Occupies(ledger[r]), ~Occupies(ledger'[r])
               PROVE  ledger'[r].result # None \/ ledger'[r].state = "cancelled" \/ up = "down"
    OBVIOUS
  <2>1. CASE Commit
    <3>1. /\ ledger \in [Runs -> Snapshot] /\ inflight \in Seq(Write)
          /\ inflight # <<>> /\ inflight' = Tail(inflight)
          /\ ledger' = [ledger EXCEPT ![Head(inflight).run] = Apply(@, Head(inflight))]
      BY <2>1 DEF TypeOK, Commit
    <3>2. Head(inflight) \in Write
      BY <3>1, Written
    <3>3. ledger'[r] = ledger[r] \/ ledger'[r] = Apply(ledger[r], Head(inflight))
      BY <3>1
    <3> QED BY <3>1, <3>2, <3>3, ApplyFrees
  <2>2. CASE ~Commit /\ up # "down"
    <3>1. ledger' = ledger
      BY <2>2 DEF Next, Admit, Exit, OutageStep, Crash, Restart, RecoverRun, Recovered, Restore,
           ResolveRun, DeliveryStep, TerminationStep, ObservationStep, Deliver, Replay, Launch,
           LaunchFails, Identify, ReportWorker, Started, Complete, Finalize, Settle,
           DeliveryReturns, CancelRun, LimitFires, IntendTermination, Prepare, Signal,
           ExitConfirmed, AttemptFails, CancelReturns, TakePreparation, NothingPrepared,
           ObserveExit, KeepReservation, ObservationReturns
    <3> QED BY <3>1
  <2> QED BY <2>1, <2>2
<1>2. Spec => []TypeOK
  BY TypeCorrect
<1> QED BY <1>1, <1>2, PTL DEF Spec, PlaceKept

-----------------------------------------------------------------------------
\* Workers: what keeps the workers that are alive within the places that
\* admission counts.  A run holds a place from its admission until its worker
\* is gone: before the launch, while the launch is on its way, and as long as
\* the worker the ledger knows is alive.

Uncertain == "interrupted_uncertain"

Spent(r) == proc[r] \in {"exited", "lost"}

Launching(r) == host[r].turn \in Early \/ Pending("turn", r, "worker.started")

\* Between its deliveries the run has nothing of them in the queue.
Silent == {"idle", "observe", "observing"}

RecordSound(e) ==
    /\ e.kind = "run.admitted" => e.by = "admit"
    /\ e.kind \notin {"run.admitted", "effect.intended"} => Delivered(e.run)
    /\ e.kind = "provider.final" => e.arg = Uncertain \/ Spent(e.run)
    /\ e.kind = "worker.termination.observed" /\ e.arg = "completed" => Spent(e.run)
    /\ Launching(e.run) => e.kind \notin {"provider.final", "worker.termination.observed"}

PlaceAt(r) ==
    /\ proc[r] = "none" <=> spawns[r] = 0
    /\ host[r].prepared # None \/ host[r].taken # None => proc[r] # "none"
    /\ ledger[r].unresolved \subseteq ledger[r].intended
    /\ ledger[r].intended # {} => Delivered(r)
    /\ Launching(r) => ~IsTerminal(ledger[r])
    /\ Pending("turn", r, "worker.started") =>
           host[r].turn = "starting" /\ Untouched(host[r]) /\ ~ledger[r].worker
    /\ host[r].turn = "closing" => host[r].final = Uncertain \/ Spent(r)
    /\ ledger[r].worker /\ IsTerminal(ledger[r]) =>
           ledger[r].state = Uncertain \/ Spent(r)
    /\ host[r].turn \in Silent => ~Awaits("turn", r)
    /\ r \in todo => Delivered(r)
    /\ \A e \in Unwritten : e.run = r => RecordSound(e)

\* A delivery has one record at a time in the queue.
OneByOne ==
    \A i, j \in DOMAIN inflight :
        /\ inflight[i].by = "turn" /\ inflight[j].by = "turn"
        /\ inflight[i].run = inflight[j].run
        => i = j

Stopped == up = "down" => inflight = <<>> /\ \A r \in Runs : host[r] = FreshHost

PlaceInv == (\A r \in Runs : PlaceAt(r)) /\ OneByOne /\ Stopped

AdmitPending(r) == \E e \in Unwritten : e.run = r /\ e.kind = "run.admitted"

HoldsPlace(r) ==
    \/ ledger[r].worker /\ proc[r] = "alive"
    \/ Launching(r)
    \/ /\ Admitted(ledger[r]) /\ ~IsTerminal(ledger[r])
       /\ ~ledger[r].recovery /\ ~Delivered(r)

Holders == {r \in Runs : HoldsPlace(r) \/ AdmitPending(r)}

PlacesInv == IInv /\ PlaceInv /\ Cardinality(Holders) <= MaxRuns

\* The queue.
LEMMA OneMore ==
    ASSUME inflight \in Seq(Write), inflight' \in Seq(Write), OneByOne,
           NEW by, NEW r, NEW kind, NEW op, NEW arg, Record(by, r, kind, op, arg),
           by = "turn" => ~Awaits("turn", r)
    PROVE  OneByOne'
<1>1. PICK e : inflight' = Append(inflight, e) /\ e.by = by /\ e.run = r
  BY DEF Record
<1> DEFINE S == Write \cup {e}
<1>2. inflight \in Seq(S)
  BY SeqMonotonic
<1>3. /\ Len(inflight') = Len(inflight) + 1
      /\ \A i \in 1..Len(inflight) : inflight'[i] = inflight[i]
      /\ inflight'[Len(inflight) + 1] = e
  BY <1>1, <1>2, AppendProperties
<1>4. /\ Len(inflight) \in Nat
      /\ DOMAIN inflight = 1..Len(inflight) /\ DOMAIN inflight' = 1..(Len(inflight) + 1)
  BY <1>3, LenProperties
<1>5. \A i \in DOMAIN inflight : ~(inflight[i].by = "turn" /\ e.by = "turn" /\ inflight[i].run = e.run)
  BY <1>1 DEF Awaits, Unwritten
<1>6. \A i \in DOMAIN inflight' : \/ i \in DOMAIN inflight /\ inflight'[i] = inflight[i]
                                  \/ i = Len(inflight) + 1 /\ inflight'[i] = e
  BY <1>3, <1>4
<1> QED BY <1>5, <1>6 DEF OneByOne

LEMMA OneLess ==
    ASSUME inflight \in Seq(Write), OneByOne, inflight # <<>>, inflight' = Tail(inflight)
    PROVE  /\ OneByOne'
           /\ Head(inflight).by = "turn" =>
                  \A e \in Unwritten' : ~(e.by = "turn" /\ e.run = Head(inflight).run)
<1>1. /\ inflight' \in Seq(Write) /\ Len(inflight') = Len(inflight) - 1
      /\ \A i \in 1..Len(inflight') : inflight'[i] = inflight[i + 1]
  BY HeadTailProperties
<1>2. /\ Len(inflight) \in Nat
      /\ DOMAIN inflight = 1..Len(inflight) /\ DOMAIN inflight' = 1..(Len(inflight) - 1)
  BY <1>1, LenProperties
<1>3. Len(inflight) # 0 /\ Head(inflight) = inflight[1]
  BY EmptySeq
<1>4. \A i \in DOMAIN inflight' :
          i + 1 \in DOMAIN inflight /\ inflight'[i] = inflight[i + 1] /\ i + 1 # 1
  BY <1>1, <1>2
<1>5. \A i, j \in DOMAIN inflight' : i + 1 = j + 1 => i = j
  BY <1>2
<1>6. 1 \in DOMAIN inflight
  BY <1>2, <1>3
<1>7. OneByOne'
  BY <1>4, <1>5 DEF OneByOne
<1>8. ASSUME Head(inflight).by = "turn", NEW i \in DOMAIN inflight'
      PROVE  ~(inflight'[i].by = "turn" /\ inflight'[i].run = Head(inflight).run)
  BY <1>3, <1>4, <1>6, <1>8 DEF OneByOne
<1> QED BY <1>7, <1>8 DEF Unwritten

\* What a step puts into the queue, and of whom.
Enqueues(by, r) ==
    \E kind, op, arg : /\ Record(by, r, kind, op, arg)
                       /\ by = "turn" => ~Awaits("turn", r)

LEMMA DeliveryEnqueues ==
    ASSUME NEW r \in Runs, PlaceAt(r), DeliveryStep(r)
    PROVE  UNCHANGED inflight \/ Enqueues("turn", r)
<1>1. CASE Deliver(r)
  BY <1>1 DEF Deliver, MayDeliver, PlaceAt, Silent, Enqueues
<1>2. CASE LaunchFails(r) \/ Identify(r) \/ ReportWorker(r) \/ Finalize(r) \/ Settle(r)
  BY <1>2 DEF LaunchFails, Identify, ReportWorker, Finalize, Settle, At, Enqueues
<1>3. CASE Replay(r) \/ Launch(r) \/ Started(r) \/ Complete(r) \/ DeliveryReturns(r)
  BY <1>3 DEF Replay, Launch, Started, Complete, DeliveryReturns
<1> QED BY <1>1, <1>2, <1>3 DEF DeliveryStep

LEMMA TerminationEnqueues ==
    ASSUME NEW r \in Runs, TerminationStep(r)
    PROVE  UNCHANGED inflight \/ Enqueues("term", r)
<1>1. ASSUME NEW why, NEW g, BeginAttempt(r, why, g)
      PROVE  UNCHANGED inflight \/ Enqueues("term", r)
  BY <1>1 DEF BeginAttempt, Enqueues
<1>2. CASE CancelRun(r) \/ LimitFires(r)
  <2>1. UNCHANGED inflight \/ \E why, g : BeginAttempt(r, why, g)
    BY <1>2 DEF CancelRun, LimitFires
  <2> QED BY <1>1, <2>1
<1>3. CASE IntendTermination(r)
  BY <1>3 DEF IntendTermination, Enqueues
<1>4. CASE Prepare(r) \/ Signal(r) \/ ExitConfirmed(r) \/ AttemptFails(r) \/ CancelReturns(r)
  BY <1>4 DEF Prepare, Signal, ExitConfirmed, AttemptFails, CancelReturns
<1> QED BY <1>2, <1>3, <1>4 DEF TerminationStep

LEMMA ObservationEnqueues ==
    ASSUME NEW r \in Runs, PlaceAt(r), NEW who \in {"turn", "owner"}, ObservationStep(r, who)
    PROVE  UNCHANGED inflight \/ Enqueues(who, r)
<1>1. CASE ObserveExit(r, who)
  <2>1. who = "turn" => ~Awaits("turn", r)
    <3>1. who = "turn" => host[r].turn = "observing"
      BY <1>1 DEF ObserveExit
    <3> QED BY <3>1 DEF PlaceAt, Silent
  <2> QED BY <1>1, <2>1 DEF ObserveExit, Enqueues
<1>2. CASE KeepReservation(r, who)
  BY <1>2 DEF KeepReservation, Enqueues
<1>3. CASE TakePreparation(r, who) \/ NothingPrepared(r, who) \/ ObservationReturns(r, who)
  BY <1>3 DEF TakePreparation, NothingPrepared, ObservationReturns
<1> QED BY <1>1, <1>2, <1>3 DEF ObservationStep

LEMMA OneByOneStep ==
    ASSUME TypeOK, TypeOK', PlaceInv, [Next]_vars
    PROVE  OneByOne'
<1>1. inflight \in Seq(Write) /\ inflight' \in Seq(Write) /\ OneByOne
  BY DEF TypeOK, PlaceInv
<1>2. ASSUME NEW by, NEW r, Enqueues(by, r) PROVE OneByOne'
  BY <1>1, <1>2, OneMore DEF Enqueues
<1>3. UNCHANGED inflight => OneByOne'
  BY <1>1 DEF OneByOne
<1>4. CASE Commit
  BY <1>1, <1>4, OneLess DEF Commit
<1>5. ASSUME NEW r \in Runs, Admit(r) \/ Exit(r) PROVE OneByOne'
  <2>1. UNCHANGED inflight \/ Enqueues("admit", r)
    BY <1>5 DEF Admit, Exit, Enqueues
  <2> QED BY <1>2, <1>3, <2>1
<1>6. ASSUME NEW r \in Runs, DeliveryStep(r) \/ TerminationStep(r) PROVE OneByOne'
  BY <1>2, <1>3, <1>6, DeliveryEnqueues, TerminationEnqueues DEF PlaceInv
<1>7. ASSUME NEW r \in Runs, NEW who \in {"turn", "owner"}, ObservationStep(r, who)
      PROVE  OneByOne'
  BY <1>2, <1>3, <1>7, ObservationEnqueues DEF PlaceInv
<1>8. CASE OutageStep
  <2>1. CASE Crash
    <3>1. DOMAIN inflight' = {}
      BY <2>1 DEF Crash
    <3> QED BY <3>1 DEF OneByOne
  <2>2. CASE Restart \/ Recovered \/ Restore \/ \E r \in Runs, d \in Disposition : ResolveRun(r, d)
    BY <1>3, <2>2 DEF Restart, Recovered, Restore, ResolveRun
  <2>3. ASSUME NEW r \in Runs, RecoverRun(r) PROVE OneByOne'
    <3>1. Enqueues("recover", r)
      BY <2>3 DEF RecoverRun, Enqueues
    <3> QED BY <1>2, <3>1
  <2> QED BY <1>8, <2>1, <2>2, <2>3 DEF OutageStep
<1>9. CASE UNCHANGED vars
  BY <1>3, <1>9 DEF vars
<1> QED BY <1>4, <1>5, <1>6, <1>7, <1>8, <1>9 DEF Next

\* What a record makes of what its run had: it ends only with a result or with
\* an observed termination, and nothing but an admission admits.
LEMMA ApplyPlaces ==
    ASSUME NEW s \in Snapshot, NEW e \in Write, NEW t, t = Apply(s, e)
    PROVE  /\ t.unresolved \subseteq s.unresolved \cup t.intended
           /\ t.intended \subseteq s.intended \cup {e.op}
           /\ t.intended # s.intended => e.kind \in {"effect.intended", "worker.termination.intended"}
           /\ t.recovery = s.recovery
           /\ ~Admitted(s) /\ Admitted(t) => e.kind = "run.admitted"
           /\ IsTerminal(t) => \/ t.state = s.state /\ t.worker = s.worker
                               \/ e.kind = "provider.final" /\ (e.arg = Uncertain => t.state = Uncertain)
                               \/ e.kind = "worker.termination.observed" /\ e.arg = "completed"
<1> USE DEF IsTerminal, Terminal, Admitted
<1>1. /\ e.kind \in Kind
      /\ e.kind = "provider.final" => e.arg \in Outcome
  BY DEF Write, WriteField
<1>2. CASE e.kind = "run.admitted"
  BY <1>2 DEF Apply, Snapshot
<1>21. CASE s.state = "absent" /\ e.kind # "run.admitted"
  <2>1. t = s
    BY <1>21 DEF Apply
  <2> QED BY <1>21, <2>1
<1>3. CASE s.state # "absent" /\ e.kind \in {"effect.intended", "worker.termination.intended"}
  <2>1. t = Intend(s, e.op)
    BY <1>3 DEF Apply
  <2> QED BY <1>3, <2>1 DEF Intend, Snapshot
<1>4. CASE s.state # "absent" /\ e.kind \in {"worker.started", "effect.unresolved", "authority.revoked"}
  <2>1. /\ t.state \in {"running", "reconciling", "cancelling"} /\ t.intended = s.intended
        /\ t.unresolved = s.unresolved /\ t.recovery = s.recovery
    BY <1>4 DEF Apply, Snapshot
  <2> QED BY <1>4, <2>1
<1>5. CASE s.state # "absent" /\ e.kind \in {"effect.receipt", "reservation.released"}
  <2>1. /\ t.state = s.state /\ t.worker = s.worker /\ t.intended = s.intended
        /\ t.unresolved \subseteq s.unresolved /\ t.recovery = s.recovery
    BY <1>5 DEF Apply, Receive, Snapshot
  <2> QED BY <1>5, <2>1
<1>6. CASE s.state # "absent" /\ e.kind = "worker.termination.observed"
  <2>1. t = ObserveTermination(s, e.op, e.arg = "completed")
    BY <1>6 DEF Apply
  <2>2. /\ t.worker = s.worker /\ t.intended = s.intended /\ t.recovery = s.recovery
        /\ t.unresolved \subseteq s.unresolved
        /\ e.arg = "completed" \/ t.state = s.state
    BY <2>1 DEF ObserveTermination, Receive, Snapshot
  <2> QED BY <1>6, <2>2
<1>7. CASE s.state # "absent" /\ e.kind = "provider.final"
  <2>1. /\ t.state = TerminalState(e.arg) /\ t.worker = s.worker /\ t.intended = s.intended
        /\ t.recovery = s.recovery /\ t.unresolved = s.unresolved
    BY <1>7 DEF Apply, Snapshot
  <2>2. TerminalState(Uncertain) = Uncertain
    BY DEF TerminalState, Uncertain
  <2> QED BY <1>7, <2>1, <2>2
<1> QED BY <1>1, <1>2, <1>21, <1>3, <1>4, <1>5, <1>6, <1>7 DEF Kind

\* A run that nothing happens to, or that loses records.
LEMMA PlaceQuiet ==
    ASSUME NEW q \in Runs, PlaceAt(q), ledger'[q] = ledger[q], host'[q] = host[q],
           spawns'[q] = spawns[q], proc'[q] = proc[q] \/ (proc[q] = "alive" /\ Spent(q)'),
           q \in todo' => Delivered(q),
           \A e \in Unwritten' : e.run = q => e \in Unwritten
    PROVE  PlaceAt(q)'
<1>1. /\ Delivered(q)' = Delivered(q) /\ Untouched(host[q])' = Untouched(host[q])
      /\ Pending("turn", q, "worker.started")' => Pending("turn", q, "worker.started")
      /\ Awaits("turn", q)' => Awaits("turn", q)
      /\ Spent(q) => Spent(q)'
  BY DEF Delivered, Untouched, Pending, Awaits, Spent
<1>2. Launching(q)' => Launching(q)
  BY <1>1 DEF Launching
<1>3. \A e \in Unwritten' : e.run = q => RecordSound(e)'
  BY <1>1, <1>2 DEF PlaceAt, RecordSound
<1>4. proc'[q] = "none" <=> proc[q] = "none"
  BY DEF Spent
<1> QED BY <1>1, <1>2, <1>3, <1>4 DEF PlaceAt, IsTerminal

\* A run past its launch whose callbacks move on.
LEMMA PlaceMoves ==
    ASSUME NEW r \in Runs, PlaceAt(r), Delivered(r), ~Pending("turn", r, "worker.started"),
           ledger'[r] = ledger[r], proc'[r] = proc[r], spawns'[r] = spawns[r], todo' = todo,
           host'[r].prepared = None \/ host'[r].prepared = host[r].prepared \/ proc[r] # "none",
           host'[r].taken # None => proc[r] # "none",
           host'[r].turn \in Early => host[r].turn \in Early,
           host'[r].turn = "closing" => host'[r].final = Uncertain \/ Spent(r),
           host'[r].turn \in Silent => ~Awaits("turn", r)',
           \A e \in Unwritten' : e.run = r => \/ e \in Unwritten
               \/ /\ e.kind \notin {"run.admitted", "worker.started"}
                  /\ e.kind \in {"provider.final", "worker.termination.observed"} =>
                         host'[r].turn \notin Early
                  /\ e.kind = "provider.final" => e.arg = Uncertain \/ Spent(r)
                  /\ e.kind = "worker.termination.observed" /\ e.arg = "completed" => Spent(r)
    PROVE  PlaceAt(r)'
<1>1. /\ Delivered(r)' = Delivered(r) /\ Spent(r)' = Spent(r)
      /\ ~Pending("turn", r, "worker.started")'
  BY DEF Delivered, Spent, Pending
<1>2. Launching(r)' => Launching(r) /\ host'[r].turn \in Early
  BY <1>1 DEF Launching
<1>3. \A e \in Unwritten' : e.run = r => RecordSound(e)'
  BY <1>1, <1>2 DEF PlaceAt, RecordSound
<1> QED BY <1>1, <1>2, <1>3 DEF PlaceAt, IsTerminal

LEMMA CommitPlaces ==
    ASSUME TypeOK, LaunchInv, PlaceInv, Commit, NEW q \in Runs
    PROVE  PlaceAt(q)'
<1> DEFINE e == Head(inflight)
<1>1. ledger \in [Runs -> Snapshot] /\ inflight \in Seq(Write) /\ OneByOne /\ PlaceAt(q)
  BY DEF TypeOK, PlaceInv
<1>2. /\ inflight # <<>> /\ inflight' = Tail(inflight)
      /\ ledger' = [ledger EXCEPT ![e.run] = Apply(@, e)]
      /\ UNCHANGED <<host, proc, spawns, todo>>
  BY DEF Commit, history, process
<1>3. /\ e \in Write /\ e \in Unwritten /\ Unwritten' \subseteq Unwritten
      /\ e.by = "turn" => \A x \in Unwritten' : ~(x.by = "turn" /\ x.run = e.run)
  BY <1>1, <1>2, Written, OneLess
<1> HIDE DEF e
<1>4. CASE q # e.run
  <2>1. ledger'[q] = ledger[q]
    BY <1>1, <1>2, <1>4
  <2>2. q \in todo' => Delivered(q)
    BY <1>1, <1>2 DEF PlaceAt
  <2> QED BY <1>1, <1>2, <1>3, <2>1, <2>2, PlaceQuiet
<1>5. CASE q = e.run
  <2> DEFINE s == ledger[q]
             t == Apply(s, e)
  <2>1. ledger'[q] = t /\ s \in Snapshot
    BY <1>1, <1>2, <1>5
  <2>2. RecordSound(e) /\ LaunchAt(q)
    BY <1>1, <1>3, <1>5 DEF PlaceAt, LaunchInv
  <2>3. /\ t.unresolved \subseteq s.unresolved \cup t.intended
        /\ t.intended \subseteq s.intended \cup {e.op}
        /\ t.intended # s.intended => e.kind \in {"effect.intended", "worker.termination.intended"}
        /\ IsTerminal(t) => \/ t.state = s.state /\ t.worker = s.worker
                            \/ e.kind = "provider.final" /\ (e.arg = Uncertain => t.state = Uncertain)
                            \/ e.kind = "worker.termination.observed" /\ e.arg = "completed"
    BY <1>3, <2>1, ApplyPlaces
  <2>4. /\ s.intended \subseteq t.intended
        /\ t.worker => s.worker \/ e.kind = "worker.started"
    BY <1>3, <2>1, ApplyGrows DEF Grows
  <2>5. Delivered(q) => Delivered(q)'
    BY <2>1, <2>4 DEF Delivered
  <2>6. t.intended # {} => Delivered(q)'
    <3>1. CASE s.intended # {}
      BY <1>1, <2>5, <3>1 DEF PlaceAt
    <3>2. CASE s.intended = {} /\ t.intended # {}
      <4>1. e.kind \in {"effect.intended", "worker.termination.intended"} /\ e.op \in t.intended
        BY <2>3, <3>2
      <4>2. CASE e.kind = "effect.intended"
        <5>1. e.op = "turn"
          BY <1>3, <4>2 DEF Write
        <5> QED BY <2>1, <4>1, <5>1 DEF Delivered
      <4>3. CASE e.kind = "worker.termination.intended"
        BY <1>5, <2>2, <2>5, <4>3 DEF RecordSound
      <4> QED BY <4>1, <4>2, <4>3
    <3> QED BY <3>1, <3>2
  <2>7. /\ Spent(q)' = Spent(q)
        /\ Awaits("turn", q)' => Awaits("turn", q)
        /\ Pending("turn", q, "worker.started")' => Pending("turn", q, "worker.started")
    BY <1>2, <1>3 DEF Spent, Awaits, Pending
  <2>8. Launching(q)' => Launching(q)
    BY <1>2, <2>7 DEF Launching
  <2>9. Launching(q)' => ~IsTerminal(t)
    <3>1. Launching(q) => ~IsTerminal(s) /\ e.kind \notin {"provider.final", "worker.termination.observed"}
      BY <1>1, <1>5, <2>2 DEF PlaceAt, RecordSound
    <3> QED BY <2>3, <2>8, <3>1 DEF IsTerminal
  <2>10. Pending("turn", q, "worker.started")' => ~t.worker
    <3>1. e.kind = "worker.started" => e.by = "turn"
      BY <1>3 DEF LaunchInv
    <3>2. e.kind = "worker.started" => ~Pending("turn", q, "worker.started")'
      BY <1>3, <1>5, <3>1 DEF Pending
    <3> QED BY <1>1, <2>4, <2>7, <3>2 DEF PlaceAt
  <2>11. t.worker /\ IsTerminal(t) => t.state = Uncertain \/ Spent(q)
    <3>1. CASE t.state = s.state /\ t.worker = s.worker
      BY <1>1, <3>1 DEF PlaceAt, IsTerminal
    <3>2. CASE e.kind = "provider.final" /\ (e.arg = Uncertain => t.state = Uncertain)
      BY <1>5, <2>2, <3>2 DEF RecordSound
    <3>3. CASE e.kind = "worker.termination.observed" /\ e.arg = "completed"
      BY <1>5, <2>2, <3>3 DEF RecordSound
    <3> QED BY <2>3, <3>1, <3>2, <3>3
  <2>12. \A x \in Unwritten' : x.run = q => RecordSound(x)'
    BY <1>1, <1>3, <2>5, <2>7, <2>8 DEF PlaceAt, RecordSound
  <2>13. t.unresolved \subseteq t.intended
    BY <1>1, <2>3, <2>4 DEF PlaceAt
  <2> HIDE DEF t, s
  <2> QED BY <1>1, <1>2, <2>1, <2>5, <2>6, <2>7, <2>8, <2>9, <2>10, <2>11, <2>12, <2>13
          DEF PlaceAt, Untouched
<1> QED BY <1>4, <1>5

LEMMA TerminationFields ==
    ASSUME TypeOK, TypeOK', NEW r \in Runs, TerminationStep(r)
    PROVE  /\ UNCHANGED <<proc, todo>>
           /\ host'[r].final = host[r].final /\ host'[r].taken = host[r].taken
           /\ host'[r].prepared = host[r].prepared \/ proc[r] = "alive"
           /\ \A e \in Unwritten' \ Unwritten :
                  e.run = r /\ e.kind \in {"authority.revoked", "worker.termination.intended"}
<1> DEFINE h == host[r]
           Same(k) == k.final = h.final /\ k.taken = h.taken /\ k.prepared = h.prepared
           Asks == \E kind, op : /\ Record("term", r, kind, op, None)
                                 /\ kind \in {"authority.revoked", "worker.termination.intended"}
<1>1. /\ h \in Host /\ host \in [Runs -> Host]
      /\ inflight \in Seq(Write) /\ inflight' \in Seq(Write)
  BY DEF TypeOK
<1>2. UNCHANGED <<proc, todo>>
  BY DEF TerminationStep, CancelRun, LimitFires, IntendTermination, Prepare, Signal,
         ExitConfirmed, AttemptFails, CancelReturns, process
<1>3. ASSUME NEW g \in Host, Same(g), NEW how PROVE Same(EndAttempt(g, how))
  BY <1>3 DEF EndAttempt, Host
<1>4. ASSUME NEW g \in Host, Same(g), NEW tm, NEW why PROVE Same([g EXCEPT !.term = tm, !.reason = why])
  BY <1>4 DEF Host
<1>5. ASSUME NEW g \in Host, Same(g), NEW why, BeginAttempt(r, why, g)
      PROVE  (\E k : SetHost(r, k) /\ Same(k)) /\ (UNCHANGED inflight \/ Asks)
  <2>1. CASE g.prepared # None
    BY <1>3, <1>5, <2>1 DEF BeginAttempt
  <2>2. CASE g.prepared = None
    <3>1. \E tm : SetHost(r, [g EXCEPT !.term = tm, !.reason = why])
      BY <1>5, <2>2 DEF BeginAttempt
    <3>2. Asks
      BY <1>5, <2>2 DEF BeginAttempt
    <3> HIDE DEF Asks, Same
    <3> QED BY <1>4, <1>5, <3>1, <3>2
  <2> QED BY <2>1, <2>2
<1>6. /\ \A ow \in Cancel : [h EXCEPT !.owner = ow] \in Host /\ Same([h EXCEPT !.owner = ow])
      /\ \A l \in {"firing", "done"} : [h EXCEPT !.limit = l] \in Host /\ Same([h EXCEPT !.limit = l])
      /\ \A tm : Same([h EXCEPT !.term = tm])
  BY <1>1 DEF Host
<1>7. {"cancelling", "joining", "observe"} \subseteq Cancel
  BY DEF Cancel, Observing
<1>8. \/ (\E k : SetHost(r, k) /\ Same(k)) /\ (UNCHANGED inflight \/ Asks)
      \/ Prepare(r)
  <2>1. CASE CancelRun(r)
    <3>1. CASE BeginAttempt(r, "cancelled", [h EXCEPT !.owner = "cancelling"])
      <4>1. PICK g : g = [h EXCEPT !.owner = "cancelling"]
        OBVIOUS
      <4> HIDE DEF Same, Asks
      <4> QED BY <1>5, <1>6, <1>7, <3>1, <4>1
    <3>2. CASE ~BeginAttempt(r, "cancelled", [h EXCEPT !.owner = "cancelling"])
      <4>1. /\ \E ow \in {"joining", "observe"} : SetHost(r, [h EXCEPT !.owner = ow])
            /\ UNCHANGED inflight
        BY <2>1, <3>2 DEF CancelRun
      <4> HIDE DEF Same, Asks
      <4> QED BY <1>6, <1>7, <4>1
    <3> QED BY <3>1, <3>2
  <2>2. CASE LimitFires(r)
    <3>1. CASE BeginAttempt(r, "timeout", [h EXCEPT !.limit = "firing"])
      <4>1. PICK g : g = [h EXCEPT !.limit = "firing"]
        OBVIOUS
      <4> HIDE DEF Same, Asks
      <4> QED BY <1>5, <1>6, <3>1, <4>1
    <3>2. CASE ~BeginAttempt(r, "timeout", [h EXCEPT !.limit = "firing"])
      <4>1. /\ \E l \in {"firing", "done"} : SetHost(r, [h EXCEPT !.limit = l])
            /\ UNCHANGED inflight
        BY <2>2, <3>2 DEF LimitFires
      <4> HIDE DEF Same, Asks
      <4> QED BY <1>6, <4>1
    <3> QED BY <3>1, <3>2
  <2>3. CASE IntendTermination(r)
    <3>1. SetHost(r, [h EXCEPT !.term = "intending"]) /\ Asks
      BY <2>3 DEF IntendTermination
    <3> HIDE DEF Same, Asks
    <3> QED BY <1>6, <3>1
  <2>4. CASE Signal(r)
    <3>1. SetHost(r, [h EXCEPT !.term = "waiting"]) /\ UNCHANGED inflight
      BY <2>4 DEF Signal
    <3> HIDE DEF Same, Asks
    <3> QED BY <1>6, <3>1
  <2>5. CASE ExitConfirmed(r) \/ AttemptFails(r)
    <3>1. (\E how : SetHost(r, EndAttempt(h, how))) /\ UNCHANGED inflight
      BY <2>5 DEF ExitConfirmed, AttemptFails
    <3>2. Same(h)
      OBVIOUS
    <3> HIDE DEF Same, Asks
    <3> QED BY <1>1, <1>3, <3>1, <3>2
  <2>6. CASE CancelReturns(r)
    <3>1. SetHost(r, [h EXCEPT !.owner = "observe"]) /\ UNCHANGED inflight
      BY <2>6 DEF CancelReturns
    <3> HIDE DEF Same, Asks
    <3> QED BY <1>6, <1>7, <3>1
  <2> QED BY <2>1, <2>2, <2>3, <2>4, <2>5, <2>6 DEF TerminationStep
<1>9. Asks \/ UNCHANGED inflight =>
          \A e \in Unwritten' \ Unwritten :
              e.run = r /\ e.kind \in {"authority.revoked", "worker.termination.intended"}
  <2>1. UNCHANGED inflight => Unwritten' = Unwritten
    BY DEF Unwritten
  <2>2. ASSUME NEW kind \in {"authority.revoked", "worker.termination.intended"}, NEW op,
               Record("term", r, kind, op, None)
        PROVE  \E e : Unwritten' = Unwritten \cup {e} /\ e.run = r /\ e.kind = kind
    BY <1>1, <2>2, Adds
  <2> QED BY <2>1, <2>2
<1>10. CASE \E k : SetHost(r, k) /\ Same(k)
  <2>1. Same(host'[r])
    BY <1>1, <1>10 DEF SetHost
  <2>2. UNCHANGED inflight \/ Asks
    BY <1>8 DEF Prepare
  <2> QED BY <1>2, <1>9, <2>1, <2>2
<1>11. CASE Prepare(r)
  <2>1. /\ host'[r].final = h.final /\ host'[r].taken = h.taken
        /\ proc[r] = "alive" /\ UNCHANGED inflight
    BY <1>1, <1>11 DEF Prepare, SetHost, Host
  <2> QED BY <1>2, <1>9, <2>1
<1> QED BY <1>8, <1>10, <1>11

\* Another run, while this one moves.
LEMMA OtherPlaces ==
    ASSUME TypeOK, TypeOK', NEW r \in Runs, NEW q \in Runs, q # r, PlaceAt(q),
           ledger' = ledger, host'[q] = host[q], spawns'[q] = spawns[q], proc'[q] = proc[q],
           todo' \subseteq todo,
           UNCHANGED inflight \/ \E by : Enqueues(by, r)
    PROVE  PlaceAt(q)'
<1>1. inflight \in Seq(Write) /\ inflight' \in Seq(Write)
  BY DEF TypeOK
<1>2. \A e \in Unwritten' : e.run = q => e \in Unwritten
  <2>1. UNCHANGED inflight => Unwritten' = Unwritten
    BY DEF Unwritten
  <2>2. ASSUME NEW by, Enqueues(by, r) PROVE \A e \in Unwritten' : e.run = q => e \in Unwritten
    <3>1. PICK kind, op, arg : Record(by, r, kind, op, arg)
      BY <2>2 DEF Enqueues
    <3> QED BY <1>1, <3>1, Adds
  <2> QED BY <2>1, <2>2
<1>3. q \in todo' => Delivered(q)
  BY DEF PlaceAt
<1> QED BY <1>2, <1>3, PlaceQuiet

\* A run whose worker is not yet reported has nobody acting on it but its
\* delivery.
LEMMA ReportedFirst ==
    ASSUME NEW r \in Runs, PlaceAt(r),
           host[r].turn # "starting" \/ ~Untouched(host[r]) \/ ledger[r].worker
    PROVE  ~Pending("turn", r, "worker.started")
BY DEF PlaceAt

LEMMA DeliveryPlaces ==
    ASSUME TypeOK, TypeOK', LaunchInv, NEW r \in Runs, PlaceAt(r), DeliveryStep(r)
    PROVE  PlaceAt(r)' /\ UNCHANGED todo /\ \A q \in Runs : q # r =>
               proc'[q] = proc[q] /\ spawns'[q] = spawns[q]
<1> DEFINE h == host[r]
           k == host'[r]
<1>1. /\ h \in Host /\ host \in [Runs -> Host] /\ spawns \in [Runs -> Nat] /\ proc \in [Runs -> Proc]
      /\ inflight \in Seq(Write) /\ inflight' \in Seq(Write)
      /\ LaunchAt(r)
  BY DEF TypeOK, LaunchInv
<1>2. ledger' = ledger /\ k.prepared = h.prepared
  BY DeliveryFrame
<1>3. UNCHANGED todo /\ \A q \in Runs : q # r => proc'[q] = proc[q] /\ spawns'[q] = spawns[q]
  BY <1>1 DEF DeliveryStep, Deliver, Replay, Launch, LaunchFails, Identify, ReportWorker, Started,
         Complete, Finalize, Settle, DeliveryReturns, history, process
<1>5. CASE Deliver(r)
  <2>1. /\ h.turn = "idle" /\ ~Delivered(r) /\ ~IsTerminal(ledger[r])
        /\ spawns' = spawns /\ proc' = proc /\ todo' = todo
        /\ Record("turn", r, "effect.intended", "turn", None)
    BY <1>5 DEF Deliver, MayDeliver, history, process
  <2>2. k.turn = "intent" /\ k.taken = h.taken
    BY <1>1, <1>5 DEF Deliver, SetHost, Host
  <2>3. PICK e : /\ Unwritten' = Unwritten \cup {e}
                 /\ e.by = "turn" /\ e.run = r /\ e.kind = "effect.intended" /\ e.op = "turn"
    BY <1>1, <2>1, Adds
  <2>4. /\ Delivered(r)' = Delivered(r) /\ Spent(r)' = Spent(r) /\ IsTerminal(ledger[r])' = IsTerminal(ledger[r])
        /\ ~Pending("turn", r, "worker.started")
    BY <1>1, <1>2, <2>1 DEF Delivered, Spent, LaunchAt
  <2>5. ~Pending("turn", r, "worker.started")'
    BY <2>3, <2>4 DEF Pending
  <2>6. \A x \in Unwritten' : x.run = r => RecordSound(x)'
    BY <2>1, <2>3, <2>4 DEF PlaceAt, RecordSound
  <2>7. PlaceAt(r)'
    BY <1>2, <2>1, <2>2, <2>4, <2>5, <2>6 DEF PlaceAt, Silent
  <2> QED BY <1>3, <2>7
<1>6. CASE Launch(r)
  <2>1. h.turn = "intent" /\ ~Awaits("turn", r) /\ UNCHANGED <<inflight, todo>>
        /\ spawns' = [spawns EXCEPT ![r] = @ + 1] /\ proc' = [proc EXCEPT ![r] = "alive"]
    BY <1>6 DEF Launch, At, process
  <2>2. spawns[r] = 0 /\ proc[r] = "none" /\ spawns'[r] # 0 /\ proc'[r] = "alive"
    BY <1>1, <2>1 DEF LaunchAt, PlaceAt
  <2>3. k.turn = "spawned" /\ k.taken = h.taken
    BY <1>1, <1>6 DEF Launch, SetHost, Host
  <2>4. /\ Unwritten' = Unwritten /\ Delivered(r)' = Delivered(r)
        /\ ~Spent(r) /\ Launching(r)
    BY <1>2, <2>1, <2>2 DEF Unwritten, Delivered, Spent, Launching, Early
  <2>5. ~Pending("turn", r, "worker.started")'
    BY <2>1, <2>4 DEF Pending, Awaits
  <2>6. \A x \in Unwritten' : x.run = r => RecordSound(x)'
    BY <2>4 DEF PlaceAt, RecordSound
  <2>7. PlaceAt(r)'
    BY <1>2, <2>1, <2>2, <2>3, <2>4, <2>5, <2>6 DEF PlaceAt, Silent, IsTerminal
  <2> QED BY <1>3, <2>7
<1>7. CASE ReportWorker(r)
  <2>1. /\ h.turn = "receipt" /\ spawns' = spawns /\ proc' = proc /\ todo' = todo
        /\ Record("turn", r, "worker.started", None, None)
    BY <1>7 DEF ReportWorker, At, history, process
  <2>2. k.turn = "starting" /\ k.taken = h.taken /\ Untouched(k)
    <3>1. k = [h EXCEPT !.turn = "starting"] /\ Untouched(h)
      BY <1>1, <1>7, <2>1 DEF ReportWorker, SetHost, LaunchAt, Early
    <3> QED BY <1>1, <3>1 DEF Host, Untouched
  <2>3. PICK e : /\ Unwritten' = Unwritten \cup {e}
                 /\ e.by = "turn" /\ e.run = r /\ e.kind = "worker.started"
    BY <1>1, <2>1, Adds
  <2>4. /\ Delivered(r)' = Delivered(r) /\ Spent(r)' = Spent(r) /\ Delivered(r)
        /\ Launching(r) /\ ~ledger[r].worker
    BY <1>1, <1>2, <2>1 DEF Delivered, Spent, LaunchAt, Launching, Early
  <2>5. \A x \in Unwritten' : x.run = r => RecordSound(x)'
    BY <2>3, <2>4 DEF PlaceAt, RecordSound
  <2>6. PlaceAt(r)'
    BY <1>2, <2>1, <2>2, <2>4, <2>5 DEF PlaceAt, Silent, IsTerminal, Untouched
  <2> QED BY <1>3, <2>6
<1>8. CASE ~Deliver(r) /\ ~Launch(r) /\ ~ReportWorker(r)
  <2> SUFFICES PlaceAt(r)'
    BY <1>3
  <2>1. UNCHANGED <<proc, spawns>>
    BY <1>8 DEF DeliveryStep, Replay, LaunchFails, Identify, Started,
            Complete, Finalize, Settle, DeliveryReturns, history
  <2>2. h.turn = "idle" \/ ~Awaits("turn", r)
    BY <1>8 DEF DeliveryStep, Replay, LaunchFails, Identify, Started, At, MayDeliver,
            Complete, Finalize, Settle, DeliveryReturns
  <2>3. ~Awaits("turn", r) /\ ~Pending("turn", r, "worker.started")
    BY <2>2 DEF PlaceAt, Silent, Pending, Awaits
  <2>4. Delivered(r)
    <3>1. h.turn \notin {"idle", "intent"} \/ Delivered(r) \/ h.turn = "intent"
      BY <1>8 DEF DeliveryStep, Replay, LaunchFails, Identify, Started, At,
              Complete, Finalize, Settle, DeliveryReturns
    <3> QED BY <1>1, <2>3, <3>1 DEF LaunchAt, Awaits, Pending
  <2> DEFINE Safe(x) ==
         /\ x.kind \notin {"run.admitted", "worker.started"}
         /\ x.kind \in {"provider.final", "worker.termination.observed"} => k.turn \notin Early
         /\ x.kind = "provider.final" => x.arg = Uncertain \/ Spent(r)
         /\ x.kind = "worker.termination.observed" /\ x.arg = "completed" => Spent(r)
  <2>5. ASSUME k.taken = h.taken, k.turn \in Early => h.turn \in Early,
               k.turn = "closing" => k.final = Uncertain \/ Spent(r),
               k.turn \in Silent => ~Awaits("turn", r)',
               \A x \in Unwritten' : x.run = r => x \in Unwritten \/ Safe(x)
        PROVE  PlaceAt(r)'
    <3>1. k.prepared # None \/ k.taken # None => proc[r] # "none"
      BY <1>2, <2>5 DEF PlaceAt
    <3>2. \A e \in Unwritten' : e.run = r => \/ e \in Unwritten
             \/ /\ e.kind \notin {"run.admitted", "worker.started"}
                /\ e.kind \in {"provider.final", "worker.termination.observed"} => k.turn \notin Early
                /\ e.kind = "provider.final" => e.arg = Uncertain \/ Spent(r)
                /\ e.kind = "worker.termination.observed" /\ e.arg = "completed" => Spent(r)
      BY <2>5
    <3> HIDE DEF Safe
    <3> QED BY <1>2, <1>3, <2>1, <2>3, <2>4, <2>5, <3>1, <3>2, PlaceMoves
  <2>6. UNCHANGED inflight => Unwritten' = Unwritten /\ ~Awaits("turn", r)'
    BY <2>3 DEF Unwritten, Awaits
  <2>7. CASE Replay(r) \/ Started(r) \/ DeliveryReturns(r)
    <3>1. k.turn \in {"observe", "running"} /\ k.taken = h.taken /\ UNCHANGED inflight
      BY <1>1, <2>7 DEF Replay, Started, DeliveryReturns, SetHost, Host
    <3>2. \A x \in Unwritten' : x.run = r => x \in Unwritten \/ Safe(x)
      BY <2>6, <3>1
    <3> HIDE DEF Safe
    <3> QED BY <2>5, <2>6, <3>1, <3>2 DEF Early, Silent
  <2>8. CASE Complete(r)
    <3>1. PICK outcome, usage :
              /\ SetHost(r, [h EXCEPT !.turn = "closing", !.final = outcome, !.usage = usage,
                                      !.cancelled = FALSE, !.limit = "none",
                                      !.term = IF @ = "over" THEN "none" ELSE @])
              /\ Interrupted(r) => outcome = Uncertain
      BY <2>8 DEF Complete, Uncertain
    <3>2. k.turn = "closing" /\ k.final = outcome /\ k.taken = h.taken
      <4>1. PICK tm : tm = IF h.term = "over" THEN "none" ELSE h.term
        OBVIOUS
      <4>2. k = [h EXCEPT !.turn = "closing", !.final = outcome, !.usage = usage,
                          !.cancelled = FALSE, !.limit = "none", !.term = tm]
        BY <1>1, <2>8, <3>1, <4>1 DEF SetHost
      <4> QED BY <1>1, <4>2 DEF Host
    <3>3. outcome = Uncertain \/ Spent(r)
      <4>1. Interrupted(r) \/ proc[r] = "exited"
        BY <2>8 DEF Complete, Interrupted
      <4>2. Interrupted(r) => outcome = Uncertain
        BY <3>1
      <4> QED BY <4>1, <4>2 DEF Spent
    <3>4. UNCHANGED inflight
      BY <2>8 DEF Complete
    <3>5. \A x \in Unwritten' : x.run = r => x \in Unwritten \/ Safe(x)
      BY <2>6, <3>4 DEF Early
    <3> HIDE DEF Safe
    <3> QED BY <2>5, <2>6, <3>2, <3>3, <3>4, <3>5 DEF Early, Silent
  <2>9. CASE LaunchFails(r) \/ Identify(r)
    <3>1. /\ k.turn \in {"failing", "receipt"} /\ k.taken = h.taken
          /\ k.turn = "receipt" => h.turn = "spawned"
          /\ Record("turn", r, "effect.receipt", "turn", None)
      BY <1>1, <2>9 DEF LaunchFails, Identify, At, SetHost, Host
    <3>2. PICK e : Unwritten' = Unwritten \cup {e} /\ e.kind = "effect.receipt"
      BY <1>1, <3>1, Adds
    <3>3. \A x \in Unwritten' : x.run = r => x \in Unwritten \/ Safe(x)
      BY <3>1, <3>2 DEF Early
    <3> HIDE DEF Safe
    <3> QED BY <2>5, <3>1, <3>2, <3>3 DEF Early, Silent
  <2>10. CASE Finalize(r)
    <3>1. /\ h.turn \in {"closing", "failing"} /\ k.turn = "final" /\ k.taken = h.taken
          /\ Record("turn", r, "provider.final", None,
                    IF h.turn = "failing" THEN Uncertain ELSE h.final)
      BY <1>1, <2>10 DEF Finalize, At, SetHost, Host, Uncertain
    <3>2. PICK e : /\ Unwritten' = Unwritten \cup {e} /\ e.kind = "provider.final"
                   /\ e.arg = IF h.turn = "failing" THEN Uncertain ELSE h.final
      BY <1>1, <3>1, Adds
    <3>3. e.arg = Uncertain \/ Spent(r)
      BY <3>1, <3>2 DEF PlaceAt
    <3>4. \A x \in Unwritten' : x.run = r => x \in Unwritten \/ Safe(x)
      BY <3>1, <3>2, <3>3 DEF Early
    <3> HIDE DEF Safe
    <3> QED BY <2>5, <3>1, <3>2, <3>3, <3>4 DEF Early, Silent
  <2>11. CASE Settle(r)
    <3>1. /\ k.turn = "release" /\ k.taken = h.taken
          /\ Record("turn", r, "reservation.released", None, h.usage)
      BY <1>1, <2>11 DEF Settle, At, SetHost, Host
    <3>2. PICK e : Unwritten' = Unwritten \cup {e} /\ e.kind = "reservation.released"
      BY <1>1, <3>1, Adds
    <3>3. \A x \in Unwritten' : x.run = r => x \in Unwritten \/ Safe(x)
      BY <3>1, <3>2 DEF Early
    <3> HIDE DEF Safe
    <3> QED BY <2>5, <3>1, <3>2, <3>3 DEF Early, Silent
  <2> QED BY <1>8, <2>7, <2>8, <2>9, <2>10, <2>11 DEF DeliveryStep
<1> QED BY <1>5, <1>6, <1>7, <1>8

LEMMA TerminationPlaces ==
    ASSUME TypeOK, TypeOK', LaunchInv, NEW r \in Runs, PlaceAt(r), TerminationStep(r)
    PROVE  PlaceAt(r)'
<1> DEFINE h == host[r]
<1>1. /\ ledger' = ledger /\ spawns' = spawns /\ host'[r].turn = h.turn
      /\ Delivered(r) /\ h.turn \notin Early
      /\ Unwritten \subseteq Unwritten'
      /\ \A e \in Unwritten' \ Unwritten : e.by = "term"
  BY TerminationFrame
<1>2. /\ UNCHANGED <<proc, todo>>
      /\ host'[r].final = h.final /\ host'[r].taken = h.taken
      /\ host'[r].prepared = h.prepared \/ proc[r] = "alive"
      /\ \A e \in Unwritten' \ Unwritten :
             e.run = r /\ e.kind \in {"authority.revoked", "worker.termination.intended"}
  BY TerminationFields
<1>3. ~Untouched(h) \/ ledger[r].worker \/ h.turn = "running"
  BY DEF TerminationStep, CancelRun, LimitFires, IntendTermination, Prepare, Signal,
         ExitConfirmed, AttemptFails, CancelReturns, AttemptAt, Untouched
<1>4. ~Pending("turn", r, "worker.started")
  BY <1>3, ReportedFirst
<1>5. Awaits("turn", r)' => Awaits("turn", r)
  BY <1>1 DEF Awaits
<1>6. /\ h.taken # None => proc[r] # "none"
      /\ h.turn = "closing" => h.final = Uncertain \/ Spent(r)
      /\ h.turn \in Silent => ~Awaits("turn", r)
  BY DEF PlaceAt
<1> QED BY <1>1, <1>2, <1>4, <1>5, <1>6, PlaceMoves

\* What an observer makes of the host record.
Observed(r, who, to, pr, tk) ==
    /\ host'[r].prepared = pr /\ host'[r].taken = tk
    /\ host'[r].final = host[r].final
    /\ host'[r].term = host[r].term /\ host'[r].reason = host[r].reason
    /\ who = "turn" => /\ host'[r].turn = to /\ host'[r].owner = host[r].owner
                       /\ host[r].turn = host[r][who]
    /\ who = "owner" => /\ host'[r].owner = to /\ host'[r].turn = host[r].turn
                        /\ host[r].owner = host[r][who]

LEMMA ObservationFields ==
    ASSUME TypeOK, NEW r \in Runs, NEW who \in {"turn", "owner"}
    PROVE  /\ TakePreparation(r, who) => Observed(r, who, "observing", None, host[r].prepared)
           /\ NothingPrepared(r, who) \/ ObservationReturns(r, who) =>
                  Observed(r, who, "idle", host[r].prepared, host[r].taken)
           /\ ObserveExit(r, who) => Observed(r, who, "observed", host[r].prepared, None)
           /\ KeepReservation(r, who) =>
                  Observed(r, who, "reserving", host[r].prepared, host[r].taken)
<1> DEFINE h == host[r]
<1>1. h \in Host /\ host \in [Runs -> Host]
  BY DEF TypeOK
<1>2. ASSUME NEW to, NEW pr, NEW tk, NEW k,
             k = [h EXCEPT ![who] = to, !.prepared = pr, !.taken = tk], SetHost(r, k)
      PROVE  Observed(r, who, to, pr, tk)
  <2>1. host'[r] = k
    BY <1>1, <1>2 DEF SetHost
  <2>2. CASE who = "turn"
    <3>1. k = [h EXCEPT !.turn = to, !.prepared = pr, !.taken = tk]
      BY <1>2, <2>2
    <3> QED BY <1>1, <2>1, <2>2, <3>1 DEF Host, Observed
  <2>3. CASE who = "owner"
    <3>1. k = [h EXCEPT !.owner = to, !.prepared = pr, !.taken = tk]
      BY <1>2, <2>3
    <3>2. /\ k.turn = h.turn /\ k.final = h.final /\ k.term = h.term /\ k.reason = h.reason
          /\ k.owner = to /\ k.prepared = pr /\ k.taken = tk
      BY <1>1, <3>1 DEF Host
    <3> QED BY <2>1, <2>3, <3>2 DEF Observed
  <2> QED BY <2>2, <2>3
<1>3. ASSUME NEW to
      PROVE  /\ [h EXCEPT ![who] = to]
                = [h EXCEPT ![who] = to, !.prepared = h.prepared, !.taken = h.taken]
             /\ [h EXCEPT ![who] = to, !.taken = None]
                = [h EXCEPT ![who] = to, !.prepared = h.prepared, !.taken = None]
  BY <1>1 DEF Host
<1>4. \A to : /\ SetHost(r, [h EXCEPT ![who] = to]) => Observed(r, who, to, h.prepared, h.taken)
              /\ SetHost(r, [h EXCEPT ![who] = to, !.taken = None]) =>
                     Observed(r, who, to, h.prepared, None)
  BY <1>2, <1>3
<1>5. TakePreparation(r, who) => Observed(r, who, "observing", None, h.prepared)
  BY <1>2 DEF TakePreparation
<1> QED BY <1>4, <1>5 DEF NothingPrepared, ObservationReturns, ObserveExit, KeepReservation

LEMMA ObservationPlaces ==
    ASSUME TypeOK, TypeOK', HostSound, LaunchInv, NEW r \in Runs, PlaceAt(r),
           NEW who \in {"turn", "owner"}, ObservationStep(r, who)
    PROVE  PlaceAt(r)' /\ UNCHANGED <<proc, spawns, todo>>
<1> DEFINE h == host[r]
           k == host'[r]
<1>1. inflight \in Seq(Write) /\ inflight' \in Seq(Write) /\ Sound(h) /\ proc[r] \in Proc
  BY DEF TypeOK, HostSound
<1>2. UNCHANGED <<ledger, proc, spawns, todo>>
  BY DEF ObservationStep, TakePreparation, NothingPrepared, ObserveExit, KeepReservation,
         ObservationReturns, process, history
<1>3. Delivered(r) /\ k.turn \notin Early
  BY ObservationFrame
<1>4. ~Pending("turn", r, "worker.started")
  <2>1. h[who] \in Observing
    BY DEF ObservationStep, TakePreparation, NothingPrepared, ObserveExit, KeepReservation,
           ObservationReturns, Observing
  <2>2. h.turn # "starting" \/ ~Untouched(h)
    <3>1. CASE who = "turn"
      BY <2>1, <3>1 DEF Observing
    <3>2. CASE who = "owner"
      BY <2>1, <3>2 DEF Observing, Untouched
    <3> QED BY <3>1, <3>2
  <2> QED BY <2>2, ReportedFirst
<1>5. UNCHANGED inflight => Unwritten' = Unwritten /\ Awaits("turn", r)' = Awaits("turn", r)
  BY DEF Unwritten, Awaits
<1> SUFFICES PlaceAt(r)'
  BY <1>2
\* Nothing is recorded.
<1>6. ASSUME NEW to, NEW pr \in {None, h.prepared}, NEW tk \in {h.taken, h.prepared},
             Observed(r, who, to, pr, tk), UNCHANGED inflight, to \in {"idle", "observing"},
             h[who] = "observe" \/ ~Awaits(who, r)
      PROVE  PlaceAt(r)'
  <2>1. k.turn # "closing" \/ (k.turn = h.turn /\ k.final = h.final)
    BY <1>6 DEF Observed
  <2>2. k.turn \in Silent => ~Awaits("turn", r)'
    BY <1>5, <1>6 DEF Observed, Silent, PlaceAt
  <2>3. /\ k.prepared \in {None, h.prepared}
        /\ k.taken # None => proc[r] # "none"
        /\ k.turn = "closing" => k.final = Uncertain \/ Spent(r)
    BY <1>6, <2>1 DEF Observed, PlaceAt
  <2> QED BY <1>2, <1>3, <1>4, <1>5, <1>6, <2>2, <2>3, PlaceMoves
\* A record that the process table bears out.
<1>7. ASSUME NEW to \in {"observed", "reserving"}, NEW tk \in {None, h.taken},
             Observed(r, who, to, h.prepared, tk),
             NEW e, Unwritten' = Unwritten \cup {e}, e.by = who,
             e.kind \in {"worker.termination.observed", "reservation.released"},
             e.kind = "worker.termination.observed" /\ e.arg = "completed" => Spent(r)
      PROVE  PlaceAt(r)'
  <2>1. k.turn # "closing" \/ (k.turn = h.turn /\ k.final = h.final)
    BY <1>7 DEF Observed
  <2>2. k.turn \in Silent => ~Awaits("turn", r)'
    <3>1. k.turn \in Silent => who = "owner" /\ k.turn = h.turn
      BY <1>7 DEF Observed, Silent
    <3>2. who = "owner" /\ Awaits("turn", r)' => Awaits("turn", r)
      BY <1>7 DEF Awaits
    <3> QED BY <3>1, <3>2 DEF PlaceAt
  <2>3. /\ k.prepared = h.prepared
        /\ k.taken # None => proc[r] # "none"
        /\ k.turn = "closing" => k.final = Uncertain \/ Spent(r)
    BY <1>7, <2>1 DEF Observed, PlaceAt
  <2>4. \A x \in Unwritten' : x.run = r => \/ x \in Unwritten
            \/ /\ x.kind \notin {"run.admitted", "worker.started"}
               /\ x.kind \in {"provider.final", "worker.termination.observed"} => k.turn \notin Early
               /\ x.kind = "provider.final" => x.arg = Uncertain \/ Spent(r)
               /\ x.kind = "worker.termination.observed" /\ x.arg = "completed" => Spent(r)
    BY <1>3, <1>7
  <2> QED BY <1>2, <1>3, <1>4, <2>2, <2>3, <2>4, PlaceMoves
<1>8. CASE TakePreparation(r, who)
  <2>1. Observed(r, who, "observing", None, h.prepared) /\ UNCHANGED inflight /\ h[who] = "observe"
    BY <1>8, ObservationFields DEF TakePreparation
  <2> QED BY <1>6, <2>1
<1>9. CASE NothingPrepared(r, who) \/ ObservationReturns(r, who)
  <2>1. /\ Observed(r, who, "idle", h.prepared, h.taken) /\ UNCHANGED inflight
        /\ h[who] = "observe" \/ ~Awaits(who, r)
    BY <1>9, ObservationFields DEF NothingPrepared, ObservationReturns
  <2> QED BY <1>6, <2>1
<1>10. CASE ObserveExit(r, who)
  <2>1. Observed(r, who, "observed", h.prepared, None) /\ h[who] = "observing"
    BY <1>10, ObservationFields DEF ObserveExit
  <2>2. PICK outcome \in {"completed", "uncertain"} :
            /\ Record(who, r, "worker.termination.observed", h.taken, outcome)
            /\ outcome = "completed" => proc[r] # "alive"
    BY <1>10 DEF ObserveExit
  <2>3. PICK e : /\ Unwritten' = Unwritten \cup {e} /\ e.by = who
                 /\ e.kind = "worker.termination.observed" /\ e.arg = outcome
    BY <1>1, <2>2, Adds
  <2>4. h.taken # None
    <3>1. "observing" \in {h.turn, h.owner}
      BY <2>1 DEF Observed
    <3> QED BY <1>1, <3>1 DEF Sound
  <2>5. e.arg = "completed" => Spent(r)
    BY <1>1, <2>2, <2>3, <2>4 DEF PlaceAt, Spent, Proc
  <2> QED BY <1>7, <2>1, <2>3, <2>5
<1>11. CASE KeepReservation(r, who)
  <2>1. Observed(r, who, "reserving", h.prepared, h.taken)
    BY <1>11, ObservationFields
  <2>2. Record(who, r, "reservation.released", None, "uncertain")
    BY <1>11 DEF KeepReservation
  <2>3. PICK e : /\ Unwritten' = Unwritten \cup {e} /\ e.by = who
                 /\ e.kind = "reservation.released"
    BY <1>1, <2>2, Adds
  <2> QED BY <1>7, <2>1, <2>3
<1> QED BY <1>8, <1>9, <1>10, <1>11 DEF ObservationStep

-----------------------------------------------------------------------------

LEMMA PlaceInit == Init => PlaceInv
<1> SUFFICES ASSUME Init PROVE PlaceInv
  OBVIOUS
<1>1. Unwritten = {} /\ inflight = <<>> /\ DOMAIN inflight = {} /\ up = "up" /\ todo = {}
  BY DEF Init, Unwritten
<1>2. ASSUME NEW r \in Runs PROVE PlaceAt(r)
  <2>1. /\ proc[r] = "none" /\ spawns[r] = 0 /\ ledger[r] = AbsentRun
        /\ host[r] = FreshHost
    BY DEF Init
  <2>2. /\ FreshHost.turn = "idle" /\ FreshHost.prepared = None /\ FreshHost.taken = None
        /\ ~AbsentRun.worker /\ AbsentRun.intended = {} /\ AbsentRun.unresolved = {}
        /\ AbsentRun.state = "absent"
    BY DEF FreshHost, AbsentRun
  <2> QED BY <1>1, <2>1, <2>2 DEF PlaceAt, Launching, Early, Pending, Awaits
<1> QED BY <1>1, <1>2 DEF PlaceInv, OneByOne, Stopped

\* A stopped coordinator has no callbacks and no queue.
LEMMA StoppedStep ==
    ASSUME TypeOK, Stopped, [Next]_vars
    PROVE  Stopped'
<1>1. \A r \in Runs : host[r] = FreshHost =>
          /\ host[r].turn = "idle" /\ host[r].owner = "idle" /\ host[r].term = "none"
          /\ host[r].limit = "none"
  BY DEF FreshHost
<1>2. CASE up = "down"
  <2>1. inflight = <<>> /\ \A r \in Runs : host[r] = FreshHost
    BY <1>2 DEF Stopped
  <2>2. \A r \in Runs : ~DeliveryStep(r)
    BY <1>1, <1>2, <2>1 DEF DeliveryStep, Deliver, Replay, Launch, LaunchFails, Identify,
           ReportWorker, Started, Complete, Finalize, Settle, DeliveryReturns, MayDeliver, At
  <2>3. \A r \in Runs : ~TerminationStep(r)
    BY <1>1, <1>2, <2>1 DEF TerminationStep, CancelRun, LimitFires, IntendTermination, Prepare,
           Signal, ExitConfirmed, AttemptFails, CancelReturns, AttemptAt
  <2>4. \A r \in Runs, who \in {"turn", "owner"} : ~ObservationStep(r, who)
    <3>1. ASSUME NEW r \in Runs, NEW who \in {"turn", "owner"} PROVE ~ObservationStep(r, who)
      <4>1. host[r][who] = "idle"
        BY <1>1, <2>1
      <4> QED BY <4>1 DEF ObservationStep, TakePreparation, NothingPrepared, ObserveExit,
              KeepReservation, ObservationReturns
    <3> QED BY <3>1
  <2>5. UNCHANGED <<inflight, host>>
    BY <1>2, <2>1, <2>2, <2>3, <2>4 DEF Next, vars, Commit, Admit, Exit, OutageStep, Crash,
       Restart, Recovered, Restore, RecoverRun, ResolveRun
  <2> QED BY <2>1, <2>5 DEF Stopped
<1>3. CASE up # "down" /\ Crash
  BY <1>3 DEF Crash, Stopped
<1>4. CASE up # "down" /\ ~Crash
  <2>1. up' # "down"
    BY <1>4 DEF Next, vars, Commit, Admit, Exit, DeliveryStep, TerminationStep, ObservationStep,
       Deliver, Replay, Launch, LaunchFails, Identify, ReportWorker, Started, Complete, Finalize,
       Settle, DeliveryReturns, CancelRun, LimitFires, IntendTermination, Prepare, Signal,
       ExitConfirmed, AttemptFails, CancelReturns, TakePreparation, NothingPrepared, ObserveExit,
       KeepReservation, ObservationReturns, OutageStep, Restart, Recovered, Restore, RecoverRun,
       ResolveRun, process
  <2> QED BY <2>1 DEF Stopped
<1> QED BY <1>2, <1>3, <1>4

\* A record that recovery or admission puts down for its run.
LEMMA RecordPlaces ==
    ASSUME TypeOK, TypeOK', NEW q \in Runs, PlaceAt(q), NEW r, NEW by, NEW kind,
           Record(by, r, kind, None, None), by # "turn",
           kind \in {"run.admitted", "effect.unresolved"}, kind = "run.admitted" => by = "admit",
           kind = "effect.unresolved" => r \in todo,
           todo' \subseteq todo, UNCHANGED <<ledger, proc, host, spawns>>
    PROVE  PlaceAt(q)'
<1>1. inflight \in Seq(Write) /\ inflight' \in Seq(Write)
  BY DEF TypeOK
<1>2. PICK e : Unwritten' = Unwritten \cup {e} /\ e.by = by /\ e.run = r /\ e.kind = kind
  BY <1>1, Adds
<1>3. CASE r # q
  <2>1. \A x \in Unwritten' : x.run = q => x \in Unwritten
    BY <1>2, <1>3
  <2> QED BY <2>1, PlaceQuiet DEF PlaceAt
<1>4. CASE r = q
  <2>1. /\ Delivered(q)' = Delivered(q) /\ Spent(q)' = Spent(q)
        /\ Untouched(host[q])' = Untouched(host[q])
        /\ IsTerminal(ledger[q])' = IsTerminal(ledger[q])
    BY DEF Delivered, Spent, Untouched, IsTerminal
  <2>2. /\ Pending("turn", q, "worker.started")' = Pending("turn", q, "worker.started")
        /\ Awaits("turn", q)' = Awaits("turn", q)
    BY <1>2 DEF Pending, Awaits
  <2>3. Launching(q)' = Launching(q)
    BY <2>2 DEF Launching
  <2>4. \A x \in Unwritten' : x.run = q => RecordSound(x)'
    BY <1>2, <1>4, <2>1, <2>3 DEF PlaceAt, RecordSound
  <2> QED BY <2>1, <2>2, <2>3, <2>4 DEF PlaceAt
<1> QED BY <1>3, <1>4

LEMMA PlaceStep ==
    ASSUME TypeOK, TypeOK', HostSound, LaunchInv, PlaceInv, [Next]_vars, NEW q \in Runs
    PROVE  PlaceAt(q)'
<1>1. /\ ledger \in [Runs -> Snapshot] /\ inflight \in Seq(Write) /\ inflight' \in Seq(Write)
      /\ host \in [Runs -> Host] /\ PlaceAt(q) /\ proc \in [Runs -> Proc]
  BY DEF TypeOK, PlaceInv
<1>2. ASSUME UNCHANGED <<ledger, host, spawns, proc, inflight>>, todo' \subseteq todo PROVE PlaceAt(q)'
  BY <1>1, <1>2, PlaceQuiet DEF PlaceAt, Unwritten
<1>3. CASE Commit
  BY <1>3, CommitPlaces
<1>4. ASSUME NEW r \in Runs, Admit(r) PROVE PlaceAt(q)'
  BY <1>1, <1>4, RecordPlaces DEF Admit, process, history
<1>5. ASSUME NEW r \in Runs, Exit(r) PROVE PlaceAt(q)'
  <2>1. UNCHANGED <<ledger, inflight, host, todo, spawns>>
    BY <1>5 DEF Exit, process, history
  <2>2. proc'[q] = proc[q] \/ (proc[q] = "alive" /\ Spent(q)')
    BY <1>1, <1>5 DEF Exit, Spent
  <2> QED BY <1>1, <2>1, <2>2, PlaceQuiet DEF PlaceAt, Unwritten
<1>6. ASSUME NEW r \in Runs, DeliveryStep(r) PROVE PlaceAt(q)'
  <2>1. PlaceAt(r)
    BY DEF PlaceInv
  <2>2. PlaceAt(r)' /\ UNCHANGED todo /\ (q # r => proc'[q] = proc[q] /\ spawns'[q] = spawns[q])
    BY <1>6, <2>1, DeliveryPlaces
  <2>3. q # r => host'[q] = host[q] /\ ledger' = ledger
    BY <1>6, DeliveryFrame
  <2> QED BY <1>1, <1>6, <2>1, <2>2, <2>3, DeliveryEnqueues, OtherPlaces
<1>7. ASSUME NEW r \in Runs, TerminationStep(r) PROVE PlaceAt(q)'
  <2>1. PlaceAt(r)
    BY DEF PlaceInv
  <2>2. PlaceAt(r)' /\ UNCHANGED <<proc, todo>>
    BY <1>7, <2>1, TerminationPlaces, TerminationFields
  <2>3. UNCHANGED <<ledger, spawns>> /\ (q # r => host'[q] = host[q])
    BY <1>7, TerminationFrame
  <2> QED BY <1>1, <1>7, <2>2, <2>3, TerminationEnqueues, OtherPlaces
<1>8. ASSUME NEW r \in Runs, NEW who \in {"turn", "owner"}, ObservationStep(r, who)
      PROVE  PlaceAt(q)'
  <2>1. PlaceAt(r)
    BY DEF PlaceInv
  <2>2. PlaceAt(r)' /\ UNCHANGED <<proc, spawns, todo>>
    BY <1>8, <2>1, ObservationPlaces
  <2>3. ledger' = ledger /\ (q # r => host'[q] = host[q])
    BY <1>8, ObservationFrame
  <2> QED BY <1>1, <1>8, <2>1, <2>2, <2>3, ObservationEnqueues, OtherPlaces
<1>9. CASE OutageStep
  <2>1. CASE Crash
    <3>1. /\ Unwritten' = {} /\ host'[q] = FreshHost
          /\ UNCHANGED <<ledger, proc, spawns>> /\ todo' = {}
      BY <1>1, <2>1 DEF Crash, Unwritten, history
    <3>2. /\ FreshHost.turn = "idle" /\ FreshHost.prepared = None /\ FreshHost.taken = None
      BY DEF FreshHost
    <3>3. Delivered(q)' = Delivered(q) /\ Spent(q)' = Spent(q)
          /\ IsTerminal(ledger[q])' = IsTerminal(ledger[q])
      BY <3>1 DEF Delivered, Spent, IsTerminal
    <3> QED BY <1>1, <3>1, <3>2, <3>3 DEF PlaceAt, Launching, Early, Pending, Awaits
  <2>2. CASE Restart
    <3>1. q \in todo' => Delivered(q)
      <4>1. q \in todo' => ledger[q].worker \/ ledger[q].unresolved # {}
        BY <2>2 DEF Restart, NeedsReconciling
      <4>2. ledger[q].worker => Delivered(q)
        BY DEF LaunchInv, LaunchAt
      <4> QED BY <1>1, <4>1, <4>2 DEF PlaceAt
    <3>2. UNCHANGED <<ledger, inflight, proc, host, spawns>>
      BY <2>2 DEF Restart, history
    <3> QED BY <1>1, <3>1, <3>2, PlaceQuiet DEF Unwritten
  <2>3. CASE Recovered
    BY <1>2, <2>3 DEF Recovered, history
  <2>4. ASSUME NEW r \in Runs, RecoverRun(r) PROVE PlaceAt(q)'
    <3>1. /\ Record("recover", r, "effect.unresolved", None, None) /\ r \in todo
          /\ todo' \subseteq todo /\ UNCHANGED <<ledger, proc, host, spawns>>
      BY <2>4 DEF RecoverRun, history
    <3> QED BY <1>1, <3>1, RecordPlaces
  <2>5. ASSUME up = "down", UNCHANGED <<inflight, proc, host, todo, spawns>>,
               ledger'[q].unresolved \subseteq ledger'[q].intended,
               ledger'[q].intended = ledger[q].intended,
               ledger'[q].worker => ~IsTerminal(ledger'[q]) \/ ledger'[q] = ledger[q]
        PROVE  PlaceAt(q)'
    <3>1. Unwritten = {} /\ Unwritten' = {} /\ host[q] = FreshHost
      BY <2>5 DEF Unwritten, PlaceInv, Stopped
    <3>2. /\ FreshHost.turn = "idle" /\ FreshHost.prepared = None /\ FreshHost.taken = None
      BY DEF FreshHost
    <3>3. Delivered(q)' = Delivered(q) /\ Spent(q)' = Spent(q)
      BY <2>5 DEF Delivered, Spent
    <3> QED BY <1>1, <2>5, <3>1, <3>2, <3>3 DEF PlaceAt, Launching, Early, Pending, Awaits, IsTerminal
  <2>6. CASE Restore
    <3>1. ledger'[q] = ledger[q] \/ ledger'[q] = Require(ledger[q])
      BY <1>1, <2>6 DEF Restore
    <3>2. \/ Require(ledger[q]) = ledger[q]
          \/ /\ Require(ledger[q]).state = "reconciling"
             /\ Require(ledger[q]).unresolved = ledger[q].unresolved
             /\ Require(ledger[q]).intended = ledger[q].intended
      BY <1>1 DEF Require, Snapshot
    <3>3. up = "down" /\ UNCHANGED <<inflight, proc, host, todo, spawns>>
      BY <2>6 DEF Restore, history
    <3> QED BY <1>1, <2>5, <3>1, <3>2, <3>3 DEF PlaceAt, IsTerminal, Terminal
  <2>7. ASSUME NEW r \in Runs, NEW d \in Disposition, ResolveRun(r, d) PROVE PlaceAt(q)'
    <3>1. ledger'[q] = ledger[q] \/ ledger'[q] = Resolve(ledger[q], d)
      BY <1>1, <2>7 DEF ResolveRun
    <3>2. /\ Resolve(ledger[q], d).intended = ledger[q].intended
          /\ Resolve(ledger[q], d).unresolved = {}
          /\ ~Resolve(ledger[q], d).worker
      BY <1>1 DEF Resolve, Snapshot
    <3>3. up = "down" /\ UNCHANGED <<inflight, proc, host, todo, spawns>>
      BY <2>7 DEF ResolveRun, history, process
    <3> QED BY <1>1, <2>5, <3>1, <3>2, <3>3 DEF PlaceAt, IsTerminal
  <2> QED BY <1>9, <2>1, <2>2, <2>3, <2>4, <2>6, <2>7 DEF OutageStep
<1>10. CASE UNCHANGED vars
  BY <1>2, <1>10 DEF vars
<1> QED BY <1>3, <1>4, <1>5, <1>6, <1>7, <1>8, <1>9, <1>10 DEF Next

LEMMA PlacesInductive ==
    ASSUME IInv, IInv', PlaceInv, [Next]_vars
    PROVE  PlaceInv'
<1>1. \A q \in Runs : PlaceAt(q)'
  BY PlaceStep DEF IInv
<1>2. OneByOne' /\ Stopped'
  BY OneByOneStep, StoppedStep DEF IInv, PlaceInv
<1> QED BY <1>1, <1>2 DEF PlaceInv

-----------------------------------------------------------------------------
\* Who holds a place: it is one of those admission counts, and only an
\* admission that found one free lets another run hold one.

LEMMA HoldersOccupy ==
    ASSUME IInv, PlaceInv, NEW r \in Runs, HoldsPlace(r)
    PROVE  Occupies(ledger[r])
<1>1. PlaceAt(r) /\ LaunchAt(r)
  BY DEF IInv, PlaceInv, LaunchInv
<1>2. CASE ledger[r].worker /\ proc[r] = "alive"
  <2>1. Admitted(ledger[r])
    BY <1>1, <1>2 DEF LaunchAt
  <2>2. IsTerminal(ledger[r]) => ledger[r].state = Uncertain
    BY <1>1, <1>2 DEF PlaceAt, Spent
  <2> QED BY <1>2, <2>1, <2>2 DEF Occupies, Uncertain
<1>3. CASE Launching(r)
  <2>1. ~IsTerminal(ledger[r])
    BY <1>1, <1>3 DEF PlaceAt
  <2>2. Admitted(ledger[r])
    BY <1>1, <1>3 DEF LaunchAt, Launching, Early
  <2> QED BY <2>1, <2>2 DEF Occupies
<1>4. CASE Admitted(ledger[r]) /\ ~IsTerminal(ledger[r])
  BY <1>4 DEF Occupies
<1> QED BY <1>2, <1>3, <1>4 DEF HoldsPlace

LEMMA ResolveEnds ==
    ASSUME NEW s \in Snapshot, NEW d \in Disposition
    PROVE  IsTerminal(Resolve(s, d))
<1> DEFINE st == IF d = "blocked" THEN "blocked"
                 ELSE IF s.result = None THEN "interrupted_uncertain"
                 ELSE TerminalState(s.result)
<1>1. st \in Terminal
  <2>1. CASE s.result \in Outcome
    BY <2>1, TerminalStates DEF Terminal
  <2>2. CASE s.result = None
    BY <2>2 DEF Terminal
  <2> QED BY <2>1, <2>2 DEF Snapshot
<1>2. Resolve(s, d).state = st
  BY DEF Resolve, Snapshot
<1> HIDE DEF st
<1> QED BY <1>1, <1>2 DEF IsTerminal

\* A run that a step leaves alone, but for records it loses.
LEMMA HoldsQuiet ==
    ASSUME NEW q \in Runs, ledger'[q] = ledger[q], host'[q].turn = host[q].turn \/ host'[q].turn \notin Early,
           proc'[q] = "alive" => proc[q] = "alive",
           \A e \in Unwritten' : e.run = q =>
               e \in Unwritten \/ e.kind \notin {"run.admitted", "worker.started"},
           q \in Holders'
    PROVE  q \in Holders
<1>1. Delivered(q)' = Delivered(q)
  BY DEF Delivered
<1>2. Pending("turn", q, "worker.started")' => Pending("turn", q, "worker.started")
  BY DEF Pending
<1>3. Launching(q)' => Launching(q)
  BY <1>2 DEF Launching
<1>4. AdmitPending(q)' => AdmitPending(q)
  BY DEF AdmitPending
<1> QED BY <1>1, <1>3, <1>4 DEF Holders, HoldsPlace, IsTerminal, Admitted

LEMMA CommitHolds ==
    ASSUME IInv, PlaceInv, Commit, NEW q \in Holders'
    PROVE  q \in Holders
<1> DEFINE e == Head(inflight)
<1>1. ledger \in [Runs -> Snapshot] /\ inflight \in Seq(Write) /\ PlaceAt(q) /\ q \in Runs
  BY DEF IInv, TypeOK, PlaceInv, Holders
<1>2. /\ inflight # <<>> /\ inflight' = Tail(inflight)
      /\ ledger' = [ledger EXCEPT ![e.run] = Apply(@, e)]
      /\ UNCHANGED <<host, proc>>
  BY DEF Commit
<1>3. e \in Write /\ e \in Unwritten /\ Unwritten' \subseteq Unwritten
  BY <1>1, <1>2, Written
<1> HIDE DEF e
<1>4. CASE q # e.run
  <2>1. ledger'[q] = ledger[q]
    BY <1>1, <1>2, <1>4
  <2> QED BY <1>1, <1>2, <1>3, <2>1, HoldsQuiet
<1>5. CASE q = e.run
  <2> DEFINE s == ledger[q]
             t == Apply(s, e)
  <2>1. ledger'[q] = t /\ s \in Snapshot
    BY <1>1, <1>2, <1>5
  <2>2. RecordSound(e) /\ LaunchInv
    BY <1>1, <1>3, <1>5 DEF PlaceAt, IInv
  <2>3. CASE Launching(q)'
    BY <1>1, <1>2, <1>3, <2>3 DEF Launching, Pending, Holders, HoldsPlace
  <2>4. CASE t.worker /\ proc'[q] = "alive"
    <3>1. CASE s.worker
      BY <1>1, <1>2, <2>4, <3>1 DEF Holders, HoldsPlace
    <3>2. CASE ~s.worker
      <4>1. e.kind = "worker.started"
        BY <1>3, <2>1, <2>4, <3>2, ApplyGrows
      <4>2. Pending("turn", q, "worker.started")
        BY <1>3, <1>5, <2>2, <4>1 DEF LaunchInv, Pending
      <4> QED BY <1>1, <4>2 DEF Launching, Holders, HoldsPlace
    <3> QED BY <3>1, <3>2
  <2>5. CASE Admitted(t) /\ ~IsTerminal(t) /\ ~t.recovery /\ ~Delivered(q)'
    <3>1. t.recovery = s.recovery /\ (~Admitted(s) => e.kind = "run.admitted")
      BY <1>3, <2>1, <2>5, ApplyPlaces
    <3>2. CASE ~Admitted(s)
      BY <1>1, <1>3, <1>5, <3>1, <3>2 DEF Holders, AdmitPending
    <3>3. CASE Admitted(s)
      <4>1. ~Delivered(q)
        BY <1>3, <2>1, <2>5, ApplyGrows DEF Grows, Delivered
      <4>2. e.kind \in {"run.admitted", "effect.intended"}
        BY <1>5, <2>2, <4>1 DEF RecordSound
      <4>3. e.kind # "effect.intended"
        <5>1. e.kind = "effect.intended" => e.op = "turn" /\ e.op \in t.intended
          BY <1>3, <2>1, <3>3, ApplyGrows DEF Write
        <5> QED BY <2>1, <2>5, <5>1 DEF Delivered
      <4>4. t = s
        BY <3>3, <4>2, <4>3 DEF Apply, Admitted
      <4> QED BY <1>1, <2>5, <4>1, <4>4 DEF Holders, HoldsPlace
    <3> QED BY <3>2, <3>3
  <2>6. CASE AdmitPending(q)'
    BY <1>1, <1>3, <2>6 DEF AdmitPending, Holders
  <2> HIDE DEF t, s
  <2> QED BY <2>1, <2>3, <2>4, <2>5, <2>6 DEF Holders, HoldsPlace
<1> QED BY <1>4, <1>5

LEMMA DeliveryHolds ==
    ASSUME IInv, IInv', PlaceInv, NEW r \in Runs, DeliveryStep(r), NEW q \in Holders'
    PROVE  q \in Holders
<1>1. /\ host \in [Runs -> Host] /\ proc \in [Runs -> Proc]
      /\ inflight \in Seq(Write) /\ inflight' \in Seq(Write)
      /\ TypeOK /\ TypeOK' /\ PlaceAt(r) /\ LaunchAt(r) /\ q \in Runs
  BY DEF IInv, TypeOK, PlaceInv, LaunchInv, Holders
<1>2. /\ ledger' = ledger
      /\ \A p \in Runs : host'[p] # host[p] => p = r
      /\ \A e \in Unwritten' \ Unwritten :
             e.by = "turn" /\ (e.kind = "worker.started" => ReportWorker(r))
  BY <1>1, DeliveryFrame
<1>3. \A e \in Unwritten' \ Unwritten : e.run = r /\ e.kind # "run.admitted"
  <2>1. UNCHANGED inflight \/ (\E kind, op, arg : Record("turn", r, kind, op, arg) /\ kind # "run.admitted")
    <3>1. CASE Deliver(r)
      BY <3>1 DEF Deliver
    <3>2. CASE LaunchFails(r) \/ Identify(r)
      BY <3>2 DEF LaunchFails, Identify
    <3>3. CASE ReportWorker(r)
      BY <3>3 DEF ReportWorker
    <3>4. CASE Finalize(r)
      BY <3>4 DEF Finalize
    <3>5. CASE Settle(r)
      BY <3>5 DEF Settle
    <3>6. CASE Replay(r) \/ Launch(r) \/ Started(r) \/ Complete(r) \/ DeliveryReturns(r)
      BY <3>6 DEF Replay, Launch, Started, Complete, DeliveryReturns
    <3> QED BY <3>1, <3>2, <3>3, <3>4, <3>5, <3>6 DEF DeliveryStep
  <2>2. UNCHANGED inflight => Unwritten' = Unwritten
    BY DEF Unwritten
  <2>3. ASSUME NEW kind, NEW op, NEW arg, Record("turn", r, kind, op, arg), kind # "run.admitted"
        PROVE  \A e \in Unwritten' \ Unwritten : e.run = r /\ e.kind # "run.admitted"
    BY <1>1, <2>3, Adds
  <2> QED BY <2>1, <2>2, <2>3
<1>4. \A p \in Runs : p # r => proc'[p] = proc[p]
  BY <1>1, DeliveryPlaces DEF IInv
<1>5. CASE q # r
  BY <1>1, <1>2, <1>3, <1>4, <1>5, HoldsQuiet
<1>6. CASE q = r /\ (Deliver(r) \/ Launch(r) \/ ReportWorker(r) \/ Identify(r))
  <2>1. CASE Deliver(r)
    BY <1>1, <1>6, <2>1 DEF Deliver, MayDeliver, RecoveryPending, Holders, HoldsPlace
  <2>2. CASE Launch(r) \/ ReportWorker(r) \/ Identify(r)
    <3>1. host[r].turn \in Early
      BY <2>2 DEF Launch, ReportWorker, Identify, At, Early
    <3> QED BY <1>1, <1>6, <3>1 DEF Launching, Holders, HoldsPlace
  <2> QED BY <1>6, <2>1, <2>2
<1>7. CASE q = r /\ ~(Deliver(r) \/ Launch(r) \/ ReportWorker(r) \/ Identify(r))
  <2>1. UNCHANGED proc
    BY <1>7 DEF DeliveryStep, Replay, LaunchFails, Started, Complete, Finalize, Settle, DeliveryReturns
  <2>2. host'[r].turn \notin Early
    <3>1. CASE Replay(r) \/ LaunchFails(r) \/ Started(r)
      BY <1>1, <3>1 DEF Replay, LaunchFails, Started, SetHost, Host, Early
    <3>2. CASE Finalize(r)
      BY <1>1, <3>2 DEF Finalize, SetHost, Host, Early
    <3>5. CASE Settle(r)
      BY <1>1, <3>5 DEF Settle, SetHost, Host, Early
    <3>4. CASE DeliveryReturns(r)
      BY <1>1, <3>4 DEF DeliveryReturns, SetHost, Host, Early
    <3>3. CASE Complete(r)
      <4>1. PICK outcome, usage :
                SetHost(r, [host[r] EXCEPT !.turn = "closing", !.final = outcome, !.usage = usage,
                                           !.cancelled = FALSE, !.limit = "none",
                                           !.term = IF @ = "over" THEN "none" ELSE @])
        BY <3>3 DEF Complete
      <4>2. PICK tm : tm = IF host[r].term = "over" THEN "none" ELSE host[r].term
        OBVIOUS
      <4>3. host'[r] = [host[r] EXCEPT !.turn = "closing", !.final = outcome, !.usage = usage,
                                       !.cancelled = FALSE, !.limit = "none", !.term = tm]
        BY <1>1, <4>1, <4>2 DEF SetHost
      <4> QED BY <1>1, <4>3 DEF Host, Early
    <3> QED BY <1>7, <3>1, <3>2, <3>3, <3>4, <3>5 DEF DeliveryStep
  <2> QED BY <1>1, <1>2, <1>3, <1>7, <2>1, <2>2, HoldsQuiet
<1> QED BY <1>5, <1>6, <1>7

\* Nobody but an admission finds a place.
LEMMA HoldsStep ==
    ASSUME IInv, IInv', PlaceInv, [Next]_vars, \A r \in Runs : ~Admit(r), NEW q \in Holders'
    PROVE  q \in Holders
<1>1. /\ ledger \in [Runs -> Snapshot] /\ inflight \in Seq(Write) /\ inflight' \in Seq(Write)
      /\ TypeOK /\ TypeOK' /\ LaunchInv /\ q \in Runs /\ proc \in [Runs -> Proc]
  BY DEF IInv, TypeOK, Holders
<1>2. CASE Commit
  BY <1>2, CommitHolds
<1>3. ASSUME NEW r \in Runs, DeliveryStep(r) PROVE q \in Holders
  BY <1>3, DeliveryHolds
<1>4. ASSUME NEW r \in Runs, TerminationStep(r) PROVE q \in Holders
  <2>1. /\ ledger' = ledger /\ proc' = proc
        /\ \A p \in Runs : host'[p].turn = host[p].turn
        /\ \A e \in Unwritten' \ Unwritten : e.kind \in {"authority.revoked", "worker.termination.intended"}
    <3>1. /\ \A p \in Runs : host'[p] # host[p] => p = r
          /\ host'[r].turn = host[r].turn /\ ledger' = ledger
      BY <1>1, <1>4, TerminationFrame
    <3>2. /\ proc' = proc
          /\ \A e \in Unwritten' \ Unwritten : e.kind \in {"authority.revoked", "worker.termination.intended"}
      BY <1>1, <1>4, TerminationFields
    <3> QED BY <3>1, <3>2
  <2> QED BY <1>1, <2>1, HoldsQuiet
<1>5. ASSUME NEW r \in Runs, NEW who \in {"turn", "owner"}, ObservationStep(r, who)
      PROVE  q \in Holders
  <2>1. /\ ledger' = ledger /\ \A p \in Runs : host'[p] # host[p] => p = r
        /\ host'[r].turn \notin Early
    BY <1>1, <1>5, ObservationFrame
  <2>2. proc' = proc
    BY <1>5 DEF ObservationStep, TakePreparation, NothingPrepared, ObserveExit, KeepReservation,
       ObservationReturns
  <2>3. \A e \in Unwritten' \ Unwritten : e.kind \notin {"run.admitted", "worker.started"}
    <3>1. CASE UNCHANGED inflight
      BY <3>1 DEF Unwritten
    <3>2. CASE ~UNCHANGED inflight
      <4>1. \E kind, op, arg : /\ Record(who, r, kind, op, arg)
                               /\ kind \in {"worker.termination.observed", "reservation.released"}
        BY <1>5, <3>2 DEF ObservationStep, TakePreparation, NothingPrepared, ObserveExit,
           KeepReservation, ObservationReturns
      <4> QED BY <1>1, <4>1, Adds
    <3> QED BY <3>1, <3>2
  <2> QED BY <1>1, <2>1, <2>2, <2>3, HoldsQuiet
<1>6. ASSUME UNCHANGED <<ledger, host, inflight>>, \A p \in Runs : proc'[p] = "alive" => proc[p] = "alive"
      PROVE  q \in Holders
  <2>1. Unwritten' = Unwritten
    BY <1>6 DEF Unwritten
  <2> QED BY <1>1, <1>6, <2>1, HoldsQuiet
<1>7. ASSUME NEW r \in Runs, Exit(r) PROVE q \in Holders
  BY <1>1, <1>6, <1>7 DEF Exit
<1>8. CASE OutageStep
  <2>1. CASE Crash
    <3>1. Unwritten' = {} /\ host'[q] = FreshHost /\ UNCHANGED <<ledger, proc>>
      BY <1>1, <2>1 DEF Crash, Unwritten
    <3>2. FreshHost.turn \notin Early
      BY FreshKept DEF Early
    <3> QED BY <1>1, <3>1, <3>2, HoldsQuiet
  <2>2. CASE Restart \/ Recovered
    BY <1>6, <2>2 DEF Restart, Recovered
  <2>3. ASSUME NEW r \in Runs, RecoverRun(r) PROVE q \in Holders
    <3>1. Record("recover", r, "effect.unresolved", None, None) /\ UNCHANGED <<ledger, host, proc>>
      BY <2>3 DEF RecoverRun
    <3>2. \A e \in Unwritten' : e \in Unwritten \/ e.kind \notin {"run.admitted", "worker.started"}
      BY <1>1, <3>1, Adds
    <3> QED BY <1>1, <3>1, <3>2, HoldsQuiet
  <2>4. ASSUME UNCHANGED <<inflight, host, proc>>,
               ledger'[q] = ledger[q] \/ ledger'[q].recovery \/ IsTerminal(ledger'[q]),
               ledger'[q].worker => ledger[q].worker
        PROVE  q \in Holders
    <3>1. /\ Unwritten' = Unwritten /\ Launching(q)' = Launching(q)
          /\ AdmitPending(q)' = AdmitPending(q)
      BY <2>4 DEF Unwritten, Launching, Pending, AdmitPending
    <3>2. ledger'[q] = ledger[q] => q \in Holders
      BY <1>1, <2>4, <3>1, HoldsQuiet
    <3> QED BY <1>1, <2>4, <3>1, <3>2 DEF Holders, HoldsPlace, IsTerminal
  <2>5. CASE Restore
    <3>1. ledger'[q] = ledger[q] \/ ledger'[q] = Require(ledger[q])
      BY <1>1, <2>5 DEF Restore
    <3>2. Require(ledger[q]).recovery /\ Require(ledger[q]).worker = ledger[q].worker
      BY <1>1 DEF Require, Snapshot
    <3> QED BY <2>4, <2>5, <3>1, <3>2 DEF Restore
  <2>6. ASSUME NEW r \in Runs, NEW d \in Disposition, ResolveRun(r, d) PROVE q \in Holders
    <3>1. ledger'[q] = ledger[q] \/ ledger'[q] = Resolve(ledger[q], d)
      BY <1>1, <2>6 DEF ResolveRun
    <3>2. ~Resolve(ledger[q], d).worker
      BY <1>1, ResolveGrows
    <3>3. ledger'[q] = Resolve(ledger[q], d) => IsTerminal(ledger'[q])
      BY <1>1, ResolveEnds
    <3> QED BY <2>4, <2>6, <3>1, <3>2, <3>3 DEF ResolveRun
  <2> QED BY <1>8, <2>1, <2>2, <2>3, <2>5, <2>6 DEF OutageStep
<1>9. CASE UNCHANGED vars
  BY <1>6, <1>9 DEF vars
<1> QED BY <1>2, <1>3, <1>4, <1>5, <1>7, <1>8, <1>9 DEF Next

LEMMA CountStep ==
    ASSUME IInv, IInv', PlaceInv, [Next]_vars, Cardinality(Holders) <= MaxRuns
    PROVE  Cardinality(Holders') <= MaxRuns
<1>1. IsFiniteSet(Runs) /\ MaxRuns \in Nat
  BY LifecycleAssumption
<1>2. /\ Holders \subseteq Runs /\ Holders' \subseteq Runs /\ Occupied \subseteq Runs
      /\ IsFiniteSet(Holders) /\ IsFiniteSet(Holders') /\ IsFiniteSet(Occupied)
  <2>1. Holders \subseteq Runs /\ Holders' \subseteq Runs /\ Occupied \subseteq Runs
    BY DEF Holders, Occupied
  <2> QED BY <1>1, <2>1, FS_Subset
<1>3. Cardinality(Holders) \in Nat /\ Cardinality(Holders') \in Nat /\ Cardinality(Occupied) \in Nat
  BY <1>2, FS_CardinalityType
<1>4. CASE \A r \in Runs : ~Admit(r)
  <2>1. Holders' \subseteq Holders
    BY <1>4, HoldsStep
  <2>2. Cardinality(Holders') <= Cardinality(Holders)
    BY <1>2, <2>1, FS_Subset
  <2> QED BY <1>1, <1>3, <2>2
<1>5. ASSUME NEW r \in Runs, Admit(r) PROVE Cardinality(Holders') <= MaxRuns
  <2>1. /\ ~Admitting /\ Cardinality(Occupied) < MaxRuns
        /\ Record("admit", r, "run.admitted", None, None)
        /\ UNCHANGED <<ledger, proc, host>>
    BY <1>5 DEF Admit
  <2>2. inflight \in Seq(Write) /\ inflight' \in Seq(Write)
    BY DEF IInv, TypeOK
  <2>3. PICK e : Unwritten' = Unwritten \cup {e} /\ e.run = r /\ e.kind = "run.admitted"
    BY <2>1, <2>2, Adds
  <2>4. \A q \in Runs : ~AdmitPending(q)
    BY <2>1 DEF Admitting, Awaits, AdmitPending, PlaceInv, PlaceAt, RecordSound
  <2>5. Holders \subseteq Occupied
    BY <2>4, HoldersOccupy DEF Holders, Occupied
  <2>6. ASSUME NEW q \in Holders', q # r PROVE q \in Holders
    BY <1>2, <2>1, <2>3, <2>6, HoldsQuiet
  <2>7. Holders' \subseteq Occupied \cup {r}
    BY <2>5, <2>6
  <2>8. /\ IsFiniteSet(Occupied \cup {r})
        /\ Cardinality(Occupied \cup {r}) = IF r \in Occupied THEN Cardinality(Occupied)
                                            ELSE Cardinality(Occupied) + 1
    BY <1>2, FS_AddElement
  <2>9. Cardinality(Holders') <= Cardinality(Occupied \cup {r})
    BY <2>7, <2>8, FS_Subset
  <2> QED BY <1>1, <1>3, <2>1, <2>8, <2>9
<1> QED BY <1>4, <1>5

LEMMA PlacesInvariant == Spec => []PlacesInv
<1>1. Init => PlacesInv
  <2> SUFFICES ASSUME Init PROVE PlacesInv
    OBVIOUS
  <2>1. IInv /\ PlaceInv
    BY TypeInit, LaunchInit, SignalInit, PlaceInit DEF IInv
  <2>2. Holders = {}
    <3>1. Unwritten = {}
      BY DEF Init, Unwritten
    <3>2. ASSUME NEW r \in Runs PROVE ~HoldsPlace(r) /\ ~AdmitPending(r)
      <4>1. ledger[r] = AbsentRun /\ host[r] = FreshHost /\ proc[r] = "none"
        BY DEF Init
      <4>2. FreshHost.turn = "idle" /\ AbsentRun.state = "absent"
        BY DEF FreshHost, AbsentRun
      <4> QED BY <3>1, <4>1, <4>2 DEF HoldsPlace, AdmitPending, Launching, Early, Pending, Admitted
    <3> QED BY <3>2 DEF Holders
  <2> QED BY <2>1, <2>2, FS_EmptySet, LifecycleAssumption DEF PlacesInv
<1>2. IInv /\ IInv' /\ PlacesInv /\ [Next]_vars => PlacesInv'
  <2> SUFFICES ASSUME IInv, IInv', PlacesInv, [Next]_vars PROVE PlacesInv'
    OBVIOUS
  <2>1. PlaceInv'
    BY PlacesInductive DEF PlacesInv
  <2>2. Cardinality(Holders') <= MaxRuns
    BY CountStep DEF PlacesInv
  <2> QED BY <2>1, <2>2 DEF PlacesInv
<1> QED BY <1>1, <1>2, Inductive, PTL DEF Spec

\* For any number of runs and any limit, however admissions, deliveries,
\* cancellations, exits, crashes and restores interleave, no more workers
\* that the ledger knows are alive than maxConcurrentRuns allows.
THEOREM WorkersWithinLimitHolds == Spec => []WorkersWithinLimit
<1>1. PlacesInv => WorkersWithinLimit
  <2> SUFFICES ASSUME PlacesInv PROVE WorkersWithinLimit
    OBVIOUS
  <2> DEFINE W == {r \in Runs : ledger[r].worker /\ proc[r] = "alive"}
  <2>1. W \subseteq Holders /\ Holders \subseteq Runs
    BY DEF Holders, HoldsPlace
  <2>2. IsFiniteSet(Holders) /\ MaxRuns \in Nat /\ Cardinality(Holders) <= MaxRuns
    BY <2>1, FS_Subset, LifecycleAssumption DEF PlacesInv
  <2>3. /\ Cardinality(W) <= Cardinality(Holders) /\ IsFiniteSet(W)
    BY <2>1, <2>2, FS_Subset
  <2>4. Cardinality(W) \in Nat /\ Cardinality(Holders) \in Nat
    BY <2>2, <2>3, FS_CardinalityType
  <2>5. Cardinality(W) <= MaxRuns
    BY <2>2, <2>3, <2>4
  <2> QED BY <2>5 DEF WorkersWithinLimit
<1> QED BY <1>1, PlacesInvariant, PTL

-----------------------------------------------------------------------------
\* Receipts: why a confirmed owner cancel comes after the turn's result.  What
\* the owner's attempt prepared is left to the cancel while the delivery goes
\* on, and the cancel waits for the delivery; what a delivery takes up itself
\* it takes up behind its own result.

OwnersAttempt == {"authorized", "awaiting"}

ReceiptAt(r) ==
    /\ host[r].prepared = "cancelled" /\ host[r].turn \in Delivering =>
           host[r].owner \in OwnersAttempt
    /\ host[r].reason = "cancelled" =>
           /\ host[r].term \in Attempting => host[r].owner = "cancelling"
           /\ host[r].term \in {"signal", "waiting"} => host[r].owner = "authorized"
    /\ host[r].taken = "cancelled" => ledger[r].result # None
    /\ "timeout" \in {host[r].prepared, host[r].taken} => "timeout" \in ledger[r].intended
    /\ host[r].turn \in Observing \cup {"release"} => ledger[r].result # None
    /\ host[r].owner # "idle" /\ host[r].turn \notin Delivering => ledger[r].result # None
    /\ host[r].turn = "final" => ledger[r].result # None \/ Pending("turn", r, "provider.final")
    /\ ledger[r].state = "cancelled" =>
           ledger[r].result # None \/ "timeout" \in ledger[r].intended
    /\ \A e \in Unwritten :
           e.run = r /\ e.kind = "worker.termination.observed" =>
               IF e.op = "cancelled" THEN ledger[r].result # None
               ELSE "timeout" \in ledger[r].intended

ReceiptInv == \A r \in Runs : ReceiptAt(r)

\* What the ledger keeps of a result, and when it ends as cancelled.
Answers(s, t) ==
    /\ s.result # None => t.result # None
    /\ "timeout" \in s.intended => "timeout" \in t.intended
    /\ t.state = "cancelled" =>
           s.state = "cancelled" \/ t.result # None \/ "timeout" \in t.intended

LEMMA ApplyAnswers ==
    ASSUME NEW s \in Snapshot, NEW e \in Write, NEW t, t = Apply(s, e),
           e.kind = "worker.termination.observed" =>
               s.result # None \/ "timeout" \in s.intended
    PROVE  /\ Answers(s, t)
           /\ e.kind = "provider.final" /\ Admitted(s) => t.result # None
<1>1. e.kind \in Kind /\ (e.kind = "provider.final" => e.arg \in Outcome)
  BY DEF Write, WriteField
<1>2. CASE e.kind = "run.admitted"
  BY <1>2 DEF Apply, Answers, Snapshot
<1>3. CASE s.state = "absent" /\ e.kind # "run.admitted"
  <2>1. t = s
    BY <1>3 DEF Apply
  <2> QED BY <1>3, <2>1 DEF Answers, Admitted
<1>4. CASE s.state # "absent" /\ e.kind \in {"effect.intended", "worker.termination.intended"}
  <2>1. t = Intend(s, e.op)
    BY <1>4 DEF Apply
  <2> QED BY <1>4, <2>1 DEF Intend, Answers, Snapshot
<1>5. CASE s.state # "absent" /\ e.kind \in {"worker.started", "effect.unresolved", "authority.revoked"}
  <2>1. /\ t.state \in {"running", "reconciling", "cancelling"} /\ t.result = s.result
        /\ t.intended = s.intended
    BY <1>5 DEF Apply, Snapshot
  <2> QED BY <1>5, <2>1 DEF Answers
<1>6. CASE s.state # "absent" /\ e.kind \in {"effect.receipt", "reservation.released"}
  <2>1. t.state = s.state /\ t.result = s.result /\ t.intended = s.intended
    BY <1>6 DEF Apply, Receive, Snapshot
  <2> QED BY <1>6, <2>1 DEF Answers
<1>7. CASE s.state # "absent" /\ e.kind = "worker.termination.observed"
  <2>1. t = ObserveTermination(s, e.op, e.arg = "completed")
    BY <1>7 DEF Apply
  <2>2. t.result = s.result /\ t.intended = s.intended
    BY <2>1 DEF ObserveTermination, Receive, Snapshot
  <2> QED BY <1>7, <2>2 DEF Answers
<1>8. CASE s.state # "absent" /\ e.kind = "provider.final"
  <2>1. t.result = e.arg /\ t.intended = s.intended
    BY <1>8 DEF Apply, Snapshot
  <2>2. t.result # None
    BY <1>1, <1>8, <2>1, Constants
  <2> QED BY <2>1, <2>2 DEF Answers
<1> QED BY <1>1, <1>2, <1>3, <1>4, <1>5, <1>6, <1>7, <1>8 DEF Kind

LEMMA OfflineAnswers ==
    ASSUME NEW s \in Snapshot, NEW d \in Disposition
    PROVE  Answers(s, Require(s)) /\ Answers(s, Resolve(s, d))
<1>1. Answers(s, Require(s))
  BY DEF Answers, Require, Snapshot
<1>2. /\ Resolve(s, d).result = s.result /\ Resolve(s, d).intended = s.intended
      /\ s.result = None => Resolve(s, d).state \in {"blocked", "interrupted_uncertain"}
  BY DEF Resolve, Snapshot
<1> QED BY <1>1, <1>2 DEF Answers

\* A run whose callbacks stand still.
LEMMA ReceiptQuiet ==
    ASSUME NEW q \in Runs, ReceiptAt(q), host'[q] = host[q], Answers(ledger[q], ledger'[q]),
           Pending("turn", q, "provider.final") =>
               Pending("turn", q, "provider.final")' \/ ledger'[q].result # None,
           \A e \in Unwritten' : e.run = q =>
               e \in Unwritten \/ e.kind # "worker.termination.observed"
    PROVE  ReceiptAt(q)'
BY DEF ReceiptAt, Answers

\* A run whose callbacks move while the ledger stands still.
LEMMA ReceiptMoves ==
    ASSUME NEW r \in Runs, ReceiptAt(r), ledger'[r] = ledger[r],
           host'[r].prepared = "cancelled" /\ host'[r].turn \in Delivering =>
               host'[r].owner \in OwnersAttempt,
           host'[r].reason = "cancelled" =>
               /\ host'[r].term \in Attempting => host'[r].owner = "cancelling"
               /\ host'[r].term \in {"signal", "waiting"} => host'[r].owner = "authorized",
           host'[r].taken = "cancelled" => ledger[r].result # None,
           "timeout" \in {host'[r].prepared, host'[r].taken} => "timeout" \in ledger[r].intended,
           host'[r].turn \in Observing \cup {"release"} => ledger[r].result # None,
           host'[r].owner # "idle" /\ host'[r].turn \notin Delivering => ledger[r].result # None,
           host'[r].turn = "final" =>
               ledger[r].result # None \/ Pending("turn", r, "provider.final")',
           \A e \in Unwritten' : e.run = r => \/ e \in Unwritten
               \/ e.kind # "worker.termination.observed"
               \/ IF e.op = "cancelled" THEN ledger[r].result # None
                  ELSE "timeout" \in ledger[r].intended
    PROVE  ReceiptAt(r)'
BY DEF ReceiptAt

LEMMA CommitReceipt ==
    ASSUME IInv, PlaceInv, ReceiptInv, Commit, NEW q \in Runs
    PROVE  ReceiptAt(q)'
<1> DEFINE e == Head(inflight)
<1>1. /\ ledger \in [Runs -> Snapshot] /\ inflight \in Seq(Write)
      /\ PlaceAt(q) /\ ReceiptAt(q) /\ LaunchAt(q)
  BY DEF IInv, TypeOK, PlaceInv, ReceiptInv, LaunchInv
<1>2. /\ inflight # <<>> /\ inflight' = Tail(inflight)
      /\ ledger' = [ledger EXCEPT ![e.run] = Apply(@, e)]
      /\ UNCHANGED host
  BY DEF Commit
<1>3. /\ e \in Write /\ e \in Unwritten /\ Unwritten' \subseteq Unwritten
      /\ Unwritten \subseteq Unwritten' \cup {e}
  BY <1>1, <1>2, Written
<1> HIDE DEF e
<1>4. CASE q # e.run
  <2>1. ledger'[q] = ledger[q] /\ Answers(ledger[q], ledger'[q])
    BY <1>1, <1>2, <1>4 DEF Answers
  <2>2. Pending("turn", q, "provider.final") => Pending("turn", q, "provider.final")'
    BY <1>3, <1>4 DEF Pending
  <2> QED BY <1>1, <1>2, <1>3, <2>1, <2>2, ReceiptQuiet
<1>5. CASE q = e.run
  <2>1. ledger'[q] = Apply(ledger[q], e) /\ ledger[q] \in Snapshot
    BY <1>1, <1>2, <1>5
  <2>2. e.kind = "worker.termination.observed" =>
            ledger[q].result # None \/ "timeout" \in ledger[q].intended
    BY <1>1, <1>3, <1>5 DEF ReceiptAt
  <2>3. e.kind = "provider.final" => Admitted(ledger[q])
    BY <1>1, <1>3, <1>5 DEF PlaceAt, RecordSound, LaunchAt
  <2>4. /\ Answers(ledger[q], ledger'[q])
        /\ e.kind = "provider.final" => ledger'[q].result # None
    BY <1>3, <2>1, <2>2, <2>3, ApplyAnswers
  <2>5. Pending("turn", q, "provider.final") =>
            Pending("turn", q, "provider.final")' \/ ledger'[q].result # None
    BY <1>3, <2>4 DEF Pending
  <2> QED BY <1>1, <1>2, <1>3, <2>4, <2>5, ReceiptQuiet
<1> QED BY <1>4, <1>5

\* What a step of the delivery makes of the turn.
LEMMA DeliveryTurns ==
    ASSUME TypeOK, TypeOK', LaunchInv, NEW r \in Runs, PlaceAt(r), ReceiptAt(r), DeliveryStep(r)
    PROVE  /\ host'[r].taken = host[r].taken /\ host'[r].turn # "idle"
           /\ host'[r].turn \in Delivering => host[r].turn \in Delivering \/ Untouched(host[r])
           /\ host'[r].turn \in Observing \cup {"release"} => ledger[r].result # None
           /\ host'[r].turn = "final" => Pending("turn", r, "provider.final")'
           /\ \A e \in Unwritten' : e \in Unwritten \/ e.kind # "worker.termination.observed"
<1> DEFINE h == host[r]
           k == host'[r]
<1>1. /\ h \in Host /\ host \in [Runs -> Host] /\ LaunchAt(r)
      /\ inflight \in Seq(Write) /\ inflight' \in Seq(Write)
  BY DEF TypeOK, LaunchInv
<1>2. UNCHANGED inflight =>
          \A e \in Unwritten' : e \in Unwritten \/ e.kind # "worker.termination.observed"
  BY DEF Unwritten
<1>3. ASSUME NEW kind, NEW op, NEW arg, Record("turn", r, kind, op, arg),
             kind # "worker.termination.observed"
      PROVE  /\ \A e \in Unwritten' : e \in Unwritten \/ e.kind # "worker.termination.observed"
             /\ kind = "provider.final" => Pending("turn", r, "provider.final")'
  <2>1. PICK e : Unwritten' = Unwritten \cup {e} /\ e.by = "turn" /\ e.run = r /\ e.kind = kind
    BY <1>1, <1>3, Adds
  <2> QED BY <1>3, <2>1 DEF Pending
<1>4. CASE Deliver(r)
  <2>1. /\ k.turn = "intent" /\ k.taken = h.taken /\ Untouched(h)
        /\ Record("turn", r, "effect.intended", "turn", None)
    BY <1>1, <1>4 DEF Deliver, MayDeliver, LaunchAt, SetHost, Host
  <2> QED BY <1>3, <2>1 DEF Observing
<1>5. CASE Replay(r)
  <2>1. k.turn = "observe" /\ k.taken = h.taken /\ UNCHANGED inflight /\ ledger[r].result # None
    BY <1>1, <1>5 DEF Replay, SetHost, Host
  <2> QED BY <1>2, <2>1 DEF Delivering
<1>6. CASE Launch(r) \/ Started(r)
  <2>1. /\ k.turn \in {"spawned", "running"} /\ k.taken = h.taken /\ UNCHANGED inflight
        /\ h.turn \in Delivering
    BY <1>1, <1>6 DEF Launch, Started, At, SetHost, Host, Delivering
  <2> QED BY <1>2, <2>1 DEF Observing
<1>7. CASE LaunchFails(r) \/ Identify(r)
  <2>1. /\ k.turn \in {"failing", "receipt"} /\ k.taken = h.taken /\ h.turn \in Delivering
        /\ Record("turn", r, "effect.receipt", "turn", None)
    BY <1>1, <1>7 DEF LaunchFails, Identify, At, SetHost, Host, Delivering
  <2> QED BY <1>3, <2>1 DEF Observing
<1>8. CASE ReportWorker(r)
  <2>1. /\ k.turn = "starting" /\ k.taken = h.taken /\ h.turn \in Delivering
        /\ Record("turn", r, "worker.started", None, None)
    BY <1>1, <1>8 DEF ReportWorker, At, SetHost, Host, Delivering
  <2> QED BY <1>3, <2>1 DEF Observing
<1>9. CASE Complete(r)
  <2>1. PICK outcome, usage :
            SetHost(r, [h EXCEPT !.turn = "closing", !.final = outcome, !.usage = usage,
                                 !.cancelled = FALSE, !.limit = "none",
                                 !.term = IF @ = "over" THEN "none" ELSE @])
    BY <1>9 DEF Complete
  <2>2. PICK tm : tm = IF h.term = "over" THEN "none" ELSE h.term
    OBVIOUS
  <2>3. k = [h EXCEPT !.turn = "closing", !.final = outcome, !.usage = usage,
                      !.cancelled = FALSE, !.limit = "none", !.term = tm]
    BY <1>1, <2>1, <2>2 DEF SetHost
  <2>4. k.turn = "closing" /\ k.taken = h.taken
    BY <1>1, <2>3 DEF Host
  <2>5. UNCHANGED inflight /\ h.turn \in Delivering
    BY <1>9 DEF Complete, At, Delivering
  <2> QED BY <1>2, <2>4, <2>5 DEF Observing
<1>10. CASE Finalize(r)
  <2>1. k.turn = "final" /\ k.taken = h.taken
    BY <1>1, <1>10 DEF Finalize, SetHost, Host
  <2>2. /\ h.turn \in Delivering
        /\ \E arg : Record("turn", r, "provider.final", None, arg)
    BY <1>10 DEF Finalize, At, Delivering
  <2> QED BY <1>3, <2>1, <2>2 DEF Observing
<1>11. CASE Settle(r)
  <2>1. k.turn = "release" /\ k.taken = h.taken
    BY <1>1, <1>11 DEF Settle, SetHost, Host
  <2>2. /\ h.turn = "final" /\ ~Awaits("turn", r)
        /\ Record("turn", r, "reservation.released", None, h.usage)
    BY <1>11 DEF Settle, At
  <2>3. ledger[r].result # None
    BY <2>2 DEF ReceiptAt, Pending, Awaits
  <2> QED BY <1>3, <2>1, <2>2, <2>3 DEF Delivering
<1>12. CASE DeliveryReturns(r)
  <2>1. k.turn = "observe" /\ k.taken = h.taken /\ UNCHANGED inflight /\ h.turn = "release"
    BY <1>1, <1>12 DEF DeliveryReturns, At, SetHost, Host
  <2> QED BY <1>2, <2>1 DEF ReceiptAt, Delivering
<1> QED BY <1>4, <1>5, <1>6, <1>7, <1>8, <1>9, <1>10, <1>11, <1>12 DEF DeliveryStep

LEMMA DeliveryReceipt ==
    ASSUME TypeOK, TypeOK', LaunchInv, NEW r \in Runs, PlaceAt(r), ReceiptAt(r), DeliveryStep(r)
    PROVE  ReceiptAt(r)'
<1> DEFINE h == host[r]
           k == host'[r]
<1>1. /\ ledger' = ledger /\ k.reason = h.reason /\ k.prepared = h.prepared /\ k.owner = h.owner
      /\ k.term = h.term \/ k.term = "none"
  BY DeliveryFrame
<1>2. /\ k.taken = h.taken /\ k.turn # "idle"
      /\ k.turn \in Delivering => h.turn \in Delivering \/ Untouched(h)
      /\ k.turn \in Observing \cup {"release"} => ledger[r].result # None
      /\ k.turn = "final" => Pending("turn", r, "provider.final")'
      /\ \A e \in Unwritten' : e \in Unwritten \/ e.kind # "worker.termination.observed"
  BY DeliveryTurns
<1>3. k.turn \in Turn
  BY DEF TypeOK, Host
<1>4. k.turn \notin Delivering => ledger[r].result # None
  BY <1>2, <1>3 DEF Turn
<1>5. Untouched(h) => h.prepared # "cancelled"
  BY Constants DEF Untouched
<1>6. "none" \notin Attempting \cup {"signal", "waiting"}
  BY DEF Attempting
<1> QED BY <1>1, <1>2, <1>4, <1>5, <1>6, ReceiptMoves DEF ReceiptAt

\* Who ends an attempt resolves it for the owner who authorized it, and leaves
\* one who asked for nothing alone.
LEMMA EndedFields ==
    ASSUME NEW h \in Host, NEW how, NEW k, k = EndAttempt(h, how)
    PROVE  /\ k.term = how /\ k.prepared = h.prepared
           /\ h.owner \in OwnersAttempt => k.owner \in OwnersAttempt
           /\ h.owner = "idle" => k.owner = "idle"
<1> DEFINE ow == CASE h.owner = "authorized" -> "awaiting"
                   [] h.owner \in {"cancelling", "joining"} -> "observe"
                   [] OTHER -> h.owner
           l == IF h.limit = "firing" THEN "done" ELSE h.limit
<1>1. k = [h EXCEPT !.term = how, !.reason = None, !.limit = l, !.owner = ow]
  BY DEF EndAttempt
<1>2. /\ h.owner \in OwnersAttempt => ow \in OwnersAttempt
      /\ h.owner = "idle" => ow = "idle"
  BY DEF OwnersAttempt
<1> HIDE DEF ow, l
<1> QED BY <1>1, <1>2 DEF Host

LEMMA BegunFields ==
    ASSUME NEW r \in Runs, host \in [Runs -> Host], NEW why, NEW g \in Host,
           BeginAttempt(r, why, g)
    PROVE  \/ /\ g.prepared = None /\ host'[r].prepared = None /\ host'[r].owner = g.owner
              /\ host'[r].reason = why /\ host'[r].term \in Attempting
           \/ /\ g.prepared # None /\ host'[r].prepared = g.prepared /\ host'[r].term = "none"
              /\ g.owner \in OwnersAttempt => host'[r].owner \in OwnersAttempt
<1>1. CASE g.prepared # None
  <2>1. host'[r] = EndAttempt(g, "none")
    BY <1>1 DEF BeginAttempt, SetHost
  <2> QED BY <1>1, <2>1, EndedFields
<1>2. CASE g.prepared = None
  <2>1. \E tm \in Attempting : host'[r] = [g EXCEPT !.term = tm, !.reason = why]
    BY <1>2 DEF BeginAttempt, SetHost, Attempting
  <2> QED BY <1>2, <2>1 DEF Host
<1> QED BY <1>1, <1>2

LEMMA TerminationReceipt ==
    ASSUME TypeOK, TypeOK', HostSound, LaunchInv, SignalInv, NEW r \in Runs, ReceiptAt(r),
           TerminationStep(r)
    PROVE  ReceiptAt(r)'
<1> DEFINE h == host[r]
           k == host'[r]
<1>1. /\ h \in Host /\ k \in Host /\ host \in [Runs -> Host] /\ SignalAt(r) /\ Sound(h)
  BY DEF TypeOK, SignalInv, HostSound
<1>2. /\ ledger' = ledger /\ k.turn = h.turn /\ k.taken = h.taken
      /\ \A e \in Unwritten' : e \in Unwritten \/ e.kind # "worker.termination.observed"
      /\ Unwritten \subseteq Unwritten'
  BY TerminationFrame, TerminationFields
<1>3. ASSUME k.prepared = "cancelled" /\ h.turn \in Delivering => k.owner \in OwnersAttempt,
             k.reason = "cancelled" =>
                 /\ k.term \in Attempting => k.owner = "cancelling"
                 /\ k.term \in {"signal", "waiting"} => k.owner = "authorized",
             k.prepared = "timeout" => "timeout" \in ledger[r].intended,
             h.turn \in Delivering \/ (k.owner # "idle" => h.owner # "idle")
      PROVE  ReceiptAt(r)'
  <2>1. Pending("turn", r, "provider.final") => Pending("turn", r, "provider.final")'
    BY <1>2 DEF Pending
  <2> QED BY <1>2, <1>3, <2>1, ReceiptMoves DEF ReceiptAt
<1>4. None \notin {"cancelled", "timeout"} /\ {"none", "over"} \cap (Attempting \cup {"signal", "waiting"}) = {}
      /\ Attempting \cap {"signal", "waiting"} = {}
  BY Constants DEF Attempting
<1>5. CASE CancelRun(r)
  <2>1. h.turn \in Delivering /\ h.owner = "idle" /\ h.prepared # "cancelled"
    BY <1>5 DEF CancelRun, ReceiptAt, OwnersAttempt
  <2>2. CASE BeginAttempt(r, "cancelled", [h EXCEPT !.owner = "cancelling"])
    <3>1. PICK g \in Host : /\ g = [h EXCEPT !.owner = "cancelling"]
                            /\ g.owner = "cancelling" /\ g.prepared = h.prepared
      <4>1. PICK g : g = [h EXCEPT !.owner = "cancelling"]
        OBVIOUS
      <4>2. g \in Host /\ g.owner = "cancelling" /\ g.prepared = h.prepared
        BY <1>1, <4>1 DEF Host, Cancel
      <4> QED BY <4>1, <4>2
    <3>2. \/ k.prepared = None /\ k.owner = "cancelling" /\ k.term \in Attempting
          \/ k.prepared = h.prepared /\ k.term = "none"
      BY <1>1, <2>2, <3>1, BegunFields
    <3> QED BY <1>3, <1>4, <2>1, <3>2 DEF ReceiptAt
  <2>3. CASE ~BeginAttempt(r, "cancelled", [h EXCEPT !.owner = "cancelling"])
    <3>1. PICK ow : SetHost(r, [h EXCEPT !.owner = ow])
      BY <1>5, <2>3 DEF CancelRun
    <3>2. k.prepared = h.prepared /\ k.reason = h.reason /\ k.term = h.term
      BY <1>1, <3>1 DEF SetHost, Host
    <3>3. h.reason = "cancelled" => h.term \notin Attempting \cup {"signal", "waiting"}
      BY <2>1 DEF ReceiptAt
    <3> QED BY <1>3, <2>1, <3>2, <3>3 DEF ReceiptAt
  <2> QED BY <2>2, <2>3
<1>6. CASE LimitFires(r)
  <2>1. h.turn \in Delivering
    BY <1>6 DEF LimitFires, Delivering
  <2>2. CASE BeginAttempt(r, "timeout", [h EXCEPT !.limit = "firing"])
    <3>1. PICK g \in Host : /\ g = [h EXCEPT !.limit = "firing"]
                            /\ g.owner = h.owner /\ g.prepared = h.prepared
      <4>1. PICK g : g = [h EXCEPT !.limit = "firing"]
        OBVIOUS
      <4>2. g \in Host /\ g.owner = h.owner /\ g.prepared = h.prepared
        BY <1>1, <4>1 DEF Host
      <4> QED BY <4>1, <4>2
    <3>2. \/ k.prepared = None /\ k.reason = "timeout"
          \/ /\ k.prepared = h.prepared /\ k.term = "none"
             /\ h.owner \in OwnersAttempt => k.owner \in OwnersAttempt
      BY <1>1, <2>2, <3>1, BegunFields
    <3> QED BY <1>3, <1>4, <2>1, <3>2 DEF ReceiptAt
  <2>3. CASE ~BeginAttempt(r, "timeout", [h EXCEPT !.limit = "firing"])
    <3>1. PICK l : SetHost(r, [h EXCEPT !.limit = l])
      BY <1>6, <2>3 DEF LimitFires
    <3>2. k.prepared = h.prepared /\ k.reason = h.reason /\ k.term = h.term /\ k.owner = h.owner
      BY <1>1, <3>1 DEF SetHost, Host
    <3> QED BY <1>3, <2>1, <3>2 DEF ReceiptAt
  <2> QED BY <2>2, <2>3
<1>7. CASE IntendTermination(r)
  <2>1. h.term \in Attempting
    BY <1>7 DEF IntendTermination, AttemptAt, Attempting
  <2>2. k.prepared = h.prepared /\ k.reason = h.reason /\ k.term = "intending" /\ k.owner = h.owner
    BY <1>1, <1>7 DEF IntendTermination, SetHost, Host
  <2> QED BY <1>3, <2>1, <2>2 DEF ReceiptAt
<1>8. CASE Prepare(r)
  <2>1. h.term = "intending" /\ ~Awaits("term", r)
    BY <1>8 DEF Prepare, AttemptAt
  <2>2. h.reason \in ledger[r].intended
    BY <1>1, <2>1 DEF SignalAt, IntentPending, Awaits
  <2>3. /\ k.term = "signal" /\ k.prepared = h.reason /\ k.reason = h.reason
        /\ k.owner = IF h.owner = "cancelling" THEN "authorized" ELSE h.owner
    <3>1. PICK c, ow : /\ c = (h.cancelled \/ h.reason = "cancelled")
                       /\ ow = IF h.owner = "cancelling" THEN "authorized" ELSE h.owner
      OBVIOUS
    <3>2. k = [h EXCEPT !.term = "signal", !.prepared = h.reason, !.cancelled = c, !.owner = ow]
      BY <1>1, <1>8, <3>1 DEF Prepare, SetHost
    <3> QED BY <1>1, <3>1, <3>2 DEF Host
  <2>4. h.reason = "cancelled" => k.owner = "authorized"
    BY <2>1, <2>3 DEF ReceiptAt, Attempting
  <2>5. k.owner # "idle" => h.owner # "idle"
    BY <2>3
  <2> QED BY <1>3, <1>4, <2>2, <2>3, <2>4, <2>5 DEF OwnersAttempt, Attempting
<1>9. CASE Signal(r)
  <2>1. h.term = "signal"
    BY <1>9 DEF Signal
  <2>2. k.prepared = h.prepared /\ k.reason = h.reason /\ k.term = "waiting" /\ k.owner = h.owner
    BY <1>1, <1>9 DEF Signal, SetHost, Host
  <2> QED BY <1>3, <1>4, <2>1, <2>2 DEF ReceiptAt
<1>10. CASE ExitConfirmed(r) \/ AttemptFails(r)
  <2>1. PICK how \in {"none", "over"} : SetHost(r, EndAttempt(h, how))
    BY <1>10 DEF ExitConfirmed, AttemptFails
  <2>2. k = EndAttempt(h, how)
    BY <1>1, <2>1 DEF SetHost
  <2>3. /\ k.term = how /\ k.prepared = h.prepared
        /\ h.owner \in OwnersAttempt => k.owner \in OwnersAttempt
    BY <1>1, <2>2, EndedFields
  <2>4. h.owner = "idle" => k.owner = "idle"
    BY <1>1, <2>2, EndedFields
  <2> QED BY <1>3, <1>4, <2>1, <2>3, <2>4 DEF ReceiptAt
<1>11. CASE CancelReturns(r)
  <2>1. h.owner = "awaiting" /\ h.turn \notin Delivering
    BY <1>11 DEF CancelReturns
  <2>2. k.prepared = h.prepared /\ k.reason = h.reason /\ k.term = h.term
    BY <1>1, <1>11 DEF CancelReturns, SetHost, Host
  <2>3. h.reason = "cancelled" => h.term \notin Attempting \cup {"signal", "waiting"}
    BY <2>1 DEF ReceiptAt
  <2> QED BY <1>3, <2>1, <2>2, <2>3 DEF ReceiptAt
<1> QED BY <1>5, <1>6, <1>7, <1>8, <1>9, <1>10, <1>11 DEF TerminationStep

LEMMA ObservationReceipt ==
    ASSUME TypeOK, TypeOK', HostSound, LaunchInv, NEW r \in Runs, ReceiptAt(r),
           NEW who \in {"turn", "owner"}, ObservationStep(r, who)
    PROVE  ReceiptAt(r)'
<1> DEFINE h == host[r]
           k == host'[r]
<1>1. /\ h \in Host /\ Sound(h) /\ inflight \in Seq(Write) /\ inflight' \in Seq(Write)
  BY DEF TypeOK, HostSound
<1>2. ledger' = ledger /\ Unwritten \subseteq Unwritten'
  BY ObservationFrame
<1>3. Pending("turn", r, "provider.final") => Pending("turn", r, "provider.final")'
  BY <1>2 DEF Pending
<1>4. /\ Observing \cap Delivering = {} /\ "idle" \notin Delivering
      /\ "final" \notin Observing \cup {"idle"} /\ "release" \notin Observing
      /\ Observing \cap (OwnersAttempt \cup {"cancelling", "authorized"}) = {}
      /\ None \notin {"cancelled", "timeout"}
  BY Constants DEF Observing, Delivering, OwnersAttempt
<1>5. h[who] \in Observing
  BY DEF ObservationStep, TakePreparation, NothingPrepared, ObserveExit, KeepReservation,
     ObservationReturns, Observing
\* Whoever observes is behind the turn's result, unless the delivery goes on:
\* then what the owner's attempt prepared is not his to take.
<1>6. who = "turn" => h.turn \in Observing /\ ledger[r].result # None
  BY <1>5 DEF ReceiptAt
<1>7. h.prepared = "cancelled" => ledger[r].result # None
  <2>1. CASE who = "owner"
    <3>1. h.owner \in Observing
      BY <1>5, <2>1
    <3>2. h.owner \notin OwnersAttempt /\ h.owner # "idle"
      BY <3>1 DEF Observing, OwnersAttempt
    <3> QED BY <3>2 DEF ReceiptAt
  <2> QED BY <1>6, <2>1
<1>8. ASSUME NEW to \in Observing \cup {"idle"}, NEW pr \in {None, h.prepared},
             NEW tk \in {None, h.prepared, h.taken}, Observed(r, who, to, pr, tk),
             \A e \in Unwritten' : \/ e \in Unwritten
                                   \/ e.kind # "worker.termination.observed"
                                   \/ e.op \in TerminationReason /\ e.op = h.taken
      PROVE  ReceiptAt(r)'
  <2>1. /\ k.prepared \in {None, h.prepared} /\ k.taken \in {None, h.prepared, h.taken}
        /\ k.term = h.term /\ k.reason = h.reason
    BY <1>8 DEF Observed
  <2>2. /\ k.taken = "cancelled" => ledger[r].result # None
        /\ "timeout" \in {k.prepared, k.taken} => "timeout" \in ledger[r].intended
    BY <1>4, <1>7, <2>1 DEF ReceiptAt
  <2>3. \A e \in Unwritten' : \/ e \in Unwritten
                              \/ e.kind # "worker.termination.observed"
                              \/ IF e.op = "cancelled" THEN ledger[r].result # None
                                 ELSE "timeout" \in ledger[r].intended
    BY <1>8 DEF ReceiptAt, TerminationReason
  <2>4. CASE who = "turn"
    <3>1. k.turn \in Observing \cup {"idle"} /\ k.owner = h.owner /\ ledger[r].result # None
      BY <1>6, <1>8, <2>4 DEF Observed
    <3> QED BY <1>2, <1>4, <2>1, <2>2, <2>3, <3>1, ReceiptMoves DEF ReceiptAt
  <2>5. CASE who = "owner"
    <3>1. k.turn = h.turn /\ k.owner \in Observing \cup {"idle"} /\ h.owner \in Observing
      BY <1>5, <1>8, <2>5 DEF Observed
    <3>2. h.owner \notin OwnersAttempt \cup {"idle", "cancelling", "authorized"}
      BY <3>1 DEF Observing, OwnersAttempt
    <3>3. k.prepared = "cancelled" => k.turn \notin Delivering
      BY <1>4, <2>1, <3>1, <3>2 DEF ReceiptAt
    <3>4. k.reason = "cancelled" => k.term \notin Attempting \cup {"signal", "waiting"}
      BY <2>1, <3>2 DEF ReceiptAt
    <3>5. k.turn \notin Delivering => ledger[r].result # None
      BY <3>1, <3>2 DEF ReceiptAt
    <3>6. /\ k.turn \in Observing \cup {"release"} => ledger[r].result # None
          /\ k.turn = "final" => ledger[r].result # None \/ Pending("turn", r, "provider.final")'
      BY <1>3, <3>1 DEF ReceiptAt
    <3> QED BY <1>2, <2>2, <2>3, <3>3, <3>4, <3>5, <3>6, ReceiptMoves
  <2> QED BY <2>4, <2>5
<1>9. UNCHANGED inflight => Unwritten' = Unwritten
  BY DEF Unwritten
<1>10. {"observing", "observed", "reserving"} \subseteq Observing
  BY DEF Observing
<1>11. CASE TakePreparation(r, who)
  <2>1. Observed(r, who, "observing", None, h.prepared) /\ UNCHANGED inflight
    BY <1>11, ObservationFields DEF TakePreparation
  <2> QED BY <1>8, <1>9, <1>10, <2>1
<1>12. CASE NothingPrepared(r, who) \/ ObservationReturns(r, who)
  <2>1. Observed(r, who, "idle", h.prepared, h.taken) /\ UNCHANGED inflight
    BY <1>12, ObservationFields DEF NothingPrepared, ObservationReturns
  <2> QED BY <1>8, <1>9, <2>1
<1>13. CASE ObserveExit(r, who)
  <2>1. Observed(r, who, "observed", h.prepared, None) /\ h[who] = "observing"
    BY <1>13, ObservationFields DEF ObserveExit
  <2>2. PICK outcome : Record(who, r, "worker.termination.observed", h.taken, outcome)
    BY <1>13 DEF ObserveExit
  <2>3. PICK e : Unwritten' = Unwritten \cup {e} /\ e.op = h.taken
    BY <1>1, <2>2, Adds
  <2>4. h.taken \in TerminationReason
    <3>1. "observing" \in {h.turn, h.owner}
      BY <2>1
    <3> QED BY <1>1, <3>1, HostFields DEF Sound
  <2>5. \A x \in Unwritten' : x \in Unwritten \/ (x.op \in TerminationReason /\ x.op = h.taken)
    BY <2>3, <2>4
  <2> QED BY <1>8, <1>10, <2>1, <2>5
<1>14. CASE KeepReservation(r, who)
  <2>1. Observed(r, who, "reserving", h.prepared, h.taken)
    BY <1>14, ObservationFields
  <2>2. Record(who, r, "reservation.released", None, "uncertain")
    BY <1>14 DEF KeepReservation
  <2>3. PICK e : Unwritten' = Unwritten \cup {e} /\ e.kind = "reservation.released"
    BY <1>1, <2>2, Adds
  <2>4. \A x \in Unwritten' : x \in Unwritten \/ x.kind # "worker.termination.observed"
    BY <2>3
  <2> QED BY <1>8, <1>10, <2>1, <2>4
<1> QED BY <1>11, <1>12, <1>13, <1>14 DEF ObservationStep

LEMMA ReceiptStep ==
    ASSUME IInv, IInv', PlaceInv, ReceiptInv, [Next]_vars
    PROVE  ReceiptInv'
<1> SUFFICES ASSUME NEW q \in Runs PROVE ReceiptAt(q)'
  BY DEF ReceiptInv
<1>1. /\ ledger \in [Runs -> Snapshot] /\ inflight \in Seq(Write) /\ inflight' \in Seq(Write)
      /\ host \in [Runs -> Host] /\ TypeOK /\ TypeOK' /\ HostSound /\ LaunchInv /\ SignalInv
      /\ \A p \in Runs : PlaceAt(p) /\ ReceiptAt(p)
  BY DEF IInv, TypeOK, PlaceInv, ReceiptInv
<1>2. ASSUME host'[q] = host[q], Answers(ledger[q], ledger'[q]), Unwritten \subseteq Unwritten',
             \A e \in Unwritten' : e.run = q =>
                 e \in Unwritten \/ e.kind # "worker.termination.observed"
      PROVE  ReceiptAt(q)'
  BY <1>1, <1>2, ReceiptQuiet DEF Pending
<1>3. ledger'[q] = ledger[q] => Answers(ledger[q], ledger'[q])
  BY DEF Answers
<1>4. UNCHANGED inflight => Unwritten' = Unwritten
  BY DEF Unwritten
<1>5. ASSUME NEW by, NEW r, NEW kind, NEW op, NEW arg, Record(by, r, kind, op, arg),
             r # q \/ kind # "worker.termination.observed",
             UNCHANGED ledger, host'[q] = host[q]
      PROVE  ReceiptAt(q)'
  <2>1. PICK e : Unwritten' = Unwritten \cup {e} /\ e.run = r /\ e.kind = kind
    BY <1>1, <1>5, Adds
  <2> QED BY <1>2, <1>3, <1>5, <2>1
<1>6. ASSUME NEW r, UNCHANGED inflight \/ (\E by : Enqueues(by, r)), r # q,
             UNCHANGED ledger, host'[q] = host[q]
      PROVE  ReceiptAt(q)'
  <2>1. CASE UNCHANGED inflight
    BY <1>2, <1>3, <1>4, <1>6, <2>1
  <2>2. ASSUME NEW by, Enqueues(by, r) PROVE ReceiptAt(q)'
    BY <1>5, <1>6, <2>2 DEF Enqueues
  <2> QED BY <1>6, <2>1, <2>2
<1>7. CASE Commit
  BY <1>7, CommitReceipt
<1>8. ASSUME NEW r \in Runs, Admit(r) PROVE ReceiptAt(q)'
  <2>1. Record("admit", r, "run.admitted", None, None) /\ UNCHANGED <<ledger, host>>
    BY <1>8 DEF Admit
  <2> QED BY <1>5, <2>1
<1>9. ASSUME UNCHANGED <<ledger, host, inflight>> PROVE ReceiptAt(q)'
  BY <1>2, <1>3, <1>4, <1>9
<1>10. ASSUME NEW r \in Runs, Exit(r) PROVE ReceiptAt(q)'
  BY <1>9, <1>10 DEF Exit
<1>11. ASSUME NEW r \in Runs, DeliveryStep(r) PROVE ReceiptAt(q)'
  <2>1. CASE q = r
    BY <1>1, <1>11, <2>1, DeliveryReceipt
  <2>2. CASE q # r
    <3>1. ledger' = ledger /\ host'[q] = host[q]
      BY <1>1, <1>11, <2>2, DeliveryFrame
    <3> QED BY <1>1, <1>6, <1>11, <2>2, <3>1, DeliveryEnqueues
  <2> QED BY <2>1, <2>2
<1>12. ASSUME NEW r \in Runs, TerminationStep(r) PROVE ReceiptAt(q)'
  <2>1. CASE q = r
    BY <1>1, <1>12, <2>1, TerminationReceipt
  <2>2. CASE q # r
    <3>1. ledger' = ledger /\ host'[q] = host[q]
      BY <1>1, <1>12, <2>2, TerminationFrame
    <3> QED BY <1>6, <1>12, <2>2, <3>1, TerminationEnqueues
  <2> QED BY <2>1, <2>2
<1>13. ASSUME NEW r \in Runs, NEW who \in {"turn", "owner"}, ObservationStep(r, who)
       PROVE  ReceiptAt(q)'
  <2>1. CASE q = r
    BY <1>1, <1>13, <2>1, ObservationReceipt
  <2>2. CASE q # r
    <3>1. ledger' = ledger /\ host'[q] = host[q]
      BY <1>1, <1>13, <2>2, ObservationFrame
    <3> QED BY <1>1, <1>6, <1>13, <2>2, <3>1, ObservationEnqueues
  <2> QED BY <2>1, <2>2
<1>14. CASE OutageStep
  <2>1. CASE Crash
    <3>1. Unwritten' = {} /\ host'[q] = FreshHost /\ ledger' = ledger
      BY <1>1, <2>1 DEF Crash, Unwritten
    <3>2. /\ FreshHost.turn = "idle" /\ FreshHost.owner = "idle" /\ FreshHost.reason = None
          /\ FreshHost.prepared = None /\ FreshHost.taken = None
      BY DEF FreshHost
    <3>3. None \notin {"cancelled", "timeout"} /\ "idle" \notin Observing
      BY Constants DEF Observing
    <3> QED BY <1>1, <3>1, <3>2, <3>3 DEF ReceiptAt
  <2>2. CASE Restart \/ Recovered
    BY <1>9, <2>2 DEF Restart, Recovered
  <2>3. ASSUME NEW r \in Runs, RecoverRun(r) PROVE ReceiptAt(q)'
    <3>1. Record("recover", r, "effect.unresolved", None, None) /\ UNCHANGED <<ledger, host>>
      BY <2>3 DEF RecoverRun
    <3> QED BY <1>5, <3>1
  <2>4. ASSUME UNCHANGED <<host, inflight>>,
               \/ ledger'[q] \in {ledger[q], Require(ledger[q])}
               \/ \E d \in Disposition : ledger'[q] = Resolve(ledger[q], d)
        PROVE  ReceiptAt(q)'
    <3>1. Disposition # {} /\ ledger[q] \in Snapshot
      BY <1>1 DEF Disposition
    <3>2. Answers(ledger[q], ledger'[q])
      BY <1>3, <2>4, <3>1, OfflineAnswers
    <3> QED BY <1>2, <1>4, <2>4, <3>2
  <2>5. CASE Restore
    BY <1>1, <2>4, <2>5 DEF Restore
  <2>6. ASSUME NEW r \in Runs, NEW d \in Disposition, ResolveRun(r, d) PROVE ReceiptAt(q)'
    <3>1. ledger'[q] = ledger[q] \/ ledger'[q] = Resolve(ledger[q], d)
      BY <1>1, <2>6 DEF ResolveRun
    <3> QED BY <2>4, <2>6, <3>1 DEF ResolveRun
  <2> QED BY <1>14, <2>1, <2>2, <2>3, <2>5, <2>6 DEF OutageStep
<1>15. CASE UNCHANGED vars
  BY <1>9, <1>15 DEF vars
<1> QED BY <1>7, <1>8, <1>10, <1>11, <1>12, <1>13, <1>14, <1>15 DEF Next

\* For any number of runs, and however cancels, time limits, exits, crashes and
\* offline decisions interleave, a run whose termination for a time limit was
\* never intended ends as cancelled only after its turn's own result.
THEOREM ReceiptLastHolds == Spec => []ReceiptLast
<1>1. Init => ReceiptInv
  <2> SUFFICES ASSUME Init, NEW r \in Runs PROVE ReceiptAt(r)
    BY DEF ReceiptInv
  <2>1. ledger[r] = AbsentRun /\ host[r] = FreshHost /\ Unwritten = {}
    BY DEF Init, Unwritten
  <2>2. /\ FreshHost.turn = "idle" /\ FreshHost.owner = "idle" /\ FreshHost.reason = None
        /\ FreshHost.prepared = None /\ FreshHost.taken = None
        /\ AbsentRun.state = "absent"
    BY DEF FreshHost, AbsentRun
  <2>3. None \notin {"cancelled", "timeout"} /\ "idle" \notin Observing
    BY Constants DEF Observing
  <2> QED BY <2>1, <2>2, <2>3 DEF ReceiptAt
<1>2. IInv /\ IInv' /\ PlacesInv /\ ReceiptInv /\ [Next]_vars => ReceiptInv'
  BY ReceiptStep DEF PlacesInv
<1>3. ReceiptInv => ReceiptLast
  BY DEF ReceiptInv, ReceiptAt, ReceiptLast
<1> QED BY <1>1, <1>2, <1>3, Inductive, PlacesInvariant, PTL DEF Spec
=============================================================================
