-------------------------- MODULE DeliveryControl --------------------------
(***************************************************************************)
(* Commands of the Console's browser and their receipts                    *)
(* (src/console/delivery-control.ts, delivery-journal.ts).  Submissions    *)
(* are considered one after the other; a command that is accepted runs     *)
(* beside the others, and its receipts share the coordinator's journal.    *)
(* quiesce() is the first step of a shutdown; the process may also stop    *)
(* without notice, and then a record under way may have been written.  An  *)
(* append that is refused leaves no record (Journal, WriteRefused).        *)
(***************************************************************************)
EXTENDS Naturals, Sequences, TLAPS

CONSTANTS
    Command, Digest,
    None,
    MaxSubmits, \* bound: submissions
    MaxFaults   \* bound: appends that are refused, and restarts

ASSUME ControlAssumption ==
    /\ None \notin Digest
    /\ MaxSubmits \in Nat /\ MaxFaults \in Nat

VARIABLES
    quiescing,
    chain,     \* #tail: submissions that wait for their turn; the head has it
    accepting, \* the head's "accepted" receipt is being written
    pending,   \* what this process knows of each command (#pending)
    receipt,   \* the last receipt of each command on record, and its digest
    submits, troubles,
    started,   \* history: how often the effects of a command were begun
    done       \* history: commands whose effects were completed

vars == <<quiescing, chain, accepting, pending, receipt, submits, troubles, started, done>>
bounds == <<submits, troubles>>
effects == <<started, done>>

Status == {"none", "accepted", "completed", "failed", "uncertain"}

\* "completed", "failed" and "uncertain": that receipt is being written.
Pending == {"none", "scheduled", "running", "completed", "failed", "uncertain"}

TypeOK ==
    /\ quiescing \in BOOLEAN /\ accepting \in BOOLEAN
    /\ chain \in Seq([command : Command, digest : Digest])
    /\ pending \in [Command -> Pending]
    /\ receipt \in [Command -> [status : Status, digest : Digest \cup {None}]]
    /\ submits \in Nat /\ troubles \in Nat
    /\ started \in [Command -> Nat] /\ done \subseteq Command
    \* Whatever is pending was accepted, and nothing else has been said of it.
    /\ \A c \in Command : pending[c] # "none" => receipt[c].status = "accepted"

Init ==
    /\ quiescing = FALSE /\ accepting = FALSE
    /\ chain = <<>>
    /\ pending = [c \in Command |-> "none"]
    /\ receipt = [c \in Command |-> [status |-> "none", digest |-> None]]
    /\ submits = 0 /\ troubles = 0
    /\ started = [c \in Command |-> 0] /\ done = {}

Submit(c, d) ==
    /\ ~quiescing /\ submits < MaxSubmits
    /\ submits' = submits + 1
    /\ chain' = Append(chain, [command |-> c, digest |-> d])
    /\ UNCHANGED <<quiescing, accepting, pending, receipt, troubles, effects>>

-----------------------------------------------------------------------------
\* The turn of a submission

Turn == chain # <<>> /\ ~accepting

\* Slip (EffectsOnce): only the commands of this process are known.
NoPriorPending(c) == pending[c] = "none"

NoPrior(c) == receipt[c].status = "none"

\* It is answered by the prior receipt, in conflict with it, or too late.
Answer ==
    /\ Turn
    /\ quiescing \/ ~NoPrior(Head(chain).command)
    /\ chain' = Tail(chain)
    /\ UNCHANGED <<quiescing, accepting, pending, receipt, bounds, effects>>

\* Slip (TypeOK): the command is scheduled before its receipt is on record.
AcceptScheduled ==
    /\ Turn
    /\ ~quiescing /\ NoPrior(Head(chain).command)
    /\ accepting' = TRUE
    /\ pending' = [pending EXCEPT ![Head(chain).command] = "scheduled"]
    /\ UNCHANGED <<quiescing, chain, receipt, bounds, effects>>

\* Slip (ReceiptsFinal): another content under the same id is a new command.
AcceptOtherContent ==
    /\ Turn /\ ~quiescing
    /\ NoPrior(Head(chain).command) \/ receipt[Head(chain).command].digest # Head(chain).digest
    /\ accepting' = TRUE
    /\ UNCHANGED <<quiescing, chain, pending, receipt, bounds, effects>>

Accept ==
    /\ Turn
    /\ ~quiescing /\ NoPrior(Head(chain).command)
    /\ accepting' = TRUE
    /\ UNCHANGED <<quiescing, chain, pending, receipt, bounds, effects>>

\* The receipt is on record, and the command scheduled.
Accepted ==
    LET s == Head(chain) IN
    /\ accepting
    /\ receipt' = [receipt EXCEPT ![s.command] = [status |-> "accepted", digest |-> s.digest]]
    /\ pending' = [pending EXCEPT ![s.command] = "scheduled"]
    /\ chain' = Tail(chain) /\ accepting' = FALSE
    /\ UNCHANGED <<quiescing, bounds, effects>>

Fault == troubles < MaxFaults /\ troubles' = troubles + 1

AcceptRefused ==
    /\ accepting /\ Fault
    /\ chain' = Tail(chain) /\ accepting' = FALSE
    /\ UNCHANGED <<quiescing, pending, receipt, submits, effects>>

-----------------------------------------------------------------------------
\* #runPending

Becomes(c, p) == pending' = [pending EXCEPT ![c] = p]

Start(c) ==
    /\ pending[c] = "scheduled" /\ ~quiescing
    /\ Becomes(c, "running")
    /\ started' = [started EXCEPT ![c] = @ + 1]
    /\ UNCHANGED <<quiescing, chain, accepting, receipt, bounds, done>>

\* Slip (ReceiptsTrue): whatever has not ended is abandoned.
AbandonUnfinished(c) ==
    /\ pending[c] \in {"scheduled", "running"} /\ quiescing
    /\ Becomes(c, "uncertain")
    /\ UNCHANGED <<quiescing, chain, accepting, receipt, bounds, effects>>

\* A command that has not begun when the Console quiesces.
Abandon(c) ==
    /\ pending[c] = "scheduled" /\ quiescing
    /\ Becomes(c, "uncertain")
    /\ UNCHANGED <<quiescing, chain, accepting, receipt, bounds, effects>>

Execute(c) ==
    /\ pending[c] = "running"
    /\ \/ Becomes(c, "completed") /\ done' = done \cup {c}
       \/ Becomes(c, "failed") /\ done' = done
    /\ UNCHANGED <<quiescing, chain, accepting, receipt, bounds, started>>

Report(c) ==
    /\ pending[c] \in {"completed", "failed", "uncertain"}
    /\ receipt' = [receipt EXCEPT ![c].status = pending[c]]
    /\ Becomes(c, "none")
    /\ UNCHANGED <<quiescing, chain, accepting, bounds, effects>>

\* A completion that is refused is reported as a failure.
ReportRefused(c) ==
    /\ pending[c] \in {"completed", "failed", "uncertain"} /\ Fault
    /\ Becomes(c, IF pending[c] = "completed" THEN "failed" ELSE "none")
    /\ UNCHANGED <<quiescing, chain, accepting, receipt, submits, effects>>

-----------------------------------------------------------------------------
\* Shutdown and restart

Quiesce ==
    /\ ~quiescing /\ quiescing' = TRUE
    /\ UNCHANGED <<chain, accepting, pending, receipt, bounds, effects>>

\* What the restarted process finds: records under way may be there.
Found(c) ==
    {receipt[c]}
        \cup (IF pending[c] \in {"completed", "failed", "uncertain"}
              THEN {[receipt[c] EXCEPT !.status = pending[c]]} ELSE {})
        \cup (IF accepting /\ Head(chain).command = c
              THEN {[status |-> "accepted", digest |-> Head(chain).digest]} ELSE {})

Restart ==
    /\ Fault
    /\ receipt' \in {r \in [Command -> UNION {Found(c) : c \in Command}] :
                        \A c \in Command : r[c] \in Found(c)}
    /\ quiescing' = FALSE /\ chain' = <<>> /\ accepting' = FALSE
    /\ pending' = [c \in Command |-> "none"]
    /\ UNCHANGED <<submits, effects>>

Next ==
    \/ \E c \in Command, d \in Digest : Submit(c, d)
    \/ Answer \/ Accept \/ Accepted \/ AcceptRefused
    \/ \E c \in Command : Start(c) \/ Abandon(c) \/ Execute(c) \/ Report(c) \/ ReportRefused(c)
    \/ Quiesce \/ Restart

Spec == Init /\ [][Next]_vars

-----------------------------------------------------------------------------
\* Properties

\* The effects of a command are begun at most once, however often the browser
\* sends it and the Console restarts.
EffectsOnce == \A c \in Command : started[c] <= 1

\* A receipt tells the truth: "completed" only of effects that were, and
\* "uncertain" only of a command that was never begun and never will be.
ReceiptsTrue ==
    \A c \in Command :
        /\ receipt[c].status = "completed" => c \in done
        /\ receipt[c].status = "uncertain" => started[c] = 0

\* The receipts of commands are true, of effects that were begun once.
CommandsTrue == EffectsOnce /\ ReceiptsTrue

\* The last word on a command stands, and its digest with it.
ReceiptsFinal ==
    [][\A c \in Command :
        /\ receipt[c].status \in {"completed", "failed", "uncertain"} => receipt'[c] = receipt[c]
        /\ receipt[c].status # "none" => receipt'[c].digest = receipt[c].digest]_vars

-----------------------------------------------------------------------------
\* Theorems, for any commands, contents and numbers of faults.  The inductive invariant.

\* What is accepted has no receipt yet; whoever accepts has the head of the chain.
AcceptingSound == accepting => chain # <<>> /\ receipt[Head(chain).command].status = "none"

\* A command begins after its receipt, once; whatever waits to begin, or is
\* given up, has not begun; and what is to be reported completed was.
BegunSound == \A c \in Command :
    /\ started[c] <= 1
    /\ receipt[c].status = "none" => started[c] = 0
    /\ pending[c] \in {"scheduled", "uncertain"} => started[c] = 0
    /\ pending[c] = "completed" => c \in done

IInv == TypeOK /\ AcceptingSound /\ BegunSound /\ ReceiptsTrue

-----------------------------------------------------------------------------
LEMMA HeadTyped ==
    ASSUME TypeOK, chain # <<>>
    PROVE  /\ Head(chain) \in [command : Command, digest : Digest]
           /\ Tail(chain) \in Seq([command : Command, digest : Digest])
<1>1. \A S : \A s \in Seq(S) : s # <<>> => Head(s) \in S /\ Tail(s) \in Seq(S)
  OBVIOUS
<1>2. chain \in Seq([command : Command, digest : Digest])
  BY DEF TypeOK
<1> QED BY <1>1, <1>2

\* What a restart may find of a command.
LEMMA FoundSound ==
    ASSUME IInv, NEW c \in Command, NEW r \in Found(c)
    PROVE  /\ r \in [status : Status, digest : Digest \cup {None}]
           /\ r.status = "completed" => c \in done
           /\ r.status = "uncertain" => started[c] = 0
           /\ r.status = "none" => started[c] = 0
           /\ receipt[c].status \in {"completed", "failed", "uncertain"} => r = receipt[c]
           /\ receipt[c].status # "none" => r.digest = receipt[c].digest
<1>0. TypeOK /\ receipt[c] \in [status : Status, digest : Digest \cup {None}]
  BY DEF IInv, TypeOK
<1>1. CASE r = receipt[c]
  BY <1>0, <1>1 DEF IInv, BegunSound, ReceiptsTrue
<1>2. CASE /\ pending[c] \in {"completed", "failed", "uncertain"}
           /\ r = [receipt[c] EXCEPT !.status = pending[c]]
  <2>1. r.status = pending[c] /\ r.digest = receipt[c].digest /\ receipt[c].status = "accepted"
    BY <1>0, <1>2 DEF TypeOK
  <2> QED BY <1>0, <1>2, <2>1 DEF Status, IInv, BegunSound
<1>3. CASE /\ accepting /\ Head(chain).command = c
           /\ r = [status |-> "accepted", digest |-> Head(chain).digest]
  <2>1. chain # <<>> /\ receipt[c].status = "none"
    BY <1>3 DEF IInv, AcceptingSound
  <2> QED BY <1>0, <1>3, <2>1, HeadTyped DEF Status
<1> QED BY <1>1, <1>2, <1>3 DEF Found

LEMMA EmptyTyped == <<>> \in Seq([command : Command, digest : Digest])
<1>1. \A S : <<>> \in Seq(S)
  OBVIOUS
<1> QED BY <1>1

LEMMA InitSound == Init => IInv
<1>1. ASSUME Init PROVE TypeOK
  <2>1. chain \in Seq([command : Command, digest : Digest])
    BY <1>1, EmptyTyped, Zenon DEF Init
  <2>2. receipt \in [Command -> [status : Status, digest : Digest \cup {None}]]
    BY <1>1 DEF Init, Status
  <2> QED BY <1>1, <2>1, <2>2 DEF Init, TypeOK, Pending
<1>2. Init => AcceptingSound /\ BegunSound /\ ReceiptsTrue
  BY DEF Init, AcceptingSound, BegunSound, ReceiptsTrue
<1> QED BY <1>1, <1>2 DEF IInv

LEMMA NextSound == IInv /\ [Next]_vars => IInv'
<1> SUFFICES ASSUME IInv, [Next]_vars PROVE IInv'
  OBVIOUS
<1>0. TypeOK /\ AcceptingSound /\ BegunSound /\ ReceiptsTrue
  BY DEF IInv
<1>1. ASSUME NEW c \in Command, NEW d \in Digest, Submit(c, d) PROVE IInv'
  <2>1. chain' \in Seq([command : Command, digest : Digest])
    BY <1>0, <1>1 DEF Submit, TypeOK
  <2>2. chain # <<>> => chain' # <<>> /\ Head(chain') = Head(chain)
    BY <1>0, <1>1 DEF Submit, TypeOK
  <2> QED BY <1>0, <1>1, <2>1, <2>2 DEF Submit, effects, IInv, TypeOK, AcceptingSound, BegunSound, ReceiptsTrue
<1>2. CASE Answer
  BY <1>0, <1>2, HeadTyped DEF Answer, Turn, bounds, effects, IInv, TypeOK, AcceptingSound, BegunSound, ReceiptsTrue
<1>3. CASE Accept
  BY <1>0, <1>3 DEF Accept, Turn, NoPrior, bounds, effects, IInv, TypeOK, AcceptingSound, BegunSound, ReceiptsTrue
<1>4. CASE Accepted
  <2>1. /\ Head(chain).command \in Command /\ Head(chain).digest \in Digest
        /\ Tail(chain) \in Seq([command : Command, digest : Digest])
        /\ receipt[Head(chain).command].status = "none"
    BY <1>0, <1>4, HeadTyped DEF Accepted, AcceptingSound
  <2>2. TypeOK'
    BY <1>0, <1>4, <2>1 DEF Accepted, bounds, effects, TypeOK, Status, Pending
  <2>3. BegunSound' /\ ReceiptsTrue' /\ AcceptingSound'
    BY <1>0, <1>4, <2>1 DEF Accepted, effects, TypeOK, BegunSound, ReceiptsTrue, AcceptingSound
  <2> QED BY <2>2, <2>3 DEF IInv
<1>5. CASE AcceptRefused
  <2>1. Tail(chain) \in Seq([command : Command, digest : Digest])
    BY <1>0, <1>5, HeadTyped DEF AcceptRefused, AcceptingSound
  <2>2. TypeOK'
    <3>1. chain' \in Seq([command : Command, digest : Digest])
      BY <1>5, <2>1, Zenon DEF AcceptRefused
    <3>2. /\ quiescing' = quiescing /\ accepting' = FALSE /\ pending' = pending /\ receipt' = receipt
          /\ submits' = submits /\ troubles' = troubles + 1 /\ started' = started /\ done' = done
      BY <1>5 DEF AcceptRefused, Fault, effects
    <3>3. /\ pending' \in [Command -> Pending] /\ submits' \in Nat /\ troubles' \in Nat
          /\ receipt' \in [Command -> [status : Status, digest : Digest \cup {None}]]
          /\ started' \in [Command -> Nat] /\ done' \subseteq Command
          /\ \A c \in Command : pending'[c] # "none" => receipt'[c].status = "accepted"
      BY <1>0, <3>2 DEF TypeOK
    <3>4. quiescing' \in BOOLEAN /\ accepting' \in BOOLEAN
      BY <1>0, <3>2 DEF TypeOK
    <3> QED BY <3>1, <3>3, <3>4, Zenon DEF TypeOK
  <2> QED BY <1>0, <1>5, <2>2 DEF AcceptRefused, effects, IInv, AcceptingSound, BegunSound, ReceiptsTrue
<1>6. ASSUME NEW c \in Command, Start(c) PROVE IInv'
  <2>1. started[c] = 0 /\ receipt[c].status = "accepted"
    BY <1>0, <1>6 DEF Start, BegunSound, TypeOK
  <2>2. TypeOK'
    BY <1>0, <1>6 DEF Start, Becomes, bounds, TypeOK, Pending
  <2>3. BegunSound' /\ ReceiptsTrue' /\ AcceptingSound'
    BY <1>0, <1>6, <2>1 DEF Start, Becomes, TypeOK, BegunSound, ReceiptsTrue, AcceptingSound
  <2> QED BY <2>2, <2>3 DEF IInv
<1>7. ASSUME NEW c \in Command, Abandon(c) \/ Execute(c) \/ ReportRefused(c) PROVE IInv'
  <2>1. TypeOK'
    BY <1>0, <1>7 DEF Abandon, Execute, ReportRefused, Fault, Becomes, bounds, effects, TypeOK, Pending
  <2>2. BegunSound' /\ ReceiptsTrue' /\ AcceptingSound'
    BY <1>0, <1>7 DEF Abandon, Execute, ReportRefused, Becomes, effects, TypeOK, BegunSound, ReceiptsTrue, AcceptingSound
  <2> QED BY <2>1, <2>2 DEF IInv
<1>8. ASSUME NEW c \in Command, Report(c) PROVE IInv'
  <2>1. /\ receipt'[c].status = pending[c] /\ receipt'[c].digest = receipt[c].digest
        /\ pending'[c] = "none" /\ receipt[c].status = "accepted"
        /\ \A k \in Command \ {c} : receipt'[k] = receipt[k] /\ pending'[k] = pending[k]
    BY <1>0, <1>8 DEF Report, Becomes, TypeOK
  <2>2. TypeOK'
    BY <1>0, <1>8, <2>1 DEF Report, Becomes, bounds, effects, TypeOK, Pending, Status
  <2>3. BegunSound' /\ ReceiptsTrue'
    BY <1>0, <1>8, <2>1 DEF Report, effects, BegunSound, ReceiptsTrue
  <2>4. AcceptingSound'
    BY <1>0, <1>8, <2>1, HeadTyped DEF Report, AcceptingSound
  <2> QED BY <2>2, <2>3, <2>4 DEF IInv
<1>9. CASE Quiesce
  BY <1>0, <1>9 DEF Quiesce, bounds, effects, IInv, TypeOK, AcceptingSound, BegunSound, ReceiptsTrue
<1>10. CASE Restart
  <2>1. \A c \in Command : receipt'[c] \in Found(c)
    BY <1>10 DEF Restart
  <2>2. receipt' \in [Command -> [status : Status, digest : Digest \cup {None}]]
    <3>1. receipt' \in [Command -> UNION {Found(c) : c \in Command}]
      BY <1>10 DEF Restart
    <3> QED BY <2>1, <3>1, FoundSound
  <2>3. BegunSound' /\ ReceiptsTrue' /\ AcceptingSound'
    BY <1>0, <1>10, <2>1, FoundSound DEF Restart, effects, BegunSound, ReceiptsTrue, AcceptingSound
  <2>4. TypeOK'
    <3>1. chain' \in Seq([command : Command, digest : Digest])
      BY <1>10, EmptyTyped, Zenon DEF Restart
    <3>2. /\ quiescing' = FALSE /\ accepting' = FALSE /\ pending' = [c \in Command |-> "none"]
          /\ submits' = submits /\ troubles' = troubles + 1 /\ started' = started /\ done' = done
      BY <1>10 DEF Restart, Fault, effects
    <3>3. /\ pending' \in [Command -> Pending] /\ submits' \in Nat /\ troubles' \in Nat
          /\ started' \in [Command -> Nat] /\ done' \subseteq Command
          /\ \A c \in Command : pending'[c] # "none" => receipt'[c].status = "accepted"
      BY <1>0, <3>2 DEF TypeOK, Pending
    <3>4. quiescing' \in BOOLEAN /\ accepting' \in BOOLEAN
      BY <3>2
    <3> QED BY <2>2, <3>1, <3>3, <3>4, Zenon DEF TypeOK
  <2> QED BY <2>3, <2>4 DEF IInv
<1>11. CASE UNCHANGED vars
  BY <1>0, <1>11 DEF vars, IInv, TypeOK, AcceptingSound, BegunSound, ReceiptsTrue
<1> QED BY <1>1, <1>2, <1>3, <1>4, <1>5, <1>6, <1>7, <1>8, <1>9, <1>10, <1>11 DEF Next

LEMMA Inductive == Spec => []IInv
BY InitSound, NextSound, PTL DEF Spec

(***************************************************************************)
(* Every variable keeps to its type, and what is pending was accepted.     *)
(***************************************************************************)
THEOREM TypeCorrect == Spec => []TypeOK
<1>1. IInv => TypeOK
  BY DEF IInv
<1> QED BY <1>1, Inductive, PTL

(***************************************************************************)
(* The effects of a command are begun at most once, and its receipt says   *)
(* what became of them: a restart that finds the command accepted does not *)
(* begin it again.                                                         *)
(***************************************************************************)
THEOREM CommandsTrueHolds == Spec => []CommandsTrue
<1>1. IInv => CommandsTrue
  BY DEF IInv, BegunSound, CommandsTrue, EffectsOnce
<1> QED BY <1>1, Inductive, PTL

(***************************************************************************)
(* No step, and no restart with a record half written, changes the last    *)
(* word on a command or the digest it was accepted with.                   *)
(***************************************************************************)
THEOREM ReceiptsFinalHolds == Spec => ReceiptsFinal
<1> DEFINE Kept == \A c \in Command :
        /\ receipt[c].status \in {"completed", "failed", "uncertain"} => receipt'[c] = receipt[c]
        /\ receipt[c].status # "none" => receipt'[c].digest = receipt[c].digest
<1>1. ASSUME IInv, [Next]_vars PROVE Kept
  <2>0. TypeOK /\ AcceptingSound
    BY <1>1 DEF IInv
  <2>1. CASE receipt' = receipt
    BY <2>1
  <2>2. CASE Accepted
    <3>1. receipt[Head(chain).command].status = "none"
      BY <2>0, <2>2 DEF Accepted, AcceptingSound
    <3>2. \A c \in Command : c # Head(chain).command => receipt'[c] = receipt[c]
      BY <2>0, <2>2 DEF Accepted, TypeOK
    <3> QED BY <3>1, <3>2
  <2>3. ASSUME NEW c \in Command, Report(c) PROVE Kept
    BY <2>0, <2>3 DEF Report, TypeOK
  <2>4. CASE Restart
    <3>1. \A c \in Command : receipt'[c] \in Found(c)
      BY <2>4 DEF Restart
    <3> QED BY <1>1, <3>1, FoundSound
  <2>5. CASE \/ \E c \in Command, d \in Digest : Submit(c, d)
             \/ Answer \/ Accept \/ AcceptRefused \/ Quiesce
             \/ (\E c \in Command : Start(c) \/ Abandon(c) \/ Execute(c) \/ ReportRefused(c))
             \/ UNCHANGED vars
    <3>1. receipt' = receipt
      BY <2>5 DEF Submit, Answer, Accept, AcceptRefused, Quiesce, Start, Abandon, Execute, ReportRefused, vars
    <3> QED BY <3>1
  <2> QED BY <1>1, <2>2, <2>3, <2>4, <2>5 DEF Next
<1>2. IInv /\ [Next]_vars => [Kept]_vars
  BY <1>1
<1> QED BY <1>2, Inductive, PTL DEF Spec, ReceiptsFinal
=============================================================================
