-------------------------- MODULE ActionAdmission --------------------------
(***************************************************************************)
(* Admission of external actions (src/actions/index.ts): a signed request  *)
(* becomes a durable intent, the intent runs in an executor that may write *)
(* to GitHub, Jira or a deployment target, and a durable receipt closes    *)
(* it.  Controllers of several processes share the journal, the vault and  *)
(* the claim lock `<journal>.action-admission-lock'; within a process      *)
(* `#tail' runs one admission at a time.                                   *)
(*                                                                         *)
(* A request is a record: its idempotency key, its nonce, the grant that   *)
(* signs it, the authority epoch, whether its tag verifies, and `body',    *)
(* which stands for every other field that the digest covers.  The journal *)
(* is the set of its action records: nothing depends on their order.       *)
(***************************************************************************)
EXTENDS Naturals, Sequences, FiniteSets

CONSTANTS
    Proc,         \* controller processes
    Request,      \* requests that callers may send
    Grant,        \* records [id, epoch]
    None,
    Script,       \* Script[q]: the rounds of the executor of request q
    MaxAttempts,  \* 200 attempts to create the claim lock
    MaxCalls,     \* bound: admissions requested
    MaxEpoch,     \* bound: epochs of authority
    MaxCrashes    \* bound: crashes

Key == {q.key : q \in Request}

\* The epoch of the run's authority, or None: cancelled, ended, revoked, forbidden.
Authority == 0..MaxEpoch \cup {None}

Outcome == {"completed", "denied", "failed", "uncertain"}

(***************************************************************************)
(* An executor works in rounds: reads and checks that may end the action   *)
(* with an outcome in `before', then the guard, then, if the round writes, *)
(* one external write, which may end it with an outcome in `after'.  A     *)
(* round that does not end the action is followed by the next; the last    *)
(* always ends it.  A throw anywhere is "uncertain".                       *)
(***************************************************************************)
Round == [before : SUBSET Outcome, writes : BOOLEAN, after : SUBSET Outcome]

JiraScript ==
    <<[before |-> {"completed", "denied", "failed"}, writes |-> TRUE,
       after |-> {"completed", "failed"}]>>

IssueScript ==
    <<[before |-> {"completed", "denied"}, writes |-> TRUE, after |-> {"completed", "failed"}]>>

\* Guard, then the push; guard, then the pull request.  The push may be followed
\* by a refusal, because the base moved.
DraftScript ==
    <<[before |-> {"completed", "denied"}, writes |-> FALSE, after |-> {}],
      [before |-> {"denied"}, writes |-> TRUE, after |-> {"failed", "denied"}],
      [before |-> {}, writes |-> TRUE, after |-> {"completed", "failed"}]>>

LocalDeployScript ==
    <<[before |-> {"denied"}, writes |-> TRUE, after |-> {"failed"}],
      [before |-> {}, writes |-> TRUE, after |-> {"completed", "failed"}]>>

ObservedDeployScript ==
    <<[before |-> {"denied", "failed"}, writes |-> FALSE, after |-> {}],
      [before |-> {}, writes |-> TRUE, after |-> {"completed", "failed"}]>>

RecoveryScript ==
    <<[before |-> {"denied"}, writes |-> TRUE, after |-> {"completed", "failed"}]>>

ASSUME ActionAssumption ==
    /\ Grant \subseteq [id : Nat, epoch : Nat]
    /\ \A q \in Request :
          /\ {"key", "nonce", "grant", "epoch", "signed", "body"} = DOMAIN q
          /\ q.grant \in Grant /\ q.epoch \in Nat /\ q.signed \in BOOLEAN
    /\ \A q \in Request : Script[q] \in Seq(Round) /\ Script[q] # <<>> /\ Script[q][Len(Script[q])].writes
    /\ None \notin Proc \cup Request \cup Nat
    /\ MaxAttempts \in Nat /\ MaxCalls \in Nat /\ MaxEpoch \in Nat /\ MaxCrashes \in Nat

-----------------------------------------------------------------------------
VARIABLES
    grants,     \* grant.issued records
    intents,    \* action.intent records
    receipts,   \* action.receipt records
    vault,      \* grants whose verifier secret is stored
    minting,    \* how far mintGrant has come with each grant
    authority,  \* what CurrentActionAuthorityStore.current would answer
    lock,       \* None, or the process whose open(..., 'wx') created the file
    queue,      \* #tail of each process: the requests not yet answered
    pc, tries, op, round,
    seen,       \* #records of each process, as of its last reload
    reply,      \* the receipt a process is about to return: operation and outcome
    \* history, read by properties only
    calls, issued, crashes,
    entered,    \* how often an action of each key was handed to an executor
    written,    \* operations that wrote outside
    answers     \* receipts returned that name an operation

durable == <<grants, intents, receipts, vault>>
memory == <<queue, tries, op, round, seen, reply>>
history == <<calls, issued, crashes, entered, written, answers>>
vars == <<durable, minting, authority, lock, pc, memory, history>>

Records == [grants : SUBSET Grant, intents : SUBSET [op : Nat, request : Request],
            receipts : SUBSET [op : Nat, outcome : Outcome]]
Journal == [grants |-> grants, intents |-> intents, receipts |-> receipts]

Place == {"idle", "claiming", "stamping", "reloading", "checking", "unlocking", "authorizing",
          "intending", "guarding", "executing", "writing", "concluding", "releasing", "down"}

\* No operation: a rejection names none, a thrown error carries none.
NoReply == [op |-> 0, outcome |-> "denied"]

\* The task at work is the head of its process's queue.
TaskWaits == \A p \in Proc : pc[p] \notin {"idle", "down"} => queue[p] # <<>>

TypeOK ==
    /\ grants \subseteq Grant /\ vault \subseteq Grant
    /\ intents \subseteq [op : Nat, request : Request]
    /\ receipts \subseteq [op : Nat, outcome : Outcome]
    /\ minting \in [Grant -> {"none", "authorized", "stored", "issued"}]
    /\ authority \in Authority
    /\ lock \in Proc \cup {None}
    /\ queue \in [Proc -> Seq(Request)]
    /\ pc \in [Proc -> Place]
    /\ tries \in [Proc -> 0..MaxAttempts]
    /\ op \in [Proc -> Nat] /\ round \in [Proc -> Nat]
    /\ seen \in [Proc -> Records]
    /\ reply \in [Proc -> [op : Nat, outcome : Outcome]]
    /\ calls \in Nat /\ issued \in Nat /\ crashes \in Nat
    /\ entered \in [Key -> Nat] /\ written \subseteq Nat
    /\ answers \subseteq [op : Nat, outcome : Outcome]
    /\ TaskWaits

Init ==
    /\ grants = {} /\ intents = {} /\ receipts = {} /\ vault = {}
    /\ minting = [g \in Grant |-> "none"]
    /\ authority = 0
    /\ lock = None
    /\ queue = [p \in Proc |-> <<>>]
    /\ pc = [p \in Proc |-> "idle"]
    /\ tries = [p \in Proc |-> 0]
    /\ op = [p \in Proc |-> 0] /\ round = [p \in Proc |-> 0]
    /\ seen = [p \in Proc |-> Journal]
    /\ reply = [p \in Proc |-> NoReply]
    /\ calls = 0 /\ issued = 0 /\ crashes = 0
    /\ entered = [k \in Key |-> 0] /\ written = {} /\ answers = {}

Authorized(epoch) == authority = epoch

Goto(p, from, to) == pc[p] = from /\ pc' = [pc EXCEPT ![p] = to]
Current(p) == Head(queue[p])

-----------------------------------------------------------------------------
\* mintGrant: authority, then the secret, then the record.  It takes no claim.

MintAuthorize(g) ==
    /\ minting[g] = "none" /\ Authorized(g.epoch)
    /\ minting' = [minting EXCEPT ![g] = "authorized"]
    /\ UNCHANGED <<durable, authority, lock, pc, memory, history>>

MintStore(g) ==
    /\ minting[g] = "authorized"
    /\ minting' = [minting EXCEPT ![g] = "stored"]
    /\ vault' = vault \cup {g}
    /\ UNCHANGED <<grants, intents, receipts, authority, lock, pc, memory, history>>

MintIssue(g) ==
    /\ minting[g] = "stored"
    /\ minting' = [minting EXCEPT ![g] = "issued"]
    /\ grants' = grants \cup {g}
    /\ UNCHANGED <<intents, receipts, vault, authority, lock, pc, memory, history>>

-----------------------------------------------------------------------------
\* admit: the request waits for its turn.  Who can sign holds an issued grant.
Call(p, q) ==
    /\ pc[p] # "down" /\ calls < MaxCalls
    /\ q.signed => q.grant \in grants
    /\ queue' = [queue EXCEPT ![p] = Append(@, q)]
    /\ calls' = calls + 1
    /\ UNCHANGED <<durable, minting, authority, lock, pc, tries, op, round, seen, reply,
                   issued, crashes, entered, written, answers>>

Start(p) ==
    /\ Goto(p, "idle", "claiming")
    /\ queue[p] # <<>>
    /\ UNCHANGED <<durable, minting, authority, lock, memory, history>>

\* The task is over: its locals are gone and `rest' waits.
Settle(p, rest) ==
    /\ queue' = [queue EXCEPT ![p] = rest]
    /\ tries' = [tries EXCEPT ![p] = 0]
    /\ op' = [op EXCEPT ![p] = 0]
    /\ round' = [round EXCEPT ![p] = 0]
    /\ reply' = [reply EXCEPT ![p] = NoReply]

-----------------------------------------------------------------------------
\* withActionClaim

CreateLock(p) ==
    /\ Goto(p, "claiming", "stamping")
    /\ lock = None /\ tries[p] < MaxAttempts
    /\ lock' = p
    /\ UNCHANGED <<durable, minting, authority, memory, history>>

\* Slip (CallsAnswered): the loop over attempts has no bound.
LockBusyForever(p) ==
    /\ pc[p] = "claiming" /\ lock # None
    /\ UNCHANGED vars

LockBusy(p) ==
    /\ pc[p] = "claiming" /\ lock # None /\ tries[p] < MaxAttempts
    /\ tries' = [tries EXCEPT ![p] = @ + 1]
    /\ UNCHANGED <<durable, minting, authority, lock, pc, queue, op, round, seen, reply, history>>

\* Slip (TypeOK): the refused caller is answered, and its task goes on.
ClaimUnavailableGoesOn(p) ==
    /\ Goto(p, "claiming", "reloading") /\ tries[p] = MaxAttempts
    /\ Settle(p, Tail(queue[p]))
    /\ UNCHANGED <<durable, minting, authority, lock, seen, history>>

ClaimUnavailable(p) ==
    /\ Goto(p, "claiming", "idle") /\ tries[p] = MaxAttempts
    /\ Settle(p, Tail(queue[p]))
    /\ UNCHANGED <<durable, minting, authority, lock, seen, history>>

Stamp(p) ==
    /\ Goto(p, "stamping", "reloading")
    /\ UNCHANGED <<durable, minting, authority, lock, memory, history>>

\* The lock exists, its content could not be written: the error leaves
\* withActionClaim before its `try', and the file stays.
StampFails(p) ==
    /\ Goto(p, "stamping", "idle")
    /\ Settle(p, Tail(queue[p]))
    /\ UNCHANGED <<durable, minting, authority, lock, seen, history>>

\* Slip (OneIntent): the claim trusts the records it has in memory.
ReloadSkipped(p) ==
    /\ Goto(p, "reloading", "checking")
    /\ UNCHANGED <<durable, minting, authority, lock, memory, history>>

Reload(p) ==
    /\ Goto(p, "reloading", "checking")
    /\ seen' = [seen EXCEPT ![p] = Journal]
    /\ UNCHANGED <<durable, minting, authority, lock, queue, tries, op, round, reply, history>>

\* close, rm: whatever the task did, its caller has the answer afterwards.
Release(p) ==
    /\ Goto(p, "releasing", "idle")
    /\ lock' = None
    /\ Settle(p, Tail(queue[p]))
    /\ answers' = IF reply[p].op = 0 THEN answers ELSE answers \cup {reply[p]}
    /\ UNCHANGED <<durable, minting, authority, seen, calls, issued, crashes, entered, written>>

\* recover(), the vault or the authority store throws: nothing is on record.
TaskThrows(p) ==
    /\ pc[p] \in {"reloading", "unlocking", "authorizing"}
    /\ Goto(p, pc[p], "releasing")
    /\ UNCHANGED <<durable, minting, authority, lock, memory, history>>

-----------------------------------------------------------------------------
\* admitExclusive, up to the intent

SameKey(p) == {i \in seen[p].intents : i.request.key = Current(p).key}

\* recordMatchesRequest compares everything but the tag.
Matches(i, q) == i.request = [q EXCEPT !.signed = TRUE]

NonceUsed(p) == \E i \in seen[p].intents :
    i.request.grant = Current(p).grant /\ i.request.nonce = Current(p).nonce

GrantFits(p) == Current(p).grant \in seen[p].grants /\ Current(p).grant.epoch = Current(p).epoch

CheckRejects(p) ==
    /\ Goto(p, "checking", "releasing")
    /\ \/ \E i \in SameKey(p) : ~Matches(i, Current(p))
       \/ SameKey(p) = {} /\ (NonceUsed(p) \/ ~GrantFits(p))
    /\ UNCHANGED <<durable, minting, authority, lock, memory, history>>

\* exact_duplicate: the stored receipt is the answer.
CheckFindsReceipt(p) ==
    /\ Goto(p, "checking", "releasing")
    /\ \E i \in SameKey(p), r \in seen[p].receipts :
          Matches(i, Current(p)) /\ r.op = i.op /\ reply' = [reply EXCEPT ![p] = r]
    /\ UNCHANGED <<durable, minting, authority, lock, queue, tries, op, round, seen, history>>

\* Slip (AtMostOnce): an intent without receipt is carried out by the retry.
CheckResumesIntent(p) ==
    /\ Goto(p, "checking", "guarding")
    /\ \E i \in SameKey(p) :
          /\ Matches(i, Current(p)) /\ \A r \in seen[p].receipts : r.op # i.op
          /\ op' = [op EXCEPT ![p] = i.op]
    /\ UNCHANGED <<durable, minting, authority, lock, queue, tries, round, seen, reply, history>>

\* unresolved_action_requires_reconciliation
CheckFindsIntent(p) ==
    /\ Goto(p, "checking", "releasing")
    /\ \E i \in SameKey(p) :
          /\ Matches(i, Current(p)) /\ \A r \in seen[p].receipts : r.op # i.op
          /\ reply' = [reply EXCEPT ![p] = [op |-> i.op, outcome |-> "uncertain"]]
    /\ UNCHANGED <<durable, minting, authority, lock, queue, tries, op, round, seen, history>>

CheckPasses(p) ==
    /\ Goto(p, "checking", "unlocking")
    /\ SameKey(p) = {} /\ ~NonceUsed(p) /\ GrantFits(p)
    /\ UNCHANGED <<durable, minting, authority, lock, memory, history>>

\* grantVault.get, and then the tag.
Unlock(p) ==
    /\ \/ Goto(p, "unlocking", "authorizing") /\ Current(p).grant \in vault /\ Current(p).signed
       \/ Goto(p, "unlocking", "releasing") /\ ~(Current(p).grant \in vault /\ Current(p).signed)
    /\ UNCHANGED <<durable, minting, authority, lock, memory, history>>

Authorize(p) ==
    /\ Goto(p, "authorizing", "intending")
    /\ Authorized(Current(p).epoch)
    /\ issued' = issued + 1
    /\ op' = [op EXCEPT ![p] = issued + 1]
    /\ UNCHANGED <<durable, minting, authority, lock, queue, tries, round, seen, reply,
                   calls, crashes, entered, written, answers>>

NotAuthorized(p) ==
    /\ Goto(p, "authorizing", "releasing")
    /\ ~Authorized(Current(p).epoch)
    /\ UNCHANGED <<durable, minting, authority, lock, memory, history>>

NewIntent(p) == [op |-> op[p], request |-> Current(p)]

\* Slip (VerdictsFinal): "held through the durable intent append", and no longer.
AppendIntentUnlocks(p) ==
    /\ Goto(p, "intending", "guarding")
    /\ intents' = intents \cup {NewIntent(p)}
    /\ seen' = [seen EXCEPT ![p].intents = @ \cup {NewIntent(p)}]
    /\ lock' = None
    /\ UNCHANGED <<grants, receipts, vault, minting, authority, queue, tries, op, round,
                   reply, history>>

AppendIntent(p) ==
    /\ Goto(p, "intending", "guarding")
    /\ intents' = intents \cup {NewIntent(p)}
    /\ seen' = [seen EXCEPT ![p].intents = @ \cup {NewIntent(p)}]
    /\ UNCHANGED <<grants, receipts, vault, minting, authority, lock, queue, tries, op, round,
                   reply, history>>

\* Slip (EffectsNamed): a refused append is not noticed.
AppendIntentSwallows(p) ==
    /\ Goto(p, "intending", "guarding")
    /\ UNCHANGED <<durable, minting, authority, lock, memory, history>>

\* The append throws; its line may have reached the file all the same.
AppendIntentFails(p) ==
    /\ Goto(p, "intending", "releasing")
    /\ intents' \in {intents, intents \cup {NewIntent(p)}}
    /\ UNCHANGED <<grants, receipts, vault, minting, authority, lock, memory, history>>

-----------------------------------------------------------------------------
\* admitExclusive, from the guard on

Conclude(p, outcome) == reply' = [reply EXCEPT ![p] = [op |-> op[p], outcome |-> outcome]]

\* A lapse between intent and executor is a known denial.
GuardDenies(p) ==
    /\ Goto(p, "guarding", "concluding")
    /\ ~Authorized(Current(p).epoch)
    /\ Conclude(p, "denied")
    /\ UNCHANGED <<durable, minting, authority, lock, queue, tries, op, round, seen, history>>

Enter(p) ==
    /\ Goto(p, "guarding", "executing")
    /\ Authorized(Current(p).epoch)
    /\ round' = [round EXCEPT ![p] = 1]
    /\ entered' = [entered EXCEPT ![Current(p).key] = @ + 1]
    /\ UNCHANGED <<durable, minting, authority, lock, queue, tries, op, seen, reply,
                   calls, issued, crashes, written, answers>>

ThisRound(p) == Script[Current(p)][round[p]]
NextRound(p) ==
    /\ round[p] < Len(Script[Current(p)])
    /\ round' = [round EXCEPT ![p] = @ + 1]

\* Reconciled with what is there already, refused, failed, or thrown.
ExecutorEnds(p) ==
    /\ Goto(p, "executing", "concluding")
    /\ \E outcome \in ThisRound(p).before \cup {"uncertain"} : Conclude(p, outcome)
    /\ UNCHANGED <<durable, minting, authority, lock, queue, tries, op, round, seen, history>>

ExecutorGuards(p) ==
    /\ pc[p] = "executing" /\ Authorized(Current(p).epoch)
    /\ \/ ThisRound(p).writes /\ Goto(p, "executing", "writing") /\ UNCHANGED round
       \/ ~ThisRound(p).writes /\ NextRound(p) /\ UNCHANGED pc
    /\ UNCHANGED <<durable, minting, authority, lock, queue, tries, op, seen, reply, history>>

\* Slip (DeniedUntouched): a lapse inside the executor is reported as a denial.
ExecutorLapseDenies(p) ==
    /\ Goto(p, "executing", "concluding")
    /\ ~Authorized(Current(p).epoch)
    /\ Conclude(p, "denied")
    /\ UNCHANGED <<durable, minting, authority, lock, queue, tries, op, round, seen, history>>

\* The guard throws inside the executor.
ExecutorLapses(p) ==
    /\ Goto(p, "executing", "concluding")
    /\ ~Authorized(Current(p).epoch)
    /\ Conclude(p, "uncertain")
    /\ UNCHANGED <<durable, minting, authority, lock, queue, tries, op, round, seen, history>>

\* The write ends the action.  Unless it is confirmed, it may not have happened.
WriteEnds(p) ==
    /\ Goto(p, "writing", "concluding")
    /\ \E outcome \in ThisRound(p).after \cup {"uncertain"} :
          /\ Conclude(p, outcome)
          /\ \/ written' = written \cup {op[p]}
             \/ outcome # "completed" /\ UNCHANGED written
    /\ UNCHANGED <<durable, minting, authority, lock, queue, tries, op, round, seen,
                   calls, issued, crashes, entered, answers>>

WriteContinues(p) ==
    /\ Goto(p, "writing", "executing")
    /\ NextRound(p)
    /\ written' = written \cup {op[p]}
    /\ UNCHANGED <<durable, minting, authority, lock, queue, tries, op, seen, reply,
                   calls, issued, crashes, entered, answers>>

AppendReceipt(p) ==
    /\ Goto(p, "concluding", "releasing")
    /\ receipts' = receipts \cup {reply[p]}
    /\ seen' = [seen EXCEPT ![p].receipts = @ \cup {reply[p]}]
    /\ UNCHANGED <<grants, intents, vault, minting, authority, lock, queue, tries, op, round,
                   reply, history>>

\* The caller gets the error instead of the receipt.
AppendReceiptFails(p) ==
    /\ Goto(p, "concluding", "releasing")
    /\ receipts' \in {receipts, receipts \cup {reply[p]}}
    /\ reply' = [reply EXCEPT ![p] = NoReply]
    /\ UNCHANGED <<grants, intents, vault, minting, authority, lock, queue, tries, op, round,
                   seen, history>>

-----------------------------------------------------------------------------
\* A crash anywhere leaves the claim lock behind.
Crash(p) ==
    /\ pc[p] # "down" /\ crashes < MaxCrashes
    /\ crashes' = crashes + 1
    /\ pc' = [pc EXCEPT ![p] = "down"]
    /\ Settle(p, <<>>)
    /\ UNCHANGED <<durable, minting, authority, lock, seen, calls, issued, entered, written, answers>>

\* A new AppendOnlyActionJournal over a journal just opened.
Restart(p) ==
    /\ Goto(p, "down", "idle")
    /\ seen' = [seen EXCEPT ![p] = Journal]
    /\ UNCHANGED <<durable, minting, authority, lock, queue, tries, op, round, reply, history>>

\* The run is cancelled, ends, is revoked, or its packet changes; or it is current again.
ChangeAuthority ==
    /\ authority' \in Authority \ {authority}
    /\ UNCHANGED <<durable, minting, lock, pc, memory, history>>

ClaimStep(p) ==
    \/ Start(p) \/ CreateLock(p) \/ LockBusy(p) \/ ClaimUnavailable(p)
    \/ Stamp(p) \/ StampFails(p) \/ Reload(p) \/ Release(p) \/ TaskThrows(p)

AdmitStep(p) ==
    \/ CheckRejects(p) \/ CheckFindsReceipt(p) \/ CheckFindsIntent(p) \/ CheckPasses(p)
    \/ Unlock(p) \/ Authorize(p) \/ NotAuthorized(p)
    \/ AppendIntent(p) \/ AppendIntentFails(p)

ExecuteStep(p) ==
    \/ GuardDenies(p) \/ Enter(p)
    \/ ExecutorEnds(p) \/ ExecutorGuards(p) \/ ExecutorLapses(p)
    \/ WriteEnds(p) \/ WriteContinues(p)
    \/ AppendReceipt(p) \/ AppendReceiptFails(p)

Step(p) == ClaimStep(p) \/ AdmitStep(p) \/ ExecuteStep(p)

Mint(g) == MintAuthorize(g) \/ MintStore(g) \/ MintIssue(g)

Next ==
    \/ \E g \in Grant : Mint(g)
    \/ \E p \in Proc : \/ \E q \in Request : Call(p, q)
                       \/ Step(p) \/ Crash(p) \/ Restart(p)
    \/ ChangeAuthority

Spec == Init /\ [][Next]_vars

\* Every await of an admission settles; executors bound their requests in time.
FairSpec == Spec /\ \A p \in Proc : WF_vars(Step(p))

-----------------------------------------------------------------------------
(***************************************************************************)
(* An idempotency key has one durable intent, and so has a nonce of a      *)
(* grant: neither processes that admit at the same time nor appends that   *)
(* fail after their line was written nor restarts make a second one.       *)
(***************************************************************************)
OneIntent == \A i, j \in intents :
    \/ i.request.key = j.request.key
    \/ i.request.grant = j.request.grant /\ i.request.nonce = j.request.nonce
    => i = j

(***************************************************************************)
(* An action is handed to an executor at most once per idempotency key.    *)
(***************************************************************************)
AtMostOnce == \A k \in Key : entered[k] <= 1

(***************************************************************************)
(* What one caller was told about an operation is what every later caller  *)
(* of the same request is told.  In particular, an operation reported      *)
(* unresolved never gets a receipt afterwards.                             *)
(***************************************************************************)
VerdictsFinal == \A a \in answers :
    /\ \A b \in answers : a.op = b.op => a = b
    /\ \A r \in receipts : r.op = a.op => r = a

(***************************************************************************)
(* Whatever was written outside has a durable intent that names it, so the *)
(* next start finds it unresolved if the receipt is missing.               *)
(***************************************************************************)
EffectsNamed == \A n \in written : \E i \in intents : i.op = n

(***************************************************************************)
(* A receipt "denied" says that nothing was written.  The draft pull       *)
(* request is the exception: its base may move after the push.             *)
(***************************************************************************)
DeniesLate(q) == \E m \in DOMAIN Script[q] :
    /\ Script[q][m].writes
    /\ \/ "denied" \in Script[q][m].after
       \/ \E n \in DOMAIN Script[q] : n > m /\ "denied" \in Script[q][n].before

DeniedUntouched == \A r \in receipts : r.outcome = "denied" /\ r.op \in written
    => \E i \in intents : i.op = r.op /\ DeniesLate(i.request)

(***************************************************************************)
(* So what lies outside is what the records say of it.                     *)
(***************************************************************************)
OutcomesTrue == EffectsNamed /\ DeniedUntouched

(***************************************************************************)
(* Every admission comes to an answer, beside a lock that nobody removes   *)
(* too, or its process stops.                                              *)
(***************************************************************************)
CallsAnswered == \A p \in Proc : queue[p] # <<>> ~> queue[p] = <<>>
=============================================================================
