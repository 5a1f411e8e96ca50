----------------------- MODULE ActionAdmissionProofs -----------------------
(***************************************************************************)
(* Proofs about action admission, for any number of controllers, requests, *)
(* grants, calls and crashes, and any executor scripts.                    *)
(***************************************************************************)
EXTENDS ActionAdmission, TLAPS

\* Whoever is at one of these places created the claim lock and has not removed it.
Holding == {"stamping", "reloading", "checking", "unlocking", "authorizing", "intending",
            "guarding", "executing", "writing", "concluding", "releasing"}

\* An operation that may still get a receipt.
Active == {"guarding", "executing", "writing", "concluding"}

FreshRequest(p) == \A i \in intents :
    /\ i.request.key # Current(p).key
    /\ ~(i.request.grant = Current(p).grant /\ i.request.nonce = Current(p).nonce)

NoReceipt(n) == \A r \in receipts : r.op # n

\* A verdict that stands: the receipt on record, or "uncertain" without one.
Sound(a) ==
    /\ \E i \in intents : i.op = a.op
    /\ a \in receipts \/ (a.outcome = "uncertain" /\ NoReceipt(a.op))

WroteBefore(q, n) == \E m \in DOMAIN Script[q] : m < n /\ Script[q][m].writes

Holder(p) == pc[p] \in Holding =>
    /\ lock = p
    /\ pc[p] = "checking" => seen[p].intents = intents /\ seen[p].receipts = receipts
    /\ pc[p] \in {"unlocking", "authorizing", "intending"} => FreshRequest(p)
    /\ pc[p] = "intending" => op[p] \in 1..issued /\ \A i \in intents : i.op # op[p]
    /\ pc[p] \in Active =>
          NewIntent(p) \in intents /\ NoReceipt(op[p]) /\ \A a \in answers : a.op # op[p]
    /\ pc[p] = "guarding" => op[p] \notin written /\ entered[Current(p).key] = 0
    /\ pc[p] \in {"executing", "writing"} =>
          /\ round[p] \in DOMAIN Script[Current(p)]
          /\ op[p] \in written => WroteBefore(Current(p), round[p])
    /\ pc[p] = "writing" => ThisRound(p).writes
    /\ pc[p] = "concluding" =>
          /\ reply[p].op = op[p]
          /\ reply[p].outcome = "denied" /\ op[p] \in written => DeniesLate(Current(p))
    /\ pc[p] \notin Active \cup {"releasing"} => reply[p] = NoReply
    /\ pc[p] = "releasing" => reply[p].op = 0 \/ Sound(reply[p])

\* Without the claim a process has no receipt to return.
Silent == \A p \in Proc : pc[p] \in {"idle", "claiming", "down"} => reply[p] = NoReply

OpsKnown ==
    /\ \A i \in intents : i.op \in 1..issued
    /\ \A r \in receipts : \E i \in intents : i.op = r.op
    /\ \A n \in written : \E i \in intents : i.op = n
    /\ \A k \in Key : entered[k] # 0 => \E i \in intents : i.request.key = k

OneOp == \A i, j \in intents : i.op = j.op => i = j
OneReceipt == \A r, s \in receipts : r.op = s.op => r = s
AnswersSound == \A a \in answers : Sound(a)

IInv ==
    /\ TypeOK /\ Silent
    /\ \A p \in Proc : Holder(p)
    /\ OpsKnown /\ OneOp /\ OneIntent /\ OneReceipt /\ AtMostOnce
    /\ AnswersSound /\ DeniedUntouched

-----------------------------------------------------------------------------
LEMMA QueueAppend ==
  ASSUME NEW S, NEW s \in Seq(S), NEW e \in S
  PROVE  /\ Append(s, e) \in Seq(S) /\ Append(s, e) # <<>>
         /\ s # <<>> => Head(Append(s, e)) = Head(s)
<1>1. /\ Append(s, e) \in Seq(S) /\ Len(Append(s, e)) = Len(s) + 1
      /\ \A i \in 1..Len(s) : Append(s, e)[i] = s[i]
  OBVIOUS
<1>2. Append(s, e) # <<>>
  <2>1. Len(s) \in Nat /\ Len(<<>>) = 0
    OBVIOUS
  <2> QED BY <1>1, <2>1
<1>3. ASSUME s # <<>> PROVE Head(Append(s, e)) = Head(s)
  <2>1. Len(s) \in Nat /\ Len(s) # 0
    BY <1>3
  <2>2. Head(s) = s[1] /\ Head(Append(s, e)) = Append(s, e)[1]
    BY <1>1, <1>2, <1>3
  <2> QED BY <1>1, <2>1, <2>2
<1> QED BY <1>1, <1>2, <1>3

LEMMA QueueTail ==
  ASSUME NEW S, NEW s \in Seq(S), s # <<>>
  PROVE  Tail(s) \in Seq(S) /\ Head(s) \in S
OBVIOUS

LEMMA Rounds ==
  ASSUME NEW q \in Request
  PROVE  /\ Script[q] \in Seq(Round) /\ Script[q] # <<>>
         /\ Len(Script[q]) \in Nat /\ DOMAIN Script[q] = 1..Len(Script[q])
         /\ \A n \in DOMAIN Script[q] :
               /\ Script[q][n].before \subseteq Outcome /\ Script[q][n].after \subseteq Outcome
               /\ Script[q][n].writes \in BOOLEAN
<1>1. Script[q] \in Seq(Round) /\ Script[q] # <<>>
  BY ActionAssumption
<1>2. Len(Script[q]) \in Nat /\ DOMAIN Script[q] = 1..Len(Script[q])
  BY <1>1
<1>3. ASSUME NEW n \in DOMAIN Script[q] PROVE Script[q][n] \in Round
  BY <1>1, <1>3
<1> QED BY <1>1, <1>2, <1>3 DEF Round

LEMMA JournalType == TypeOK => Journal \in Records
BY DEF TypeOK, Journal, Records

LEMMA TypeInit == Init => TypeOK
<1> SUFFICES ASSUME Init PROVE TypeOK
  OBVIOUS
<1> USE ActionAssumption DEF Init
<1>1. Journal \in Records
  BY DEF Journal, Records
<1>2. TaskWaits
  BY DEF TaskWaits
<1>3. NoReply \in [op : Nat, outcome : Outcome]
  BY DEF NoReply, Outcome
<1> QED BY <1>1, <1>2, <1>3 DEF TypeOK, Place, Authority

\* What a step of process p does to the types, by the variables it changes.
LEMMA TypeSettle ==
  ASSUME TypeOK, NEW p \in Proc, NEW rest \in Seq(Request), Settle(p, rest),
         NEW place \in {"idle", "down"}, pc' = [pc EXCEPT ![p] = place]
  PROVE  /\ queue' \in [Proc -> Seq(Request)] /\ tries' \in [Proc -> 0..MaxAttempts]
         /\ op' \in [Proc -> Nat] /\ round' \in [Proc -> Nat]
         /\ reply' \in [Proc -> [op : Nat, outcome : Outcome]]
         /\ pc' \in [Proc -> Place] /\ TaskWaits'
<1> USE DEF TypeOK, Settle
<1>1. NoReply \in [op : Nat, outcome : Outcome]
  BY DEF NoReply, Outcome
<1>2. 0 \in 0..MaxAttempts
  BY ActionAssumption
<1>3. queue' \in [Proc -> Seq(Request)] /\ tries' \in [Proc -> 0..MaxAttempts]
  BY <1>2
<1>4. /\ op' \in [Proc -> Nat] /\ round' \in [Proc -> Nat]
      /\ reply' \in [Proc -> [op : Nat, outcome : Outcome]]
  BY <1>1
<1>5. pc' \in [Proc -> Place]
  BY DEF Place
<1>6. TaskWaits'
  BY DEF TaskWaits
<1> QED BY <1>3, <1>4, <1>5, <1>6

LEMMA TypeGoto ==
  ASSUME TypeOK, NEW p \in Proc, NEW place \in Place, pc' = [pc EXCEPT ![p] = place],
         UNCHANGED queue, place \in {"idle", "down"} \/ queue[p] # <<>>
  PROVE  pc' \in [Proc -> Place] /\ TaskWaits'
BY DEF TypeOK, TaskWaits

LEMMA TypeStep == TypeOK /\ (\A p \in Proc : Holder(p)) /\ [Next]_vars => TypeOK'
<1> SUFFICES ASSUME TypeOK, \A p \in Proc : Holder(p), [Next]_vars PROVE TypeOK'
  OBVIOUS
<1>1. ASSUME NEW g \in Grant, Mint(g) PROVE TypeOK'
  <2>1. grants' \subseteq Grant /\ vault' \subseteq Grant
    BY <1>1 DEF TypeOK, Mint, MintAuthorize, MintStore, MintIssue, durable
  <2>2. minting' \in [Grant -> {"none", "authorized", "stored", "issued"}]
    BY <1>1 DEF TypeOK, Mint, MintAuthorize, MintStore, MintIssue
  <2>3. UNCHANGED <<intents, receipts, authority, lock, pc, memory, history>>
    BY <1>1 DEF Mint, MintAuthorize, MintStore, MintIssue, durable
  <2> QED BY <2>1, <2>2, <2>3 DEF TypeOK, TaskWaits, memory, history
<1>2. ASSUME NEW p \in Proc, NEW q \in Request, Call(p, q) PROVE TypeOK'
  <2>1. queue' \in [Proc -> Seq(Request)] /\ \A r \in Proc : queue[r] # <<>> => queue'[r] # <<>>
    <3>1. Append(queue[p], q) \in Seq(Request) /\ Append(queue[p], q) # <<>>
      BY QueueAppend DEF TypeOK
    <3> QED BY <1>2, <3>1 DEF Call, TypeOK
  <2>2. TaskWaits'
    BY <1>2, <2>1 DEF Call, TypeOK, TaskWaits
  <2>3. /\ calls' \in Nat
        /\ UNCHANGED <<durable, minting, authority, lock, pc, tries, op, round, seen, reply,
                       issued, crashes, entered, written, answers>>
    BY <1>2 DEF Call, TypeOK
  <2> QED BY <2>1, <2>2, <2>3 DEF TypeOK, durable
<1>3. ASSUME NEW p \in Proc, ClaimStep(p) PROVE TypeOK'
  <2>1. CASE ClaimUnavailable(p) \/ StampFails(p) \/ Release(p)
    <3>1. queue[p] # <<>> /\ Tail(queue[p]) \in Seq(Request)
      BY <2>1, QueueTail DEF TypeOK, TaskWaits, ClaimUnavailable, StampFails, Release, Goto
    <3>2. Settle(p, Tail(queue[p])) /\ pc' = [pc EXCEPT ![p] = "idle"]
      BY <2>1 DEF ClaimUnavailable, StampFails, Release, Goto
    <3>3. answers' \subseteq [op : Nat, outcome : Outcome] /\ lock' \in Proc \cup {None}
      BY <2>1 DEF TypeOK, ClaimUnavailable, StampFails, Release, history
    <3>4. UNCHANGED <<durable, minting, authority, seen, calls, issued, crashes, entered, written>>
      BY <2>1 DEF ClaimUnavailable, StampFails, Release, history
    <3> HIDE DEF Settle
    <3>5. /\ queue' \in [Proc -> Seq(Request)] /\ tries' \in [Proc -> 0..MaxAttempts]
          /\ op' \in [Proc -> Nat] /\ round' \in [Proc -> Nat]
          /\ reply' \in [Proc -> [op : Nat, outcome : Outcome]]
          /\ pc' \in [Proc -> Place] /\ TaskWaits'
      BY <3>1, <3>2, TypeSettle
    <3> QED BY <3>3, <3>4, <3>5 DEF TypeOK, durable
  <2>2. CASE Start(p) \/ Stamp(p) \/ TaskThrows(p) \/ CreateLock(p)
    <3>1. PICK place \in Place : pc' = [pc EXCEPT ![p] = place]
      BY <2>2 DEF Start, Stamp, TaskThrows, CreateLock, Goto, Place
    <3>2. queue[p] # <<>>
      BY <2>2 DEF TypeOK, TaskWaits, Start, Stamp, TaskThrows, CreateLock, Goto
    <3>3. UNCHANGED <<durable, minting, authority, memory, history>> /\ lock' \in {lock, p}
      BY <2>2 DEF Start, Stamp, TaskThrows, CreateLock
    <3>4. pc' \in [Proc -> Place] /\ TaskWaits'
      BY <3>1, <3>2, <3>3, TypeGoto DEF memory
    <3> QED BY <3>3, <3>4 DEF TypeOK, durable, memory, history
  <2>3. CASE LockBusy(p)
    <3>1. tries' \in [Proc -> 0..MaxAttempts]
      BY <2>3, ActionAssumption DEF LockBusy, TypeOK
    <3> QED BY <2>3, <3>1 DEF LockBusy, TypeOK, TaskWaits, durable, history
  <2>4. CASE Reload(p)
    <3>1. seen' \in [Proc -> Records]
      BY <2>4, JournalType DEF Reload, TypeOK
    <3>2. pc' \in [Proc -> Place] /\ TaskWaits'
      BY <2>4, TypeGoto DEF Reload, TypeOK, TaskWaits, Goto, Place
    <3> QED BY <2>4, <3>1, <3>2 DEF Reload, TypeOK, durable, history
  <2> QED BY <1>3, <2>1, <2>2, <2>3, <2>4 DEF ClaimStep
<1>4. ASSUME NEW p \in Proc, AdmitStep(p) \/ ExecuteStep(p) PROVE TypeOK'
  <2>1. pc[p] \notin {"idle", "down"} /\ queue[p] # <<>> /\ Current(p) \in Request
    <3>1. pc[p] \notin {"idle", "down"}
      BY <1>4 DEF AdmitStep, ExecuteStep, CheckRejects, CheckFindsReceipt, CheckFindsIntent,
         CheckPasses, Unlock, Authorize, NotAuthorized, AppendIntent, AppendIntentFails,
         GuardDenies, Enter, ExecutorEnds, ExecutorGuards, ExecutorLapses, WriteEnds,
         WriteContinues, AppendReceipt, AppendReceiptFails, Goto
    <3> QED BY <3>1, QueueTail DEF TypeOK, TaskWaits, Current
  <2>2. NewIntent(p) \in [op : Nat, request : Request]
    BY <2>1 DEF NewIntent, TypeOK
  <2>3. \A outcome \in Outcome : [op |-> op[p], outcome |-> outcome] \in [op : Nat, outcome : Outcome]
    BY DEF TypeOK
  <2>4. pc' \in [Proc -> Place] /\ TaskWaits' /\ queue' = queue
    <3>1. UNCHANGED queue
      BY <1>4 DEF AdmitStep, ExecuteStep, CheckRejects, CheckFindsReceipt, CheckFindsIntent,
         CheckPasses, Unlock, Authorize, NotAuthorized, AppendIntent, AppendIntentFails,
         GuardDenies, Enter, ExecutorEnds, ExecutorGuards, ExecutorLapses, WriteEnds,
         WriteContinues, AppendReceipt, AppendReceiptFails, memory
    <3>2. \/ pc' = pc
          \/ \E place \in Place : pc' = [pc EXCEPT ![p] = place]
      BY <1>4 DEF AdmitStep, ExecuteStep, CheckRejects, CheckFindsReceipt, CheckFindsIntent,
         CheckPasses, Unlock, Authorize, NotAuthorized, AppendIntent, AppendIntentFails,
         GuardDenies, Enter, ExecutorEnds, ExecutorGuards, ExecutorLapses, WriteEnds,
         WriteContinues, AppendReceipt, AppendReceiptFails, Goto, Place
    <3> QED BY <2>1, <3>1, <3>2, TypeGoto DEF TypeOK, TaskWaits
  <2>5. CASE CheckRejects(p) \/ CheckPasses(p) \/ Unlock(p) \/ NotAuthorized(p)
    <3>1. UNCHANGED <<durable, minting, authority, lock, memory, history>>
      BY <2>5 DEF CheckRejects, CheckPasses, Unlock, NotAuthorized
    <3> QED BY <2>4, <3>1 DEF TypeOK, durable, memory, history
  <2>6. CASE CheckFindsReceipt(p) \/ CheckFindsIntent(p)
    <3>1. reply' \in [Proc -> [op : Nat, outcome : Outcome]]
      <4>1. seen[p] \in Records
        BY DEF TypeOK
      <4>2. /\ \A r \in seen[p].receipts : r \in [op : Nat, outcome : Outcome]
            /\ \A i \in SameKey(p) : i.op \in Nat
        BY <4>1 DEF Records, SameKey
      <4>3. \A i \in SameKey(p) : [op |-> i.op, outcome |-> "uncertain"] \in [op : Nat, outcome : Outcome]
        BY <4>2 DEF Outcome
      <4>4. \E a \in [op : Nat, outcome : Outcome] : reply' = [reply EXCEPT ![p] = a]
        BY <2>6, <4>2, <4>3 DEF CheckFindsReceipt, CheckFindsIntent
      <4> QED BY <4>4 DEF TypeOK
    <3>2. UNCHANGED <<durable, minting, authority, lock, tries, op, round, seen, history>>
      BY <2>6 DEF CheckFindsReceipt, CheckFindsIntent
    <3> QED BY <2>4, <3>1, <3>2 DEF TypeOK, durable, history
  <2>7. CASE Authorize(p)
    <3>1. op' \in [Proc -> Nat] /\ issued' \in Nat
      BY <2>7 DEF TypeOK, Authorize
    <3> QED BY <2>4, <2>7, <3>1 DEF TypeOK, Authorize, durable
  <2>8. CASE AppendIntent(p) \/ AppendIntentFails(p)
    <3>1. intents' \subseteq [op : Nat, request : Request]
      BY <2>2, <2>8 DEF TypeOK, AppendIntent, AppendIntentFails
    <3>2. seen' \in [Proc -> Records]
      <4>1. seen[p] \in Records
        BY DEF TypeOK
      <4>2. [seen[p] EXCEPT !.intents = @ \cup {NewIntent(p)}] \in Records
        BY <2>2, <4>1 DEF Records
      <4>3. seen' = seen \/ seen' = [seen EXCEPT ![p] = [seen[p] EXCEPT !.intents = @ \cup {NewIntent(p)}]]
        BY <2>8 DEF AppendIntent, AppendIntentFails, memory
      <4> QED BY <4>2, <4>3 DEF TypeOK
    <3>3. UNCHANGED <<grants, receipts, vault, minting, authority, lock, tries, op, round, reply, history>>
      BY <2>8 DEF AppendIntent, AppendIntentFails, memory
    <3> QED BY <2>4, <3>1, <3>2, <3>3 DEF TypeOK, history
  <2>9. CASE Enter(p) \/ ExecutorGuards(p) \/ WriteContinues(p)
    <3>1. round' \in [Proc -> Nat]
      <4>1. round' = round \/ \E n \in Nat : round' = [round EXCEPT ![p] = n]
        BY <2>9 DEF TypeOK, Enter, ExecutorGuards, WriteContinues, NextRound
      <4> QED BY <4>1 DEF TypeOK
    <3>2. entered' \in [Key -> Nat]
      <4>1. entered' = entered \/ entered' = [entered EXCEPT ![Current(p).key] = entered[Current(p).key] + 1]
        BY <2>9 DEF Enter, ExecutorGuards, WriteContinues, history
      <4>2. Current(p).key \in Key
        BY <2>1 DEF Key
      <4>3. entered \in [Key -> Nat]
        BY DEF TypeOK
      <4>4. entered[Current(p).key] + 1 \in Nat
        BY <4>2, <4>3
      <4> QED BY <4>1, <4>3, <4>4
    <3>5. written' \subseteq Nat
      <4>1. written' = written \/ written' = written \cup {op[p]}
        BY <2>9 DEF Enter, ExecutorGuards, WriteContinues, history
      <4>2. op[p] \in Nat /\ written \subseteq Nat
        BY DEF TypeOK
      <4> QED BY <4>1, <4>2
    <3>3. UNCHANGED <<durable, minting, authority, lock, tries, op, seen, reply, calls, issued, crashes, answers>>
      BY <2>9 DEF Enter, ExecutorGuards, WriteContinues, history
    <3> QED BY <2>4, <3>1, <3>2, <3>3, <3>5 DEF TypeOK, durable
  <2>10. CASE GuardDenies(p) \/ ExecutorLapses(p) \/ ExecutorEnds(p) \/ WriteEnds(p)
    <3>1. PICK outcome \in Outcome : Conclude(p, outcome)
      <4>1. CASE GuardDenies(p) \/ ExecutorLapses(p)
        BY <4>1 DEF GuardDenies, ExecutorLapses, Outcome
      <4>2. CASE ExecutorEnds(p) \/ WriteEnds(p)
        <5>1. PICK any \in ThisRound(p).before \cup ThisRound(p).after \cup {"uncertain"} : Conclude(p, any)
          BY <4>2 DEF ExecutorEnds, WriteEnds
        <5>2. CASE any = "uncertain"
          BY <5>1, <5>2 DEF Outcome
        <5>3. CASE any # "uncertain"
          <6>1. any \in ThisRound(p).before \cup ThisRound(p).after
            BY <5>1, <5>3
          <6>2. round[p] \in DOMAIN Script[Current(p)]
            BY <4>2 DEF ExecutorEnds, WriteEnds, Goto, Holder, Holding
          <6> QED BY <2>1, <5>1, <6>1, <6>2, Rounds DEF ThisRound
        <5> QED BY <5>2, <5>3
      <4> QED BY <2>10, <4>1, <4>2
    <3>2. reply' \in [Proc -> [op : Nat, outcome : Outcome]]
      BY <2>3, <3>1 DEF TypeOK, Conclude
    <3>3. written' \subseteq Nat
      <4>1. written' = written \/ written' = written \cup {op[p]}
        BY <2>10 DEF GuardDenies, ExecutorLapses, ExecutorEnds, WriteEnds, history
      <4>2. op[p] \in Nat /\ written \subseteq Nat
        BY DEF TypeOK
      <4> QED BY <4>1, <4>2
    <3>4. UNCHANGED <<durable, minting, authority, lock, tries, op, round, seen, calls, issued, crashes, entered, answers>>
      BY <2>10 DEF GuardDenies, ExecutorLapses, ExecutorEnds, WriteEnds, history
    <3> QED BY <2>4, <3>2, <3>3, <3>4 DEF TypeOK, durable
  <2>11. CASE AppendReceipt(p) \/ AppendReceiptFails(p)
    <3>1. reply[p] \in [op : Nat, outcome : Outcome] /\ NoReply \in [op : Nat, outcome : Outcome]
      BY DEF TypeOK, NoReply, Outcome
    <3>2. receipts' \subseteq [op : Nat, outcome : Outcome] /\ reply' \in [Proc -> [op : Nat, outcome : Outcome]]
      <4>1. receipts' = receipts \/ receipts' = receipts \cup {reply[p]}
        BY <2>11 DEF AppendReceipt, AppendReceiptFails
      <4>2. reply' = reply \/ reply' = [reply EXCEPT ![p] = NoReply]
        BY <2>11 DEF AppendReceipt, AppendReceiptFails
      <4>3. receipts \subseteq [op : Nat, outcome : Outcome] /\ reply \in [Proc -> [op : Nat, outcome : Outcome]]
        BY DEF TypeOK
      <4> QED BY <3>1, <4>1, <4>2, <4>3
    <3>3. seen' \in [Proc -> Records]
      <4>1. seen[p] \in Records
        BY DEF TypeOK
      <4>2. [seen[p] EXCEPT !.receipts = @ \cup {reply[p]}] \in Records
        BY <3>1, <4>1 DEF Records
      <4>3. seen' = seen \/ seen' = [seen EXCEPT ![p] = [seen[p] EXCEPT !.receipts = @ \cup {reply[p]}]]
        BY <2>11 DEF AppendReceipt, AppendReceiptFails
      <4> QED BY <4>2, <4>3 DEF TypeOK
    <3>4. UNCHANGED <<grants, intents, vault, minting, authority, lock, tries, op, round, history>>
      BY <2>11 DEF AppendReceipt, AppendReceiptFails
    <3> QED BY <2>4, <3>2, <3>3, <3>4 DEF TypeOK, history
  <2> QED BY <1>4, <2>5, <2>6, <2>7, <2>8, <2>9, <2>10, <2>11 DEF AdmitStep, ExecuteStep
<1>5. ASSUME NEW p \in Proc, Crash(p) PROVE TypeOK'
  <2>1. <<>> \in Seq(Request) /\ Settle(p, <<>>) /\ pc' = [pc EXCEPT ![p] = "down"]
    BY <1>5 DEF Crash
  <2> HIDE DEF Settle
  <2>2. /\ queue' \in [Proc -> Seq(Request)] /\ tries' \in [Proc -> 0..MaxAttempts]
        /\ op' \in [Proc -> Nat] /\ round' \in [Proc -> Nat]
        /\ reply' \in [Proc -> [op : Nat, outcome : Outcome]]
        /\ pc' \in [Proc -> Place] /\ TaskWaits'
    BY <2>1, TypeSettle
  <2>3. /\ crashes' \in Nat
        /\ UNCHANGED <<durable, minting, authority, lock, seen, calls, issued, entered, written, answers>>
    BY <1>5 DEF Crash, TypeOK
  <2> QED BY <2>2, <2>3 DEF TypeOK, durable
<1>6. ASSUME NEW p \in Proc, Restart(p) PROVE TypeOK'
  <2>1. pc' \in [Proc -> Place] /\ TaskWaits'
    BY <1>6, TypeGoto DEF Restart, Goto, Place
  <2> QED BY <1>6, <2>1, JournalType DEF TypeOK, Restart, durable, history
<1>7. CASE ChangeAuthority
  BY <1>7 DEF ChangeAuthority, TypeOK, TaskWaits, durable, memory, history
<1>8. CASE UNCHANGED vars
  BY <1>8 DEF vars, TypeOK, TaskWaits, durable, memory, history
<1> QED BY <1>1, <1>2, <1>3, <1>4, <1>5, <1>6, <1>7, <1>8 DEF Next, Step

-----------------------------------------------------------------------------
\* What the journal, the executors and the callers know.
Global == OpsKnown /\ OneOp /\ OneIntent /\ OneReceipt /\ AtMostOnce /\ AnswersSound /\ DeniedUntouched

LEMMA GlobalKept ==
  ASSUME Global, UNCHANGED <<intents, receipts, written, entered, answers, issued>>
  PROVE  Global'
BY DEF Global, OpsKnown, OneOp, OneIntent, OneReceipt, AtMostOnce, AnswersSound, Sound,
   NoReceipt, DeniedUntouched

\* A process that others leave alone remains what it is.
LEMMA HolderKept ==
  ASSUME NEW q \in Proc, Holder(q), pc'[q] = pc[q],
         UNCHANGED <<intents, receipts, written, entered, answers, issued, lock>>,
         pc[q] \in Holding =>
            UNCHANGED <<Current(q), op[q], round[q], seen[q], reply[q]>>
  PROVE  Holder(q)'
<1> SUFFICES ASSUME pc[q] \in Holding PROVE Holder(q)'
  BY DEF Holder
<1>1. UNCHANGED <<Current(q), op[q], round[q], seen[q], reply[q]>>
  OBVIOUS
<1> HIDE DEF Current
<1>2. FreshRequest(q) => FreshRequest(q)'
  BY <1>1 DEF FreshRequest
<1>3. NewIntent(q)' = NewIntent(q) /\ ThisRound(q)' = ThisRound(q)
  BY <1>1 DEF NewIntent, ThisRound
<1>4. WroteBefore(Current(q), round[q])' = WroteBefore(Current(q), round[q])
  BY <1>1 DEF WroteBefore
<1>5. DeniesLate(Current(q))' = DeniesLate(Current(q))
  BY <1>1 DEF DeniesLate
<1>6. NoReceipt(op[q])' = NoReceipt(op[q]) /\ Sound(reply[q])' = Sound(reply[q])
  BY <1>1 DEF NoReceipt, Sound
<1>7. NoReply' = NoReply
  BY DEF NoReply
<1> HIDE DEF FreshRequest, NewIntent, ThisRound, WroteBefore, DeniesLate, NoReceipt, Sound, NoReply
<1> QED BY <1>1, <1>2, <1>3, <1>4, <1>5, <1>6, <1>7 DEF Holder

\* The claim lock has one owner.
LEMMA HolderAlone ==
  ASSUME NEW p \in Proc, NEW q \in Proc, q # p, Holder(p), Holder(q),
         pc[p] \in Holding, pc'[q] = pc[q]
  PROVE  Holder(q)'
BY DEF Holder

LEMMA StepElsewhere ==
  ASSUME TypeOK, NEW p \in Proc, Step(p), NEW q \in Proc, q # p
  PROVE  pc'[q] = pc[q]
<1>1. pc' = pc \/ \E place \in Place : pc' = [pc EXCEPT ![p] = place]
  <2>1. CASE ClaimStep(p)
    BY <2>1 DEF ClaimStep, Start, CreateLock, LockBusy, ClaimUnavailable, Stamp, StampFails,
       Reload, Release, TaskThrows, Goto, Place
  <2>2. CASE AdmitStep(p)
    BY <2>2 DEF AdmitStep, CheckRejects, CheckFindsReceipt, CheckFindsIntent, CheckPasses,
       Unlock, Authorize, NotAuthorized, AppendIntent, AppendIntentFails, Goto, Place
  <2>3. CASE ExecuteStep(p)
    BY <2>3 DEF ExecuteStep, GuardDenies, Enter, ExecutorEnds, ExecutorGuards, ExecutorLapses,
       WriteEnds, WriteContinues, AppendReceipt, AppendReceiptFails, Goto, Place
  <2> QED BY <2>1, <2>2, <2>3 DEF Step
<1> QED BY <1>1 DEF TypeOK

LEMMA InitInvariant == Init => IInv
<1> SUFFICES ASSUME Init PROVE IInv
  OBVIOUS
<1>1. TypeOK
  BY TypeInit
<1>2. \A p \in Proc : Holder(p)
  BY DEF Init, Holder, Holding
<1>3. Global
  BY DEF Init, Global, OpsKnown, OneOp, OneIntent, OneReceipt, AtMostOnce, AnswersSound, DeniedUntouched
<1>4. Silent
  BY DEF Init, Silent
<1> QED BY <1>1, <1>2, <1>3, <1>4 DEF IInv, Global

-----------------------------------------------------------------------------
\* The steps of whoever holds the claim, up to the intent.

LEMMA ClaimHolder ==
  ASSUME IInv, NEW p \in Proc,
         Stamp(p) \/ StampFails(p) \/ Reload(p) \/ TaskThrows(p)
  PROVE  Holder(p)' /\ Global'
<1> USE DEF IInv
<1>1. Global'
  BY GlobalKept DEF Global, Stamp, StampFails, Reload, TaskThrows, durable, history
<1>2. ASSUME StampFails(p) PROVE Holder(p)'
  BY <1>2 DEF StampFails, Goto, Holder, Holding, TypeOK
<1>3. ASSUME Stamp(p) PROVE Holder(p)'
  BY <1>3 DEF Stamp, Goto, Holder, Holding, Active, TypeOK, memory, NoReply
<1>4. ASSUME Reload(p) PROVE Holder(p)'
  BY <1>4 DEF Reload, Goto, Holder, Holding, Active, TypeOK, durable, NoReply, Journal
<1>5. ASSUME TaskThrows(p) PROVE Holder(p)'
  <2>1. /\ pc[p] \in {"reloading", "unlocking", "authorizing"} /\ pc'[p] = "releasing"
        /\ lock' = lock /\ reply' = reply
    BY <1>5 DEF TaskThrows, Goto, TypeOK, memory
  <2>2. lock = p /\ reply[p] = NoReply
    BY <2>1 DEF Holder, Holding, Active
  <2> QED BY <2>1, <2>2 DEF Holder, Active, NoReply
<1> QED BY <1>1, <1>2, <1>3, <1>4, <1>5

LEMMA CheckHolder ==
  ASSUME IInv, NEW p \in Proc,
         \/ CheckRejects(p) \/ CheckFindsReceipt(p) \/ CheckFindsIntent(p) \/ CheckPasses(p)
         \/ Unlock(p) \/ NotAuthorized(p)
  PROVE  Holder(p)' /\ Global'
<1> USE DEF IInv
<1>1. Global'
  BY GlobalKept DEF Global, CheckRejects, CheckFindsReceipt, CheckFindsIntent, CheckPasses, Unlock,
     NotAuthorized, durable, history
<1>2. ASSUME CheckRejects(p) \/ NotAuthorized(p) PROVE Holder(p)'
  BY <1>2 DEF CheckRejects, NotAuthorized, Goto, Holder, Holding, Active, TypeOK, memory, NoReply
<1>3. ASSUME CheckFindsReceipt(p) PROVE Holder(p)'
  <2>1. /\ pc[p] = "checking" /\ pc'[p] = "releasing" /\ lock' = p
        /\ seen[p].intents = intents /\ seen[p].receipts = receipts
        /\ intents' = intents /\ receipts' = receipts
    BY <1>3 DEF CheckFindsReceipt, Goto, Holder, Holding, TypeOK, durable
  <2>2. PICK i \in intents, r \in receipts : r.op = i.op /\ reply' = [reply EXCEPT ![p] = r]
    BY <1>3, <2>1 DEF CheckFindsReceipt, SameKey
  <2>3. Sound(reply[p])'
    BY <2>1, <2>2 DEF Sound, TypeOK
  <2> QED BY <2>1, <2>3 DEF Holder, Active
<1>4. ASSUME CheckFindsIntent(p) PROVE Holder(p)'
  <2>1. /\ pc[p] = "checking" /\ pc'[p] = "releasing" /\ lock' = p
        /\ seen[p].intents = intents /\ seen[p].receipts = receipts
        /\ intents' = intents /\ receipts' = receipts
    BY <1>4 DEF CheckFindsIntent, Goto, Holder, Holding, TypeOK, durable
  <2>2. PICK i \in intents :
           /\ \A r \in receipts : r.op # i.op
           /\ reply' = [reply EXCEPT ![p] = [op |-> i.op, outcome |-> "uncertain"]]
    BY <1>4, <2>1 DEF CheckFindsIntent, SameKey
  <2>3. Sound(reply[p])'
    BY <2>1, <2>2 DEF Sound, NoReceipt, TypeOK
  <2> QED BY <2>1, <2>3 DEF Holder, Active
<1>5. ASSUME CheckPasses(p) PROVE Holder(p)'
  <2>1. /\ pc[p] = "checking" /\ pc'[p] = "unlocking" /\ lock' = p
        /\ seen[p].intents = intents /\ intents' = intents /\ queue' = queue
        /\ reply[p] = NoReply /\ reply' = reply
    BY <1>5 DEF CheckPasses, Goto, Holder, Holding, Active, TypeOK, durable, memory
  <2>2. FreshRequest(p)'
    BY <1>5, <2>1 DEF FreshRequest, CheckPasses, SameKey, NonceUsed, Current
  <2> QED BY <2>1, <2>2 DEF Holder, Active, NoReply
<1>6. ASSUME Unlock(p) PROVE Holder(p)'
  <2>1. /\ pc[p] = "unlocking" /\ pc'[p] \in {"authorizing", "releasing"} /\ lock' = p
        /\ FreshRequest(p) /\ intents' = intents /\ queue' = queue
        /\ reply[p] = NoReply /\ reply' = reply
    BY <1>6 DEF Unlock, Goto, Holder, Holding, Active, TypeOK, durable, memory
  <2>2. FreshRequest(p)'
    BY <2>1 DEF FreshRequest, Current
  <2> QED BY <2>1, <2>2 DEF Holder, Active, NoReply
<1> QED BY <1>1, <1>2, <1>3, <1>4, <1>5, <1>6

LEMMA IntentHolder ==
  ASSUME IInv, NEW p \in Proc, Authorize(p) \/ AppendIntent(p) \/ AppendIntentFails(p)
  PROVE  Holder(p)' /\ Global'
<1> USE DEF IInv
<1>1. ASSUME Authorize(p) PROVE Holder(p)' /\ Global'
  <2>1. /\ pc[p] = "authorizing" /\ pc'[p] = "intending" /\ lock' = p
        /\ FreshRequest(p) /\ intents' = intents /\ queue' = queue
        /\ issued' = issued + 1 /\ op'[p] = issued + 1 /\ issued \in Nat
        /\ reply[p] = NoReply /\ reply' = reply
    BY <1>1 DEF Authorize, Goto, Holder, Holding, Active, TypeOK, durable
  <2>2. FreshRequest(p)'
    BY <2>1 DEF FreshRequest, Current
  <2>3. \A i \in intents : i.op \in 1..issued
    BY DEF OpsKnown
  <2>4. Holder(p)'
    BY <2>1, <2>2, <2>3 DEF Holder, Active, NoReply
  <2>5. UNCHANGED <<intents, receipts, written, entered, answers>>
    BY <1>1 DEF Authorize, durable
  <2>6. OpsKnown'
    BY <2>1, <2>3, <2>5 DEF OpsKnown
  <2> QED BY <2>4, <2>5, <2>6 DEF Global, OneOp, OneIntent, OneReceipt, AtMostOnce, AnswersSound,
             Sound, NoReceipt, DeniedUntouched
<1>2. ASSUME AppendIntent(p) \/ AppendIntentFails(p) PROVE Holder(p)' /\ Global'
  <2>1. /\ pc[p] = "intending" /\ pc'[p] \in {"guarding", "releasing"} /\ lock' = p
        /\ FreshRequest(p) /\ op[p] \in 1..issued /\ \A i \in intents : i.op # op[p]
        /\ reply[p] = NoReply
    BY <1>2 DEF AppendIntent, AppendIntentFails, Goto, Holder, Holding, Active, TypeOK
  <2>2. /\ intents' = intents \/ intents' = intents \cup {NewIntent(p)}
        /\ pc'[p] = "guarding" => intents' = intents \cup {NewIntent(p)}
        /\ UNCHANGED <<receipts, queue, op, reply, answers, written, entered, issued>>
    <3>1. CASE AppendIntent(p)
      BY <3>1 DEF AppendIntent, history
    <3>2. CASE AppendIntentFails(p)
      <4>1. pc'[p] = "releasing"
        BY <3>2 DEF AppendIntentFails, Goto, TypeOK
      <4>2. intents' = intents \/ intents' = intents \cup {NewIntent(p)}
        BY <3>2 DEF AppendIntentFails
      <4>3. UNCHANGED <<receipts, queue, op, reply, answers, written, entered, issued>>
        BY <3>2 DEF AppendIntentFails, memory, history
      <4> QED BY <4>1, <4>2, <4>3
    <3> QED BY <1>2, <3>1, <3>2
  <2>3. NewIntent(p).op = op[p] /\ NewIntent(p).request = Current(p) /\ NewIntent(p)' = NewIntent(p)
    BY <2>2 DEF NewIntent, Current
  <2>4. /\ NoReceipt(op[p]) /\ op[p] \notin written
        /\ \A a \in answers : a.op # op[p]
        /\ \A k \in Key : entered[k] # 0 => k # Current(p).key
    <3>1. NoReceipt(op[p]) /\ op[p] \notin written
      BY <2>1 DEF OpsKnown, NoReceipt
    <3>2. \A a \in answers : a.op # op[p]
      BY <2>1 DEF AnswersSound, Sound
    <3>3. \A k \in Key : entered[k] # 0 => k # Current(p).key
      BY <2>1 DEF OpsKnown, FreshRequest
    <3> QED BY <3>1, <3>2, <3>3
  <2>5. Current(p).key \in Key
    BY <2>1, QueueTail DEF TypeOK, TaskWaits, Current, Key
  <2>6. Holder(p)'
    <3>1. CASE pc'[p] = "releasing"
      BY <2>1, <2>2, <3>1 DEF Holder, Active, NoReply
    <3>2. CASE pc'[p] = "guarding"
      <4>1. NewIntent(p)' \in intents' /\ NoReceipt(op[p])' /\ \A a \in answers' : a.op # op'[p]
        BY <2>2, <2>3, <2>4, <3>2 DEF NoReceipt
      <4>2. (op[p] \notin written)' /\ (entered[Current(p).key] = 0)'
        BY <2>2, <2>4, <2>5 DEF Current
      <4> QED BY <2>1, <3>2, <4>1, <4>2 DEF Holder, Active
    <3> QED BY <2>1, <3>1, <3>2
  <2>7. OpsKnown'
    BY <2>1, <2>2, <2>3 DEF OpsKnown
  <2>8. OneOp'
    BY <2>1, <2>2, <2>3 DEF OneOp
  <2>9. OneIntent'
    BY <2>1, <2>2, <2>3 DEF OneIntent, FreshRequest
  <2>10. AnswersSound' /\ DeniedUntouched'
    <3>1. AnswersSound'
      BY <2>2 DEF AnswersSound, Sound, NoReceipt
    <3>2. DeniedUntouched'
      BY <2>2 DEF DeniedUntouched
    <3> QED BY <3>1, <3>2
  <2>11. OneReceipt' /\ AtMostOnce'
    BY <2>2 DEF OneReceipt, AtMostOnce
  <2> QED BY <2>6, <2>7, <2>8, <2>9, <2>10, <2>11 DEF Global
<1> QED BY <1>1, <1>2

-----------------------------------------------------------------------------
\* The steps of whoever holds the claim, from the guard on.

LEMMA EnterHolder ==
  ASSUME IInv, NEW p \in Proc, GuardDenies(p) \/ Enter(p)
  PROVE  Holder(p)' /\ Global'
<1> USE DEF IInv
<1>1. /\ pc[p] = "guarding" /\ lock = p /\ lock' = lock
      /\ UNCHANGED <<intents, receipts, queue, op, written, issued, answers>>
      /\ op[p] \notin written /\ entered[Current(p).key] = 0
      /\ NewIntent(p) \in intents /\ NoReceipt(op[p]) /\ \A a \in answers : a.op # op[p]
  BY DEF GuardDenies, Enter, Goto, Holder, Holding, Active, durable, memory, history
<1>2. /\ Current(p)' = Current(p) /\ NewIntent(p)' = NewIntent(p)
      /\ Current(p) \in Request
  BY <1>1, QueueTail DEF Current, NewIntent, TypeOK, TaskWaits
<1>3. NewIntent(p)' \in intents' /\ NoReceipt(op[p])' /\ \A a \in answers' : a.op # op'[p]
  BY <1>1, <1>2 DEF NoReceipt
<1>4. ASSUME GuardDenies(p) PROVE Holder(p)' /\ Global'
  <2>1. pc'[p] = "concluding" /\ reply'[p].op = op'[p]
    BY <1>1, <1>4 DEF GuardDenies, Goto, Conclude, TypeOK
  <2>2. Holder(p)'
    BY <1>1, <1>3, <2>1 DEF Holder, Active
  <2>3. UNCHANGED <<intents, receipts, written, entered, answers, issued>>
    BY <1>4 DEF GuardDenies, durable, history
  <2> QED BY <2>2, <2>3, GlobalKept DEF Global
<1>5. ASSUME Enter(p) PROVE Holder(p)' /\ Global'
  <2>1. pc'[p] = "executing" /\ round'[p] = 1
    BY <1>5 DEF Enter, Goto, TypeOK
  <2>2. entered' = [entered EXCEPT ![Current(p).key] = 1]
    BY <1>1, <1>5 DEF Enter
  <2>3. 1 \in DOMAIN Script[Current(p)]
    <3>1. Len(Script[Current(p)]) \in Nat /\ Len(Script[Current(p)]) # 0
      BY <1>2, Rounds
    <3> QED BY <1>2, <3>1, Rounds
  <2>4. Holder(p)'
    BY <1>1, <1>2, <1>3, <2>1, <2>3 DEF Holder, Active
  <2>5. NewIntent(p).request.key = Current(p).key
    BY DEF NewIntent
  <2>6. OpsKnown'
    BY <1>1, <2>2, <2>5 DEF OpsKnown, TypeOK
  <2>7. AtMostOnce'
    BY <2>2 DEF AtMostOnce, TypeOK
  <2>8. OneOp' /\ OneIntent' /\ OneReceipt' /\ AnswersSound' /\ DeniedUntouched'
    BY <1>1 DEF OneOp, OneIntent, OneReceipt, AnswersSound, Sound, NoReceipt, DeniedUntouched
  <2> QED BY <2>4, <2>6, <2>7, <2>8 DEF Global
<1> QED BY <1>4, <1>5

LEMMA ExecuteHolder ==
  ASSUME IInv, NEW p \in Proc,
         \/ ExecutorEnds(p) \/ ExecutorGuards(p) \/ ExecutorLapses(p)
         \/ WriteEnds(p) \/ WriteContinues(p)
  PROVE  Holder(p)' /\ Global'
<1> USE DEF IInv
<1>1. /\ pc[p] \in {"executing", "writing"} /\ lock = p /\ lock' = lock
      /\ UNCHANGED <<intents, receipts, queue, op, issued, answers, entered>>
      /\ NewIntent(p) \in intents /\ NoReceipt(op[p]) /\ \A a \in answers : a.op # op[p]
      /\ round[p] \in DOMAIN Script[Current(p)]
      /\ op[p] \in written => WroteBefore(Current(p), round[p])
      /\ pc[p] = "writing" => ThisRound(p).writes
  BY DEF ExecutorEnds, ExecutorGuards, ExecutorLapses, WriteEnds, WriteContinues, Goto, Holder,
     Holding, Active, durable, memory, history
<1>2. /\ Current(p)' = Current(p) /\ NewIntent(p)' = NewIntent(p)
      /\ Current(p) \in Request
  BY <1>1, QueueTail DEF Current, NewIntent, TypeOK, TaskWaits
<1>3. /\ NewIntent(p)' \in intents' /\ NoReceipt(op[p])'
      /\ \A a \in answers' : a.op # op'[p]
  BY <1>1, <1>2 DEF NoReceipt
<1>4. written' = written \/ written' = written \cup {op[p]}
  BY DEF ExecutorEnds, ExecutorGuards, ExecutorLapses, WriteEnds, WriteContinues, history
<1>5. Global'
  <2>1. OpsKnown'
    BY <1>1, <1>4 DEF OpsKnown, NewIntent
  <2>2. DeniedUntouched'
    BY <1>1, <1>4 DEF DeniedUntouched, NoReceipt
  <2>3. OneOp' /\ OneIntent' /\ OneReceipt' /\ AnswersSound' /\ AtMostOnce'
    BY <1>1 DEF OneOp, OneIntent, OneReceipt, AnswersSound, Sound, NoReceipt, AtMostOnce
  <2> QED BY <2>1, <2>2, <2>3 DEF Global
<1>6. ASSUME ExecutorEnds(p) \/ ExecutorLapses(p) \/ WriteEnds(p) PROVE Holder(p)'
  <2>1. PICK outcome \in ThisRound(p).before \cup ThisRound(p).after \cup {"uncertain"} :
           /\ Conclude(p, outcome)
           /\ \/ outcome = "uncertain"
              \/ ExecutorEnds(p) /\ outcome \in ThisRound(p).before /\ written' = written
              \/ WriteEnds(p) /\ outcome \in ThisRound(p).after
    <3>1. CASE ExecutorLapses(p)
      BY <3>1 DEF ExecutorLapses
    <3>2. CASE ExecutorEnds(p)
      BY <3>2 DEF ExecutorEnds, history
    <3>3. CASE WriteEnds(p)
      BY <3>3 DEF WriteEnds
    <3> QED BY <1>6, <3>1, <3>2, <3>3
  <2>2. /\ pc'[p] = "concluding" /\ reply'[p].op = op'[p] /\ reply'[p].outcome = outcome
    BY <1>1, <1>6, <2>1 DEF ExecutorEnds, ExecutorLapses, WriteEnds, Goto, Conclude, TypeOK
  <2>3. ASSUME outcome = "denied", op[p] \in written' PROVE DeniesLate(Current(p))
    <3>1. CASE ExecutorEnds(p) /\ outcome \in ThisRound(p).before /\ written' = written
      BY <1>1, <2>3, <3>1 DEF WroteBefore, DeniesLate, ThisRound
    <3>2. CASE WriteEnds(p) /\ outcome \in ThisRound(p).after
      <4>1. ThisRound(p).writes
        BY <1>1, <3>2 DEF WriteEnds, Goto
      <4> QED BY <1>1, <2>3, <3>2, <4>1 DEF DeniesLate, ThisRound
    <3> QED BY <2>1, <2>3, <3>1, <3>2
  <2>4. (reply[p].outcome = "denied" /\ op[p] \in written => DeniesLate(Current(p)))'
    BY <1>1, <1>2, <2>2, <2>3 DEF DeniesLate
  <2> QED BY <1>1, <1>3, <2>2, <2>4 DEF Holder, Active
<1>7. ASSUME ExecutorGuards(p) \/ WriteContinues(p) PROVE Holder(p)'
  <2>1. CASE pc'[p] = "writing"
    <3>1. round' = round /\ ThisRound(p).writes /\ written' = written
      BY <1>7, <2>1 DEF ExecutorGuards, WriteContinues, Goto, TypeOK, history
    <3>2. /\ (round[p] \in DOMAIN Script[Current(p)])' /\ ThisRound(p)'.writes
          /\ (op[p] \in written => WroteBefore(Current(p), round[p]))'
      BY <1>1, <1>2, <3>1 DEF ThisRound, WroteBefore
    <3> QED BY <1>1, <1>3, <2>1, <3>2 DEF Holder, Active
  <2>2. CASE pc'[p] # "writing"
    <3>1. pc'[p] = "executing" /\ NextRound(p)
      BY <1>7, <2>2 DEF ExecutorGuards, WriteContinues, Goto, TypeOK
    <3>2. round'[p] = round[p] + 1 /\ round[p] < Len(Script[Current(p)]) /\ round[p] \in Nat
      BY <3>1 DEF NextRound, TypeOK
    <3>3. (round[p] \in DOMAIN Script[Current(p)])'
      BY <1>2, <3>2, Rounds
    <3>4. op[p] \in written' => op[p] \in written \/ ThisRound(p).writes
      <4>1. CASE ExecutorGuards(p)
        BY <4>1 DEF ExecutorGuards, history
      <4>2. CASE WriteContinues(p)
        BY <1>1, <4>2 DEF WriteContinues, Goto
      <4> QED BY <1>7, <4>1, <4>2
    <3>5. op[p] \in written' => \E m \in DOMAIN Script[Current(p)] :
             m < round[p] + 1 /\ Script[Current(p)][m].writes
      <4>1. ASSUME op[p] \in written PROVE \E m \in DOMAIN Script[Current(p)] :
                m < round[p] /\ Script[Current(p)][m].writes
        BY <1>1, <4>1 DEF WroteBefore
      <4>2. \A m \in DOMAIN Script[Current(p)] : m \in Nat
        BY <1>2, Rounds
      <4>3. ASSUME ThisRound(p).writes PROVE \E m \in DOMAIN Script[Current(p)] :
                m < round[p] + 1 /\ Script[Current(p)][m].writes
        BY <1>1, <3>2, <4>3 DEF ThisRound
      <4> QED BY <3>2, <3>4, <4>1, <4>2, <4>3
    <3>6. (op[p] \in written => WroteBefore(Current(p), round[p]))'
      BY <1>1, <1>2, <3>2, <3>5 DEF WroteBefore
    <3> QED BY <1>1, <1>3, <3>1, <3>3, <3>6 DEF Holder, Active
  <2> QED BY <2>1, <2>2
<1> QED BY <1>5, <1>6, <1>7

LEMMA ReceiptHolder ==
  ASSUME IInv, NEW p \in Proc, AppendReceipt(p) \/ AppendReceiptFails(p)
  PROVE  Holder(p)' /\ Global'
<1> USE DEF IInv
<1>1. /\ pc[p] = "concluding" /\ pc'[p] = "releasing" /\ lock = p /\ lock' = lock
      /\ UNCHANGED <<intents, written, entered, issued, answers>>
      /\ NewIntent(p) \in intents /\ NoReceipt(op[p]) /\ \A a \in answers : a.op # op[p]
      /\ reply[p].op = op[p]
      /\ reply[p].outcome = "denied" /\ op[p] \in written => DeniesLate(Current(p))
  BY DEF AppendReceipt, AppendReceiptFails, Goto, Holder, Holding, Active, history, TypeOK
<1>2. /\ receipts' = receipts \/ receipts' = receipts \cup {reply[p]}
      /\ \/ reply'[p] = NoReply
         \/ reply'[p] = reply[p] /\ receipts' = receipts \cup {reply[p]}
  <2>1. CASE AppendReceipt(p)
    BY <2>1 DEF AppendReceipt
  <2>2. CASE AppendReceiptFails(p)
    <3>1. receipts' = receipts \/ receipts' = receipts \cup {reply[p]}
      BY <2>2 DEF AppendReceiptFails
    <3>2. reply'[p] = NoReply
      BY <2>2 DEF AppendReceiptFails, TypeOK
    <3> QED BY <3>1, <3>2
  <2> QED BY <2>1, <2>2
<1>3. NewIntent(p).op = op[p] /\ NewIntent(p).request = Current(p)
  BY DEF NewIntent
<1>4. Holder(p)'
  <2>1. (reply[p].op = 0 \/ Sound(reply[p]))'
    <3>1. CASE reply'[p] = NoReply
      BY <3>1 DEF NoReply
    <3>2. CASE reply'[p] = reply[p] /\ receipts' = receipts \cup {reply[p]}
      BY <1>1, <1>3, <3>2 DEF Sound
    <3> QED BY <1>2, <3>1, <3>2
  <2> QED BY <1>1, <2>1 DEF Holder, Active
<1>5. OpsKnown'
  BY <1>1, <1>2, <1>3 DEF OpsKnown
<1>6. OneReceipt'
  BY <1>1, <1>2 DEF OneReceipt, NoReceipt
<1>7. AnswersSound'
  BY <1>1, <1>2 DEF AnswersSound, Sound, NoReceipt
<1>8. DeniedUntouched'
  <2>1. ASSUME NEW r \in receipts', r.outcome = "denied" /\ r.op \in written
        PROVE  \E i \in intents : i.op = r.op /\ DeniesLate(i.request)
    <3>1. CASE r \in receipts
      BY <2>1, <3>1 DEF DeniedUntouched
    <3>2. CASE r = reply[p]
      <4>1. DeniesLate(Current(p)) /\ NewIntent(p).op = r.op
        BY <1>1, <1>3, <2>1, <3>2
      <4> QED BY <1>1, <1>3, <4>1
    <3> QED BY <1>2, <3>1, <3>2
  <2>2. intents' = intents /\ written' = written
    BY <1>1
  <2> QED BY <2>1, <2>2 DEF DeniedUntouched, DeniesLate
<1>9. OneOp' /\ OneIntent' /\ AtMostOnce'
  BY <1>1 DEF OneOp, OneIntent, AtMostOnce
<1> QED BY <1>4, <1>5, <1>6, <1>7, <1>8, <1>9 DEF Global

LEMMA ReleaseHolder ==
  ASSUME IInv, NEW p \in Proc, Release(p)
  PROVE  Holder(p)' /\ Global'
<1> USE DEF IInv
<1>1. /\ pc[p] = "releasing" /\ pc'[p] = "idle"
      /\ reply[p].op = 0 \/ Sound(reply[p])
      /\ UNCHANGED <<intents, receipts, written, entered, issued>>
  BY DEF Release, Goto, Holder, Holding, TypeOK, durable
<1>2. Holder(p)'
  BY <1>1 DEF Holder, Holding
<1>3. \A a \in answers' : Sound(a)
  BY <1>1 DEF Release, AnswersSound
<1>4. AnswersSound'
  BY <1>1, <1>3 DEF AnswersSound, Sound, NoReceipt
<1>5. OpsKnown' /\ OneOp' /\ OneIntent' /\ OneReceipt' /\ AtMostOnce' /\ DeniedUntouched'
  BY <1>1 DEF OpsKnown, OneOp, OneIntent, OneReceipt, AtMostOnce, DeniedUntouched
<1> QED BY <1>2, <1>4, <1>5 DEF Global

LEMMA SilentStep == TypeOK /\ Silent /\ [Next]_vars => Silent'
<1> SUFFICES ASSUME TypeOK, Silent, [Next]_vars, NEW p \in Proc,
                    pc'[p] \in {"idle", "claiming", "down"}
             PROVE  reply'[p] = NoReply
  BY DEF Silent, NoReply
<1>1. ASSUME \/ \E g \in Grant : Mint(g)
             \/ \E r \in Proc, q \in Request : Call(r, q)
             \/ ChangeAuthority \/ UNCHANGED vars
      PROVE  reply'[p] = NoReply
  <2>1. pc' = pc /\ reply' = reply
    BY <1>1 DEF Mint, MintAuthorize, MintStore, MintIssue, Call, ChangeAuthority, vars, memory
  <2> QED BY <2>1 DEF Silent
<1>2. ASSUME NEW r \in Proc,
             \/ ClaimUnavailable(r) \/ StampFails(r) \/ Release(r) \/ Crash(r)
      PROVE  reply'[p] = NoReply
  <2>1. pc[p] = pc'[p] \/ p = r
    BY <1>2 DEF ClaimUnavailable, StampFails, Release, Crash, Goto, TypeOK
  <2>2. reply' = [reply EXCEPT ![r] = NoReply]
    BY <1>2 DEF ClaimUnavailable, StampFails, Release, Crash, Settle
  <2> QED BY <2>1, <2>2 DEF Silent, TypeOK
<1>3. ASSUME NEW r \in Proc, Start(r) \/ LockBusy(r) \/ Restart(r)
      PROVE  reply'[p] = NoReply
  <2>1. reply' = reply /\ (pc[p] = pc'[p] \/ pc[p] \in {"idle", "down"})
    BY <1>3 DEF Start, LockBusy, Restart, Goto, TypeOK, memory
  <2> QED BY <2>1 DEF Silent
<1>4. ASSUME NEW r \in Proc, Step(r),
             ~(Start(r) \/ LockBusy(r) \/ ClaimUnavailable(r) \/ StampFails(r) \/ Release(r))
      PROVE  reply'[p] = NoReply
  <2>1. pc'[r] \in Holding
    <3>1. CASE ClaimStep(r)
      BY <1>4, <3>1 DEF ClaimStep, CreateLock, Stamp, Reload, TaskThrows, Goto, Holding, TypeOK
    <3>2. CASE AdmitStep(r)
      BY <3>2 DEF AdmitStep, CheckRejects, CheckFindsReceipt, CheckFindsIntent, CheckPasses,
         Unlock, Authorize, NotAuthorized, AppendIntent, AppendIntentFails, Goto, Holding, TypeOK
    <3>3. CASE ExecuteStep(r)
      BY <3>3 DEF ExecuteStep, GuardDenies, Enter, ExecutorEnds, ExecutorGuards, ExecutorLapses,
         WriteEnds, WriteContinues, AppendReceipt, AppendReceiptFails, Goto, Holding, TypeOK
    <3> QED BY <1>4, <3>1, <3>2, <3>3 DEF Step
  <2>2. p # r /\ pc'[p] = pc[p]
    BY <1>4, <2>1, StepElsewhere DEF Holding
  <2>3. reply'[p] = reply[p]
    <3>1. reply' = reply \/ \E a : reply' = [reply EXCEPT ![r] = a]
      <4>1. CASE ClaimStep(r)
        BY <1>4, <4>1 DEF ClaimStep, CreateLock, Stamp, Reload, TaskThrows, memory
      <4>2. CASE AdmitStep(r)
        BY <4>2 DEF AdmitStep, CheckRejects, CheckFindsReceipt, CheckFindsIntent, CheckPasses,
           Unlock, Authorize, NotAuthorized, AppendIntent, AppendIntentFails, memory
      <4>3. CASE ExecuteStep(r)
        BY <4>3 DEF ExecuteStep, GuardDenies, Enter, ExecutorEnds, ExecutorGuards,
           ExecutorLapses, WriteEnds, WriteContinues, AppendReceipt, AppendReceiptFails,
           Conclude, memory
      <4> QED BY <1>4, <4>1, <4>2, <4>3 DEF Step
    <3> QED BY <2>2, <3>1 DEF TypeOK
  <2> QED BY <2>2, <2>3 DEF Silent
<1> QED BY <1>1, <1>2, <1>3, <1>4 DEF Next

-----------------------------------------------------------------------------
(***************************************************************************)
(* The invariant is inductive.  Minting, calls and changes of authority    *)
(* leave every holder alone; whoever has no claim yet, starts, waits,      *)
(* crashes or restarts beside the holder; the holder's own steps are the   *)
(* lemmas above, and nobody else holds the claim.                          *)
(***************************************************************************)
LEMMA Inductive == IInv /\ [Next]_vars => IInv'
<1> SUFFICES ASSUME IInv, [Next]_vars PROVE (\A p \in Proc : Holder(p))' /\ Global'
  BY TypeStep, SilentStep DEF IInv, Global
<1> USE DEF IInv
<1>1. ASSUME \/ \E g \in Grant : Mint(g)
             \/ ChangeAuthority
             \/ UNCHANGED vars
      PROVE  (\A p \in Proc : Holder(p))' /\ Global'
  <2>1. /\ UNCHANGED <<intents, receipts, written, entered, answers, issued, lock>>
        /\ UNCHANGED <<pc, queue, op, round, seen, reply>>
    BY <1>1 DEF Mint, MintAuthorize, MintStore, MintIssue, ChangeAuthority, vars, durable, memory, history
  <2>2. Global'
    BY <2>1, GlobalKept DEF Global
  <2>3. ASSUME NEW q \in Proc PROVE Holder(q)'
    <3>1. Holder(q) /\ pc'[q] = pc[q] /\ UNCHANGED <<Current(q), op[q], round[q], seen[q], reply[q]>>
      BY <2>1 DEF Current
    <3> QED BY <2>1, <3>1, HolderKept
  <2> QED BY <2>2, <2>3
<1>2. ASSUME NEW p \in Proc, NEW q \in Request, Call(p, q)
      PROVE  (\A r \in Proc : Holder(r))' /\ Global'
  <2>1. /\ UNCHANGED <<intents, receipts, written, entered, answers, issued, lock>>
        /\ UNCHANGED <<pc, op, round, seen, reply>>
        /\ queue' = [queue EXCEPT ![p] = Append(queue[p], q)]
    BY <1>2 DEF Call, durable
  <2>2. Global'
    BY <2>1, GlobalKept DEF Global
  <2>3. ASSUME NEW r \in Proc PROVE Holder(r)'
    <3>1. pc[r] \in Holding => Current(r)' = Current(r)
      <4>1. CASE r = p
        <5>1. pc[r] \in Holding => queue[r] # <<>>
          BY DEF TypeOK, TaskWaits, Holding
        <5>2. queue'[r] = Append(queue[r], q) /\ queue[r] \in Seq(Request)
          BY <2>1, <4>1 DEF TypeOK
        <5> QED BY <5>1, <5>2, QueueAppend DEF Current
      <4>2. CASE r # p
        BY <2>1, <4>2 DEF Current, TypeOK
      <4> QED BY <4>1, <4>2
    <3>2. Holder(r) /\ pc'[r] = pc[r] /\ UNCHANGED <<op[r], round[r], seen[r], reply[r]>>
      BY <2>1
    <3> QED BY <2>1, <3>1, <3>2, HolderKept
  <2> QED BY <2>2, <2>3
<1>3. ASSUME NEW p \in Proc, Crash(p) \/ Restart(p)
      PROVE  (\A q \in Proc : Holder(q))' /\ Global'
  <2>1. /\ UNCHANGED <<intents, receipts, written, entered, answers, issued, lock>>
        /\ pc'[p] \notin Holding
    BY <1>3 DEF Crash, Restart, Goto, TypeOK, Holding, durable, history
  <2>2. Global'
    BY <2>1, GlobalKept DEF Global
  <2>3. ASSUME NEW q \in Proc PROVE Holder(q)'
    <3>1. CASE q = p
      BY <2>1, <3>1 DEF Holder
    <3>2. CASE q # p
      <4>1. /\ pc'[q] = pc[q] /\ queue'[q] = queue[q]
            /\ UNCHANGED <<op[q], round[q], seen[q], reply[q]>>
        BY <1>3, <3>2 DEF Crash, Restart, Settle, Goto, TypeOK
      <4>2. Current(q)' = Current(q)
        BY <4>1 DEF Current
      <4> QED BY <2>1, <4>1, <4>2, HolderKept
    <3> QED BY <3>1, <3>2
  <2> QED BY <2>2, <2>3
<1>4. ASSUME NEW p \in Proc, Start(p) \/ LockBusy(p) \/ ClaimUnavailable(p)
      PROVE  (\A q \in Proc : Holder(q))' /\ Global'
  <2>1. /\ UNCHANGED <<intents, receipts, written, entered, answers, issued, lock>>
        /\ pc'[p] \notin Holding
    BY <1>4 DEF Start, LockBusy, ClaimUnavailable, Goto, TypeOK, Holding, durable, history
  <2>2. Global'
    BY <2>1, GlobalKept DEF Global
  <2>3. ASSUME NEW q \in Proc PROVE Holder(q)'
    <3>1. CASE q = p
      BY <2>1, <3>1 DEF Holder
    <3>2. CASE q # p
      <4>1. /\ pc'[q] = pc[q] /\ queue'[q] = queue[q]
            /\ UNCHANGED <<op[q], round[q], seen[q], reply[q]>>
        BY <1>4, <3>2 DEF Start, LockBusy, ClaimUnavailable, Settle, Goto, TypeOK, memory
      <4>2. Current(q)' = Current(q)
        BY <4>1 DEF Current
      <4> QED BY <2>1, <4>1, <4>2, HolderKept
    <3> QED BY <3>1, <3>2
  <2> QED BY <2>2, <2>3
<1>5. ASSUME NEW p \in Proc, CreateLock(p)
      PROVE  (\A q \in Proc : Holder(q))' /\ Global'
  <2>1. /\ UNCHANGED <<intents, receipts, written, entered, answers, issued, reply>>
        /\ pc[p] = "claiming" /\ pc'[p] = "stamping" /\ lock = None /\ lock' = p
    BY <1>5 DEF CreateLock, Goto, TypeOK, durable, memory, history
  <2>2. Global'
    BY <2>1, GlobalKept DEF Global
  <2>3. ASSUME NEW q \in Proc PROVE Holder(q)'
    <3>1. CASE q = p
      <4>1. reply[p] = NoReply
        BY <2>1 DEF Silent
      <4> QED BY <2>1, <3>1, <4>1 DEF Holder, Active, NoReply
    <3>2. CASE q # p
      <4>1. pc'[q] = pc[q] /\ pc[q] \notin Holding
        <5>1. None # q
          BY ActionAssumption
        <5>2. Holder(q) /\ lock # q
          BY <2>1, <5>1
        <5>3. pc[q] \notin Holding
          BY <5>2 DEF Holder
        <5>4. pc'[q] = pc[q]
          BY <1>5, <3>2 DEF CreateLock, Goto, TypeOK
        <5> QED BY <5>3, <5>4
      <4> QED BY <4>1 DEF Holder
    <3> QED BY <3>1, <3>2
  <2> QED BY <2>2, <2>3
<1>6. ASSUME NEW p \in Proc, Step(p),
             ~(Start(p) \/ LockBusy(p) \/ ClaimUnavailable(p) \/ CreateLock(p))
      PROVE  (\A q \in Proc : Holder(q))' /\ Global'
  <2>1. Holder(p)' /\ Global'
    BY <1>6, ClaimHolder, CheckHolder, IntentHolder, EnterHolder, ExecuteHolder, ReceiptHolder,
       ReleaseHolder DEF Step, ClaimStep, AdmitStep, ExecuteStep
  <2>2. pc[p] \in Holding
    <3>1. CASE ClaimStep(p)
      BY <1>6, <3>1 DEF ClaimStep, Stamp, StampFails, Reload, Release, TaskThrows, Goto, Holding
    <3>2. CASE AdmitStep(p)
      BY <3>2 DEF AdmitStep, CheckRejects, CheckFindsReceipt, CheckFindsIntent, CheckPasses,
         Unlock, Authorize, NotAuthorized, AppendIntent, AppendIntentFails, Goto, Holding
    <3>3. CASE ExecuteStep(p)
      BY <3>3 DEF ExecuteStep, GuardDenies, Enter, ExecutorEnds, ExecutorGuards, ExecutorLapses,
         WriteEnds, WriteContinues, AppendReceipt, AppendReceiptFails, Goto, Holding
    <3> QED BY <1>6, <3>1, <3>2, <3>3 DEF Step
  <2>3. ASSUME NEW q \in Proc, q # p PROVE Holder(q)'
    BY <1>6, <2>2, <2>3, StepElsewhere, HolderAlone
  <2> QED BY <2>1, <2>3
<1> QED BY <1>1, <1>2, <1>3, <1>4, <1>5, <1>6 DEF Next

THEOREM InvariantHolds == Spec => []IInv
<1>1. Init => IInv
  BY InitInvariant
<1>2. IInv /\ [Next]_vars => IInv'
  BY Inductive
<1> QED BY <1>1, <1>2, PTL DEF Spec

-----------------------------------------------------------------------------
\* Whoever is at work has a request to work on, and every record has its form.
THEOREM TypeCorrect == Spec => []TypeOK
<1>1. IInv => TypeOK
  BY DEF IInv
<1> QED BY <1>1, InvariantHolds, PTL

\* One durable intent for a key, and for a nonce of a grant: a holder that found
\* neither is the only one that appends until it lets go.
THEOREM OneIntentHolds == Spec => []OneIntent
<1>1. IInv => OneIntent
  BY DEF IInv
<1> QED BY <1>1, InvariantHolds, PTL

\* An executor is entered at most once for a key: only by the holder that appended
\* the key's intent, and no later holder finds the key unused.
THEOREM AtMostOnceHolds == Spec => []AtMostOnce
<1>1. IInv => AtMostOnce
  BY DEF IInv
<1> QED BY <1>1, InvariantHolds, PTL

\* Callers agree about an operation: an answer is the only receipt on record, or
\* "uncertain" for an operation that has none and whose holder is gone.
THEOREM VerdictsFinalHolds == Spec => []VerdictsFinal
<1>1. IInv => VerdictsFinal
  <2> SUFFICES ASSUME IInv, NEW a \in answers
               PROVE  /\ \A b \in answers : a.op = b.op => a = b
                      /\ \A r \in receipts : r.op = a.op => r = a
    BY DEF VerdictsFinal
  <2>1. Sound(a) /\ a \in [op : Nat, outcome : Outcome]
    BY DEF IInv, AnswersSound, TypeOK
  <2>2. ASSUME NEW r \in receipts, r.op = a.op PROVE r = a
    BY <2>1, <2>2 DEF Sound, NoReceipt, IInv, OneReceipt
  <2>3. ASSUME NEW b \in answers, a.op = b.op PROVE a = b
    <3>1. Sound(b) /\ b \in [op : Nat, outcome : Outcome]
      BY DEF IInv, AnswersSound, TypeOK
    <3>2. CASE a \in receipts
      BY <2>3, <3>1, <3>2 DEF Sound, NoReceipt, IInv, OneReceipt
    <3>3. CASE b \in receipts
      BY <2>2, <2>3, <3>3
    <3>4. CASE a \notin receipts /\ b \notin receipts
      BY <2>1, <2>3, <3>1, <3>4 DEF Sound
    <3> QED BY <3>2, <3>3, <3>4
  <2> QED BY <2>2, <2>3
<1> QED BY <1>1, InvariantHolds, PTL

\* What was written outside is named by a durable intent, whatever failed since.
THEOREM EffectsNamedHolds == Spec => []EffectsNamed
<1>1. IInv => EffectsNamed
  BY DEF IInv, OpsKnown, EffectsNamed
<1> QED BY <1>1, InvariantHolds, PTL

\* A denial on record means that nothing was written, for every executor script
\* that does not itself refuse after a write.
THEOREM DeniedUntouchedHolds == Spec => []DeniedUntouched
<1>1. IInv => DeniedUntouched
  BY DEF IInv
<1> QED BY <1>1, InvariantHolds, PTL

\* So what lies outside is what the records say of it, whatever appends fail and
\* whichever processes end.
THEOREM OutcomesTrueHolds == Spec => []OutcomesTrue
<1>1. EffectsNamed /\ DeniedUntouched => OutcomesTrue
  BY DEF OutcomesTrue
<1> QED BY <1>1, EffectsNamedHolds, DeniedUntouchedHolds, PTL
=============================================================================
