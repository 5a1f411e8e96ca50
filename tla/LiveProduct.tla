----------------------------- MODULE LiveProduct -----------------------------
(***************************************************************************)
(* src/production/live-product.ts: the private journal of a product that   *)
(* is live: its runtime observed by commands the owner approved, the       *)
(* observation adopted as baseline, and the next increment begun from it;  *)
(* and src/production/discovery-session.ts: the history of the interview   *)
(* that an increment starts and the owner's answers continue.              *)
(*                                                                         *)
(* A digest of the journal's last entry is the number of entries before    *)
(* the next one; the bytes that a request binds are as bound or not; the   *)
(* runtime is the expected one or not.                                     *)
(***************************************************************************)
EXTENDS Naturals, Sequences, FiniteSets

CONSTANTS
    Caller, Writer,     \* who calls the controller, who answers the interview
    Request,            \* [id, kind, of]: of is what it adopts or builds on
    None, Left,         \* nobody, and a guard whose process is gone
    MaxEntries, MaxChanges, MaxTroubles

VARIABLES
    journal,    \* the entries [id, kind, of, parent, passed]
    torn,       \* its last line is incomplete
    markers,    \* ids of the operations whose intent is on disk
    guard,      \* ownership guard of the journal
    call,       \* per caller: where it is, its request, the parent it names, what it saw
    evidence,   \* the bound files are as bound
    runtime,    \* the runtime is the one expected
    ran,        \* per operation: how many times its commands were started
    history,    \* of the interview: lines [event, after], after what is before it
    hTorn, hGuard,
    draft,      \* per writer: the events its next revision continues
    answered,   \* the writers that were told their answer is recorded
    changes, troubles

product == <<journal, torn, markers, guard, call, evidence, runtime, ran>>
interview == <<history, hTorn, hGuard, draft, answered>>
vars == <<product, interview, changes, troubles>>

Ids == {q.id : q \in Request}
Kinds == {"observation", "adoption", "increment"}
Idle == [at |-> "idle", request |-> None, parent |-> 0, passed |-> FALSE]

ProductAssumption ==
    /\ \A q \in Request : q.kind \in Kinds
    /\ Cardinality(Ids) = Cardinality(Request)
    /\ Caller \cap Writer = {} /\ Writer \cap Ids = {}

Init ==
    /\ journal = << >> /\ torn = FALSE /\ markers = {} /\ guard = None
    /\ call = [c \in Caller |-> Idle]
    /\ evidence = TRUE /\ runtime = TRUE
    /\ ran = [i \in Ids |-> 0]
    /\ history = << >> /\ hTorn = FALSE /\ hGuard = None
    /\ draft = [w \in Writer |-> None] /\ answered = {}
    /\ changes = 0 /\ troubles = 0

Goes(c, where) == call' = [call EXCEPT ![c].at = where]

Leave(c) ==
    /\ call' = [call EXCEPT ![c] = Idle]
    /\ guard' = None

-----------------------------------------------------------------------------
\* withOwnershipLock: who finds the guard taken, or left behind, is refused.
Begin(c) ==
    /\ call[c].at = "idle" /\ guard = None
    /\ guard' = c
    /\ \E q \in Request : \E p \in 0..Len(journal) :
         call' = [call EXCEPT ![c] = [at |-> "read", request |-> q, parent |-> p, passed |-> FALSE]]
    /\ UNCHANGED <<journal, torn, markers, evidence, runtime, ran, interview, changes, troubles>>

Entry(id, kind) == {k \in DOMAIN journal : journal[k].id = id /\ journal[k].kind = kind}
Adoptions(upTo) == {k \in 1..upTo : journal[k].kind = "adoption"}
IsLatest(k, upTo) == k \in Adoptions(upTo) /\ \A j \in Adoptions(upTo) : j <= k


OnCurrent(k) == IsLatest(k, Len(journal))

\* An adoption rests on an observation that passed, an increment on the latest adoption.
Grounded(q) ==
    \/ q.kind = "observation"
    \/ q.kind = "adoption" /\ \E k \in Entry(q.of, "observation") : journal[k].passed
    \/ q.kind = "increment" /\ \E k \in Entry(q.of, "adoption") : OnCurrent(k)

\* A known id is answered from its entry; a new one needs the parent it was made for, room,
\* what it rests on, and the bound files.
Admit(c) ==
    LET q == call[c].request IN
    /\ call[c].at = "read"
    /\ IF /\ ~torn
          /\ ~ \E k \in DOMAIN journal : journal[k].id = q.id
          /\ call[c].parent = Len(journal) /\ Len(journal) < MaxEntries
          /\ Grounded(q) /\ evidence
       THEN Goes(c, "claim") /\ UNCHANGED guard
       ELSE Leave(c)
    /\ UNCHANGED <<journal, torn, markers, evidence, runtime, ran, interview, changes, troubles>>

\* Slip (CommandsOnce): an intent found is taken over.
UnclaimedAlways(id) == TRUE

Unclaimed(id) == id \notin markers

Claim(c) ==
    LET id == call[c].request.id IN
    /\ call[c].at = "claim"
    /\ IF Unclaimed(id)
       THEN markers' = markers \cup {id} /\ Goes(c, "identity") /\ UNCHANGED guard
       ELSE Leave(c) /\ UNCHANGED markers
    /\ UNCHANGED <<journal, torn, evidence, runtime, ran, interview, changes, troubles>>

-----------------------------------------------------------------------------
\* observe: identity, check, identity again.  A failure is an observation that failed, and
\* the end of anything else.
Sees(c) == runtime

Observe(c) ==
    LET q == call[c].request IN
    /\ call[c].at \in {"identity", "check", "again"}
    /\ ran' = IF call[c].at = "identity" THEN [ran EXCEPT ![q.id] = @ + 1] ELSE ran
    /\ IF Sees(c) /\ call[c].at # "again"
       THEN Goes(c, IF call[c].at = "identity" THEN "check" ELSE "again") /\ UNCHANGED guard
       ELSE IF Sees(c) \/ q.kind = "observation"
       THEN call' = [call EXCEPT ![c].at = "recheck", ![c].passed = Sees(c)] /\ UNCHANGED guard
       ELSE Leave(c)
    /\ UNCHANGED <<journal, torn, markers, evidence, runtime, interview, changes, troubles>>

\* Slip (StartsSaved): the entry of an increment is written before its session.
RecordedFirst(q) == "append"

Recorded(q) == IF q.kind = "increment" THEN "save" ELSE "append"

\* The bound files are read again after the commands, whatever these showed.
Recheck(c) ==
    /\ call[c].at = "recheck"
    /\ IF evidence
       THEN Goes(c, Recorded(call[c].request)) /\ UNCHANGED guard
       ELSE Leave(c)
    /\ UNCHANGED <<journal, torn, markers, evidence, runtime, ran, interview, changes, troubles>>

\* A write that fails may leave part of a line.
Record(c) ==
    LET q == call[c].request IN
    /\ call[c].at = "append"
    /\ Goes(c, "done")
    /\ \/ /\ journal' = Append(journal, [id |-> q.id, kind |-> q.kind, of |-> q.of,
                                         parent |-> call[c].parent, passed |-> call[c].passed])
          /\ UNCHANGED <<torn, troubles>>
       \/ /\ troubles < MaxTroubles
          /\ torn' = TRUE /\ troubles' = troubles + 1
          /\ UNCHANGED journal
    /\ UNCHANGED <<markers, guard, evidence, runtime, ran, interview, changes>>

Return(c) ==
    /\ call[c].at = "done"
    /\ Leave(c)
    /\ UNCHANGED <<journal, torn, markers, evidence, runtime, ran, interview, changes, troubles>>

-----------------------------------------------------------------------------
\* The interview's history: a revision continues the events it was made from.
Told == [k \in DOMAIN history |-> history[k].event]

\* loadProductDiscoverySession and the answer added to what it read.
Answer(w) ==
    /\ draft[w] = None /\ w \notin answered
    /\ ~hTorn /\ history # << >> /\ w \notin {history[k].event : k \in DOMAIN history}
    /\ draft' = [draft EXCEPT ![w] = Told]
    /\ UNCHANGED <<product, history, hTorn, hGuard, answered, changes, troubles>>

\* Slip (AnswersKept): an answer made from an earlier revision is added to the later one.
FitsEarlier(after) == Len(after) <= Len(Told)

\* verifyTransition: the new revision continues all that is there.
Fits(after) == after = Told

\* saveProductDiscoverySession of an answer: the same revision again is told it is there.
SaveBegins(w) ==
    /\ draft[w] # None /\ hGuard = None
    /\ IF hTorn \/ (Told # Append(draft[w], w) /\ ~Fits(draft[w]))
       THEN draft' = [draft EXCEPT ![w] = None] /\ UNCHANGED <<hGuard, answered>>
       ELSE IF Told = Append(draft[w], w)
       THEN answered' = answered \cup {w} /\ draft' = [draft EXCEPT ![w] = None] /\ UNCHANGED hGuard
       ELSE hGuard' = w /\ UNCHANGED <<draft, answered>>
    /\ UNCHANGED <<product, history, hTorn, changes, troubles>>

Line(event, after) == [event |-> event, after |-> after]

\* The line is written whole and the writer told, or not told, or it is cut off.
SaveEnds(w) ==
    /\ hGuard = w
    /\ hGuard' = None
    /\ \/ /\ history' = Append(history, Line(w, draft[w]))
          /\ answered' = answered \cup {w} /\ draft' = [draft EXCEPT ![w] = None]
          /\ UNCHANGED <<hTorn, troubles>>
       \/ /\ troubles < MaxTroubles /\ troubles' = troubles + 1
          /\ \/ history' = Append(history, Line(w, draft[w])) /\ UNCHANGED hTorn
             \/ hTorn' = TRUE /\ UNCHANGED history
          /\ UNCHANGED <<draft, answered>>
    /\ UNCHANGED <<product, changes>>

\* The same of an increment's session: the first revision, and only of an empty history.
StartBegins(c) ==
    LET id == call[c].request.id IN
    /\ call[c].at = "save"
    /\ IF hGuard # None \/ hTorn \/ (Told # <<id>> /\ ~Fits(<< >>))
       THEN Leave(c) /\ UNCHANGED hGuard
       ELSE IF Told = <<id>>
       THEN Goes(c, "append") /\ UNCHANGED <<guard, hGuard>>
       ELSE Goes(c, "saving") /\ hGuard' = c /\ UNCHANGED guard
    /\ UNCHANGED <<journal, torn, markers, evidence, runtime, ran,
                   history, hTorn, draft, answered, changes, troubles>>

StartEnds(c) ==
    /\ call[c].at = "saving"
    /\ hGuard' = None
    /\ \/ /\ history' = Append(history, Line(call[c].request.id, << >>))
          /\ Goes(c, "append")
          /\ UNCHANGED <<guard, hTorn, troubles>>
       \/ /\ troubles < MaxTroubles /\ troubles' = troubles + 1
          /\ hTorn' = TRUE /\ Leave(c)
          /\ UNCHANGED history
    /\ UNCHANGED <<journal, torn, markers, evidence, runtime, ran, draft, answered, changes>>

-----------------------------------------------------------------------------
\* A process dies: its guards stay, and a line it was writing may be cut off.
Dies(c) ==
    /\ call[c].at # "idle" /\ troubles < MaxTroubles
    /\ call' = [call EXCEPT ![c] = Idle]
    /\ guard' = Left
    /\ hGuard' = IF hGuard = c THEN Left ELSE hGuard
    /\ torn' \in {torn, torn \/ call[c].at = "append"}
    /\ hTorn' \in {hTorn, hTorn \/ call[c].at = "saving"}
    /\ troubles' = troubles + 1
    /\ UNCHANGED <<journal, markers, evidence, runtime, ran, history, draft, answered, changes>>

\* The owner investigates, and removes a guard whose process is gone.
OwnerClears ==
    /\ Left \in {guard, hGuard}
    /\ guard' = IF guard = Left THEN None ELSE guard
    /\ hGuard' = IF hGuard = Left THEN None ELSE hGuard
    /\ UNCHANGED <<journal, torn, markers, call, evidence, runtime, ran,
                   history, hTorn, draft, answered, changes, troubles>>

Drifts ==
    /\ changes < MaxChanges /\ changes' = changes + 1
    /\ \/ evidence' = ~evidence /\ UNCHANGED runtime
       \/ runtime' = ~runtime /\ UNCHANGED evidence
    /\ UNCHANGED <<journal, torn, markers, guard, call, ran, interview, troubles>>

Step ==
    \/ \E c \in Caller :
         \/ Begin(c) \/ Admit(c) \/ Claim(c) \/ Observe(c) \/ Recheck(c)
         \/ StartBegins(c) \/ StartEnds(c) \/ Record(c) \/ Return(c) \/ Dies(c)
    \/ \E w \in Writer : Answer(w) \/ SaveBegins(w) \/ SaveEnds(w)
    \/ OwnerClears
    \/ Drifts

Spec == Init /\ [][Step]_vars

-----------------------------------------------------------------------------
\* The approved commands of an operation are started once, whatever died or failed and
\* however often the owner asks again ("never automatically rerun").
CommandsOnce == \A i \in Ids : ran[i] <= 1

\* Every entry was asked for by someone who had seen all that is before it; a baseline is
\* adopted from an earlier observation that passed, and an increment builds on the baseline
\* that was the latest when it was recorded.
CycleOnLatest ==
    \A k \in DOMAIN journal :
      /\ journal[k].parent = k - 1
      /\ journal[k].kind = "adoption" =>
           \E j \in Entry(journal[k].of, "observation") : j < k /\ journal[j].passed
      /\ journal[k].kind = "increment" =>
           \E j \in Entry(journal[k].of, "adoption") : IsLatest(j, k - 1)

\* The session of a recorded increment is the beginning of the interview's history, so two
\* increments are never recorded over one history.
StartsSaved ==
    \A k \in DOMAIN journal : journal[k].kind = "increment" =>
        history # << >> /\ history[1].event = journal[k].id

\* Every revision of the interview continues exactly the ones before it, and an answer its
\* writer was told is recorded is there once.
AnswersKept ==
    /\ \A k \in DOMAIN history : history[k].after = SubSeq(Told, 1, k - 1)
    /\ \A w \in answered : Cardinality({k \in DOMAIN history : history[k].event = w}) = 1
=============================================================================
