------------------------------ MODULE FactoryGM ------------------------------
(***************************************************************************)
(* gm: the general manager of a factory.  In event mode an observer polls  *)
(* the journal for failed turns and has the second and each later one of a *)
(* subject counted in the subject's finding; a finding that is new is      *)
(* diagnosed by a model, whose recommendations are applied as far as they  *)
(* are configured.  In nightly mode what is observed is a finding without  *)
(* any model: every refresh, and refreshes overlap, puts it on record as   *)
(* active or resolved; once a day, or as the owner asks, a model reviews   *)
(* what there is.                                                          *)
(*                                                                         *)
(* Findings, proposals and attempts are in the journal; what a process     *)
(* holds besides is lost when it ends.  An append may fail.                *)
(***************************************************************************)
EXTENDS Naturals, Sequences, FiniteSets

CONSTANTS Mode, Subjects, Facts, Refreshers, Asked, None, MaxFailures, MaxDays, MaxChanges, MaxTroubles

GMAssumption ==
    /\ Mode \in {"event", "nightly"}
    /\ None \notin Facts
    /\ {MaxFailures, MaxDays, MaxChanges, MaxTroubles} \subseteq Nat

VARIABLES
    failures,   \* the failed turns in the journal, each the subject's
    finding,    \* the finding of a subject, as the journal has it
    proposals,  \* the improvements proposed, each by the finding and what it says
    seen,       \* the failures this process has had counted
    poll,       \* the poll in hand
    diagnoses,  \* history: how often the model was asked about a subject
    fact,       \* what a refresh would observe
    concern,    \* the finding about it
    refresh,    \* the refreshes under way
    day,
    attempts,   \* the attempts at a review, in the order of the journal
    review,     \* the review in hand
    reviews,    \* history: how often the model was asked for an attempt
    changes, troubles

events == <<failures, finding, proposals, seen, poll, diagnoses>>
nights == <<fact, concern, refresh, day, attempts, review, reviews>>
vars == <<events, nights, changes, troubles>>

NoPoll == [at |-> "idle", upto |-> 0, next |-> 1, new |-> FALSE]
NoRefresh == [at |-> "idle", of |-> None, prior |-> None]
NoReview == [at |-> "idle", id |-> None, of |-> None]
Reviews == {<<"scheduled", d>> : d \in 0..MaxDays} \cup {<<"owner", a>> : a \in Asked}

Init ==
    /\ failures = <<>> /\ finding = [s \in Subjects |-> None] /\ proposals = {}
    /\ seen = {} /\ poll = NoPoll /\ diagnoses = [s \in Subjects |-> 0]
    /\ fact \in Facts \cup {None} /\ concern = None /\ refresh = [r \in Refreshers |-> NoRefresh]
    /\ day = 0 /\ attempts = <<>> /\ review = NoReview /\ reviews = [a \in Reviews |-> 0]
    /\ changes = 0 /\ troubles = 0

-----------------------------------------------------------------------------
\* pollExclusive: the second failure of a subject and each later one.
Subject(i) == failures[i]
Repeated(i) == \E j \in 1..(i - 1) : failures[j] = failures[i]
ToObserve == {i \in poll.next..poll.upto : Repeated(i) /\ i \notin seen}
Before(i) == [poll EXCEPT !.next = i + 1]

\* A failure is in the journal, behind whatever the poll in hand has read.
TurnFails ==
    /\ Len(failures) < MaxFailures
    /\ \E s \in Subjects : failures' = failures \o <<s>>
    /\ UNCHANGED <<finding, proposals, seen, poll, diagnoses, nights, changes, troubles>>

Poll ==
    /\ poll.at = "idle"
    /\ \E i \in 1..Len(failures) : Repeated(i) /\ i \notin seen
    /\ poll' = [NoPoll EXCEPT !.at = "observe", !.upto = Len(failures)]
    /\ UNCHANGED <<failures, finding, proposals, seen, diagnoses, nights, changes, troubles>>

PollEnds ==
    /\ poll.at = "observe" /\ ToObserve = {} /\ poll' = NoPoll
    /\ UNCHANGED <<failures, finding, proposals, seen, diagnoses, nights, changes, troubles>>

\* Slip (CountedOnce): what the finding counts already is not looked up.
CountsAlready(i) == FALSE
Counts(i) == finding[Subject(i)] # None /\ i \in finding[Subject(i)].sources

New(i) == [sources |-> {i}, count |-> 1, diagnosis |-> "requested"]
Again(was, i) == [was EXCEPT !.sources = @ \cup {i}, !.count = @ + 1]

\* observeExclusive, up to the finding on record.
Observe ==
    /\ poll.at = "observe" /\ ToObserve # {}
    /\ LET i == CHOOSE i \in ToObserve : \A j \in ToObserve : i <= j
           s == Subject(i)
       IN IF Counts(i)
          THEN /\ seen' = seen \cup {i} /\ poll' = Before(i)
               /\ UNCHANGED finding
          ELSE /\ finding' = [finding EXCEPT ![s] = IF @ = None THEN New(i) ELSE Again(@, i)]
               /\ IF finding[s] = None
                  THEN poll' = [poll EXCEPT !.at = "diagnose", !.next = i] /\ UNCHANGED seen
                  ELSE seen' = seen \cup {i} /\ poll' = Before(i)
    /\ UNCHANGED <<failures, proposals, diagnoses, nights, changes, troubles>>

\* Counted: the finding is on record, and this process need not look at the failure again.
Counted == seen' = seen \cup {poll.next} /\ poll' = [Before(poll.next) EXCEPT !.at = "observe"]

\* diagnose: a turn under an identity of the finding's, which may fail; what it recommends
\* is proposed, or done if it is configured, or refused.
Diagnose ==
    /\ poll.at = "diagnose"
    /\ diagnoses' = [diagnoses EXCEPT ![Subject(poll.next)] = @ + 1]
    /\ \E answer \in {"failed", "improve", "maintain", "refused"} :
          poll' = [poll EXCEPT !.at = IF answer = "improve" THEN "propose" ELSE IF answer = "failed" THEN "failed" ELSE "completed"]
    /\ UNCHANGED <<failures, finding, proposals, seen, nights, changes, troubles>>

Propose ==
    /\ poll.at = "propose"
    /\ proposals' = proposals \cup {Subject(poll.next)}
    /\ poll' = [poll EXCEPT !.at = "completed"]
    /\ UNCHANGED <<failures, finding, seen, diagnoses, nights, changes, troubles>>

Diagnosed ==
    /\ poll.at \in {"completed", "failed"}
    /\ finding' = [finding EXCEPT ![Subject(poll.next)].diagnosis = poll.at]
    /\ Counted
    /\ UNCHANGED <<failures, proposals, diagnoses, nights, changes, troubles>>

-----------------------------------------------------------------------------
\* observeFactoryDeterministically and persistDeterministicFindings: a refresh observes and
\* reads what is on record at once, and writes behind an append.
Look(r) ==
    /\ refresh[r].at = "idle"
    /\ refresh' = [refresh EXCEPT ![r] = [at |-> "write", of |-> fact, prior |-> concern]]
    /\ UNCHANGED <<events, fact, concern, day, attempts, review, reviews, changes, troubles>>

Is(was, status, of) == was # None /\ was.status = status /\ was.of = of

\* Slip (FindingsSettle): a finding that says the same is left, though it was resolved.
SaysSo(was, of) == was # None /\ was.of = of
SaysAlready(was, of) == Is(was, "active", of)

Persisted(of, prior) ==
    IF of # None THEN IF SaysAlready(prior, of) THEN concern ELSE [status |-> "active", of |-> of]
    ELSE IF prior # None /\ prior.status = "active" THEN [prior EXCEPT !.status = "resolved"]
    ELSE concern

Persist(r) ==
    /\ refresh[r].at = "write"
    /\ concern' = Persisted(refresh[r].of, refresh[r].prior)
    /\ refresh' = [refresh EXCEPT ![r] = NoRefresh]
    /\ UNCHANGED <<events, fact, day, attempts, review, reviews, changes, troubles>>

-----------------------------------------------------------------------------
\* runExclusive: one review at a time.
AttemptsAt(id) == {i \in 1..Len(attempts) : attempts[i].id = id}
Attempt(id, status, of) == [id |-> id, status |-> status, of |-> of]

\* Slip (ReviewedOnce): an attempt that came to no end is made again.
TriedToTheEnd(id) == \E i \in AttemptsAt(id) : attempts[i].status # "intended"
Tried(id) == AttemptsAt(id) # {}

AskReview ==
    /\ review.at = "idle"
    /\ \E id \in {<<"scheduled", day>>} \cup {<<"owner", a>> : a \in Asked} :
          ~Tried(id) /\ review' = [NoReview EXCEPT !.at = "snapshot", !.id = id]
    /\ UNCHANGED <<events, fact, concern, refresh, day, attempts, reviews, changes, troubles>>

Completed == {i \in 1..Len(attempts) : attempts[i].status = "completed"}

\* Slip (SkippedUnchanged): compared with the last attempt, whatever became of it.
ReviewedEver(of) == attempts # <<>> /\ attempts[Len(attempts)].of = of
Reviewed(of) == \E i \in Completed : attempts[i].of = of /\ \A j \in Completed : j <= i

\* The snapshot refreshes the findings first; what was reviewed already is skipped.
Intend ==
    /\ review.at = "snapshot"
    /\ concern' = Persisted(fact, concern)
    /\ IF Reviewed(fact)
       THEN attempts' = attempts \o <<Attempt(review.id, "skipped_unchanged", fact)>> /\ review' = NoReview
       ELSE /\ attempts' = attempts \o <<Attempt(review.id, "intended", fact)>>
            /\ review' = [review EXCEPT !.at = "ask", !.of = fact]
    /\ UNCHANGED <<events, fact, refresh, day, reviews, changes, troubles>>

Review ==
    /\ review.at = "ask"
    /\ reviews' = [reviews EXCEPT ![review.id] = @ + 1]
    /\ \E how \in {"completed", "failed"} : review' = [review EXCEPT !.at = how]
    /\ UNCHANGED <<events, fact, concern, refresh, day, attempts, changes, troubles>>

Record ==
    /\ review.at \in {"completed", "failed"}
    /\ attempts' = attempts \o <<Attempt(review.id, review.at, review.of)>> /\ review' = NoReview
    /\ UNCHANGED <<events, fact, concern, refresh, day, reviews, changes, troubles>>

-----------------------------------------------------------------------------
\* What is observed changes, or the day does.
FactChanges ==
    /\ changes < MaxChanges /\ changes' = changes + 1
    /\ fact' \in (Facts \cup {None}) \ {fact}
    /\ UNCHANGED <<events, concern, refresh, day, attempts, review, reviews, troubles>>

DayPasses ==
    /\ day < MaxDays /\ day' = day + 1
    /\ UNCHANGED <<events, fact, concern, refresh, attempts, review, reviews, changes, troubles>>

\* An append fails: the poll ends, and its failure is looked at again; a refresh ends; a
\* review that could not be recorded as completed is recorded as failed, or not at all.
AppendFails ==
    /\ troubles < MaxTroubles /\ troubles' = troubles + 1
    /\ \/ poll # NoPoll /\ poll' = NoPoll /\ UNCHANGED <<refresh, review>>
       \/ \E r \in Refreshers :
             refresh[r].at = "write" /\ refresh' = [refresh EXCEPT ![r] = NoRefresh] /\ UNCHANGED <<poll, review>>
       \/ /\ review.at \notin {"idle", "ask"}
          /\ review' = IF review.at = "completed" THEN [review EXCEPT !.at = "failed"] ELSE NoReview
          /\ UNCHANGED <<poll, refresh>>
    /\ UNCHANGED <<failures, finding, proposals, seen, diagnoses, fact, concern, day, attempts, reviews, changes>>

Restart ==
    /\ troubles < MaxTroubles /\ troubles' = troubles + 1
    /\ seen' = {} /\ poll' = NoPoll /\ refresh' = [r \in Refreshers |-> NoRefresh] /\ review' = NoReview
    /\ UNCHANGED <<failures, finding, proposals, diagnoses, fact, concern, day, attempts, reviews, changes>>

PollStep == Poll \/ PollEnds \/ Observe \/ Diagnose \/ Propose \/ Diagnosed
RefreshStep(r) == Look(r) \/ Persist(r)

Next ==
    \/ Mode = "event" /\ (TurnFails \/ PollStep)
    \/ /\ Mode = "nightly"
       /\ \/ \E r \in Refreshers : RefreshStep(r)
          \/ AskReview \/ Intend \/ Review \/ Record
          \/ FactChanges \/ DayPasses
    \/ AppendFails \/ Restart

\* The Console refreshes on a timer, as long as it runs.
Fairness == \A r \in Refreshers : WF_nights(RefreshStep(r))

-----------------------------------------------------------------------------
\* A finding counts each failure once, whoever restarts and whatever fails.
CountedOnce ==
    \A s \in Subjects : finding[s] # None =>
        /\ finding[s].count = Cardinality(finding[s].sources)
        /\ diagnoses[s] <= 1 /\ (finding[s].diagnosis # "requested" => diagnoses[s] = 1)

\* A model is asked once for a day, or for what the owner asks, whatever becomes of it.
ReviewedOnce == \A a \in Reviews : reviews[a] <= 1

\* A review is skipped only behind one that was completed on the same, the last there was.
SkippedUnchanged ==
    \A i \in 1..Len(attempts) : attempts[i].status = "skipped_unchanged" =>
        \E j \in 1..(i - 1) :
            /\ attempts[j].status = "completed" /\ attempts[j].of = attempts[i].of
            /\ \A k \in j..i : attempts[k].status # "completed" \/ k = j

\* Once what is observed stays as it is, so does its finding, which says so, though refreshes
\* overlap and a late one may be wrong.
Says == IF fact = None THEN concern = None \/ concern.status = "resolved" ELSE Is(concern, "active", fact)
FindingsSettle == <>[]Says
=============================================================================
