------------------------------- MODULE LoopWatch -------------------------------
(* The loops a Console shows. Some are configured, others registered from the    *)
(* page: a registration is checked and written to a file behind those before it, *)
(* and only then watched. The watcher reads, for every loop it knows, what the   *)
(* loop wrote of itself and then what was recorded of its delivery; both change  *)
(* meanwhile, and neither is the watcher's. Which of a loop's gates are passed   *)
(* is LoopDelivery's; here a delivery is the merge of one accepted candidate.    *)
EXTENDS Naturals, Sequences, FiniteSets, SequencesExt

CONSTANTS
    Source,         \* loops: [id, dir, claim], claim being what is said of the merge on registration
    Configured,     \* those of the owner's configuration
    Wanted,         \* calls of the page, with the source each registers
    Candidate,
    None,
    MaxTroubles, MaxWrites, MaxStarts

Distinct(S) == \A s, t \in S : s.id = t.id \/ s.dir = t.dir => s = t

WatchAssumption ==
    /\ Configured \subseteq Source /\ Distinct(Configured) /\ Range(Wanted) \subseteq Source
    /\ {MaxTroubles, MaxWrites, MaxStarts} \subseteq Nat

VARIABLES
    file,       \* the registrations on disk
    known,      \* the registrations in memory
    queue,      \* calls behind one another at the registry
    calls,      \* how each call stands
    up,         \* the Console runs
    watched,    \* sources of the watcher
    shown,      \* its summaries: what is shown of each source
    poll,       \* a poll under way: the sources it was begun with, and what was read of each
    loops,      \* on disk, by directory: the loop's state, and the merge that was recorded
    delivered,  \* merges recorded so far
    troubles, writes, starts

vars == <<file, known, queue, calls, up, watched, shown, poll, loops, delivered, troubles, writes, starts>>
registry == <<file, known, queue, calls>>
watcher == <<watched, shown, poll>>
world == <<loops, delivered, writes>>

Call == DOMAIN Wanted
Dir == {s.dir : s \in Source}
Unreadable == {"gone", "malformed"}
States == [status : Unreadable, candidate : {None}] \cup [status : {"running", "succeeded"}, candidate : Candidate]
Unseen == [status |-> "unavailable", candidate |-> None, merged |-> FALSE]

Init ==
    /\ file = {} /\ known = {} /\ queue = << >> /\ calls = [c \in Call |-> "new"]
    /\ up = TRUE /\ watched = Configured /\ shown = [s \in Configured |-> Unseen] /\ poll = None
    /\ loops = [x \in Dir |-> [state |-> [status |-> "running", candidate |-> None], merge |-> None]]
    /\ delivered = {}
    /\ troubles = 0 /\ writes = 0 /\ starts = 0

-----------------------------------------------------------------------------
(* Registration.                                                            *)

Ask(c) ==
    /\ up /\ calls[c] = "new"
    /\ calls' = [calls EXCEPT ![c] = "queued"] /\ queue' = Append(queue, c)
    /\ UNCHANGED <<file, known, up, watcher, world, troubles, starts>>

\* Slip: only the very same loop is found again.
ClashesSame(s) == {t \in known \cup Configured : t.id = s.id /\ t.dir = s.dir}
Clashes(s) == {t \in known \cup Configured : t.id = s.id \/ t.dir = s.dir}

\* The first in the queue is checked against everything before it. The very same loop
\* again is answered as the first time, whatever is claimed for it now.
Check(c) ==
    /\ up /\ queue # << >> /\ c = Head(queue) /\ calls[c] = "queued"
    /\ LET s == Wanted[c]
       IN \/ /\ Clashes(s) = {}
             /\ calls' = [calls EXCEPT ![c] = "writing"] /\ UNCHANGED queue
          \/ /\ Clashes(s) # {}
             /\ calls' = [calls EXCEPT ![c] =
                    IF \E t \in Clashes(s) : t.id = s.id /\ t.dir = s.dir THEN "registered" ELSE "refused"]
             /\ queue' = Tail(queue)
    /\ UNCHANGED <<file, known, up, watcher, world, troubles, starts>>

\* Whether what was not written is taken over all the same.
\* Slip: the registration is taken over first.
TakenAnyhow(written) == TRUE
Taken(written) == written

\* The file is replaced as a whole, or the call is refused.
Save(c) ==
    /\ up /\ calls[c] = "writing"
    /\ \E written \in {w \in BOOLEAN : ~w => troubles < MaxTroubles} :
        /\ file' = IF written THEN known \cup {Wanted[c]} ELSE file
        /\ known' = IF Taken(written) THEN known \cup {Wanted[c]} ELSE known
        /\ calls' = [calls EXCEPT ![c] = IF written THEN "registered" ELSE "refused"]
        /\ troubles' = IF written THEN troubles ELSE troubles + 1
    /\ queue' = Tail(queue)
    /\ UNCHANGED <<up, watcher, world, starts>>

\* The watcher is told, and polls at once unless it does already.
Watch(c) ==
    /\ up /\ calls[c] = "registered"
    /\ LET s == CHOOSE t \in known \cup Configured : t.id = Wanted[c].id /\ t.dir = Wanted[c].dir
       IN IF s \in watched THEN UNCHANGED watcher
          ELSE /\ watched' = watched \cup {s}
               /\ shown' = (s :> Unseen) @@ shown
               /\ poll' = IF poll = None THEN [of |-> watched', got |-> << >>, read |-> << >>] ELSE poll
    /\ calls' = [calls EXCEPT ![c] = "answered"]
    /\ UNCHANGED <<file, known, queue, up, world, troubles, starts>>

-----------------------------------------------------------------------------
(* Polls.                                                                   *)

Poll ==
    /\ up /\ poll = None
    /\ poll' = [of |-> watched, read |-> << >>, got |-> << >>]
    /\ UNCHANGED <<registry, up, watched, shown, world, troubles, starts>>

ReadState(s) ==
    /\ up /\ poll # None /\ s \in poll.of \ (DOMAIN poll.read \cup DOMAIN poll.got)
    /\ poll' = IF loops[s.dir].state.status \in Unreadable
               THEN [poll EXCEPT !.got = (s :> Unseen) @@ @]
               ELSE [poll EXCEPT !.read = (s :> loops[s.dir].state) @@ @]
    /\ UNCHANGED <<registry, up, watched, shown, world, troubles, starts>>

\* What is recorded of a merge counts for the candidate it was recorded for.
Bound(state, merge) == state.status = "succeeded" /\ merge = state.candidate

\* Slip: what was claimed on registration counts too.
MergedAsClaimed(s, state, merge) == s.claim \/ Bound(state, merge)
Merged(s, state, merge) == Bound(state, merge)

ReadDelivery(s) ==
    /\ up /\ poll # None /\ s \in DOMAIN poll.read \ DOMAIN poll.got
    /\ LET state == poll.read[s]
       IN poll' = [poll EXCEPT !.got = (s :> [status |-> state.status, candidate |-> state.candidate,
                                              merged |-> Merged(s, state, loops[s.dir].merge)]) @@ @]
    /\ UNCHANGED <<registry, up, watched, shown, world, troubles, starts>>

\* All that is shown is replaced by what was read: a loop registered meanwhile is gone
\* from the page until the next poll.
PollEnds ==
    /\ up /\ poll # None /\ DOMAIN poll.got = poll.of
    /\ shown' = poll.got
    /\ poll' = None
    /\ UNCHANGED <<registry, up, watched, world, troubles, starts>>

-----------------------------------------------------------------------------
(* The loops, and the Console's own end and start.                          *)

\* A loop accepts a candidate, or begins another; its state is unreadable, or removed.
Change(x) ==
    /\ writes < MaxWrites /\ loops[x].state.status # "gone"
    /\ \E new \in States : new # loops[x].state /\ loops' = [loops EXCEPT ![x].state = new]
    /\ writes' = writes + 1
    /\ UNCHANGED <<registry, up, watcher, delivered, troubles, starts>>

\* The merge of the candidate accepted just now is recorded.
Deliver(x) ==
    /\ writes < MaxWrites /\ loops[x].state.status = "succeeded"
    /\ loops' = [loops EXCEPT ![x].merge = loops[x].state.candidate]
    /\ delivered' = delivered \cup {<<x, loops[x].state.candidate>>}
    /\ writes' = writes + 1
    /\ UNCHANGED <<registry, up, watcher, troubles, starts>>

Crash ==
    /\ up /\ starts < MaxStarts
    /\ up' = FALSE
    /\ queue' = << >> /\ known' = {} /\ watched' = {} /\ shown' = << >> /\ poll' = None
    /\ calls' = [c \in Call |-> IF calls[c] \in {"new", "answered", "refused"} THEN calls[c] ELSE "lost"]
    /\ UNCHANGED <<file, world, troubles, starts>>

\* What a Console watches from its start.
\* Slip: what is configured.
RememberedConfigured == Configured
Remembered == Configured \cup file

\* Every registered directory has to be there still, or the Console does not start.
Start ==
    /\ ~up /\ \A s \in file : loops[s.dir].state.status # "gone"
    /\ up' = TRUE /\ starts' = starts + 1
    /\ known' = file /\ watched' = Remembered
    /\ shown' = [s \in watched' |-> Unseen]
    /\ UNCHANGED <<file, queue, calls, poll, world, troubles>>

Next ==
    \/ \E c \in Call : Ask(c) \/ Check(c) \/ Save(c) \/ Watch(c)
    \/ Poll \/ PollEnds
    \/ \E s \in Source : ReadState(s) \/ ReadDelivery(s)
    \/ \E x \in Dir : Change(x) \/ Deliver(x)
    \/ Crash \/ Start

Spec == Init /\ [][Next]_vars

-----------------------------------------------------------------------------
\* A loop whose registration was answered is on disk or configured, and is watched by
\* every Console that runs from then on.
AnsweredStands ==
    \A c \in Call : calls[c] = "answered" =>
        \E s \in Configured \cup file :
            s.id = Wanted[c].id /\ s.dir = Wanted[c].dir /\ (up => s \in watched)

\* However calls overlap, no name and no directory is watched twice.
OneOfEach == Distinct(Configured \cup file) /\ Distinct(watched)

\* What the Console holds of the registrations is what a restart would find.
KnownAsSaved == up => known = file

\* A loop is shown as merged only when the merge of the very candidate shown was recorded.
MergedAsRecorded == \A s \in DOMAIN shown : shown[s].merged => <<s.dir, shown[s].candidate>> \in delivered
=============================================================================
