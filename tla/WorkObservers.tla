------------------------------ MODULE WorkObservers ------------------------------
(* What the Console shows of the work: the owner's catalog with the artifacts it *)
(* names, and the pull requests it links to tickets. One observer reads the file *)
(* and then each artifact, every second; another asks GitHub about every linked  *)
(* pull request, at its own pace, and is told of the links after each look at    *)
(* the catalog. The files, the day and GitHub change between any two reads.      *)
EXTENDS Naturals, Sequences, SequencesExt

CONSTANTS
    Catalogs,       \* what the file may hold: [artifacts, links (pull request -> ticket)]
    Broken,         \* what it holds when it cannot be taken over
    Artifacts, Contents,
    None,           \* an artifact that is not there
    MaxWrites, MaxDays

\* No pull request is linked in two projects: the links are a function.
WorkAssumption ==
    /\ Broken \notin Catalogs /\ {MaxWrites, MaxDays} \subseteq Nat
    /\ \A c \in Catalogs : Range(c.artifacts) \subseteq Artifacts

Pulls == UNION {DOMAIN c.links : c \in Catalogs}

VARIABLES
    catalog, artifact,  \* the files: the catalog's, and each artifact's
    day,
    held,               \* what the observer holds: catalog, artifacts, and whether the last look failed
    look,               \* a look that is under way, "none" between two
    projected,          \* the projection after the last look
    told,               \* the projection when its listeners were last called
    dirty,              \* a file was written since the last look began
    links,              \* the links of the pull request observer
    pulls,              \* how far what it holds of each is current
    poll,               \* the links a poll was begun with, and the results in
    asked,              \* requests to GitHub that have not settled
    writes

vars == <<catalog, artifact, day, held, look, projected, told, dirty, links, pulls, poll, asked, writes>>
files == <<catalog, artifact, day, writes>>
watched == <<held, look, projected, told, dirty>>
pulling == <<pulls, poll, asked>>

-----------------------------------------------------------------------------
(* The catalog.                                                             *)

\* What listeners are told about: everything shown but the time of the look.
Projection == [held |-> held, day |-> day]

Resting == look.step = "none"

ReadAll(c) == [x \in Range(c.artifacts) |-> artifact[x]]

Init ==
    /\ catalog \in Catalogs /\ artifact \in [Artifacts -> Contents \cup {None}]
    /\ day = 0 /\ writes = 0
    /\ held = [catalog |-> catalog, artifacts |-> ReadAll(catalog), failed |-> FALSE]
    /\ look = [step |-> "none"] /\ projected = Projection /\ told = Projection /\ dirty = FALSE
    /\ links = catalog.links
    /\ pulls = << >> /\ poll = [step |-> "none"] /\ asked = {}

Look ==
    /\ Resting
    /\ look' = [step |-> "catalog", before |-> projected]
    /\ dirty' = FALSE
    /\ UNCHANGED <<files, held, projected, told, links, pulling>>

\* The file that is still the one held is not parsed again.
ReadCatalog ==
    /\ look.step = "catalog"
    /\ look' = IF catalog = Broken THEN [step |-> "failed", before |-> look.before]
               ELSE [step |-> "artifacts", before |-> look.before, catalog |-> catalog,
                     left |-> catalog.artifacts, got |-> << >>]
    /\ UNCHANGED <<files, held, projected, told, dirty, links, pulling>>

ReadArtifact ==
    /\ look.step = "artifacts" /\ look.left # << >>
    /\ LET x == Head(look.left)
       IN look' = [look EXCEPT !.left = Tail(@), !.got = (x :> artifact[x]) @@ @]
    /\ UNCHANGED <<files, held, projected, told, dirty, links, pulling>>

\* Something is new: the catalog, an artifact, or that it can be read again.
\* Slip: the digest of the catalog tells.
DiffersByDigest(l) == l.catalog # held.catalog \/ held.failed
Differs(l) == l.catalog # held.catalog \/ l.got # held.artifacts \/ held.failed

\* What the listeners were told, or could see when they came.
\* Slip: the projection as it was when the look began, of the same day.
BeforeToday(l) == [held |-> held, day |-> day]
Before(l) == l.before

\* The new projection is compared with the one before, and who listens is called. The
\* observer of the pull requests is then given the links, whatever came of the look.
Finish(new) ==
    /\ held' = new
    /\ look' = [step |-> "none"]
    /\ projected' = [held |-> new, day |-> day]
    /\ told' = IF projected' # Before(look) THEN projected' ELSE told
    /\ links' = new.catalog.links
    /\ pulls' = [p \in DOMAIN pulls \cap DOMAIN links' |-> pulls[p]]
    /\ UNCHANGED <<files, dirty, poll, asked>>

TakeOver ==
    /\ look.step = "artifacts" /\ look.left = << >>
    /\ Finish(IF Differs(look)
              THEN [catalog |-> look.catalog, artifacts |-> look.got, failed |-> FALSE] ELSE held)

LookFails == look.step = "failed" /\ Finish([held EXCEPT !.failed = TRUE])

-----------------------------------------------------------------------------
(* The pull requests.                                                       *)

\* A request that never settled is not made a second time.
Poll ==
    /\ poll.step = "none"
    /\ poll' = [step |-> "asking", links |-> links,
                results |-> [p \in DOMAIN links \cap asked |-> "pending"]]
    /\ asked' = asked \cup DOMAIN links
    /\ UNCHANGED <<files, watched, links, pulls>>

Awaited(p) == poll.step = "asking" /\ p \in DOMAIN poll.links \ DOMAIN poll.results
Result(p, r) == [poll EXCEPT !.results = (p :> r) @@ @]

\* GitHub answers, or the request fails; late, nobody waits any more.
Answer(p) ==
    /\ p \in asked
    /\ asked' = asked \ {p}
    /\ \E r \in {"answered", "failed"} :
        poll' = IF Awaited(p) THEN Result(p, r) ELSE poll
    /\ UNCHANGED <<files, watched, links, pulls>>

TimeOut(p) ==
    /\ Awaited(p)
    /\ poll' = Result(p, "timed out")
    /\ UNCHANGED <<files, watched, links, pulls, asked>>

\* The link a result was asked for still stands.
\* Slip: results are stored as they come.
IsCurrentAlways(p) == TRUE
IsCurrent(p) == p \in DOMAIN links /\ links[p] = poll.links[p]

\* What a failure leaves. A pull request nobody ever saw is stale from the second on.
Kept(p) == IF p \in DOMAIN pulls THEN "stale" ELSE "unavailable"
Store(p) == IF poll.results[p] = "answered" THEN "available" ELSE Kept(p)

PollEnds ==
    /\ poll.step = "asking" /\ DOMAIN poll.results = DOMAIN poll.links
    /\ pulls' = [p \in {x \in DOMAIN poll.links : IsCurrent(x)} |-> Store(p)] @@ pulls
    /\ poll' = [step |-> "none"]
    /\ UNCHANGED <<files, watched, links, asked>>

-----------------------------------------------------------------------------
Write ==
    /\ writes < MaxWrites
    /\ writes' = writes + 1
    /\ \/ catalog' \in (Catalogs \cup {Broken}) \ {catalog} /\ UNCHANGED artifact
       \/ /\ UNCHANGED catalog
          /\ \E x \in Artifacts, c \in Contents \cup {None} :
                c # artifact[x] /\ artifact' = [artifact EXCEPT ![x] = c]
    /\ dirty' = TRUE
    /\ UNCHANGED <<day, held, look, projected, told, links, pulling>>

NextDay ==
    /\ day < MaxDays /\ day' = day + 1
    /\ UNCHANGED <<catalog, artifact, writes, watched, links, pulling>>

Next ==
    \/ Look \/ ReadCatalog \/ ReadArtifact \/ TakeOver \/ LookFails
    \/ Poll \/ PollEnds
    \/ \E p \in Pulls : Answer(p) \/ TimeOut(p)
    \/ Write \/ NextDay

Spec == Init /\ [][Next]_vars

-----------------------------------------------------------------------------
\* After a look during which nobody wrote, what is shown is what the files hold, or
\* it says that it is not.
ShownAsRead ==
    Resting /\ ~dirty =>
        IF catalog = Broken THEN held.failed
        ELSE held = [catalog |-> catalog, artifacts |-> ReadAll(catalog), failed |-> FALSE]

\* Between two looks, who listens was told of all that the last of them found, and
\* of the day it found it on.
ListenersTold == Resting => told = projected

\* However late an answer comes, nothing is held of a pull request that is no longer linked.
OnlyLinked == DOMAIN pulls \subseteq DOMAIN links
=============================================================================
