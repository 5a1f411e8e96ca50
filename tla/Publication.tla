---------------------------- MODULE Publication ----------------------------
(***************************************************************************)
(* src/loop/publication.ts: prepareLoopPublicationHandoff freezes the      *)
(* accepted content of a workspace into a bundle while others may write to *)
(* the workspace, and publishLoopPublication makes one draft pull request  *)
(* of a commit of that content, with a receipt in the bundle and a mirror  *)
(* of it beside the loop's records.  Each call holds a lock file.          *)
(*                                                                         *)
(* The content of a workspace, a bundle or a commit is the set of files in *)
(* which it differs from what was accepted.  The operation id stands for   *)
(* the bundle and the commit; here there is one bundle.                    *)
(***************************************************************************)
EXTENDS Naturals, Sequences, FiniteSets, SequencesExt

CONSTANTS
    File, Commits,
    Tree,        \* what each commit of the publisher's checkout contains
    None, Other, \* no such thing; a commit of somebody else
    MaxCalls, MaxWrites, MaxTroubles, MaxChanges

\* GitHubPublication, with the operation in its body and its state.
PullRequest == [op : Commits, head : Commits \cup {Other, None}, draft : BOOLEAN,
                state : {"OPEN", "CLOSED", "MERGED"}]

\* LoopPublicationReceipt: what came of an attempt, of which commit, with which request.
PublicationReceipt ==
    [status : {"intended", "blocked", "failed", "uncertain", "published", "reconciled"},
     commit : Commits, pr : PullRequest \cup {None}]

PublicationAssumption ==
    /\ Tree \in [Commits -> SUBSET File]
    /\ None \notin PullRequest /\ None \notin PublicationReceipt
    /\ None \notin {"evidence", "capture", "captured", "verify", "verified"}

VARIABLES
    changed,   \* the workspace
    back,      \* history: how often each file came back to what was accepted
    collected, \* the directory "files" of the bundle
    handoff,   \* handoff.json
    scan,      \* where a preparation is: what it looks at, what it has seen
    bundle, mirror,  \* the two publication.json
    lock,      \* .publication.lock
    pc,        \* where a publication is
    branch,    \* the head of the branch at the remote
    prs,       \* the pull requests, in order
    calls, writes, troubles, changes

workspace == <<changed, back, collected, handoff, scan>>
remote == <<branch, prs>>
vars == <<workspace, bundle, mirror, lock, pc, remote, calls, writes, troubles, changes>>

NoScan == [at |-> None, seen |-> << >>, manifest |-> {}]
Idle == [at |-> "idle", commit |-> None, prior |-> None, write |-> None, then |-> "idle",
         aborted |-> FALSE]

Receipt(status, commit, pr) == [status |-> status, commit |-> commit, pr |-> pr]

Init ==
    /\ changed \in {{}, File}
    /\ back = [f \in File |-> 0]
    /\ collected = FALSE /\ handoff = None /\ scan = NoScan
    /\ bundle = None /\ mirror = None
    /\ lock = FALSE /\ pc = Idle
    /\ branch = None /\ prs = <<>>
    /\ calls = 0 /\ writes = 0 /\ troubles = 0 /\ changes = 0

-----------------------------------------------------------------------------
\* Preparation reads the workspace five times, one file after the other: the
\* digest, the payloads, the digest, the payloads against the manifest, the digest.
Scans == <<"evidence", "capture", "captured", "verify", "verified">>

\* Slip (FrozenAsAccepted): the payloads are not compared with the workspace again.
ScanAfterUnverified(at) ==
    CASE at = "evidence" -> "capture" [] at = "capture" -> "captured"
      [] at = "captured" -> "verified" [] OTHER -> None

ScanAfter(at) == IF at = Last(Scans) THEN None ELSE Scans[1 + CHOOSE i \in 1 .. 4 : Scans[i] = at]

Prepare ==
    /\ scan.at = None
    /\ calls < MaxCalls
    /\ calls' = calls + 1
    /\ scan' = [NoScan EXCEPT !.at = "evidence"]
    /\ back' = IF collected THEN back ELSE [f \in File |-> 0]
    /\ UNCHANGED <<changed, collected, handoff, bundle, mirror, lock, pc, remote,
                   writes, troubles, changes>>

ReadFile(f) ==
    /\ scan.at # None
    /\ f \notin DOMAIN scan.seen
    /\ scan' = [scan EXCEPT !.seen = [g \in DOMAIN @ \cup {f} |->
                                        IF g = f THEN f \in changed ELSE @[g]]]
    /\ UNCHANGED <<changed, back, collected, handoff, bundle, mirror, lock, pc, remote,
                   calls, writes, troubles, changes>>

Seen == {f \in File : scan.seen[f]}

\* The digest must be that of the acceptance, and the files those of the manifest.
ScanHolds ==
    CASE scan.at = "capture" -> TRUE
      [] scan.at = "verify" -> Seen = scan.manifest
      [] OTHER -> Seen = {}

\* A handoff that is there is only checked; what a broken preparation collected is in the way.
ScanEnds ==
    LET over == ~ScanHolds \/ (scan.at = "evidence" /\ (handoff # None \/ collected))
        next == ScanAfter(scan.at)
    IN
    /\ scan.at # None
    /\ DOMAIN scan.seen = File
    /\ collected' = (collected \/ (scan.at = "evidence" /\ ~over))
    /\ handoff' = IF ~over /\ next = None THEN scan.manifest ELSE handoff
    /\ scan' = IF over \/ next = None THEN NoScan
               ELSE [at |-> next, seen |-> << >>,
                     manifest |-> IF scan.at = "capture" THEN Seen ELSE scan.manifest]
    /\ UNCHANGED <<changed, back, bundle, mirror, lock, pc, remote, calls, writes,
                   troubles, changes>>

OthersWrite(f) ==
    /\ writes < MaxWrites
    /\ writes' = writes + 1
    /\ changed' = IF f \in changed THEN changed \ {f} ELSE changed \cup {f}
    /\ back' = IF f \in changed /\ scan.at # None THEN [back EXCEPT ![f] = @ + 1] ELSE back
    /\ UNCHANGED <<collected, handoff, scan, bundle, mirror, lock, pc, remote, calls,
                   troubles, changes>>

-----------------------------------------------------------------------------
\* Publication: the receipts of earlier attempts come first.
Final == {"published", "reconciled"}

receiptRank(r) ==
    CASE r.pr # None -> IF r.status \in Final THEN 3 ELSE 2
      [] OTHER -> IF r.status = "intended" THEN 1 ELSE 0

\* Slip (RequestKept): the mirror, when there is one.
PriorMirrored == IF mirror # None THEN mirror ELSE bundle

\* The one that says more; the bundle's, when they say as much.
Prior ==
    CASE bundle = None -> mirror
      [] mirror = None -> bundle
      [] OTHER -> IF receiptRank(mirror) > receiptRank(bundle) THEN mirror ELSE bundle

\* Slip (ProvenExactly): the head of the pull request is not compared.
MatchesAnyHead(pr, commit) == pr.draft

\* A pull request matches while it is a draft of the exact commit.
Matches(pr, commit) == pr.draft /\ pr.head = commit

\* Slip (OneRequest): only open pull requests are searched for.
FoundOpen(commit) == {i \in DOMAIN prs : prs[i].op = commit /\ prs[i].state = "OPEN"}

\* gh pr list --state all, by the operation id.
Found(commit) == {i \in DOMAIN prs : prs[i].op = commit}
Several(found) == \E i, j \in found : i # j

Write(status, pr, then) ==
    pc' = [pc EXCEPT !.at = "write", !.write = Receipt(status, pc.commit, pr), !.then = then]

\* verifyPayloads and verifyCommit: the commit has exactly the frozen content.
IsReviewed(commit) == handoff # None /\ Tree[commit] = handoff

Beside == UNCHANGED <<workspace, calls, writes>>
Local == UNCHANGED <<bundle, mirror, lock, troubles>> /\ Beside

\* A request is refused unless its commit has the frozen content, its receipts
\* are of the same commit and the pull request they name is the one asked for.
Publish(commit) ==
    LET prior == Prior IN
    /\ ~lock
    /\ calls < MaxCalls
    /\ calls' = calls + 1
    /\ IsReviewed(commit)
    /\ \A r \in {bundle, mirror} \ {None} : r.commit = commit
    /\ prior # None /\ prior.pr # None => Matches(prior.pr, commit)
    /\ lock' = TRUE
    /\ pc' = [Idle EXCEPT !.commit = commit, !.prior = prior,
                          !.at = IF prior # None /\ prior.pr # None THEN "observe" ELSE "permit"]
    /\ UNCHANGED <<workspace, bundle, mirror, remote, writes, troubles, changes>>

\* The search may fail or find more than one; then known is what stays on record.
Observed(known, found) ==
    \/ troubles < MaxTroubles /\ troubles' = troubles + 1 /\ Write("uncertain", known, "idle")
    \/ /\ UNCHANGED troubles
       /\ IF Several(found) \/ (found = {} /\ known # None)
          THEN Write("uncertain", known, "idle")
          ELSE IF found = {} THEN pc' = [pc EXCEPT !.at = "search"]
          ELSE \E i \in found :
                  Write(IF prs[i].state = "OPEN" /\ Matches(prs[i], pc.commit)
                        THEN "reconciled" ELSE "uncertain", prs[i], "idle")

ObservePrior ==
    /\ pc.at = "observe"
    /\ Observed(pc.prior.pr, Found(pc.commit))
    /\ UNCHANGED <<bundle, mirror, lock, remote>> /\ Beside

Permit ==
    /\ pc.at = "permit"
    /\ Write("intended", None, IF pc.prior = None THEN "search" ELSE "again")
    /\ UNCHANGED remote /\ Local

ObserveAgain ==
    /\ pc.at = "again"
    /\ Observed(None, Found(pc.commit))
    /\ UNCHANGED <<bundle, mirror, lock, remote>> /\ Beside

\* writeReceipt: one file, then the other.
WriteBundle ==
    /\ pc.at = "write"
    /\ bundle' = pc.write
    /\ pc' = [pc EXCEPT !.at = "mirror"]
    /\ UNCHANGED <<mirror, lock, troubles, remote>> /\ Beside

WriteMirror ==
    /\ pc.at = "mirror"
    /\ mirror' = pc.write
    /\ lock' = (pc.then # "idle")
    /\ pc' = IF pc.then = "idle" THEN Idle ELSE [pc EXCEPT !.at = pc.then, !.write = None]
    /\ UNCHANGED <<bundle, troubles, remote>> /\ Beside

-----------------------------------------------------------------------------
\* The executor: search, push, create, search again.  A cancelled call stops before
\* the next effect; what throws leaves the attempt uncertain, or blocked.
Throw == Write(IF pc.aborted THEN "blocked" ELSE "uncertain", None, "idle")

SearchFails ==
    /\ pc.at \in {"search", "confirm"}
    /\ \/ troubles < MaxTroubles /\ troubles' = troubles + 1
       \/ Several(Found(pc.commit)) /\ UNCHANGED troubles
    /\ Throw
    /\ UNCHANGED <<bundle, mirror, lock, remote>> /\ Beside

Search ==
    LET found == Found(pc.commit) IN
    /\ pc.at \in {"search", "confirm"}
    /\ ~Several(found)
    /\ IF found = {} THEN IF pc.at = "search" THEN pc' = [pc EXCEPT !.at = "push"]
                          ELSE Write("uncertain", None, "idle")
       ELSE \E i \in found :
               IF Matches(prs[i], pc.commit)
               THEN Write(IF pc.at = "search" THEN "reconciled" ELSE "published", prs[i], "idle")
               ELSE Write("uncertain", None, "idle")
    /\ UNCHANGED remote /\ Local

Guarded(at) ==
    /\ pc.at = at
    /\ pc.aborted
    /\ Throw
    /\ UNCHANGED remote /\ Local

\* The base is not what was asked for, or git cannot be trusted.
Blocked ==
    /\ pc.at \in {"push", "pushed"}
    /\ ~pc.aborted
    /\ Write("blocked", None, "idle")
    /\ UNCHANGED remote /\ Local

\* The remote refuses what is no fast-forward; a push may have worked and yet fail.
Push ==
    /\ pc.at = "push"
    /\ ~pc.aborted
    /\ \/ /\ branch # Other
          /\ branch' = pc.commit
          /\ \/ pc' = [pc EXCEPT !.at = "pushed"] /\ UNCHANGED troubles
             \/ troubles < MaxTroubles /\ troubles' = troubles + 1 /\ Write("failed", None, "idle")
       \/ branch = Other /\ Write("failed", None, "idle") /\ UNCHANGED <<branch, troubles>>
    /\ UNCHANGED <<bundle, mirror, lock, prs>> /\ Beside

Pushed ==
    /\ pc.at = "pushed"
    /\ IF branch = pc.commit THEN pc' = [pc EXCEPT !.at = "create"]
       ELSE Write("uncertain", None, "idle")
    /\ UNCHANGED remote /\ Local

Create ==
    /\ pc.at = "create"
    /\ ~pc.aborted
    /\ prs' = Append(prs, [op |-> pc.commit, head |-> branch, draft |-> TRUE, state |-> "OPEN"])
    /\ \/ pc' = [pc EXCEPT !.at = "confirm"] /\ UNCHANGED troubles
       \/ troubles < MaxTroubles /\ troubles' = troubles + 1 /\ Write("failed", None, "idle")
    /\ UNCHANGED <<bundle, mirror, lock, branch>> /\ Beside

-----------------------------------------------------------------------------
Abort ==
    /\ lock /\ pc.at # "idle" /\ ~pc.aborted
    /\ troubles < MaxTroubles
    /\ troubles' = troubles + 1
    /\ pc' = [pc EXCEPT !.aborted = TRUE]
    /\ UNCHANGED <<bundle, mirror, lock, remote>> /\ Beside

\* A file cannot be written or read: the lock goes.  A killed process leaves it.
Stops(at) == at # None /\ troubles < MaxTroubles /\ troubles' = troubles + 1

PublishStops ==
    /\ pc.at # "idle" /\ Stops(pc.at)
    /\ pc' = Idle
    /\ lock' \in {FALSE, TRUE}
    /\ UNCHANGED <<bundle, mirror, remote>> /\ Beside

PrepareStops ==
    /\ Stops(scan.at)
    /\ scan' = NoScan
    /\ UNCHANGED <<changed, back, collected, handoff, bundle, mirror, lock, pc, remote, calls,
                   writes>>

\* Somebody removes the lock of a killed process by hand; the code never does.
LockRemoved ==
    /\ lock /\ pc.at = "idle"
    /\ lock' = FALSE
    /\ UNCHANGED <<bundle, mirror, pc, remote, troubles>> /\ Beside

\* The owner pushes to the branch, or closes, merges, readies a pull request.
RemoteChanges ==
    /\ changes < MaxChanges
    /\ changes' = changes + 1
    /\ \/ /\ branch' = Other
          /\ prs' = [i \in DOMAIN prs |-> IF prs[i].state = "OPEN"
                                          THEN [prs[i] EXCEPT !.head = Other] ELSE prs[i]]
       \/ \E i \in DOMAIN prs :
             /\ prs[i].state = "OPEN"
             /\ \/ \E state \in {"CLOSED", "MERGED"} : prs' = [prs EXCEPT ![i].state = state]
                \/ prs' = [prs EXCEPT ![i].draft = ~@]
             /\ UNCHANGED branch
    /\ UNCHANGED <<workspace, bundle, mirror, lock, pc, calls, writes, troubles>>

PublishStep ==
    \/ ObservePrior \/ Permit \/ ObserveAgain \/ WriteBundle \/ WriteMirror
    \/ SearchFails \/ Search \/ (\E at \in {"push", "create"} : Guarded(at))
    \/ Blocked \/ Push \/ Pushed \/ Create

Next ==
    \/ Prepare \/ ScanEnds
    \/ \E f \in File : ReadFile(f) \/ OthersWrite(f)
    \/ \E commit \in Commits : Publish(commit)
    \/ PublishStep /\ UNCHANGED changes
    \/ (Abort \/ PublishStops \/ PrepareStops \/ LockRemoved) /\ UNCHANGED changes
    \/ RemoteChanges

Spec == Init /\ [][Next]_vars

-----------------------------------------------------------------------------
\* What a bundle froze is what was accepted: a file that differs had to be changed
\* and put back twice, in time with the reading.
FrozenAsAccepted == handoff # None => \A f \in handoff : back[f] >= 2

\* However often a publication is cut off, refused, repeated, and its pull request
\* closed meanwhile, the code makes one pull request of an operation.
OneRequest == \A i, j \in DOMAIN prs : prs[i].op = prs[j].op => i = j

\* A receipt that proves the publication names a draft of exactly the commit that
\* has the frozen content, and such a pull request was made.
ProvenExactly ==
    \A r \in {bundle, mirror} \ {None} :
        r.status \in Final =>
            /\ r.pr.draft /\ r.pr.head = r.commit /\ Tree[r.commit] = handoff
            /\ \E i \in DOMAIN prs : prs[i].op = r.commit

\* Once a receipt names the pull request, a receipt does for good.
Named == \E r \in {bundle, mirror} \ {None} : r.pr # None
RequestKept == [][Named => Named']_vars
=============================================================================
