-------------------------------- MODULE JiraBoards --------------------------------
(* The Jira boards of a Console: for each configured project the issues of its    *)
(* last sync, the columns of its board, and what was seen to move. A sync reads   *)
(* the issues page by page and then the columns, while people move issues, the    *)
(* index lags, a page may be empty, and any request may fail or take longer than  *)
(* the interval between two syncs.                                                *)
EXTENDS Naturals, Sequences, SequencesExt

CONSTANTS
    Project, Issue,
    None,
    MaxPages,       \* 10 in the code
    MaxMoves, MaxTroubles, MaxSyncs

BoardsAssumption ==
    {MaxPages, MaxMoves, MaxTroubles, MaxSyncs} \subseteq Nat /\ MaxPages > 0

VARIABLES
    jira,       \* how often each issue has moved; its status and its date are the latest move's
    layout,     \* how often the columns have changed
    board,      \* what is shown of each project
    due,        \* projects whose interval has passed since their last attempt
    flights,    \* syncs under way
    closed,
    whole,      \* the issues shown of a project were read to the last page
    moves, troubles, syncs

vars == <<jira, layout, board, due, flights, closed, whole, moves, troubles, syncs>>
world == <<jira, layout, moves>>

NotSynced == [status |-> "unavailable", synced |-> FALSE, issues |-> << >>, truncated |-> FALSE,
              columns |-> None, stale |-> FALSE, changes |-> << >>]

Init ==
    /\ jira = [p \in Project |-> [i \in Issue |-> 0]] /\ layout = [p \in Project |-> 0]
    /\ board = [p \in Project |-> NotSynced]
    /\ due = Project /\ flights = {} /\ closed = FALSE
    /\ whole = [p \in Project |-> FALSE]
    /\ moves = 0 /\ troubles = 0 /\ syncs = 0

-----------------------------------------------------------------------------
\* One refresh at a time, of all the projects that are due.
\* Slip: the next one starts when it is time.
AloneAnyhow == TRUE
Alone == flights = {}

Refresh ==
    /\ ~closed /\ Alone /\ due # {} /\ syncs < MaxSyncs
    /\ flights' = flights \cup
        {[n |-> syncs, project |-> p, previous |-> board[p], began |-> jira[p], left |-> Issue,
          pages |-> 0, issues |-> << >>, truncated |-> FALSE, step |-> "issues"] : p \in due}
    /\ due' = {}
    /\ syncs' = syncs + 1
    /\ UNCHANGED <<world, board, closed, whole, troubles>>

Becomes(f, g) == flights' = (flights \ {f}) \cup {g}

\* A page brings the next issue, as the index has it, or none; one that moved since the
\* sync began may have left the pages that are still to come.
Page(f) ==
    /\ f.step = "issues" /\ f.left # {} /\ f.pages < MaxPages
    /\ \/ \E i \in f.left : \E v \in {jira[f.project][i], jira[f.project][i] - 1} \cap Nat :
            Becomes(f, [f EXCEPT !.left = @ \ {i}, !.issues = (i :> v) @@ @, !.pages = @ + 1])
       \/ Becomes(f, [f EXCEPT !.pages = @ + 1])
       \/ \E i \in f.left :
            /\ jira[f.project][i] # f.began[i]
            /\ Becomes(f, [f EXCEPT !.left = @ \ {i}])
    /\ UNCHANGED <<world, board, due, closed, whole, troubles, syncs>>

LastPage(f) ==
    /\ f.step = "issues" /\ (f.left = {} \/ f.pages = MaxPages) /\ ~closed
    /\ Becomes(f, [f EXCEPT !.step = "columns", !.truncated = f.left # {}])
    /\ UNCHANGED <<world, board, due, closed, whole, troubles, syncs>>

-----------------------------------------------------------------------------
(* The end of a sync.                                                       *)

\* A move is known by the issue and its date.
Moved(f) == {i \in DOMAIN f.issues \cap DOMAIN f.previous.issues : f.issues[i] # f.previous.issues[i]}

NewMoves(f) == {<<i, f.issues[i]>> : i \in Moved(f)} \ Range(f.previous.changes)

Changes(f) ==
    IF ~f.previous.synced THEN <<<<None, f.n>>>> ELSE f.previous.changes \o SetToSeq(NewMoves(f))

\* What was read incompletely replaces nothing.
\* Slip: it is marked and shown.
RetainsNothing(f) == FALSE
Retains(f) == f.truncated /\ f.previous.synced

\* The columns that could not be read are those of before, and said to be.
\* Slip: they are kept without a word.
ColumnsUnmarked(f, read) ==
    IF read # None THEN <<read, FALSE>> ELSE <<f.previous.columns, FALSE>>
Columns(f, read) ==
    IF read # None THEN <<read, FALSE>> ELSE <<f.previous.columns, f.previous.columns # None>>

Store(f, read) ==
    IF Retains(f)
    THEN [f.previous EXCEPT !.status = "stale", !.truncated = TRUE]
    ELSE [status |-> "connected", synced |-> TRUE, issues |-> f.issues, truncated |-> f.truncated,
          columns |-> Columns(f, read)[1], stale |-> Columns(f, read)[2], changes |-> Changes(f)]

Sync(f) ==
    /\ f.step = "columns" /\ ~closed
    /\ \E read \in {layout[f.project]} \cup (IF troubles < MaxTroubles THEN {None} ELSE {}) :
        /\ board' = [board EXCEPT ![f.project] = Store(f, read)]
        /\ troubles' = IF read = None THEN troubles + 1 ELSE troubles
    /\ whole' = [whole EXCEPT ![f.project] = IF Retains(f) THEN @ ELSE ~f.truncated]
    /\ flights' = flights \ {f}
    /\ UNCHANGED <<world, due, closed, syncs>>

\* A request failed, was denied, or came back with the same issue twice.
Fails(f) ==
    /\ f.step = "issues" /\ troubles < MaxTroubles /\ ~closed
    /\ board' = [board EXCEPT ![f.project] =
            [f.previous EXCEPT !.status = IF f.previous.synced THEN "stale" ELSE "unavailable"]]
    /\ flights' = flights \ {f}
    /\ troubles' = troubles + 1
    /\ UNCHANGED <<world, due, closed, whole, syncs>>

\* Requests are cut off, and what was read meanwhile is dropped.
\* Slip: what was read is stored.
DropsStored(f) == board' = [board EXCEPT ![f.project] = Store(f, layout[f.project])]
Drops(f) == UNCHANGED board

Abandon(f) ==
    /\ closed
    /\ Drops(f)
    /\ flights' = flights \ {f}
    /\ UNCHANGED <<world, due, closed, whole, troubles, syncs>>

Close == ~closed /\ closed' = TRUE /\ UNCHANGED <<world, board, due, flights, whole, troubles, syncs>>

-----------------------------------------------------------------------------
Elapse(p) ==
    /\ p \notin due /\ due' = due \cup {p}
    /\ UNCHANGED <<world, board, flights, closed, whole, troubles, syncs>>

Move(p) ==
    /\ moves < MaxMoves /\ moves' = moves + 1
    /\ \/ UNCHANGED layout /\ \E i \in Issue : jira' = [jira EXCEPT ![p][i] = @ + 1]
       \/ UNCHANGED jira /\ layout' = [layout EXCEPT ![p] = @ + 1]
    /\ UNCHANGED <<board, due, flights, closed, whole, troubles, syncs>>

Next ==
    \/ Refresh \/ Close
    \/ \E f \in flights : Page(f) \/ LastPage(f) \/ Sync(f) \/ Fails(f) \/ Abandon(f)
    \/ \E p \in Project : Elapse(p) \/ Move(p)

Spec == Init /\ [][Next]_vars

-----------------------------------------------------------------------------
\* However the index lags behind, a move is told once.
ToldOnce == \A p \in Project : IsInjective(board[p].changes)

\* What was told stays told, however long a sync takes.
NothingUntold == [][\A p \in Project : IsPrefix(board[p].changes, board'[p].changes)]_vars

\* Once all the issues of a project have been shown, a sync that ends early leaves them.
StaysWhole == [][\A p \in Project : whole[p] => whole'[p]]_vars

\* Columns shown without a word, on a board that is connected, were read by its last sync:
\* they are none older than the issues.
ColumnsCurrent ==
    [][\A p \in Project :
        board'[p] # board[p] /\ board'[p].status = "connected" /\ board'[p].columns # None /\ ~board'[p].stale
            => board'[p].columns = layout[p]]_vars

\* A Console that is closing shows nothing new.
ClosedIsStill == [][closed => UNCHANGED board]_vars
=============================================================================
