------------------------------ MODULE MCOwner ------------------------------
(* The lock that makes one process the owner of a factory, and, one part at *)
(* a time, what a person has through that process: the settings, the work   *)
(* that is shown, a board of Jira, and what it is told over Slack.          *)
EXTENDS CoordinatorLock

CONSTANTS a, b, Broken, Left

VARIABLES
    part,
    file, loaded, known, saving, tabs, edits, foreign, starts,
    catalog, artifact, day, held, look, projected, told, dirty, links, pulls, poll, asked, writes,
    jira, layout, board, due, flights, closed, whole, moves, troubles, syncs,
    journal, tail, event, subject, call, posts, announced, calls

editing == <<file, loaded, known, saving, tabs, edits, foreign, starts>>
observing == <<catalog, artifact, day, held, look, projected, told, dirty, links, pulls, poll, asked, writes>>
syncing == <<jira, layout, board, due, flights, closed, whole, moves, syncs>>
notifying == <<journal, tail, event, subject, call, posts, announced, calls>>

-----------------------------------------------------------------------------
\* A factory that limits one pod only, one that relaxes its authority as its owner has
\* acknowledged, and one that relaxes the authority of a product without a word.
Written(defaults, product, pod, acknowledged) ==
    [value |-> [s \in {"defaults", "product", "pod"} |->
        CASE s = "defaults" -> defaults [] s = "product" -> product [] s = "pod" -> pod],
     acknowledged |-> acknowledged]
Fields(authority, budget) == [f \in {"authority", "budget"} |-> IF f = "authority" THEN authority ELSE budget]
Bare == Written(Fields(None, None), Fields(None, None), Fields(None, 1), {})
Relaxed == Written(Fields(1, 0), Fields(1, None), Fields(None, None), {<<"defaults", "authority">>})
Unsaid == Written(Fields(0, 0), Fields(1, None), Fields(None, None), {})

Settings == INSTANCE SettingsEdit WITH
    Tab <- {a, b}, Field <- {"authority", "budget"}, Level <- {0, 1}, Guarded <- {"authority"},
    Foreign <- {Bare, Relaxed, Unsaid}, MaxEdits <- 2, MaxForeign <- 1, MaxStarts <- 1

\* A catalog with one artifact and the link of a pull request, and one with two and none.
Linked == [artifacts |-> <<"x">>, links |-> [p \in {"one"} |-> "t1"]]
Unlinked == [artifacts |-> <<"x", "y">>, links |-> << >>]

Work == INSTANCE WorkObservers WITH
    Catalogs <- {Linked, Unlinked}, Artifacts <- {"x", "y"}, Contents <- {"c"}, MaxWrites <- 2, MaxDays <- 1

\* One project with two issues: one moves while syncs fail, or both while none does.
Boards == INSTANCE JiraBoards WITH
    Project <- {"p"}, Issue <- {1, 2}, MaxPages <- 2, MaxMoves <- 1, MaxTroubles <- 1, MaxSyncs <- 4
Busy == INSTANCE JiraBoards WITH
    Project <- {"p"}, Issue <- {1, 2}, MaxPages <- 2, MaxMoves <- 2, MaxTroubles <- 0, MaxSyncs <- 4

\* Two notifications under one event, or one after the other of one pull request.
Announced(e, s) == [event |-> e, subject |-> s]
Slack == INSTANCE SlackOutbox WITH
    Caller <- {a, b}, Note <- {Announced(1, "s"), Announced(1, "u")},
    MaxCalls <- 3, MaxTroubles <- 1, told <- announced
Thread == INSTANCE SlackOutbox WITH
    Caller <- {a, b}, Note <- {Announced(1, "s"), Announced(2, "s")},
    MaxCalls <- 3, MaxTroubles <- 1, told <- announced

ASSUME
    /\ Settings!SettingsAssumption /\ Work!WorkAssumption /\ Boards!BoardsAssumption /\ Busy!BoardsAssumption
    /\ Slack!OutboxAssumption /\ Thread!OutboxAssumption

-----------------------------------------------------------------------------
Synced == {"boards", "busy"}
Notified == {"slack", "thread"}

OwnerInit ==
    /\ part \in {"lock", "settings", "work"} \cup Synced \cup Notified
    /\ Init /\ Settings!Init /\ Work!Init /\ Boards!Init
    /\ IF part = "thread" THEN Thread!Init ELSE Slack!Init
    /\ part # "settings" => file = Bare
    /\ catalog = Linked /\ artifact = [x \in {"x", "y"} |-> "c"]

OwnerNext ==
    /\ UNCHANGED part
    /\ \/ part = "lock" /\ Next /\ UNCHANGED <<editing, observing, syncing, notifying, troubles>>
       \/ part = "settings" /\ Settings!Next /\ UNCHANGED <<vars, observing, syncing, notifying, troubles>>
       \/ part = "work" /\ Work!Next /\ UNCHANGED <<vars, editing, syncing, notifying, troubles>>
       \/ /\ \/ part = "slack" /\ Slack!Next
             \/ part = "thread" /\ Thread!Next
          /\ UNCHANGED <<vars, editing, observing, syncing>>
       \/ /\ \/ part = "boards" /\ Boards!Next
             \/ part = "busy" /\ Busy!Next
          /\ UNCHANGED <<vars, editing, observing, notifying>>

owning == <<part, vars, editing, observing, syncing, notifying, troubles>>

\* Fair are the attempts at the lock, as in CoordinatorLock.
OwnerSpec ==
    /\ OwnerInit /\ [][OwnerNext]_owning
    /\ \A p \in Coordinator : WF_vars(part = "lock" /\ CoordinatorStep(p))
    /\ \A p \in Maintainer : WF_vars(part = "lock" /\ MaintainerStep(p))
    /\ \A p \in Recoverer : WF_vars(part = "lock" /\ RecovererStep(p))

-----------------------------------------------------------------------------
(***************************************************************************)
(* Settings.  A save replaces nothing that its owner has not seen in a     *)
(* preview, relaxes no authority but what its owner acknowledged, and      *)
(* gives every scope what its tab asked for it; what a Console says is     *)
(* saved is what the next one would load, and starts on.                   *)
(***************************************************************************)
SettingsSafe ==
    /\ [](part = "settings" => Settings!StartsAgain /\ Settings!ReportsTheFile)
    /\ Settings!NothingLost /\ Settings!RelaxedKnowingly /\ Settings!SavedAsAsked

=============================================================================
