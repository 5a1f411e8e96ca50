------------------------------ MODULE SettingsEdit ------------------------------
(* The console's settings: an owner edits, in several browser tabs, the file *)
(* the factory starts from. The file holds for each scope the fields it      *)
(* overrides; what is missing is inherited. A tab works on the resolved      *)
(* values of the revision it opened; a save translates what it changed back  *)
(* into overrides, names every field that becomes laxer, and replaces the    *)
(* file if nobody else has. Others may write the file at any time, and the   *)
(* console may end between any two steps.                                    *)
EXTENDS Integers, FiniteSets

CONSTANTS
    Tab,            \* browser tabs
    Field,          \* settings every scope has
    Level,          \* their values, a higher one laxer than a lower one
    Guarded,        \* fields that are laxer than inherited only with a recorded acknowledgement
    Foreign,        \* contents somebody may write into the file
    None,
    MaxEdits,       \* bound on fields changed in a tab
    MaxForeign,     \* bound on writes by others
    MaxStarts       \* bound on restarts of the console

SettingsAssumption ==
    /\ Level \subseteq Nat /\ 0 \in Level /\ None \notin Level
    /\ Guarded \subseteq Field
    /\ {MaxEdits, MaxForeign, MaxStarts} \subseteq Nat

VARIABLES
    file,       \* the configuration file; its revision is a digest of its content
    loaded,     \* the content this process started from, None while there is none
    known,      \* the content the process last reported the revision of
    saving,     \* the save under way, None when there is none: requests are served one by one
    tabs,       \* what each tab has open: the content it saw, its draft, the risks it accepts
    edits, foreign, starts

vars == <<file, loaded, known, saving, tabs, edits, foreign, starts>>

-----------------------------------------------------------------------------
(* A configuration: overrides, and the relaxations they acknowledge.        *)

Scope == {"defaults", "product", "pod"}

Unless(own, inherited) == [f \in Field |-> IF own[f] = None THEN inherited[f] ELSE own[f]]

Strictest == [f \in Field |-> 0]

Effective(c) ==
    LET defaults == Unless(c.value["defaults"], Strictest)
        product == Unless(c.value["product"], defaults)
        pod == Unless(c.value["pod"], product)
    IN [s \in Scope |-> CASE s = "defaults" -> defaults [] s = "product" -> product [] s = "pod" -> pod]

Inherited(resolved, s) ==
    CASE s = "defaults" -> Strictest [] s = "product" -> resolved["defaults"] [] s = "pod" -> resolved["product"]

Relaxes(before, after) == after > before

\* A guarded field a scope relaxes is acknowledged there, or the file is refused.
Valid(c) ==
    \A s \in Scope, f \in Guarded :
        /\ c.value[s][f] # None
        /\ Relaxes(Inherited(Effective(c), s)[f], c.value[s][f])
        => <<s, f>> \in c.acknowledged

-----------------------------------------------------------------------------
(* From a draft to overrides: only what the draft changes is touched, and    *)
(* what is as inherited is no longer overridden.                             *)

\* What is acknowledged after every changed field of scope s, want being compared with inherited.
Acknowledged(c, s, changed, want, inherited) ==
    {p \in c.acknowledged : p[1] # s \/ p[2] \notin changed}
        \cup {<<s, f>> : f \in {g \in changed \cap Guarded : Relaxes(inherited[g], want[g])}}

Changed(baseline, want) == {f \in Field : want[f] # baseline[f]}

PatchDefaults(c, baseline, want) ==
    LET changed == Changed(baseline, want)
    IN [value |-> [c.value EXCEPT !["defaults"] = [f \in Field |-> IF f \in changed THEN want[f] ELSE @[f]]],
        acknowledged |-> Acknowledged(c, "defaults", changed, want, Strictest)]

PatchScope(c, s, baseline, want, inherited) ==
    LET changed == Changed(baseline, want)
    IN [value |-> [c.value EXCEPT ![s] = [f \in Field |->
            IF f \notin changed THEN @[f] ELSE IF want[f] = inherited[f] THEN None ELSE want[f]]],
        acknowledged |-> Acknowledged(c, s, changed, want, inherited)]

\* A product is patched against the defaults asked for.
WithProducts(c, want) ==
    PatchScope(PatchDefaults(c, Effective(c)["defaults"], want["defaults"]),
               "product", Effective(c)["product"], want["product"], want["defaults"])

\* What a pod inherits once its product has been patched.
\* Slip: what it inherited before.
BeforeProducts(c, want) == Effective(c)["product"]
PodInherits(c, want) == Effective(WithProducts(c, want))["product"]

Applied(c, want) ==
    PatchScope(WithProducts(c, want), "pod", Effective(c)["pod"], want["pod"], PodInherits(c, want))

\* The result is parsed with the products patched, and once more at the end.
\* Slip: it is not.
AppliesAnyhow(c, want) == TRUE
Applies(c, want) == Valid(WithProducts(c, want)) /\ Valid(Applied(c, want))

\* Every field of every scope the result leaves laxer than it was.
\* Slip: those of the draft.
RisksAsked(c, want) == {p \in Scope \X Field : Relaxes(Effective(c)[p[1]][p[2]], want[p[1]][p[2]])}
Risks(c, want) == {p \in Scope \X Field : Relaxes(Effective(c)[p[1]][p[2]], Effective(Applied(c, want))[p[1]][p[2]])}

-----------------------------------------------------------------------------
Init ==
    /\ file \in {c \in Foreign : Valid(c)}
    /\ loaded = file /\ known = file
    /\ saving = None
    /\ tabs = [t \in Tab |-> None]
    /\ edits = 0 /\ foreign = 0 /\ starts = 0

Serving == loaded # None /\ saving = None

\* A tab opens the settings, or opens them again.
Edit(t) ==
    /\ Serving /\ Valid(file)
    /\ known' = file
    /\ tabs' = [tabs EXCEPT ![t] = [seen |-> file, draft |-> Effective(file), accepted |-> {}]]
    /\ UNCHANGED <<file, loaded, saving, edits, foreign, starts>>

\* The owner changes a field in a tab.
Change(t, s, f, v) ==
    /\ tabs[t] # None /\ edits < MaxEdits
    /\ v # tabs[t].draft[s][f]
    /\ tabs' = [tabs EXCEPT ![t].draft[s][f] = v]
    /\ edits' = edits + 1
    /\ UNCHANGED <<file, loaded, known, saving, foreign, starts>>

\* The revision a tab saw is still the file's, and its draft applies to it.
Fits(t) == Serving /\ tabs[t] # None /\ tabs[t].seen = file /\ Valid(file) /\ Applies(file, tabs[t].draft)

\* A preview tells the risks; the owner accepts them in this tab.
Preview(t) ==
    /\ Fits(t)
    /\ tabs' = [tabs EXCEPT ![t].accepted = Risks(file, tabs[t].draft)]
    /\ UNCHANGED <<file, loaded, known, saving, edits, foreign, starts>>

\* A save is worked out; the replacement is then written aside.
Prepare(t) ==
    /\ Fits(t)
    /\ Risks(file, tabs[t].draft) \subseteq tabs[t].accepted
    /\ Applied(file, tabs[t].draft) # file
    /\ saving' = [at |-> "staged", seen |-> file, want |-> tabs[t].draft, accepted |-> tabs[t].accepted,
                  next |-> Applied(file, tabs[t].draft), overtaken |-> FALSE]
    /\ UNCHANGED <<file, loaded, known, tabs, edits, foreign, starts>>

\* Slip: a staged replacement is put in place as it is.
IsSeenAnyhow == TRUE
IsSeen == file = saving.seen

\* The file is read once more before it is replaced.
Recheck ==
    /\ saving # None /\ saving.at = "staged"
    /\ saving' = IF IsSeen THEN [saving EXCEPT !.at = "checked"] ELSE None
    /\ UNCHANGED <<file, loaded, known, tabs, edits, foreign, starts>>

Replace ==
    /\ saving # None /\ saving.at = "checked"
    /\ file' = saving.next
    /\ saving' = [saving EXCEPT !.at = "replaced"]
    /\ UNCHANGED <<loaded, known, tabs, edits, foreign, starts>>

\* Slip: the revision reported stays the one that was read.
KnownAsRead == known
KnownAfter == file

\* The file is read back for its revision.
Report ==
    /\ saving # None /\ saving.at = "replaced"
    /\ known' = KnownAfter
    /\ saving' = None
    /\ UNCHANGED <<file, loaded, tabs, edits, foreign, starts>>

\* The console ends; what it staged stays aside.
Stop ==
    /\ loaded # None /\ starts < MaxStarts
    /\ loaded' = None /\ known' = None /\ saving' = None
    /\ UNCHANGED <<file, tabs, edits, foreign, starts>>

\* It starts from the file, if the file is valid.
Start ==
    /\ loaded = None /\ Valid(file)
    /\ loaded' = file /\ known' = file
    /\ starts' = starts + 1
    /\ UNCHANGED <<file, saving, tabs, edits, foreign>>

\* Somebody else writes the file.
Overwrite(c) ==
    /\ foreign < MaxForeign /\ c # file
    /\ file' = c
    /\ saving' = IF saving = None THEN None ELSE [saving EXCEPT !.overtaken = (saving.at = "checked") \/ @]
    /\ foreign' = foreign + 1
    /\ UNCHANGED <<loaded, known, tabs, edits, starts>>

Next ==
    \/ \E t \in Tab :
        \/ Edit(t) \/ Preview(t) \/ Prepare(t)
        \/ \E s \in Scope, f \in Field, v \in Level : Change(t, s, f, v)
    \/ Recheck \/ Replace \/ Report \/ Stop \/ Start
    \/ \E c \in Foreign : Overwrite(c)

Spec == Init /\ [][Next]_vars

-----------------------------------------------------------------------------
\* The step in which a save puts its replacement in place.
Replaces == saving # None /\ saving' # None /\ saving.at = "checked" /\ saving'.at = "replaced"

\* A save replaces the revision its tab saw and no other, but for what others
\* write between the last look at the file and its replacement.
NothingLost == [][Replaces => file = saving.seen \/ saving.overtaken]_vars

\* Whatever a save leaves laxer, in the scope edited or in one that inherits from
\* it, the owner accepted by name in the tab that saved.
RelaxedKnowingly ==
    [][Replaces => \A s \in Scope, f \in Field :
        Relaxes(Effective(saving.seen)[s][f], Effective(file')[s][f]) => <<s, f>> \in saving.accepted]_vars

\* Every field the owner changed has, once saved, the value asked for; every other
\* keeps its value or follows the scope it inherits from.
SavedAsAsked ==
    [][Replaces => \A s \in Scope, f \in Field :
        LET before == Effective(saving.seen)[s][f]
            after == Effective(file')[s][f]
        IN IF saving.want[s][f] # before THEN after = saving.want[s][f]
           ELSE after \in {before, Inherited(Effective(file'), s)[f]}]_vars

\* The console never leaves a file behind it could not start from.
StartsAgain == Valid(file) \/ file \in Foreign

\* Between requests the console reports the revision the file has, unless others
\* wrote the file since.
ReportsTheFile == Serving /\ known # file => file \in Foreign
=============================================================================
