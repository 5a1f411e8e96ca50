---------------------------- MODULE ProductDesign ----------------------------
(***************************************************************************)
(* src/production/discovery.ts, design.ts and delivery.ts: a product       *)
(* definition and a design of it are revised by their owner, approved by   *)
(* exact digests, and handed to a manager loop once nothing is missing;    *)
(* when the design changes, what was built of it stands only where the     *)
(* change does not reach.                                                  *)
(*                                                                         *)
(* A definition is named by its content, and so is each record of a design *)
(* (source, experience, decision, tradeoff, open question, slice), so that *)
(* a digest is the name; the areas of a decision and the states of an      *)
(* experience are left out, as are the texts.                              *)
(***************************************************************************)
EXTENDS Naturals, Sequences, FiniteSets

CONSTANTS
    Requirement, Platform, Scenario,
    Id,             \* of the records of a design
    Definition,     \* the definitions that the owner writes: a sequence of records
    Variant,        \* per id: the records that the owner writes, as a sequence
    FirstDesign,
    None, Shared,   \* no record; the target of a decision for all platforms
    MaxEdits, MaxApprovals

VARIABLES
    definition, design,     \* the owner's two files
    approved,               \* pairs [definition, design] the owner accepted
    request,                \* the handoff request
    handed,                 \* the last configuration issued
    stands,                 \* per slice: the design that its standing work was built from
    edits

vars == <<definition, design, approved, request, handed, stands, edits>>

Init ==
    /\ definition = FirstDesign.of /\ design = FirstDesign
    /\ approved = {} /\ request = None /\ handed = None
    /\ stands = [i \in Id |-> None]
    /\ edits = 0

Record(des, i) == Variant[i][des.records[i]]

-----------------------------------------------------------------------------
\* parseProductDefinition: what refers to something refers to what there is.
WellFormed(def) ==
    /\ def.decided # None => def.decided = def.revision
    /\ \A r \in Requirement : def.on[r] # {}
    /\ \A k \in Scenario :
         /\ def.of[k] # {}
         /\ def.at[k] # {} /\ \A p \in def.at[k] : \E r \in def.of[k] : p \in def.on[r]

\* Scenarios that touch what is included, of which all must be accepted.
Touching(def) == {k \in Scenario : def.of[k] \cap def.included # {}}
Establishes(def, k, r, p) == k \in def.accepted /\ r \in def.of[k] /\ p \in def.at[k]

\* inspectProductDefinition: no blocking question is left.
ReadyForDesign(def) ==
    /\ def.decided = def.revision /\ def.included # {}
    /\ def.included \cup Touching(def) \subseteq def.accepted
    /\ \A r \in def.included : \A p \in def.on[r] : \E k \in Scenario : Establishes(def, k, r, p)

\* compileProductDelivery: no scenario reaches outside what is included.
InScope(def) == \A k \in Touching(def) : def.of[k] \subseteq def.included

-----------------------------------------------------------------------------
Of(des, kind) == {i \in Id : Record(des, i) # None /\ Record(des, i).kind = kind}

\* Every record cites known sources, and what it links to is there and in scope.
Linked(def, des) ==
    \A i \in Id : LET r == Record(des, i) IN
      r # None /\ r.kind # "source" =>
        /\ r.sources # {} /\ r.sources \subseteq Of(des, "source")
        /\ r.requirements \subseteq def.included
        /\ r.scenarios \subseteq Touching(def)
        /\ r.decisions \subseteq Of(des, "decision")
        /\ r.after \subseteq Of(des, "slice") \ {i}

Required(def, p) == {r \in def.included : p \in def.on[r]}

\* Each platform with a requirement has its experience, of exactly what is required there.
Experienced(def, des) ==
    \A p \in Platform : LET all == {i \in Of(des, "experience") : p \in Record(des, i).platforms} IN
      /\ Required(def, p) # {} => all # {}
      /\ \A i \in all :
           /\ Record(des, i).requirements = Required(def, p) /\ Required(def, p) # {}
           /\ Record(des, i).scenarios = {k \in Touching(def) : p \in def.at[k] /\ def.of[k] \cap Required(def, p) # {}}

\* A decision of the slice for this target covers the requirement.
Decided(des, s, r, target) ==
    \E i \in Record(des, s).decisions :
        Record(des, i).platforms = {target} /\ r \in Record(des, i).requirements

\* The slice's own scenarios establish the requirement on the platform.
AcceptedIn(def, des, s, r, p) == \E k \in Record(des, s).scenarios : Establishes(def, k, r, p)

\* A slice is complete for each of its requirements on each of its platforms.
Sliced(def, des) ==
    \A s \in Of(des, "slice") : LET slice == Record(des, s) IN
      /\ slice.requirements # {} /\ slice.scenarios # {} /\ slice.platforms # {}
      /\ \A p \in slice.platforms : slice.requirements \cap Required(def, p) # {}
      /\ \A k \in slice.scenarios : def.of[k] \subseteq slice.requirements /\ def.at[k] \subseteq slice.platforms
      /\ \A r \in slice.requirements :
           /\ slice.platforms \cap def.on[r] # {}
           /\ Decided(des, s, r, Shared)
           /\ \A p \in slice.platforms \cap def.on[r] :
                AcceptedIn(def, des, s, r, p) /\ Decided(des, s, r, p)

\* All that is included is in a slice, and every scenario accepted by one.
CoveredBySlices(def, des) ==
    /\ \A r \in def.included : \A p \in def.on[r] : \E s \in Of(des, "slice") :
         r \in Record(des, s).requirements /\ p \in Record(des, s).platforms
    /\ Touching(def) \subseteq UNION {Record(des, s).scenarios : s \in Of(des, "slice")}

\* Slip (HandoffComplete): a slice does not depend on itself.
NotItself(des) == \A s \in Of(des, "slice") : s \notin Record(des, s).after

\* validateHierarchy: the slices have an order.
Ordered(des) ==
    \A S \in SUBSET Of(des, "slice") : S # {} => \E s \in S : Record(des, s).after \cap S = {}

\* Slip (HandoffApproved): an approval is known by the design it names.
ApprovesDesign(a, n, des) == a.design = des

\* The approval names exactly these two.
Approves(a, n, des) == a = [definition |-> n, design |-> des]

\* inspectProductDesign: there is no gap.
ReadyForDelivery(n, des, a) == LET def == Definition[n] IN
    /\ ReadyForDesign(def) /\ InScope(def)
    /\ des.of = n /\ Approves(a, n, des)
    /\ Of(des, "question") = {}
    /\ Linked(def, des) /\ Experienced(def, des) /\ Sliced(def, des)
    /\ CoveredBySlices(def, des) /\ Ordered(des)

-----------------------------------------------------------------------------
\* inspectProductDesignChange: what changed, and what cites a source that changed.
Changed(before, after) ==
    LET own == {i \in Id : before.records[i] # after.records[i]} IN
    own \cup {i \in Id : \E des \in {before, after} :
                Record(des, i) # None /\ Record(des, i).sources \cap own # {}}

\* A slice is reached through its decisions, its experiences and the tradeoffs of its decisions.
Reached(before, after) ==
    LET changed == Changed(before, after)
        all == before.of # after.of \/ changed \cap (Of(before, "question") \cup Of(after, "question")) # {}
        Near(slice) ==
            slice.decisions
              \cup UNION {{i \in Of(des, "experience") : Record(des, i).platforms \cap slice.platforms # {}}
                          : des \in {before, after}}
              \cup UNION {{i \in Of(des, "tradeoff") : Record(des, i).decisions \cap slice.decisions # {}}
                          : des \in {before, after}}
    IN {s \in Id : \E des \in {before, after} :
          /\ s \in Of(des, "slice")
          /\ all \/ s \in changed \/ Near(Record(des, s)) \cap changed # {}}

\* Slip (UnaffectedStands): what depends on a slice that is reached is not looked at.
AffectedDirectly(before, after) == Reached(before, after)

\* And so is what depends on a slice that is reached, until nothing more is.
Affected(before, after) ==
    LET slices == Of(before, "slice") \cup Of(after, "slice")
        reached == Reached(before, after)
        Closed(S) ==
          /\ reached \subseteq S
          /\ \A des \in {before, after} : \A s \in Of(des, "slice") \ S : Record(des, s).after \cap S = {}
    IN {s \in slices : \A S \in SUBSET slices : Closed(S) => s \in S}

-----------------------------------------------------------------------------
\* The owner revises a file; a decision on an earlier revision does not fit the new one.
ReviseDefinition ==
    /\ edits < MaxEdits /\ edits' = edits + 1
    /\ definition' \in DOMAIN Definition \ {definition}
    /\ UNCHANGED <<design, approved, request, handed, stands>>

ReviseDesign ==
    /\ edits < MaxEdits /\ edits' = edits + 1
    /\ \E i \in Id : \E n \in DOMAIN Variant[i] \ {design.records[i]} :
         design' = [design EXCEPT !.records[i] = n]
    /\ UNCHANGED <<definition, approved, request, handed, stands>>

\* The design is made a design of the definition as it is now.
Rebind ==
    /\ design.of # definition
    /\ design' = [design EXCEPT !.of = definition]
    /\ UNCHANGED <<definition, approved, request, handed, stands, edits>>

Approve ==
    /\ Cardinality(approved) < MaxApprovals
    /\ approved' = approved \cup {[definition |-> definition, design |-> design]}
    /\ approved' # approved
    /\ UNCHANGED <<definition, design, request, handed, stands, edits>>

\* A request binds the two digests, an approval and the approved scope's revision; not all
\* of its other bindings may be there.
WriteRequest ==
    /\ \E a \in approved, bound \in BOOLEAN :
         request' = [definition |-> definition, design |-> design, approval |-> a,
                     scope |-> Definition[definition].revision, bound |-> bound]
    /\ UNCHANGED <<definition, design, approved, handed, stands, edits>>

\* compileProductDesignHandoff, on the files as they are.
Issues ==
    /\ request.definition = definition /\ request.design = design /\ request.bound
    /\ request.scope = Definition[definition].revision
    /\ WellFormed(Definition[definition])
    /\ ReadyForDelivery(definition, design, request.approval)

\* The configuration of the loop: the two files it is compiled from are its dependencies.
Issued == [definition |-> definition, design |-> design]

\* What was built stands where the change does not reach; the rest is built from this design.
HandOff ==
    /\ request # None /\ handed # Issued
    /\ Issues
    /\ handed' = Issued
    /\ stands' = [s \in Id |->
         IF s \notin Of(design, "slice") THEN None
         ELSE IF handed # None /\ s \notin Affected(handed.design, design) THEN stands[s]
         ELSE design]
    /\ UNCHANGED <<definition, design, approved, request, edits>>

Step == ReviseDefinition \/ ReviseDesign \/ Rebind \/ Approve \/ WriteRequest \/ HandOff

Spec == Init /\ [][Step]_vars

-----------------------------------------------------------------------------
\* A configuration is issued only of a definition and a design that the owner accepted
\* together, whatever was edited since under the same revision.
HandoffApproved == handed # None => handed \in approved

\* A slice and the slices it is built on.
Below(des, s) ==
    LET slices == Of(des, "slice")
        Closed(S) == s \in S /\ \A t \in S : Record(des, t).after \subseteq S
    IN {t \in slices : \A S \in SUBSET slices : Closed(S) => t \in S}

\* In what is handed off, every included requirement is established on each of its
\* platforms by a scenario of a slice whose decisions cover it there, every such scenario
\* is accepted and within the scope, and the slices can be delivered one after another.
HandoffComplete ==
    handed # None => LET def == Definition[handed.definition]
                         des == handed.design IN
      /\ \A r \in def.included : \A p \in def.on[r] : \E s \in Of(des, "slice") :
           /\ \E k \in Record(des, s).scenarios :
                k \in def.accepted /\ r \in def.of[k] /\ p \in def.at[k] /\ def.of[k] \subseteq def.included
           /\ Decided(des, s, r, p) /\ Decided(des, s, r, Shared)
      /\ ~ \E s \in Of(des, "slice") : \E t \in Record(des, s).after : s \in Below(des, t)

\* What a slice is built from: the records and sources of it and of the slices below it.
Basis(des, s) ==
    LET near == UNION {{t} \cup Record(des, t).decisions
                  \cup {i \in Of(des, "experience") : Record(des, i).platforms \cap Record(des, t).platforms # {}}
                  \cup {i \in Of(des, "tradeoff") : Record(des, i).decisions \cap Record(des, t).decisions # {}}
                  : t \in Below(des, s)}
        all == near \cup UNION {Record(des, i).sources : i \in near}
    IN <<des.of, [i \in all |-> Record(des, i)]>>

\* The work that still stands after any number of handoffs was built from exactly what the
\* current design would have it built from: its slice, decisions, experiences, tradeoffs
\* and sources, and those of every slice below it.
UnaffectedStands ==
    handed # None => \A s \in Id :
        stands[s] \notin {None, handed.design} => Basis(stands[s], s) = Basis(handed.design, s)
=============================================================================
