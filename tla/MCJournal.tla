----------------------------- MODULE MCJournal -----------------------------
(* The journal on a reliable host, and a second one on a host that may fail *)
(* in every way while an action claim reloads the object; and the other     *)
(* records that are only ever added to, those of a product: its journal and *)
(* interview, the custody of a native release, and what was handed off of   *)
(* its design: at says which of them is at work.                            *)
EXTENDS Journal

CONSTANTS c1, c2, i1, i2, i3, b1, b2, None, Left, Shared

VARIABLES
    at,
    file2, frag2, durable2, open2, mem2, tail2, step2, reload2, issued2, acked2,
    journal, torn, markers, guard, call, evidence, runtime, ran,
    history, hTorn, hGuard, draft, answered, changes, troubles,
    sealed, artifact, store, custody, intent, seen, receipt, recovery,
    guardN, callN, ranN, changesN, troublesN,
    definition, design, approved, request, handed, stands, edits

MCCaller == {c1, c2}
MCEventId == {i1, i2}
MoreEventIds == {i1, i2, i3}
MCBody == {b1, b2}
OneBody == {b1}

\* The host writes a record in one or several pieces, and may refuse it.
ReliableWrites == {"whole", "split", "refused"}
AnyWrites == ReliableWrites \cup {"short", "unsynced"}
WholeWrites == {"whole"}

Faulty == INSTANCE Journal WITH
    EventId <- MCEventId, Body <- OneBody, WriteModes <- AnyWrites, SharedReload <- TRUE,
    file <- file2, frag <- frag2, durable <- durable2, open <- open2, mem <- mem2,
    tail <- tail2, step <- step2, reload <- reload2, issued <- issued2, acked <- acked2

second == <<file2, frag2, durable2, open2, mem2, tail2, step2, reload2, issued2, acked2>>

-----------------------------------------------------------------------------
\* One observation, two adoptions of it, and an increment on each.
Operation(id, kind, of) == [id |-> id, kind |-> kind, of |-> of]

Product == INSTANCE LiveProduct WITH
    Caller <- {"c1", "c2"}, Writer <- {"w1", "w2"},
    Request <- {Operation("o1", "observation", None),
                Operation("a1", "adoption", "o1"), Operation("a2", "adoption", "o1"),
                Operation("n1", "increment", "a1"), Operation("n2", "increment", "a2")},
    MaxEntries <- 4, MaxChanges <- 2, MaxTroubles <- 1

product == <<journal, torn, markers, guard, call, evidence, runtime, ran,
             history, hTorn, hGuard, draft, answered, changes, troubles>>

Native == INSTANCE NativeRelease WITH
    Caller <- {"c1", "c2"}, Directory <- {"d1", "d2"}, MaxChanges <- 2, MaxTroubles <- 1,
    guard <- guardN, call <- callN, ran <- ranN, changes <- changesN, troubles <- troublesN

native == <<sealed, artifact, store, custody, intent, seen, receipt, recovery,
            guardN, callN, ranN, changesN, troublesN>>

\* A definition of two requirements; another revision of it, not yet and then accepted; one
\* that leaves a platform unproved and one that leaves out a requirement a scenario needs.
First == [revision |-> 1, decided |-> 1,
          included |-> {"r1", "r2"}, accepted |-> {"r1", "r2", "k1", "k2"},
          on |-> [r \in {"r1", "r2"} |-> IF r = "r1" THEN {"web"} ELSE {"web", "ios"}],
          of |-> [k \in {"k1", "k2"} |-> IF k = "k1" THEN {"r1"} ELSE {"r2"}],
          at |-> [k \in {"k1", "k2"} |-> IF k = "k1" THEN {"web"} ELSE {"web", "ios"}]]
Revised == [First EXCEPT !.revision = 2]
MCDefinition == <<First, Revised, [Revised EXCEPT !.decided = 2], [First EXCEPT !.at["k2"] = {"web"}],
                  [First EXCEPT !.included = {"r1"}, !.of["k2"] = {"r1", "r2"}]>>

Rec(kind, requirements, scenarios, platforms, decisions, after) ==
    [kind |-> kind, version |-> 1, sources |-> {"x"}, requirements |-> requirements,
     scenarios |-> scenarios, platforms |-> platforms, decisions |-> decisions, after |-> after]
Twice(r) == <<r, [r EXCEPT !.version = 2]>>
Slice1 == Rec("slice", {"r1"}, {"k1"}, {"web"}, {"shared", "forWeb"}, {})
Slice2 == Rec("slice", {"r2"}, {"k2"}, {"web", "ios"}, {"shared", "forWeb", "forIos"}, {"s1"})

MCVariant == [i \in {"x", "onWeb", "onIos", "shared", "forWeb", "forIos", "t", "q", "s1", "s2"} |->
    CASE i = "x" -> Twice([Rec("source", {}, {}, {}, {}, {}) EXCEPT !.sources = {}])
      [] i = "onWeb" -> Twice(Rec("experience", {"r1", "r2"}, {"k1", "k2"}, {"web"}, {}, {}))
      [] i = "onIos" -> <<Rec("experience", {"r2"}, {"k2"}, {"ios"}, {}, {})>>
      [] i = "shared" -> <<Rec("decision", {"r1", "r2"}, {}, {Shared}, {}, {})>>
      [] i = "forWeb" -> <<Rec("decision", {"r1", "r2"}, {}, {"web"}, {}, {})>>
      [] i = "forIos" -> Twice(Rec("decision", {"r2"}, {}, {"ios"}, {}, {}))
      [] i = "t" -> <<None, Rec("tradeoff", {}, {}, {}, {"forIos"}, {})>>
      [] i = "q" -> <<None, Rec("question", {}, {}, {}, {}, {})>>
      [] i = "s1" -> Twice(Slice1) \o <<[Slice1 EXCEPT !.after = {"s2"}], [Slice1 EXCEPT !.platforms = {"web", "ios"}]>>
      [] i = "s2" -> <<Slice2, [Slice2 EXCEPT !.scenarios = {"k1"}], [Slice2 EXCEPT !.platforms = {"web"}]>>]

Designed == INSTANCE ProductDesign WITH
    Requirement <- {"r1", "r2"}, Platform <- {"web", "ios"}, Scenario <- {"k1", "k2"},
    Id <- DOMAIN MCVariant, Definition <- MCDefinition, Variant <- MCVariant,
    FirstDesign <- [of |-> 1, records |-> [i \in DOMAIN MCVariant |-> 1]],
    MaxEdits <- 2, MaxApprovals <- 3

designed == <<definition, design, approved, request, handed, stands, edits>>

ASSUME Product!ProductAssumption /\ Native!ReleaseAssumption

-----------------------------------------------------------------------------
both == <<at, vars, second, product, native, designed>>

AllInit == Init /\ Faulty!Init /\ Product!Init /\ Native!Init /\ Designed!Init

HostsInit == at \in {"reliable", "faulty", "product", "release", "design"} /\ AllInit

HostsNext ==
    /\ UNCHANGED at
    /\ \/ at = "reliable" /\ Next /\ UNCHANGED <<second, product, native, designed>>
       \/ at = "faulty" /\ Faulty!Next /\ UNCHANGED <<vars, product, native, designed>>
       \/ at = "product" /\ Product!Step /\ UNCHANGED <<vars, second, native, designed>>
       \/ at = "release" /\ Native!Step /\ UNCHANGED <<vars, second, product, designed>>
       \/ at = "design" /\ Designed!Step /\ UNCHANGED <<vars, second, product, native>>

HostsSpec ==
    /\ HostsInit /\ [][HostsNext]_both
    /\ WF_both(at = "faulty" /\ Faulty!Write /\ UNCHANGED <<at, vars, product, native, designed>>)

\* Every append settles on any host, reloaded or not.
AppendsSettleAnywhere == Faulty!AppendsSettle


\* The journal of the reliable host alone, reloaded by an action claim.
OneInit == at = "reliable" /\ AllInit
OneNext == Next /\ UNCHANGED <<at, second, product, native, designed>>
OneSpec == OneInit /\ [][OneNext]_both
=============================================================================
