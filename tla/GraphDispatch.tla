------------------------------ MODULE GraphDispatch ------------------------------
(* Handing out the work of a sprint from its approved graph. The Foreman keeps *)
(* three files: a packet that says which ticket goes to which session and what *)
(* each depends on, the work catalog, and a readiness record that names both    *)
(* by digest. The console looks every few seconds whether any of these, or a    *)
(* request, has changed, works out which tickets may start, and queues them one *)
(* after the other with the manager's store; the owner may ask for the same.    *)
(* Every file can be replaced between any two reads. A verification of the      *)
(* readiness record, with the files it names, is one step.                      *)
EXTENDS Naturals, Sequences, FiniteSets, SequencesExt

CONSTANTS
    Node,           \* executable nodes of the graph, each of a ticket and its session
    Packet,         \* what the packet may say: [catalog, rank, depends, observed, tracked, capacity]
    Readiness,      \* what the record may say: [packet, catalog, passing, attended, witness]
    Catalog,        \* revisions of the catalog; None is a catalog that cannot be read
    None,
    CodingLimit,    \* 3 in the code
    MaxWrites,      \* bound on replaced files
    MaxTroubles,    \* bound on failing reads
    MaxRequests     \* bound on requests the owner makes by hand

DispatchAssumption ==
    /\ \A p \in Packet : p.catalog \in Catalog /\ Range(p.rank) \subseteq Node /\ p.capacity \in Nat
    /\ \A r \in Readiness : r.packet \in Packet /\ r.catalog \in Catalog
    /\ {CodingLimit, MaxWrites, MaxTroubles, MaxRequests} \subseteq Nat

VARIABLES
    files,      \* what the packet, the readiness record and the catalog hold, with the version of each
    expired,    \* the checks of the present readiness record are no longer current
    shown,      \* the catalog as last observed: its revision and whether it is current
    requests,   \* the manager's queue: what was asked under which readiness, and how it stands
    at,         \* where the console, and the owner's call, are
    key,        \* what the console last evaluated, None when it is to evaluate again
    missed,     \* the store failed in the console's last evaluation
    writes, troubles, byHand

vars == <<files, expired, shown, requests, at, key, missed, writes, troubles, byHand>>

Caller == {"console", "owner"}
Idle == [step |-> "idle"]

-----------------------------------------------------------------------------
(* The plan.                                                                *)

Outstanding == {"queued", "claimed"}

\* A request is one node's under one readiness record.
Of(n) == {q \in DOMAIN requests : q.node = n}
Active(n) == \E q \in Of(n) : requests[q].status \in Outstanding

\* The evidence of an edge counts for the context it was taken in only, and what the
\* tracker adds to the graph blocks until the graph has it too.
DependenciesMet(p, n) ==
    /\ \A m \in p.depends[n] : p.observed[n][m] = p.context[m]
    /\ p.tracked[n] \subseteq p.depends[n]

\* What the requests out say of a node, over what the packet says.
\* Slip: whatever was asked for once is past coding.
WorkStateAsked(n) == IF Of(n) # {} THEN "review" ELSE "ready"
WorkState(n) == IF Active(n) THEN "coding" ELSE IF Of(n) # {} THEN "review" ELSE "ready"

\* The owner's call takes the packet as it is, the console lays the requests over it.
StateFor(c, n) == IF c = "console" THEN WorkState(n) ELSE "ready"

\* Tickets are chosen by rank among all that may start, as many as there are free places.
Frontier(c, p) ==
    LET startable == SelectSeq(p.rank, LAMBDA n : StateFor(c, n) = "ready" /\ DependenciesMet(p, n))
        coding == Cardinality({n \in Range(p.rank) : StateFor(c, n) = "coding"})
        free == IF coding < p.capacity THEN p.capacity - coding ELSE 0
    IN SubSeq(startable, 1, IF Len(startable) < free THEN Len(startable) ELSE free)

-----------------------------------------------------------------------------
(* The evidence.                                                            *)

\* The record passes its checks and the files it names are as it names them.
Verified(r) ==
    /\ r.passing /\ ~expired
    /\ files.packet.is = r.packet /\ files.catalog.is = r.catalog

\* Work that nobody attends starts only after one journey was seen through to its end.
Witnessed(r) ==
    \/ r.attended
    \/ \E q \in DOMAIN requests : q.node = r.witness /\ requests[q].status = "completed"

\* What the console compares to know whether anything has changed.
KeyNow == [packet |-> files.packet.version, readiness |-> files.readiness.version,
           catalog |-> files.catalog.version, shown |-> shown, requests |-> requests]

-----------------------------------------------------------------------------
File(content) == [is |-> content, version |-> 0]

Init ==
    /\ \E p \in Packet, r \in Readiness, c \in Catalog :
        files = [packet |-> File(p), readiness |-> File(r), catalog |-> File(c)]
    /\ expired = FALSE
    /\ shown = [catalog |-> files.catalog.is, current |-> TRUE]
    /\ requests = << >>
    /\ at = [c \in Caller |-> Idle]
    /\ key = None /\ missed = FALSE
    /\ writes = 0 /\ troubles = 0 /\ byHand = 0

\* The console's evaluation failed and is repeated, the owner's call is answered.
\* Slip: what was evaluated counts as done.
KeyKept == key
KeyAfterFailure == None

GiveUp(c) ==
    /\ at' = [at EXCEPT ![c] = Idle]
    /\ key' = IF c = "console" THEN KeyAfterFailure ELSE key
    /\ UNCHANGED missed

Continue(c, state) == at' = [at EXCEPT ![c] = state] /\ UNCHANGED <<key, missed>>

Started == [step |-> "packet", catalog |-> shown.catalog]

\* The console finds something changed, and takes note of it before it reads anything.
Wake ==
    /\ at["console"] = Idle /\ KeyNow # key /\ shown.current
    /\ at' = [at EXCEPT !["console"] = Started]
    /\ key' = KeyNow /\ missed' = FALSE
    /\ UNCHANGED <<files, expired, shown, requests, writes, troubles, byHand>>

\* It has no current catalog to plan with.
WakeInVain ==
    /\ at["console"] = Idle /\ key \notin {None, KeyNow} /\ ~shown.current
    /\ GiveUp("console")
    /\ UNCHANGED <<files, expired, shown, requests, writes, troubles, byHand>>

\* The owner asks, with the catalog the page shows.
Ask ==
    /\ at["owner"] = Idle /\ byHand < MaxRequests /\ shown.current
    /\ Continue("owner", Started)
    /\ byHand' = byHand + 1
    /\ UNCHANGED <<files, expired, shown, requests, writes, troubles>>

ReadPacket(c) ==
    /\ at[c].step = "packet"
    /\ LET p == files.packet.is
       IN IF p.catalog = at[c].catalog
          THEN Continue(c, [step |-> "readiness", catalog |-> at[c].catalog, packet |-> p])
          ELSE GiveUp(c)
    /\ UNCHANGED <<files, expired, shown, requests, writes, troubles, byHand>>

ReadReadiness(c) ==
    /\ at[c].step = "readiness"
    /\ LET r == files.readiness.is
       IN IF r.catalog = at[c].catalog /\ r.packet = at[c].packet
          THEN Continue(c, [step |-> "verify", packet |-> at[c].packet, readiness |-> r])
          ELSE GiveUp(c)
    /\ UNCHANGED <<files, expired, shown, requests, writes, troubles, byHand>>

\* The record is read again to be verified, and has to be the one that was read.
Verify(c) ==
    /\ at[c].step = "verify"
    /\ IF files.readiness.is = at[c].readiness /\ Verified(files.readiness.is) /\ Witnessed(at[c].readiness)
       THEN Continue(c, [at[c] EXCEPT !.step = "plan"])
       ELSE GiveUp(c)
    /\ UNCHANGED <<files, expired, shown, requests, writes, troubles, byHand>>

\* Work is out that the packet does not know.
Unreconciled(c, p) == c = "console" /\ \E n \in Node \ Range(p.rank) : Active(n)

\* The packet has to be the one that was read; the whole frontier is then prepared.
Prepare(c) ==
    /\ at[c].step = "plan"
    /\ IF files.packet.is = at[c].packet /\ ~Unreconciled(c, at[c].packet)
       THEN Continue(c, [step |-> "queue", packet |-> at[c].packet, readiness |-> at[c].readiness,
                         left |-> Frontier(c, at[c].packet)])
       ELSE GiveUp(c)
    /\ UNCHANGED <<files, expired, shown, requests, writes, troubles, byHand>>

\* The binding a request is admitted under: that of the evidence it was computed from.
\* Slip: whichever holds when it is admitted.
AdmitsCurrent(r) == Verified(files.readiness.is)
Admits(r) == files.readiness.is = r /\ Verified(r)

\* The store admits the next ticket, knows the request already, or refuses it, which ends the round.
Enqueue(c) ==
    /\ at[c].step = "queue"
    /\ IF at[c].left = << >>
       THEN at' = [at EXCEPT ![c] = Idle] /\ UNCHANGED requests
       ELSE LET q == [node |-> Head(at[c].left), readiness |-> at[c].readiness]
                admitted == q \notin DOMAIN requests /\ Admits(at[c].readiness) /\ ~Active(q.node)
            IN /\ requests' = IF admitted
                              THEN q :> [packet |-> at[c].packet, binding |-> files.readiness.is, status |-> "queued"]
                                   @@ requests
                              ELSE requests
               /\ at' = IF admitted \/ q \in DOMAIN requests
                        THEN [at EXCEPT ![c].left = Tail(@)] ELSE [at EXCEPT ![c] = Idle]
    /\ UNCHANGED <<files, expired, shown, key, missed, writes, troubles, byHand>>

\* A file cannot be read just now.
Trouble(c) ==
    /\ at[c].step \in {"packet", "readiness", "verify", "plan"} /\ troubles < MaxTroubles
    /\ GiveUp(c)
    /\ troubles' = troubles + 1
    /\ UNCHANGED <<files, expired, shown, requests, writes, byHand>>

\* The store fails. It is reported as a refusal is, and what was evaluated stays noted.
StoreTrouble(c) ==
    /\ at[c].step = "queue" /\ at[c].left # << >> /\ troubles < MaxTroubles
    /\ at' = [at EXCEPT ![c] = Idle]
    /\ missed' = (missed \/ c = "console")
    /\ troubles' = troubles + 1
    /\ UNCHANGED <<files, expired, shown, requests, key, writes, byHand>>

-----------------------------------------------------------------------------
(* Around it: the Foreman's files, the page's catalog, the manager.         *)

Write(f, content) ==
    /\ writes < MaxWrites /\ files[f].is # content
    /\ files' = [files EXCEPT ![f] = [is |-> content, version |-> @.version + 1]]
    /\ expired' = (expired /\ f # "readiness")
    /\ writes' = writes + 1
    /\ UNCHANGED <<shown, requests, at, key, missed, troubles, byHand>>

Expire ==
    /\ ~expired /\ writes < MaxWrites
    /\ expired' = TRUE /\ writes' = writes + 1
    /\ UNCHANGED <<files, shown, requests, at, key, missed, troubles, byHand>>

\* The page's catalog is refreshed: the file is taken over, or kept beside a mark that it is stale.
Observe ==
    /\ shown' = IF files.catalog.is = None THEN [shown EXCEPT !.current = FALSE]
                ELSE [catalog |-> files.catalog.is, current |-> TRUE]
    /\ shown' # shown
    /\ UNCHANGED <<files, expired, requests, at, key, missed, writes, troubles, byHand>>

Becomes(q, status) ==
    /\ requests' = [requests EXCEPT ![q].status = status]
    /\ UNCHANGED <<files, expired, shown, at, key, missed, writes, troubles, byHand>>

\* A builder takes it up under the very evidence it was admitted under, if few others build.
Claim(q) ==
    /\ requests[q].status = "queued" /\ requests[q].binding = files.readiness.is /\ Verified(requests[q].binding)
    /\ Cardinality({other \in DOMAIN requests : requests[other].status = "claimed"}) < CodingLimit
    /\ Becomes(q, "claimed")

Complete(q) == requests[q].status = "claimed" /\ Becomes(q, "completed")
Cancel(q) == requests[q].status = "queued" /\ Becomes(q, "cancelled")

Next ==
    \/ Wake \/ WakeInVain \/ Ask
    \/ \E c \in Caller :
        \/ ReadPacket(c) \/ ReadReadiness(c) \/ Verify(c) \/ Prepare(c) \/ Enqueue(c)
        \/ Trouble(c) \/ StoreTrouble(c)
    \/ \E p \in Packet : Write("packet", p)
    \/ \E r \in Readiness : Write("readiness", r)
    \/ \E c \in Catalog \cup {None} : Write("catalog", c)
    \/ Expire \/ Observe
    \/ \E q \in DOMAIN requests : Claim(q) \/ Complete(q) \/ Cancel(q)

Spec == Init /\ [][Next]_vars

-----------------------------------------------------------------------------
\* Whatever is replaced meanwhile, a request stands under a readiness record that
\* names the very packet the request was computed from.
AdmittedAsPlanned == \A q \in DOMAIN requests : requests[q].packet = requests[q].binding.packet

\* When the console sees nothing new to evaluate, no ticket is left that could start,
\* unless the store failed.
NothingLeft ==
    /\ at["console"] = Idle /\ key = KeyNow /\ ~missed
    /\ Verified(files.readiness.is) /\ Witnessed(files.readiness.is) /\ files.readiness.is.catalog = shown.catalog
    => Frontier("console", files.packet.is) = << >>

\* As long as the owner leaves the dispatch to the console and the first packet stands,
\* no more tickets are out than it allows.
WithinCapacity ==
    byHand = 0 /\ files.packet.version = 0 => Cardinality({n \in Node : Active(n)}) <= files.packet.is.capacity
=============================================================================
