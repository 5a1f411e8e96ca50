---------------------------- MODULE DeliverySync ----------------------------
(***************************************************************************)
(* console/delivery-synchronization.ts with integrations/delivery-*.ts: a  *)
(* loop that looks at one ticket and its pull request, three times, and    *)
(* has the ticket moved by an action its owner signed before; the executor *)
(* looks a fourth time.  A look is several requests, between any two of    *)
(* which people move the ticket, push, check, merge or close the request,  *)
(* put another packet in place or revoke the run it acts under.            *)
(*                                                                         *)
(* The admission itself is ActionAdmission: here an intention and whether  *)
(* it is resolved.  A packet carries the evidence its owner retains and    *)
(* the one request signed for the ticket.                                  *)
(***************************************************************************)
EXTENDS Naturals

CONSTANTS Heads, Packets, Protected, Human, None, MaxChanges, MaxTroubles

\* A packet: the heads reviewed, the merge verified as deployed, and as accepted, and the
\* move that is signed with the run it is signed for.
SyncAssumption ==
    /\ Protected \subseteq Human
    /\ \A p \in Packets : p.reviewed \subseteq Heads /\ p.deployed \in Heads \cup {None} /\ p.accepted \in Heads \cup {None}
    /\ \A p \in Packets : p.signed # None
    /\ \A p, q \in Packets : p.signed = q.signed => p.run = q.run
    /\ MaxChanges \in Nat /\ MaxTroubles \in Nat

VARIABLES
    status,     \* of the ticket, in Jira
    pull,       \* the pull request: its head, what became of it
    green,      \* the heads whose checks pass
    packet,     \* the packet in place
    revoked,    \* the runs whose authority is revoked
    intents,    \* the moves on record as intended
    resolved,   \* those of them with a receipt
    attempt,    \* the attempt in hand
    posts,      \* history: how often each move was requested of Jira
    since,      \* history: what was true at some moment since the last look began
    changes, troubles

vars == <<status, pull, green, packet, revoked, intents, resolved, attempt, posts, since, changes, troubles>>
world == <<status, pull, green, packet, revoked>>

\* A move: from one status to another, for the head or the merge of a revision.
Move(from, to, kind, of) == [from |-> from, to |-> to, kind |-> kind, of |-> of]
Moves == {p.signed : p \in Packets}

NoSight == [status |-> None, head |-> None, is |-> None, green |-> FALSE]
Idle == [at |-> "idle", look |-> 0, packet |-> None, seen |-> NoSight, move |-> None]

Now == [status |-> {status}, pull |-> {pull}, green |-> green, packet |-> {packet}, authority |-> packet.run \notin revoked]

Init ==
    /\ status \in Human \ Protected
    /\ pull \in [head : Heads, is : {"open"}] /\ green \in SUBSET Heads
    /\ packet \in Packets /\ revoked = {}
    /\ intents = {} /\ resolved = {} /\ attempt = Idle
    /\ posts = [m \in Moves |-> 0] /\ since = Now
    /\ changes = 0 /\ troubles = 0

-----------------------------------------------------------------------------
\* planDeliverySynchronization, of a ticket that was looked at under a packet.
Verified(p, seen) == p.deployed = seen.head
Accepted(p, seen) == p.accepted = seen.head

Ready(p, seen) == seen.head \in p.reviewed /\ seen.green

Target(p, seen) ==
    IF seen.is = "open" THEN IF Ready(p, seen) THEN "ready" ELSE None
    ELSE IF ~Verified(p, seen) THEN None
    ELSE IF Accepted(p, seen) THEN "accepted" ELSE "deployed"

\* What is to be done, if the packet's request is bound to the revision it is done for.
Planned(p, seen) ==
    LET to == Target(p, seen)
        move == Move(seen.status, to, IF seen.is = "open" THEN "head" ELSE "merge", seen.head)
    IN IF /\ seen.is # "closed" /\ seen.status \notin Protected
          /\ to # None /\ to # seen.status
          /\ <<p.signed.kind, p.signed.of>> = <<move.kind, move.of>>
       THEN move ELSE None

\* currentAuthority: of the attempt's packet, with nothing unresolved but its own move.
Unresolved(run) == {m \in intents \ resolved : \E p \in Packets : p.signed = m /\ p.run = run}

\* Slip (UnresolvedHolds): only the run's authority is asked for.
AuthorityUnheld(own) == packet = attempt.packet /\ attempt.packet.run \notin revoked
Authority(own) ==
    /\ packet = attempt.packet /\ attempt.packet.run \notin revoked
    /\ Unresolved(attempt.packet.run) \subseteq own

-----------------------------------------------------------------------------
Goes(at) == attempt' = [attempt EXCEPT !.at = at]
Over == attempt' = Idle

\* tick: one attempt at a time, of the packet as it is loaded.
Tick ==
    /\ attempt = Idle
    /\ attempt' = [Idle EXCEPT !.at = "look", !.look = 1, !.packet = packet]
    /\ UNCHANGED <<world, intents, resolved, posts, since, changes, troubles>>

\* A look fails if the packet is another one, before it or after it; the action is not done.
LookFails == IF attempt.look = 4 THEN Goes("receipt") ELSE Over

LookAtTicket ==
    /\ attempt.at = "look"
    /\ IF packet = attempt.packet
       THEN attempt' = [attempt EXCEPT !.at = "pull", !.seen = [NoSight EXCEPT !.status = status]]
       ELSE LookFails
    /\ since' = IF attempt.look = 4 THEN Now ELSE since
    /\ UNCHANGED <<world, intents, resolved, posts, changes, troubles>>

LookAtPull ==
    /\ attempt.at = "pull"
    /\ attempt' = [attempt EXCEPT !.at = "checks", !.seen.head = pull.head, !.seen.is = pull.is]
    /\ UNCHANGED <<world, intents, resolved, posts, since, changes, troubles>>

LookAtChecks ==
    /\ attempt.at = "checks"
    /\ attempt' = [attempt EXCEPT !.at = "plan", !.seen.green = attempt.seen.head \in green]
    /\ UNCHANGED <<world, intents, resolved, posts, since, changes, troubles>>

\* Slip (MovedOnSight): the executor does not plan again on what it sees.
StillPlannedUnseen(move) == attempt.look = 4 \/ move = Planned(attempt.packet, attempt.seen)
StillPlanned(move) == move = Planned(attempt.packet, attempt.seen)

\* The first look selects; the second signs, with the request that is retained for exactly
\* this move; the third admits; the fourth is the executor's.
Plan ==
    LET move == Planned(attempt.packet, attempt.seen) IN
    /\ attempt.at = "plan"
    /\ IF packet # attempt.packet THEN LookFails
       ELSE CASE attempt.look = 1 ->
                   IF move = None THEN Over ELSE attempt' = [attempt EXCEPT !.at = "look", !.look = 2, !.move = move]
              [] attempt.look = 2 ->
                   IF StillPlanned(attempt.move) /\ attempt.packet.signed = attempt.move
                   THEN attempt' = [attempt EXCEPT !.at = "look", !.look = 3] ELSE Over
              [] attempt.look = 3 -> IF StillPlanned(attempt.move) THEN Goes("admit") ELSE Over
              [] attempt.look = 4 -> Goes(IF StillPlanned(attempt.move) THEN "guard" ELSE "receipt")
    /\ UNCHANGED <<world, intents, resolved, posts, since, changes, troubles>>

\* Slip (MovedOnce): a move is new if the ticket is not where it leads.
NewAgain(move) == status # move.to
New(move) == move \notin intents

\* admit, up to the durable intention.
Admit ==
    /\ attempt.at = "admit"
    /\ IF New(attempt.move) /\ Authority({})
       THEN intents' = intents \cup {attempt.move} /\ Goes("reconcile")
       ELSE Over /\ UNCHANGED intents
    /\ UNCHANGED <<world, resolved, posts, since, changes, troubles>>

\* The guard behind the intention, and what Jira has already.
Reconcile ==
    /\ attempt.at = "reconcile"
    /\ IF Authority({attempt.move}) /\ status # attempt.move.to
       THEN attempt' = [attempt EXCEPT !.at = "look", !.look = 4] ELSE Goes("receipt")
    /\ UNCHANGED <<world, intents, resolved, posts, since, changes, troubles>>

\* Slip (AuthorityStands): the guard before the write is left out.
GuardedBefore == TRUE
Guarded == Authority({attempt.move})

Guard ==
    /\ attempt.at = "guard"
    /\ Goes(IF Guarded THEN "write" ELSE "receipt")
    /\ UNCHANGED <<world, intents, resolved, posts, since, changes, troubles>>

\* The authorization header is taken under the packet; Jira may refuse.
Write ==
    /\ attempt.at = "write" /\ Goes("receipt")
    /\ IF packet = attempt.packet
       THEN /\ posts' = [posts EXCEPT ![attempt.move] = @ + 1]
            /\ status' \in {status, attempt.move.to}
       ELSE UNCHANGED <<posts, status>>
    /\ since' = [since EXCEPT !.status = @ \cup {status'}]
    /\ UNCHANGED <<pull, green, packet, revoked, intents, resolved, changes, troubles>>

Receipt ==
    /\ attempt.at = "receipt"
    /\ resolved' = resolved \cup {attempt.move} /\ Over
    /\ UNCHANGED <<world, intents, posts, since, changes, troubles>>

\* A request or an append fails, or the Console ends; an action in hand may still get a receipt.
InHand == attempt.at = "reconcile" \/ attempt.look = 4

Fails ==
    /\ attempt # Idle /\ troubles < MaxTroubles /\ troubles' = troubles + 1
    /\ Over \/ (InHand /\ attempt.at # "receipt" /\ Goes("receipt"))
    /\ UNCHANGED <<world, intents, resolved, posts, since, changes>>

-----------------------------------------------------------------------------
\* People at work.
Moved == status' \in Human \ {status} /\ UNCHANGED <<pull, green, packet, revoked>>

PullChanges ==
    /\ pull.is # "merged"
    /\ pull' \in [head : Heads, is : {"open"}] \cup {[pull EXCEPT !.is = how] : how \in {"merged", "closed"}}
    /\ pull' # pull
    /\ UNCHANGED <<status, green, packet, revoked>>

Checked == \E h \in Heads : green' = IF h \in green THEN green \ {h} ELSE green \cup {h}

PeopleWork ==
    /\ changes < MaxChanges /\ changes' = changes + 1
    /\ \/ Moved
       \/ PullChanges
       \/ Checked /\ UNCHANGED <<status, pull, packet, revoked>>
       \/ packet' \in Packets \ {packet} /\ UNCHANGED <<status, pull, green, revoked>>
       \/ packet.run \notin revoked /\ revoked' = revoked \cup {packet.run} /\ UNCHANGED <<status, pull, green, packet>>
    /\ since' = [status |-> since.status \cup {status'}, pull |-> since.pull \cup {pull'}, green |-> since.green \cup green',
                 packet |-> since.packet \cup {packet'}, authority |-> since.authority]
    /\ UNCHANGED <<intents, resolved, attempt, posts, troubles>>

Next ==
    \/ Tick \/ LookAtTicket \/ LookAtPull \/ LookAtChecks \/ Plan
    \/ Admit \/ Reconcile \/ Guard \/ Write \/ Receipt \/ Fails
    \/ PeopleWork

Spec == Init /\ [][Next]_vars

-----------------------------------------------------------------------------
Posted(m) == posts'[m] > posts[m]

\* A move is requested of Jira at most once, over failures, restarts and new packets.
MovedOnce == \A m \in Moves : posts[m] <= 1

\* Each thing a move rests on was so at some moment of the last look or after it: the
\* status, the head reviewed and its checks or the merge deployed, and the packet that says so.
MovedOnSight ==
    [][\A m \in Moves : Posted(m) =>
          /\ m.from \in since.status \ Protected
          /\ \E p \in since.packet, q \in since.pull :
                /\ p.signed = m /\ q.head = m.of
                /\ IF m.kind = "head" THEN q.is = "open" /\ m.of \in p.reviewed \cap since.green
                   ELSE q.is = "merged" /\ p.deployed = m.of /\ (m.to = "accepted" => p.accepted = m.of)]_vars

\* A run that is revoked when the last look begins moves nothing.
AuthorityStands == [][\A m \in Moves : Posted(m) => since.authority]_vars

\* Nothing is moved under a run with another move that nobody knows the end of.
UnresolvedHolds ==
    [][\A m \in Moves : Posted(m) => Unresolved(attempt.packet.run) \subseteq {m}]_vars
=============================================================================
