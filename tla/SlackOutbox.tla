----------------------------- MODULE SlackOutbox -----------------------------
(* Notifications that controllers send to Slack over a router: an intent on  *)
(* record, the authority, the post, and what became of it. A post may be     *)
(* answered in any way, late or not at all; a receipt may be asked for; only *)
(* what is proved absent is sent again. Callers share a journal and its lock *)
(* files, and may end anywhere; an append may fail, written or not.          *)
EXTENDS Naturals, Sequences, SequencesExt, Functions

CONSTANTS
    Caller,
    Note,           \* notifications: [event, subject, text]
    None, Left,     \* nobody; a lock file whose process is gone
    MaxCalls, MaxTroubles

OutboxAssumption ==
    /\ {MaxCalls, MaxTroubles} \subseteq Nat
    /\ {None, Left} \cap Caller = {}

VARIABLES
    journal,    \* the records [kind, of]
    tail,       \* its last line is whole, lacks its end, or cannot be parsed
    event, subject,     \* the lock files: who holds each
    call,       \* per caller: where it is, what for, and of which notification
    posts,      \* the requests to the router [of, state]
    told,       \* events of which a caller was told that they are delivered
    calls, troubles

vars == <<journal, tail, event, subject, call, posts, told, calls, troubles>>

Events == {n.event : n \in Note}
Subjects == {n.subject : n \in Note}
Idle == [at |-> "idle", op |-> None, of |-> None, post |-> 0]
Operations == {"dispatch", "reconcile", "retry", "acknowledge"}

Init ==
    /\ journal = << >> /\ tail = "whole"
    /\ event = [e \in Events |-> None] /\ subject = [s \in Subjects |-> None]
    /\ call = [c \in Caller |-> Idle]
    /\ posts = << >> /\ told = {}
    /\ calls = 0 /\ troubles = 0

Trouble == troubles < MaxTroubles /\ troubles' = troubles + 1

-----------------------------------------------------------------------------
(* What the journal says.                                                   *)

Readable == tail # "broken"
On(e) == {i \in DOMAIN journal : journal[i].of.event = e}
Outcomes == {"delivery", "uncertain", "blocked"}
Said(e) == {i \in On(e) : journal[i].kind \in Outcomes}

\* The first intent of an event binds it to a subject and a payload.
Bound(n) ==
    \E i \in On(n.event) :
        /\ journal[i] = [kind |-> "intent", of |-> n]
        /\ \A j \in On(n.event) : journal[j].kind = "intent" => i <= j

\* The last of these records is of this kind.
LastOf(S, kind) == \E i \in S : journal[i].kind = kind /\ \A j \in S : j <= i

\* The last outcome decides, and an acknowledgement is none.
DeliveryBy(e, S) ==
    IF On(e) = {} THEN "none"
    ELSE IF \E k \in Outcomes : LastOf(S, k) THEN CHOOSE k \in Outcomes : LastOf(S, k) ELSE "intended"
\* Slip: the last record decides, an acknowledgement among them.
AckCounts(e) == DeliveryBy(e, On(e))
\* Slip: a denial is not final.
DenialFades(e) == DeliveryBy(e, {i \in Said(e) : journal[i].kind # "blocked"})
Delivery(e) == DeliveryBy(e, Said(e))

-----------------------------------------------------------------------------
(* A call and its claims.                                                   *)

At(c, at) == call[c].at = at
Go(c, at) == call' = [call EXCEPT ![c].at = at]
Event(c) == call[c].of.event

Begin(c) ==
    /\ At(c, "idle") /\ calls < MaxCalls /\ calls' = calls + 1
    /\ \E op \in Operations, n \in Note :
         /\ op # "dispatch" => Readable /\ Bound(n)
         /\ call' = [call EXCEPT ![c] = [at |-> "event", op |-> op, of |-> n, post |-> 0]]
    /\ UNCHANGED <<journal, tail, event, subject, posts, told, troubles>>

Release(c) ==
    /\ event' = [e \in Events |-> IF event[e] = c THEN None ELSE event[e]]
    /\ subject' = [s \in Subjects |-> IF subject[s] = c THEN None ELSE subject[s]]

\* The call returns, or throws, and its claims are given up.
Return(c) == call' = [call EXCEPT ![c] = Idle] /\ Release(c)

\* Of the two claims that of the event is made first.
ClaimEvent(c) ==
    /\ At(c, "event") /\ event[Event(c)] = None
    /\ event' = [event EXCEPT ![Event(c)] = c]
    /\ Go(c, "subject")
    /\ UNCHANGED <<journal, tail, subject, posts, told, calls, troubles>>

ClaimSubject(c) ==
    /\ At(c, "subject") /\ subject[call[c].of.subject] = None
    /\ subject' = [subject EXCEPT ![call[c].of.subject] = c]
    /\ Go(c, "look")
    /\ UNCHANGED <<journal, tail, event, posts, told, calls, troubles>>

\* slack_claim_unresolved, after some time.
GiveUp(c) ==
    /\ \/ At(c, "event") /\ event[Event(c)] # None
       \/ At(c, "subject") /\ subject[call[c].of.subject] # None
    /\ Return(c)
    /\ UNCHANGED <<journal, tail, posts, told, calls, troubles>>

\* The lock file was created and could not be written: nobody owns it.
ClaimFails(c) ==
    /\ Trouble
    /\ \/ /\ At(c, "event") /\ event[Event(c)] = None
          /\ event' = [event EXCEPT ![Event(c)] = Left] /\ UNCHANGED subject
       \/ /\ At(c, "subject") /\ subject[call[c].of.subject] = None
          /\ subject' = [subject EXCEPT ![call[c].of.subject] = Left]
          /\ event' = [event EXCEPT ![Event(c)] = None]
    /\ call' = [call EXCEPT ![c] = Idle]
    /\ UNCHANGED <<journal, tail, posts, told, calls>>

-----------------------------------------------------------------------------
(* Appends. A line without its end is read, and spoilt by the next one.      *)

Kind == [intend |-> "intent", block |-> "blocked", confirm |-> "delivery", doubt |-> "uncertain",
         note |-> "delivery", acknowledge |-> "acknowledged"]
Appending(c) == call[c].at \in DOMAIN Kind

Write(c, end) ==
    /\ journal' = Append(journal, [kind |-> Kind[call[c].at], of |-> call[c].of])
    /\ tail' = IF tail = "whole" THEN end ELSE "broken"

MayWrite(c) == UNCHANGED <<journal, tail>> \/ \E end \in {"whole", "open", "broken"} : Write(c, end)

\* What is on record may be told.
Tell(c) == told' = told \cup {Event(c)}

Record(c) ==
    /\ Appending(c) /\ Write(c, "whole")
    /\ CASE At(c, "intend") -> Go(c, "authorize") /\ UNCHANGED <<event, subject, told>>
         [] At(c, "doubt") -> Go(c, "ask") /\ UNCHANGED <<event, subject, told>>
         [] call[c].at \in {"block", "acknowledge"} -> Return(c) /\ UNCHANGED told
         [] OTHER -> Return(c) /\ Tell(c)
    /\ UNCHANGED <<posts, calls, troubles>>

\* A receipt that cannot be recorded is taken for an answer that did not come.
RecordFails(c) ==
    /\ Trouble /\ Appending(c) /\ MayWrite(c)
    /\ IF At(c, "confirm") THEN Go(c, "doubt") /\ UNCHANGED <<event, subject>> ELSE Return(c)
    /\ UNCHANGED <<posts, told, calls>>

-----------------------------------------------------------------------------
(* What a call does under its claims.                                       *)

\* Slip: nobody compares what the event is bound to.
BindsAnything(c) == TRUE
Binds(c) == \A i \in On(Event(c)) : journal[i].of = call[c].of

\* stateFor; only a dispatch that finds nothing records an intent.
Look(c) ==
    /\ At(c, "look") /\ call[c].op # "acknowledge" /\ Readable /\ Binds(c)
    /\ Delivery(Event(c)) \notin {"delivery", "blocked"}
    /\ Go(c, IF call[c].op = "retry" THEN "prove"
             ELSE IF Delivery(Event(c)) = "none" THEN "intend" ELSE "ask")
    /\ UNCHANGED <<journal, tail, event, subject, posts, told, calls, troubles>>

LookIsFinal(c) ==
    /\ At(c, "look") /\ call[c].op # "acknowledge" /\ Readable /\ Binds(c)
    /\ Delivery(Event(c)) \in {"delivery", "blocked"}
    /\ Return(c)
    /\ IF Delivery(Event(c)) = "delivery" THEN Tell(c) ELSE UNCHANGED told
    /\ UNCHANGED <<journal, tail, posts, calls, troubles>>

\* The journal is corrupt, or the event is bound to something else.
LookThrows(c) ==
    /\ At(c, "look") /\ ~(Readable /\ (call[c].op = "acknowledge" \/ Binds(c)))
    /\ Return(c)
    /\ UNCHANGED <<journal, tail, posts, told, calls, troubles>>

Acknowledge(c) ==
    /\ At(c, "look") /\ call[c].op = "acknowledge" /\ Readable
    /\ IF \E i \in On(Event(c)) : journal[i].kind = "acknowledged"
       THEN Return(c) ELSE Go(c, "acknowledge") /\ UNCHANGED <<event, subject>>
    /\ UNCHANGED <<journal, tail, posts, told, calls, troubles>>

\* The guard of the signed action.
Authorized(c) ==
    /\ At(c, "authorize") /\ Go(c, "send")
    /\ UNCHANGED <<journal, tail, event, subject, posts, told, calls, troubles>>

Denied(c) ==
    /\ At(c, "authorize")
    /\ IF call[c].op = "dispatch" THEN Go(c, "block") /\ UNCHANGED <<event, subject>> ELSE Return(c)
    /\ UNCHANGED <<journal, tail, posts, told, calls, troubles>>

Post(c) ==
    /\ At(c, "send")
    /\ posts' = Append(posts, [of |-> call[c].of, state |-> "under way"])
    /\ call' = [call EXCEPT ![c].at = "wait", ![c].post = Len(posts) + 1]
    /\ UNCHANGED <<journal, tail, event, subject, told, calls, troubles>>

\* The router gives its receipt for what it delivered.
Confirmed(c) ==
    /\ At(c, "wait") /\ posts[call[c].post].state = "delivered"
    /\ Go(c, "confirm")
    /\ UNCHANGED <<journal, tail, event, subject, posts, told, calls, troubles>>

\* An error, an answer without a receipt, or none in time: it says nothing of the message.
Ambiguous(c) ==
    /\ At(c, "wait") /\ Go(c, "doubt")
    /\ UNCHANGED <<journal, tail, event, subject, posts, told, calls, troubles>>

Requests(n) == {p \in ToSet(posts) : p.of = n}
Delivered(n) == \E p \in Requests(n) : p.state = "delivered"
\* Proved: what is still under way is not absent.
Absent(n) == \A p \in Requests(n) : p.state = "lost"

ReceiptDelivered(c) ==
    /\ call[c].at \in {"ask", "prove"} /\ Delivered(call[c].of)
    /\ Go(c, "note")
    /\ UNCHANGED <<journal, tail, event, subject, posts, told, calls, troubles>>

\* Slip: a retry goes on unless the message is there.
RetryAnyhow(c) ==
    /\ At(c, "prove") /\ ~Delivered(call[c].of)
    /\ Go(c, "authorize")
    /\ UNCHANGED <<journal, tail, event, subject, posts, told, calls, troubles>>
\* Only a retry goes on from there.
ReceiptAbsent(c) ==
    /\ At(c, "prove") /\ Absent(call[c].of)
    /\ Go(c, "authorize")
    /\ UNCHANGED <<journal, tail, event, subject, posts, told, calls, troubles>>

\* Absent for a reconciliation, unavailable, or nobody to ask: it stays uncertain.
StaysUncertain(c) ==
    /\ call[c].at \in {"ask", "prove"} /\ Return(c)
    /\ UNCHANGED <<journal, tail, posts, told, calls, troubles>>

-----------------------------------------------------------------------------
(* Around the calls.                                                        *)

\* The router, with a request its caller may have left.
Settle(i, state) ==
    /\ posts[i].state = "under way"
    /\ posts' = [posts EXCEPT ![i].state = state]
    /\ UNCHANGED <<journal, tail, event, subject, call, told, calls, troubles>>

\* A process ends: its lock files stay.
Crash(c) ==
    /\ ~At(c, "idle") /\ Trouble
    /\ IF Appending(c) THEN MayWrite(c) ELSE UNCHANGED <<journal, tail>>
    /\ event' = [e \in Events |-> IF event[e] = c THEN Left ELSE event[e]]
    /\ subject' = [s \in Subjects |-> IF subject[s] = c THEN Left ELSE subject[s]]
    /\ call' = [call EXCEPT ![c] = Idle]
    /\ UNCHANGED <<posts, told, calls>>

\* The owner removes what a process left behind.
LocksRemoved ==
    /\ Left \in Range(event) \cup Range(subject)
    /\ event' = [e \in Events |-> IF event[e] = Left THEN None ELSE event[e]]
    /\ subject' = [s \in Subjects |-> IF subject[s] = Left THEN None ELSE subject[s]]
    /\ UNCHANGED <<journal, tail, call, posts, told, calls, troubles>>

Next ==
    \/ \E c \in Caller :
         \/ Begin(c) \/ ClaimEvent(c) \/ ClaimSubject(c) \/ GiveUp(c) \/ ClaimFails(c)
         \/ Look(c) \/ LookIsFinal(c) \/ LookThrows(c) \/ Acknowledge(c)
         \/ Authorized(c) \/ Denied(c) \/ Post(c) \/ Confirmed(c) \/ Ambiguous(c)
         \/ ReceiptDelivered(c) \/ ReceiptAbsent(c) \/ StaysUncertain(c)
         \/ Record(c) \/ RecordFails(c) \/ Crash(c)
    \/ \E i \in DOMAIN posts : Settle(i, "delivered") \/ Settle(i, "lost")
    \/ LocksRemoved

Spec == Init /\ [][Next]_vars

-----------------------------------------------------------------------------
\* However a post was answered, whoever ended and whatever was sent again, an event is
\* one message in Slack at most.
OneMessage ==
    \A i, j \in DOMAIN posts :
        posts[i].state = "delivered" /\ posts[j].state = "delivered" /\ posts[i].of.event = posts[j].of.event => i = j

\* What is recorded as denied was not sent before, nor is it later.
BlockedUnsent ==
    \A r \in ToSet(journal), p \in ToSet(posts) : r.kind = "blocked" => r.of.event # p.of.event

\* An event that a caller was told is delivered is there, and the journal says so as long
\* as it can be read, whatever else is recorded of it.
ToldStands ==
    \A e \in told : /\ \E p \in ToSet(posts) : p.of.event = e /\ p.state = "delivered"
                    /\ Readable => Delivery(e) = "delivery"

\* Everything that is recorded or sent under an event is of one notification.
OneBinding ==
    \A r \in ToSet(journal), o \in ToSet(journal) \cup ToSet(posts) : r.of.event = o.of.event => r.of = o.of
=============================================================================
