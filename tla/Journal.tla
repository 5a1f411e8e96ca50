------------------------------ MODULE Journal ------------------------------
(***************************************************************************)
(* The operational journal of a factory (src/runtime/journal.ts): a JSONL  *)
(* file whose newline is the commit marker, an in-memory list of the       *)
(* committed events with their digests, and a promise tail that runs the   *)
(* appends one after the other.  Also the reload that every action claim   *)
(* performs on the same object (src/actions/index.ts, withActionClaim).    *)
(*                                                                         *)
(* A record is reduced to an id and a body: digests only ever compare      *)
(* bodies.  The in-memory list is kept as a multiplicity per event, since  *)
(* nothing here depends on its order.                                      *)
(***************************************************************************)
EXTENDS Naturals, Sequences

CONSTANTS
    Caller,        \* concurrent calls of append()
    EventId, Body, \* journal event ids, and what a digest distinguishes
    Malformed,     \* a committed line that does not parse
    WriteModes,    \* how the host may carry out writeFile, see below
    SharedReload,  \* an action journal reloads this same object
    MaxLines       \* bound: lines the file and the waiting calls may reach

Event == [id : EventId, body : Body]

ASSUME JournalAssumption ==
    /\ Malformed \notin Event
    /\ WriteModes \subseteq {"whole", "split", "short", "refused", "unsynced"}
    /\ SharedReload \in BOOLEAN
    /\ MaxLines \in Nat

VARIABLES
    file,    \* committed lines, in order
    frag,    \* bytes after the last newline: none, mine (the writer's intact
             \* prefix) or stale (anything that cannot become a record)
    durable, \* number of lines that are flushed to the device
    open,    \* a process has the journal open
    mem,     \* #events and #digests: how often each event is listed
    tail,    \* #tail: the calls waiting for the file; the head holds it
    step,    \* how far the write of the head has come
    reload,  \* recover() called by an action claim
    issued,  \* which incarnation drew an event id
    acked    \* history: events whose append() returned

vars == <<file, frag, durable, open, mem, tail, step, reload, issued, acked>>

Waiting == [by : Caller, event : Event]
ReloadState == [pc : {"idle", "read"}, lines : Seq(Event \cup {Malformed}), frag : BOOLEAN]
IdleReload == [pc |-> "idle", lines |-> <<>>, frag |-> FALSE]

TypeOK ==
    /\ file \in Seq(Event \cup {Malformed})
    /\ frag \in {"none", "mine", "stale"}
    /\ durable \in Nat
    /\ open \in BOOLEAN
    /\ mem \in [Event -> Nat]
    /\ tail \in Seq(Waiting)
    /\ step \in {"queued", "writing", "written", "synced"}
    /\ reload \in ReloadState
    /\ issued \in [EventId -> {"fresh", "current", "past"}]
    /\ acked \subseteq Event

NoEvents == [e \in Event |-> 0]

Init ==
    /\ file = <<>> /\ frag = "none" /\ durable = 0
    /\ open = FALSE /\ mem = NoEvents
    /\ tail = <<>> /\ step = "queued"
    /\ reload = IdleReload
    /\ issued = [i \in EventId |-> "fresh"]
    /\ acked = {}

-----------------------------------------------------------------------------
\* What a reader makes of the committed lines.

Stored(lines) == {lines[i] : i \in DOMAIN lines}

\* recover() accepts the lines: all parse, and a repeated id repeats its digest.
Readable(lines) ==
    /\ Malformed \notin Stored(lines)
    /\ \A e, f \in Stored(lines) : e.id = f.id => e = f

\* Slip (TypeOK): only the events that were found get an entry.
RecoveredPartial(lines) == [e \in Stored(lines) |-> 1]

Recovered(lines) == [e \in Event |-> IF e \in Stored(lines) THEN 1 ELSE 0]

Known(e) == mem[e] > 0
Conflicts(e) == \E f \in Event : f.id = e.id /\ f # e /\ mem[f] > 0

-----------------------------------------------------------------------------
\* A process opens the journal.  recover() discards an unterminated tail and
\* refuses malformed or conflicting lines: the process does not come up.

Open ==
    /\ ~open
    /\ Readable(file)
    /\ open' = TRUE
    /\ mem' = Recovered(file)
    /\ frag' = "none"
    /\ durable' = IF frag = "none" THEN durable ELSE Len(file)
    /\ UNCHANGED <<file, tail, step, reload, issued, acked>>

-----------------------------------------------------------------------------
\* append().  Ids are random (journal.event) or drawn once per record by the
\* action journal, so no call repeats an id of an earlier incarnation.

Busy(c) == \E i \in DOMAIN tail : tail[i].by = c

Call(c, e) ==
    /\ open
    /\ ~Busy(c)
    /\ issued[e.id] # "past"
    /\ issued' = [issued EXCEPT ![e.id] = "current"]

\* The digest is known: nothing is written.
AppendKnown(c, e) ==
    /\ Call(c, e)
    /\ Known(e) /\ ~Conflicts(e)
    /\ acked' = acked \cup {e}
    /\ UNCHANGED <<file, frag, durable, open, mem, tail, step, reload>>

AppendConflict(c, e) ==
    /\ Call(c, e)
    /\ Conflicts(e)
    /\ UNCHANGED <<file, frag, durable, open, mem, tail, step, reload, acked>>

Enqueue(c, e) ==
    /\ Call(c, e)
    /\ ~Known(e) /\ ~Conflicts(e)
    /\ Len(file) + Len(tail) < MaxLines
    /\ tail' = Append(tail, [by |-> c, event |-> e])
    /\ UNCHANGED <<file, frag, durable, open, mem, step, reload, acked>>

-----------------------------------------------------------------------------
\* write(), run by the call at the head of the tail.

Current == Head(tail).event

AtStep(at) == open /\ tail # <<>> /\ step = at

\* The call is over, whatever its result; the tail goes on with the next one.
Leave == tail' = Tail(tail) /\ step' = "queued"

\* The digests are looked up again: another call may have committed the id.
HeadKnown ==
    /\ AtStep("queued")
    /\ Known(Current) /\ ~Conflicts(Current)
    /\ Leave
    /\ acked' = acked \cup {Current}
    /\ UNCHANGED <<file, frag, durable, open, mem, reload, issued>>

HeadConflict ==
    /\ AtStep("queued")
    /\ Conflicts(Current)
    /\ Leave
    /\ UNCHANGED <<file, frag, durable, open, mem, reload, issued, acked>>

\* Slip (AlwaysReadable): the digests are not looked up again at the head.
MayWriteUnchecked(mode) == AtStep("queued") /\ mode \in WriteModes

\* Slip (MemoryFaithful): only a conflicting digest is looked for again.
MayWriteRepeated(mode) ==
    AtStep("queued") /\ ~Conflicts(Current) /\ mode \in WriteModes

MayWrite(mode) ==
    /\ AtStep("queued")
    /\ ~Known(Current) /\ ~Conflicts(Current)
    /\ mode \in WriteModes

\* The bytes after the last newline and this record end up on one line.
WriteWhole ==
    /\ MayWrite("whole")
    /\ file' = Append(file, IF frag = "none" THEN Current ELSE Malformed)
    /\ frag' = "none"
    /\ step' = "written"
    /\ UNCHANGED <<durable, open, mem, tail, reload, issued, acked>>

\* A reader can see the record before its newline is there.
WriteBegin ==
    /\ MayWrite("split")
    /\ frag' = IF frag = "none" THEN "mine" ELSE "stale"
    /\ step' = "writing"
    /\ UNCHANGED <<file, durable, open, mem, tail, reload, issued, acked>>

WriteEnd ==
    /\ AtStep("writing")
    /\ file' = Append(file, IF frag = "mine" THEN Current ELSE Malformed)
    /\ frag' = "none"
    /\ step' = "written"
    /\ UNCHANGED <<durable, open, mem, tail, reload, issued, acked>>

\* Slip (AppendsSettle): the tail is chained on success only.
RefusedBlocksTail ==
    /\ MayWrite("refused")
    /\ step' = "rejected" /\ UNCHANGED tail
    /\ UNCHANGED <<file, frag, durable, open, mem, reload, issued, acked>>

\* Slip (KeepsEventLog): append() awaits the tail, which swallows the error.
RefusedAcknowledged ==
    /\ MayWrite("refused")
    /\ Leave
    /\ acked' = acked \cup {Current}
    /\ UNCHANGED <<file, frag, durable, open, mem, reload, issued>>

\* The device refuses the write before any byte of it, or after some.
WriteRefused ==
    /\ MayWrite("refused")
    /\ Leave
    /\ UNCHANGED <<file, frag, durable, open, mem, reload, issued, acked>>

WriteShort ==
    /\ MayWrite("short")
    /\ frag' = "stale"
    /\ Leave
    /\ UNCHANGED <<file, durable, open, mem, reload, issued, acked>>

SyncLine ==
    /\ AtStep("written")
    /\ durable' = Len(file)
    /\ step' = "synced"
    /\ UNCHANGED <<file, frag, open, mem, tail, reload, issued, acked>>

SyncFails ==
    /\ AtStep("written")
    /\ "unsynced" \in WriteModes
    /\ Leave
    /\ UNCHANGED <<file, frag, durable, open, mem, reload, issued, acked>>

\* Slip (AckedDurable): append() returns before the sync.
CommitUnsynced ==
    /\ AtStep("written")
    /\ mem' = [mem EXCEPT ![Current] = @ + 1]
    /\ acked' = acked \cup {Current}
    /\ Leave
    /\ UNCHANGED <<file, frag, durable, open, reload, issued>>

\* close(), then the event enters the in-memory list and append() returns.
Commit ==
    /\ AtStep("synced")
    /\ mem' = [mem EXCEPT ![Current] = @ + 1]
    /\ acked' = acked \cup {Current}
    /\ Leave
    /\ UNCHANGED <<file, frag, durable, open, reload, issued>>

-----------------------------------------------------------------------------
\* recover() called by withActionClaim while appends are in flight: the file is
\* read, an unterminated tail is cut off, and the list is replaced.

ReloadRead ==
    /\ SharedReload /\ open /\ reload.pc = "idle"
    /\ reload' = [pc |-> "read", lines |-> file, frag |-> frag # "none"]
    /\ UNCHANGED <<file, frag, durable, open, mem, tail, step, issued, acked>>

\* truncate() uses the length computed from the bytes read earlier.
ReloadTruncate ==
    /\ open /\ reload.pc = "read" /\ reload.frag
    /\ file' = SubSeq(file, 1, Len(reload.lines))
    /\ frag' = "none"
    /\ durable' = Len(reload.lines)
    /\ reload' = [reload EXCEPT !.frag = FALSE]
    /\ UNCHANGED <<open, mem, tail, step, issued, acked>>

ReloadInstall ==
    /\ open /\ reload.pc = "read" /\ ~reload.frag
    /\ mem' = IF Readable(reload.lines) THEN Recovered(reload.lines) ELSE mem
    /\ reload' = IdleReload
    /\ UNCHANGED <<file, frag, durable, open, tail, step, issued, acked>>

-----------------------------------------------------------------------------
\* The process dies (the page cache survives), or the host loses power (only
\* flushed lines are certain to be there).

Die ==
    /\ open
    /\ open' = FALSE
    /\ mem' = NoEvents
    /\ tail' = <<>> /\ step' = "queued"
    /\ reload' = IdleReload
    /\ issued' = [i \in EventId |-> IF issued[i] = "current" THEN "past" ELSE issued[i]]
    /\ UNCHANGED acked

ProcessCrash ==
    /\ Die
    /\ frag' = IF frag = "none" THEN "none" ELSE "stale"
    /\ UNCHANGED <<file, durable>>

PowerLoss ==
    /\ Die
    /\ \E n \in durable..Len(file) : file' = SubSeq(file, 1, n)
    /\ frag' \in {"none", "stale"}
    /\ UNCHANGED durable

-----------------------------------------------------------------------------
Write ==
    \/ HeadKnown \/ HeadConflict
    \/ WriteWhole \/ WriteBegin \/ WriteEnd \/ WriteRefused \/ WriteShort
    \/ SyncLine \/ SyncFails \/ Commit

Next ==
    \/ Open
    \/ \E c \in Caller, e \in Event :
          AppendKnown(c, e) \/ AppendConflict(c, e) \/ Enqueue(c, e)
    \/ Write
    \/ ReloadRead \/ ReloadTruncate \/ ReloadInstall
    \/ ProcessCrash \/ PowerLoss

Spec == Init /\ [][Next]_vars

\* The host completes the file operations of the call at the head of the tail.
FairSpec == Spec /\ WF_vars(Write)

-----------------------------------------------------------------------------
Flushed == {file[i] : i \in 1..durable}

\* An event whose append() returned is on a complete, flushed line: neither a
\* crash nor a power loss can take it back (write, then sync, then return).
AckedDurable ==
    /\ durable <= Len(file)
    /\ acked \subseteq Flushed

\* Whatever interrupts it, the journal leaves a file that the next start
\* accepts: no malformed line, no id with two different bodies, although two
\* calls may race for an id.
AlwaysReadable == Readable(file)

\* The list that admission, recovery and duplicate detection read holds each
\* acknowledged event exactly once.
MemoryFaithful == open => \A e \in acked : issued[e.id] = "current" => mem[e] = 1

\* Every append settles: a refused or failed write never blocks the calls
\* queued behind it.
AppendsSettle == \A c \in Caller : Busy(c) ~> ~Busy(c)

\* The journal keeps the promise of an event log: what was acknowledged stays.
Log == INSTANCE EventLog WITH
    Line <- Event \cup {Malformed}, log <- file, promised <- acked
KeepsEventLog == Log!Spec
=============================================================================
