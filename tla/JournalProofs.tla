--------------------------- MODULE JournalProofs ---------------------------
(***************************************************************************)
(* Proofs about the operational journal, for any number of callers, ids    *)
(* and lines.  Types hold on every host.  The safety properties hold on a  *)
(* reliable host: a write happens whole, in pieces or not at all, a sync   *)
(* succeeds, and nobody reloads the live object.  The runs Journal_short   *)
(* and Journal_reload show that neither assumption can be dropped.         *)
(***************************************************************************)
EXTENDS Journal, SequenceTheorems, TLAPS

Reliable == ~SharedReload /\ WriteModes \subseteq {"whole", "split", "refused"}

\* Two facts about sequences that several steps need.
LEMMA PrefixOfSeq ==
    ASSUME NEW S, NEW s \in Seq(S), NEW n \in 0..Len(s)
    PROVE  /\ SubSeq(s, 1, n) \in Seq(S)
           /\ Len(SubSeq(s, 1, n)) = n
           /\ \A i \in 1..n : SubSeq(s, 1, n)[i] = s[i]
BY SubSeqProperties

LEMMA TailOfSeq ==
    ASSUME NEW S, NEW s \in Seq(S), s # <<>>
    PROVE  /\ Head(s) \in S /\ Head(s) = s[1]
           /\ Tail(s) \in Seq(S)
           /\ Len(Tail(s)) = Len(s) - 1
           /\ \A i \in 1..Len(Tail(s)) : Tail(s)[i] = s[i + 1]
BY HeadTailProperties

LEMMA AppendToSeq ==
    ASSUME NEW S, NEW s \in Seq(S), NEW x \in S
    PROVE  /\ Append(s, x) \in Seq(S)
           /\ Len(Append(s, x)) = Len(s) + 1
           /\ \A i \in 1..Len(s) : Append(s, x)[i] = s[i]
           /\ Append(s, x)[Len(s) + 1] = x
BY AppendProperties

-----------------------------------------------------------------------------
\* A reload never looks at more lines than the file has.
ReloadBehind == reload.pc = "read" => Len(reload.lines) <= Len(file)

TInv == TypeOK /\ ReloadBehind

LEMMA EmptyTypes == /\ \A S : <<>> \in Seq(S)
                    /\ NoEvents \in [Event -> Nat]
                    /\ IdleReload \in ReloadState
<1>1. \A S : <<>> \in Seq(S)
  OBVIOUS
<1>2. NoEvents \in [Event -> Nat]
  BY DEF NoEvents
<1>3. IdleReload \in ReloadState
  BY <1>1 DEF IdleReload, ReloadState
<1> QED BY <1>1, <1>2, <1>3

LEMMA RecoveredType == ASSUME NEW s PROVE Recovered(s) \in [Event -> Nat]
BY DEF Recovered

LEMMA TInvInit == Init => TInv
<1> SUFFICES ASSUME Init PROVE TInv
  OBVIOUS
<1>1. issued \in [EventId -> {"fresh", "current", "past"}]
  BY DEF Init
<1>2. TypeOK
  BY <1>1, EmptyTypes DEF Init, TypeOK
<1>3. ReloadBehind
  BY DEF Init, ReloadBehind, IdleReload
<1> QED BY <1>2, <1>3 DEF TInv

LEMMA TInvStep == TInv /\ [Next]_vars => TInv'
<1> SUFFICES ASSUME TInv, [Next]_vars PROVE TInv'
  OBVIOUS
<1> USE EmptyTypes, RecoveredType DEF TInv, TypeOK, ReloadBehind
<1> DEFINE L == Event \cup {Malformed}
<1>1. CASE Open
  BY <1>1 DEF Open
<1>2. ASSUME NEW c \in Caller, NEW e \in Event, Enqueue(c, e) PROVE TInv'
  BY <1>2 DEF Enqueue, Call, Waiting, Event
<1>3. ASSUME NEW c \in Caller, NEW e \in Event,
             AppendKnown(c, e) \/ AppendConflict(c, e)
      PROVE  TInv'
  BY <1>3 DEF AppendKnown, AppendConflict, Call, Event
<1>4. CASE Write
  <2>1. tail # <<>> => Tail(tail) \in Seq(Waiting) /\ Current \in Event
    <3>1. tail # <<>> => Head(tail) \in Waiting /\ Tail(tail) \in Seq(Waiting)
      BY TailOfSeq
    <3> QED BY <3>1 DEF Waiting, Current
  <2>2. CASE HeadKnown \/ HeadConflict \/ WriteRefused \/ WriteShort \/ SyncFails
    BY <2>1, <2>2 DEF HeadKnown, HeadConflict, WriteRefused, WriteShort, SyncFails,
                      MayWrite, AtStep, Leave
  <2>3. CASE WriteWhole \/ WriteEnd
    <3>1. PICK l \in L : file' = Append(file, l)
      BY <2>1, <2>3 DEF WriteWhole, WriteEnd, MayWrite, AtStep
    <3>2. file' \in Seq(L) /\ Len(file') = Len(file) + 1
      BY <3>1, AppendToSeq
    <3>3. Len(file) \in Nat /\ (reload.pc = "read" => Len(reload.lines) \in Nat)
      BY LenProperties DEF ReloadState
    <3> QED BY <3>2, <3>3, <2>3 DEF WriteWhole, WriteEnd, MayWrite, AtStep
  <2>4. CASE WriteBegin \/ SyncLine
    BY <2>4 DEF WriteBegin, SyncLine, MayWrite, AtStep
  <2>5. CASE Commit
    BY <2>1, <2>5 DEF Commit, AtStep, Leave
  <2> QED BY <1>4, <2>2, <2>3, <2>4, <2>5 DEF Write
<1>5. CASE ReloadRead
  BY <1>5 DEF ReloadRead, ReloadState
<1>6. CASE ReloadTruncate
  <2>1. reload.lines \in Seq(L) /\ Len(reload.lines) \in 0..Len(file)
    BY <1>6, LenProperties DEF ReloadTruncate, ReloadState
  <2>2. file' \in Seq(L) /\ Len(file') = Len(reload.lines)
    BY <1>6, <2>1, PrefixOfSeq DEF ReloadTruncate
  <2>3. reload' \in ReloadState /\ reload'.lines = reload.lines
    BY <1>6 DEF ReloadTruncate, ReloadState
  <2> QED BY <1>6, <2>1, <2>2, <2>3 DEF ReloadTruncate
<1>7. CASE ReloadInstall
  BY <1>7 DEF ReloadInstall, IdleReload
<1>8. CASE ProcessCrash
  BY <1>8 DEF ProcessCrash, Die, IdleReload
<1>9. CASE PowerLoss
  <2> PICK n \in durable..Len(file) : file' = SubSeq(file, 1, n)
    BY <1>9 DEF PowerLoss
  <2> file' \in Seq(L)
    BY PrefixOfSeq
  <2> QED BY <1>9 DEF PowerLoss, Die, IdleReload
<1>10. CASE UNCHANGED vars
  BY <1>10 DEF vars
<1> QED BY <1>1, <1>2, <1>3, <1>4, <1>5, <1>6, <1>7, <1>8, <1>9, <1>10 DEF Next

\* The variables of the journal keep their types on every host, whatever
\* writes, reloads and crashes do.
THEOREM TypeCorrect == Spec => []TypeOK
<1>1. TInv => TypeOK
  BY DEF TInv
<1> QED BY TInvInit, TInvStep, <1>1, PTL DEF Spec

-----------------------------------------------------------------------------
\* The inductive invariant behind the safety properties of a reliable host.

NoReload == reload.pc = "idle"

\* Committed lines are records that some incarnation issued.
FileIssued == \A i \in 1..Len(file) :
                  file[i] \in Event /\ issued[file[i].id] # "fresh"

\* Queued records were issued by the running process.
TailIssued == \A i \in 1..Len(tail) : issued[tail[i].event.id] = "current"

\* A write in progress belongs to the head; its line is the last one.
WriteShape ==
    /\ step # "queued" => open /\ tail # <<>> /\ mem[Current] = 0 /\ ~Conflicts(Current)
    /\ step \in {"written", "synced"} => Len(file) > 0 /\ file[Len(file)] = Current
    /\ step = "synced" => durable = Len(file)
    /\ open => frag = IF step = "writing" THEN "mine" ELSE "none"
    /\ ~open => tail = <<>> /\ \A i \in EventId : issued[i] # "current"

\* The list has every line of this incarnation, except the one being written.
Listed ==
    open => \A i \in 1..Len(file) :
                \/ mem[file[i]] = 1
                \/ step \in {"written", "synced"} /\ i = Len(file)

\* What the list holds is on a line, flushed if this incarnation wrote it.
ListBacked ==
    open => \A e \in Event :
        /\ mem[e] \in {0, 1}
        /\ mem[e] = 1 => \E i \in 1..Len(file) :
                             file[i] = e /\ (issued[e.id] = "current" => i <= durable)

\* Acknowledged records are flushed, and so listed while their process lives.
AckedFlushed ==
    /\ durable <= Len(file)
    /\ \A e \in acked : issued[e.id] # "fresh" /\ \E i \in 1..durable : file[i] = e

OneBodyPerId == \A i, j \in 1..Len(file) : file[i].id = file[j].id => file[i] = file[j]

IInv ==
    /\ TypeOK /\ NoReload /\ FileIssued /\ TailIssued /\ WriteShape
    /\ Listed /\ ListBacked /\ AckedFlushed /\ OneBodyPerId /\ MemoryFaithful

LEMMA IInvInit == Init => IInv
<1> SUFFICES ASSUME Init PROVE IInv
  OBVIOUS
<1>1. TypeOK
  BY TInvInit DEF TInv
<1>2. NoReload /\ FileIssued /\ TailIssued /\ WriteShape /\ Listed /\ ListBacked
  BY DEF Init, NoReload, IdleReload, FileIssued, TailIssued, WriteShape, Listed, ListBacked
<1>3. AckedFlushed /\ OneBodyPerId /\ MemoryFaithful
  BY DEF Init, AckedFlushed, OneBodyPerId, MemoryFaithful
<1> QED BY <1>1, <1>2, <1>3 DEF IInv

\* What every step may rely on.
LEMMA Ranges ==
    ASSUME TypeOK
    PROVE  /\ Len(file) \in Nat /\ durable \in Nat /\ Len(tail) \in Nat
           /\ \A i \in 1..Len(file) : file[i] \in Event \cup {Malformed}
           /\ \A i \in 1..Len(tail) : tail[i].by \in Caller /\ tail[i].event \in Event
           /\ tail # <<>> => /\ 1 \in 1..Len(tail) /\ Current = tail[1].event
                             /\ Current \in Event /\ Current.id \in EventId
           /\ \A e \in Event : e.id \in EventId /\ mem[e] \in Nat
<1> USE DEF TypeOK
<1>1. Len(file) \in Nat /\ Len(tail) \in Nat
  BY LenProperties
<1>2. \A i \in 1..Len(file) : file[i] \in Event \cup {Malformed}
  BY ElementOfSeq
<1>3. \A i \in 1..Len(tail) : tail[i] \in Waiting
  BY ElementOfSeq
<1>4. tail # <<>> => Head(tail) = tail[1] /\ 1 \in 1..Len(tail)
  BY HeadTailProperties, EmptySeq, <1>1
<1>5. \A e \in Event : e.id \in EventId
  BY DEF Event
<1> QED BY <1>1, <1>2, <1>3, <1>4, <1>5 DEF Waiting, Current

\* The tail moves on: the calls left were issued by the running process.
LEMMA LeaveKeeps ==
    ASSUME IInv, tail # <<>>, Leave, UNCHANGED issued
    PROVE  TailIssued'
<1>1. /\ Len(Tail(tail)) = Len(tail) - 1
      /\ \A i \in 1..Len(Tail(tail)) : Tail(tail)[i] = tail[i + 1]
  BY TailOfSeq DEF IInv, TypeOK
<1> QED BY <1>1, Ranges DEF IInv, TailIssued, Leave

LEMMA StepKeeps == ASSUME Reliable, IInv, [Next]_vars PROVE IInv'
<1>1. TypeOK'
  BY TInvStep DEF IInv, TInv, ReloadBehind, NoReload
<1>2. NoReload'
  <2>1. ~ReloadRead /\ ~ReloadTruncate /\ ~ReloadInstall
    BY DEF Reliable, ReloadRead, ReloadTruncate, ReloadInstall, IInv, NoReload
  <2>2. CASE Die \/ UNCHANGED reload
    BY <2>2 DEF Die, IdleReload, IInv, NoReload
  <2>3. Write => UNCHANGED reload
    BY DEF Write, HeadKnown, HeadConflict, WriteWhole, WriteBegin, WriteEnd, WriteRefused,
           WriteShort, SyncLine, SyncFails, Commit
  <2>4. Die \/ UNCHANGED reload
    BY <2>1, <2>3 DEF Next, vars, Open, AppendKnown, AppendConflict, Enqueue,
                      ProcessCrash, PowerLoss
  <2> QED BY <2>2, <2>4
<1> USE Ranges DEF IInv
<1>3. CASE Open
  <2> USE <1>3 DEF Open
  <2>1. /\ UNCHANGED <<file, tail, step, issued, acked>> /\ open'
        /\ durable <= durable' /\ durable' <= Len(file)
    BY DEF AckedFlushed
  <2>2. \A e \in Event : mem'[e] = IF e \in Stored(file) THEN 1 ELSE 0
    BY DEF Recovered
  <2>3. Stored(file) = {file[i] : i \in 1..Len(file)}
    BY LenProperties DEF Stored, TypeOK
  <2>4. FileIssued' /\ TailIssued' /\ OneBodyPerId'
    BY <2>1 DEF FileIssued, TailIssued, OneBodyPerId
  <2>5. WriteShape'
    BY <2>1 DEF WriteShape
  <2>6. Listed'
    BY <2>1, <2>2, <2>3 DEF Listed, FileIssued
  <2>7. ListBacked'
    BY <2>1, <2>2, <2>3 DEF ListBacked, WriteShape
  <2>8. AckedFlushed' /\ MemoryFaithful'
    BY <2>1, <2>2, <2>3 DEF AckedFlushed, MemoryFaithful, TypeOK
  <2> QED BY <1>1, <1>2, <2>4, <2>5, <2>6, <2>7, <2>8
<1>4. ASSUME NEW c \in Caller, NEW e \in Event,
             AppendKnown(c, e) \/ AppendConflict(c, e) \/ Enqueue(c, e)
      PROVE  IInv'
  <2> USE <1>4
  <2>1. /\ UNCHANGED <<file, frag, durable, open, mem, step, reload>> /\ open
        /\ issued[e.id] # "past" /\ issued' = [issued EXCEPT ![e.id] = "current"]
    BY DEF AppendKnown, AppendConflict, Enqueue, Call
  <2>2. \A i \in EventId : issued'[i] = IF i = e.id THEN "current" ELSE issued[i]
    BY <2>1 DEF TypeOK
  <2>3. FileIssued' /\ OneBodyPerId'
    BY <2>1, <2>2 DEF FileIssued, OneBodyPerId
  <2>4. \/ tail' = tail
        \/ /\ Len(tail') = Len(tail) + 1
           /\ \A i \in 1..Len(tail) : tail'[i] = tail[i]
           /\ tail'[Len(tail) + 1] = [by |-> c, event |-> e]
    <3> DEFINE w == [by |-> c, event |-> e]
    <3>1. w \in Waiting
      BY DEF Waiting
    <3>2. CASE tail' = Append(tail, w)
      BY <3>1, <3>2, AppendToSeq DEF TypeOK
    <3> QED BY <3>2 DEF AppendKnown, AppendConflict, Enqueue
  <2>5. TailIssued'
    BY <2>2, <2>4 DEF TailIssued
  <2>6. tail # <<>> => tail' # <<>> /\ Current' = Current
    BY <2>4, Ranges, <1>1, LenProperties, EmptySeq DEF Current, TypeOK
  <2>7. WriteShape'
    BY <2>1, <2>6 DEF WriteShape, Conflicts
  <2>8. Listed' /\ ListBacked'
    <3>1. \A f \in Event : mem[f] = 1 => issued[f.id] # "fresh"
      BY <2>1 DEF ListBacked, FileIssued
    <3>2. \A f \in Event : mem[f] = 1 /\ issued'[f.id] = "current" => issued[f.id] = "current"
      BY <2>1, <2>2, <3>1 DEF TypeOK
    <3>3. Listed'
      BY <2>1 DEF Listed
    <3> QED BY <2>1, <3>2, <3>3 DEF ListBacked
  <2>9. acked' = acked \/ (acked' = acked \cup {e} /\ mem[e] = 1)
    BY <2>1 DEF AppendKnown, AppendConflict, Enqueue, Known, ListBacked
  <2>10. ASSUME mem[e] = 1 PROVE \E i \in 1..durable : file[i] = e
    <3>1. PICK i \in 1..Len(file) : file[i] = e /\ (issued[e.id] = "current" => i <= durable)
      BY <2>1, <2>10 DEF ListBacked
    <3>2. issued[e.id] \in {"fresh", "current", "past"}
      BY Ranges DEF TypeOK
    <3>3. issued[e.id] = "current"
      BY <2>1, <3>1, <3>2 DEF FileIssued
    <3> QED BY <3>1, <3>3, Ranges
  <2>11. AckedFlushed' /\ MemoryFaithful'
    BY <2>1, <2>2, <2>9, <2>10 DEF AckedFlushed, MemoryFaithful, TypeOK
  <2> QED BY <1>1, <1>2, <2>3, <2>5, <2>7, <2>8, <2>11
<1>5. CASE HeadKnown \/ HeadConflict \/ WriteRefused
  <2> USE <1>5
  <2>1. /\ UNCHANGED <<file, frag, durable, open, mem, reload, issued>>
        /\ open /\ tail # <<>> /\ step = "queued" /\ Leave
    BY DEF HeadKnown, HeadConflict, WriteRefused, MayWrite, AtStep
  <2>2. acked' = acked \/ (acked' = acked \cup {Current} /\ mem[Current] = 1)
    BY <2>1 DEF HeadKnown, HeadConflict, WriteRefused, Known, ListBacked
  <2>3. issued[Current.id] = "current"
    BY <2>1 DEF TailIssued
  <2>4. TailIssued'
    BY <2>1, LeaveKeeps
  <2>5. FileIssued' /\ OneBodyPerId'
    BY <2>1 DEF FileIssued, OneBodyPerId
  <2>6. WriteShape' /\ Listed' /\ ListBacked'
    BY <2>1 DEF WriteShape, Listed, ListBacked, Leave
  <2>7. mem[Current] = 1 => \E i \in 1..durable : file[i] = Current
    BY <2>1, <2>3 DEF ListBacked, AckedFlushed
  <2>8. AckedFlushed' /\ MemoryFaithful'
    BY <2>1, <2>2, <2>3, <2>7 DEF AckedFlushed, MemoryFaithful, TypeOK
  <2> QED BY <1>1, <1>2, <2>4, <2>5, <2>6, <2>8
<1>6. CASE WriteBegin
  <2> USE <1>6
  <2>1. /\ UNCHANGED <<file, durable, open, mem, tail, reload, issued, acked>>
        /\ open /\ tail # <<>> /\ step = "queued" /\ step' = "writing"
        /\ mem[Current] = 0 /\ ~Conflicts(Current) /\ frag' = "mine"
    BY DEF WriteBegin, MayWrite, AtStep, Known, WriteShape
  <2>2. FileIssued' /\ OneBodyPerId' /\ TailIssued' /\ AckedFlushed' /\ MemoryFaithful'
    BY <2>1 DEF FileIssued, OneBodyPerId, TailIssued, AckedFlushed, MemoryFaithful
  <2>3. WriteShape' /\ Listed' /\ ListBacked'
    BY <2>1 DEF WriteShape, Listed, ListBacked, Conflicts, Current
  <2> QED BY <1>1, <1>2, <2>2, <2>3
<1>7. CASE WriteWhole \/ WriteEnd
  <2> USE <1>7
  <2>1. /\ UNCHANGED <<durable, open, mem, tail, reload, issued, acked>>
        /\ open /\ tail # <<>> /\ step \in {"queued", "writing"} /\ step' = "written"
        /\ mem[Current] = 0 /\ ~Conflicts(Current) /\ frag' = "none"
        /\ file' = Append(file, Current)
    BY DEF WriteWhole, WriteEnd, MayWrite, AtStep, Known, WriteShape
  <2>2. /\ Len(file') = Len(file) + 1 /\ file'[Len(file) + 1] = Current
        /\ \A i \in 1..Len(file) : file'[i] = file[i]
    BY <2>1, AppendToSeq DEF TypeOK
  <2>3. issued[Current.id] = "current" /\ Current' = Current
    BY <2>1 DEF TailIssued, Current
  <2>4. FileIssued' /\ TailIssued'
    BY <2>1, <2>2, <2>3 DEF FileIssued, TailIssued
  <2>5. \A i \in 1..Len(file) : file[i].id = Current.id => file[i] = Current
    BY <2>1 DEF Listed, Conflicts, FileIssued
  <2>6. OneBodyPerId'
    BY <2>2, <2>5 DEF OneBodyPerId
  <2>7. WriteShape' /\ Listed'
    BY <2>1, <2>2, <2>3 DEF WriteShape, Listed, Conflicts
  <2>8. ListBacked'
    BY <2>1, <2>2 DEF ListBacked
  <2>9. AckedFlushed' /\ MemoryFaithful'
    BY <2>1, <2>2 DEF AckedFlushed, MemoryFaithful
  <2> QED BY <1>1, <1>2, <2>4, <2>6, <2>7, <2>8, <2>9
<1>8. CASE SyncLine
  <2> USE <1>8
  <2>1. /\ UNCHANGED <<file, frag, open, mem, tail, reload, issued, acked>>
        /\ open /\ tail # <<>> /\ step = "written" /\ step' = "synced" /\ durable' = Len(file)
    BY DEF SyncLine, AtStep
  <2>2. FileIssued' /\ TailIssued' /\ OneBodyPerId' /\ WriteShape' /\ Listed'
    BY <2>1 DEF FileIssued, TailIssued, OneBodyPerId, WriteShape, Listed, Current, Conflicts
  <2>3. ListBacked' /\ AckedFlushed' /\ MemoryFaithful'
    BY <2>1 DEF ListBacked, AckedFlushed, MemoryFaithful
  <2> QED BY <1>1, <1>2, <2>2, <2>3
<1>9. CASE Commit
  <2> USE <1>9
  <2>1. /\ UNCHANGED <<file, frag, durable, open, reload, issued>>
        /\ open /\ tail # <<>> /\ step = "synced" /\ Leave
        /\ acked' = acked \cup {Current}
        /\ mem[Current] = 0 /\ Len(file) > 0 /\ file[Len(file)] = Current
        /\ durable = Len(file)
    BY DEF Commit, AtStep, WriteShape
  <2>2. \A e \in Event : mem'[e] = IF e = Current THEN 1 ELSE mem[e]
    BY <2>1 DEF Commit, TypeOK
  <2>3. issued[Current.id] = "current" /\ TailIssued'
    BY <2>1, LeaveKeeps DEF TailIssued
  <2>4. FileIssued' /\ OneBodyPerId' /\ WriteShape'
    BY <2>1 DEF FileIssued, OneBodyPerId, WriteShape, Leave
  <2>5. Listed'
    BY <2>1, <2>2 DEF Listed, Leave, FileIssued
  <2>6. ListBacked'
    BY <2>1, <2>2 DEF ListBacked
  <2>7. AckedFlushed' /\ MemoryFaithful'
    BY <2>1, <2>2, <2>3 DEF AckedFlushed, MemoryFaithful, TypeOK
  <2> QED BY <1>1, <1>2, <2>3, <2>4, <2>5, <2>6, <2>7
<1>10. CASE ProcessCrash \/ PowerLoss
  <2> USE <1>10
  <2>1. Die /\ UNCHANGED durable
    BY DEF ProcessCrash, PowerLoss
  <2>2. PICK n \in durable..Len(file) : file' = SubSeq(file, 1, n)
    <3>1. CASE PowerLoss
      BY <3>1 DEF PowerLoss
    <3>2. CASE ProcessCrash
      <4>1. file' = SubSeq(file, 1, Len(file))
        BY <3>2, SubSeqFull DEF ProcessCrash, TypeOK
      <4> QED BY <4>1 DEF AckedFlushed
    <3> QED BY <3>1, <3>2
  <2>3. Len(file') = n /\ \A i \in 1..n : file'[i] = file[i]
    BY <2>2, PrefixOfSeq DEF TypeOK, AckedFlushed
  <2>4. /\ ~open' /\ tail' = <<>> /\ step' = "queued" /\ acked' = acked
        /\ \A i \in EventId : issued'[i] = IF issued[i] = "current" THEN "past" ELSE issued[i]
    BY <2>1 DEF Die, TypeOK
  <2>5. FileIssued' /\ OneBodyPerId'
    BY <2>2, <2>3, <2>4 DEF FileIssued, OneBodyPerId, AckedFlushed
  <2>6. TailIssued' /\ WriteShape' /\ Listed' /\ ListBacked' /\ MemoryFaithful'
    BY <2>4 DEF TailIssued, WriteShape, Listed, ListBacked, MemoryFaithful
  <2>7. AckedFlushed'
    BY <2>1, <2>2, <2>3, <2>4 DEF AckedFlushed, TypeOK
  <2> QED BY <1>1, <1>2, <2>5, <2>6, <2>7
<1>11. CASE UNCHANGED vars
  BY <1>1, <1>2, <1>11 DEF vars, FileIssued, TailIssued, WriteShape, Listed, ListBacked,
     AckedFlushed, OneBodyPerId, MemoryFaithful, Current, Conflicts
<1>12. ~(WriteShort \/ SyncFails \/ ReloadRead \/ ReloadTruncate \/ ReloadInstall)
  BY DEF Reliable, WriteShort, MayWrite, SyncFails, ReloadRead, ReloadTruncate,
         ReloadInstall, NoReload
<1> QED BY <1>3, <1>4, <1>5, <1>6, <1>7, <1>8, <1>9, <1>10, <1>11, <1>12 DEF Next, Write

-----------------------------------------------------------------------------
\* On a reliable host an event whose append returned is on a flushed line.
THEOREM AckedDurableHolds == ASSUME Reliable PROVE Spec => []AckedDurable
<1>1. IInv => AckedDurable
  BY Ranges DEF IInv, AckedFlushed, AckedDurable, Flushed
<1>2. Init => IInv
  BY IInvInit
<1>3. IInv /\ [Next]_vars => IInv'
  BY StepKeeps
<1> QED BY <1>1, <1>2, <1>3, PTL DEF Spec

\* On a reliable host every start accepts what the last incarnation left.
THEOREM AlwaysReadableHolds == ASSUME Reliable PROVE Spec => []AlwaysReadable
<1>1. IInv => AlwaysReadable
  <2> SUFFICES ASSUME IInv PROVE AlwaysReadable
    OBVIOUS
  <2>1. Stored(file) = {file[i] : i \in 1..Len(file)}
    BY LenProperties DEF Stored, IInv, TypeOK
  <2> QED BY <2>1, JournalAssumption DEF IInv, FileIssued, OneBodyPerId, AlwaysReadable, Readable
<1>2. Init => IInv
  BY IInvInit
<1>3. IInv /\ [Next]_vars => IInv'
  BY StepKeeps
<1> QED BY <1>1, <1>2, <1>3, PTL DEF Spec

\* The in-memory list holds each acknowledged event once, if nobody reloads it.
THEOREM MemoryFaithfulHolds == ASSUME Reliable PROVE Spec => []MemoryFaithful
<1>1. IInv => MemoryFaithful
  BY DEF IInv
<1>2. Init => IInv
  BY IInvInit
<1>3. IInv /\ [Next]_vars => IInv'
  BY StepKeeps
<1> QED BY <1>1, <1>2, <1>3, PTL DEF Spec

\* The journal implements the event log: lines are added at the end, only what
\* is in the log is acknowledged, and a failure keeps what was acknowledged.
THEOREM ImplementsEventLog == ASSUME Reliable PROVE Spec => KeepsEventLog
<1> DEFINE L == Event \cup {Malformed}
           lvars == <<file, acked>>
<1>1. Init => Log!Init
  BY DEF Init, Log!Init
<1>2. ASSUME IInv, [Next]_vars PROVE [Log!Next]_lvars
  <2> USE <1>2, Ranges DEF IInv
  <2>1. Log!Lines(file) = {file[i] : i \in 1..Len(file)}
    BY LenProperties DEF Log!Lines, TypeOK
  <2>2. CASE WriteWhole \/ WriteEnd
    <3>1. \E l \in L : file' = Append(file, l)
      BY <2>2 DEF WriteWhole, WriteEnd, MayWrite, AtStep
    <3> QED BY <2>2, <3>1 DEF WriteWhole, WriteEnd, Log!Next, Log!Extend
  <2>3. CASE HeadKnown \/ Commit
    <3>1. Current \in Log!Lines(file) /\ acked' = acked \cup {Current} /\ UNCHANGED file
      BY <2>1, <2>3 DEF HeadKnown, Commit, AtStep, Known, ListBacked, WriteShape
    <3> QED BY <3>1 DEF Log!Next, Log!Promise
  <2>4. ASSUME NEW c \in Caller, NEW e \in Event, AppendKnown(c, e) PROVE Log!Next
    <3>1. e \in Log!Lines(file) /\ acked' = acked \cup {e} /\ UNCHANGED file
      BY <2>1, <2>4 DEF AppendKnown, Call, Known, ListBacked
    <3> QED BY <3>1 DEF Log!Next, Log!Promise
  <2>5. CASE PowerLoss
    <3>1. PICK n \in durable..Len(file) : file' = SubSeq(file, 1, n)
      BY <2>5 DEF PowerLoss
    <3>2. /\ file' \in Seq(L) /\ Len(file') = n /\ n \in 0..Len(file)
          /\ \A i \in 1..n : file'[i] = file[i]
      BY <3>1, PrefixOfSeq DEF TypeOK, AckedFlushed
    <3>3. Log!Lines(file)' = {file'[i] : i \in 1..n}
      BY <3>2, LenProperties DEF Log!Lines
    <3>4. acked \subseteq Log!Lines(file)'
      BY <3>1, <3>2, <3>3 DEF AckedFlushed, TypeOK
    <3> QED BY <2>5, <3>1, <3>2, <3>4 DEF PowerLoss, Die, Log!Next, Log!Lose, Log!Lines
  <2>6. CASE UNCHANGED lvars
    BY <2>6
  <2>7. \/ WriteWhole \/ WriteEnd \/ HeadKnown \/ Commit \/ PowerLoss \/ UNCHANGED lvars
        \/ \E c \in Caller, e \in Event : AppendKnown(c, e)
    BY DEF Next, Write, vars, Open, AppendConflict, Enqueue, HeadConflict, WriteBegin,
       WriteRefused, WriteShort, SyncLine, SyncFails, ReloadRead, ReloadTruncate,
       ReloadInstall, NoReload, ProcessCrash, Die
  <2> QED BY <2>2, <2>3, <2>4, <2>5, <2>6, <2>7
<1>3. Init => IInv
  BY IInvInit
<1>4. IInv /\ [Next]_vars => IInv'
  BY StepKeeps
<1> QED BY <1>1, <1>2, <1>3, <1>4, PTL DEF Spec, KeepsEventLog, Log!Spec
=============================================================================
