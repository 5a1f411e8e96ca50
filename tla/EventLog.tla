----------------------------- MODULE EventLog -----------------------------
(***************************************************************************)
(* What the operational journal promises its callers: lines are only added *)
(* at the end, an event is acknowledged only when it is in the log, and a  *)
(* failure may drop a suffix of the log but never an acknowledged event.   *)
(***************************************************************************)
EXTENDS Naturals, Sequences

CONSTANT Line     \* what a line of the log may be
VARIABLES
    log,      \* the lines, in order
    promised  \* lines whose append() has returned

Lines(s) == {s[i] : i \in DOMAIN s}

Init == log = <<>> /\ promised = {}

Extend == /\ \E l \in Line : log' = Append(log, l)
          /\ UNCHANGED promised

Promise == /\ \E l \in Lines(log) : promised' = promised \cup {l}
           /\ UNCHANGED log

\* A failure of the host keeps a prefix that holds every acknowledged line.
Lose == /\ \E n \in 0..Len(log) : log' = SubSeq(log, 1, n)
        /\ promised \subseteq Lines(log')
        /\ UNCHANGED promised

Next == Extend \/ Promise \/ Lose

Spec == Init /\ [][Next]_<<log, promised>>
=============================================================================
