----------------------------- MODULE DurableLog -----------------------------
(***************************************************************************)
(* What record() promises its callers, without files, locks or caches: a   *)
(* sequence that only grows at its end, of which the part up to the last   *)
(* acknowledged entry can no longer be lost.                               *)
(***************************************************************************)
EXTENDS Naturals, Sequences

VARIABLES
    entries,  \* the digests in the log, in order
    safe,     \* how many of them can no longer be lost
    acked     \* the digests record() returned

Init == entries = <<>> /\ safe = 0 /\ acked = {}

\* Someone's record reaches the end of the log.
Extend ==
    /\ Len(entries') = Len(entries) + 1
    /\ SubSeq(entries', 1, Len(entries)) = entries
    /\ UNCHANGED <<safe, acked>>

\* The record at the end is acknowledged, and safe with all before it.
Acknowledge ==
    /\ Len(entries) > 0
    /\ acked' = acked \cup {entries[Len(entries)]}
    /\ safe' = Len(entries)
    /\ UNCHANGED entries

\* Entries beyond the safe ones may vanish, from the end.
Lose ==
    /\ \E n \in safe..Len(entries) : entries' = SubSeq(entries, 1, n)
    /\ UNCHANGED <<safe, acked>>

Next == Extend \/ Acknowledge \/ Lose

Spec == Init /\ [][Next]_<<entries, safe, acked>>
=============================================================================
