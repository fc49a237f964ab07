---------------------------- MODULE SerialStream ----------------------------
(***************************************************************************)
(* What a serial session promises about the bytes of its device: whoever   *)
(* reads gets them in the order they arrived, none twice, and when some    *)
(* are given up they are the oldest ones nobody has read.  Bytes are named *)
(* by their order of arrival.                                              *)
(***************************************************************************)
EXTENDS Integers, Sequences

VARIABLES
    arrived,    \* how many bytes the device has sent
    queue,      \* the bytes that can still be read
    out         \* the bytes read, in the order they were read

vars == <<arrived, queue, out>>

Init == arrived = 0 /\ queue = << >> /\ out = << >>

Arrive ==
    /\ arrived' = arrived + 1
    /\ queue' = Append(queue, arrived + 1)
    /\ UNCHANGED out

Deliver(n) ==
    /\ out' = out \o SubSeq(queue, 1, n)
    /\ queue' = SubSeq(queue, n + 1, Len(queue))
    /\ UNCHANGED arrived

GiveUp(n) ==
    /\ queue' = SubSeq(queue, n + 1, Len(queue))
    /\ UNCHANGED <<arrived, out>>

Next == Arrive \/ \E n \in 1..Len(queue) : Deliver(n) \/ GiveUp(n)

Spec == Init /\ [][Next]_vars
=============================================================================
