---------------------------- MODULE MCSlackBridge ----------------------------
(* Two people with a tier and one without.  One asks twice, the other says   *)
(* nothing, and the stranger asks.                                           *)
EXTENDS SlackBridge

CONSTANTS ann, ben, eve

MCUsers == {ann, ben, eve}
MCListed == {ann, ben}
MCMention(u, k, n) == [from |-> u, kind |-> k, ts |-> n]
MCMentions ==
    {MCMention(ann, "ask", 1), MCMention(ann, "ask", 2),
     MCMention(ben, "empty", 3), MCMention(eve, "ask", 4)}
=============================================================================
