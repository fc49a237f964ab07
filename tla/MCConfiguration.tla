-------------------------- MODULE MCConfiguration --------------------------
(* Modbus ranges at the borders of the three areas, and behind them. *)
EXTENDS Configuration
Range(area, start, count) == [area |-> area, start |-> start, count |-> count]
MCRanges ==
    {Range("LB", 12799, 1), Range("LB", 12799, 2), Range("LW", 0, 16), Range("LW", 0, 0),
     Range("LW", 9990, 9), Range("LW", 9998, 1), Range("LW", 9998, 2),
     Range("RW", 0, 2), Range("RW", 55535, 1), Range("RW", 55535, 2)}
=============================================================================
