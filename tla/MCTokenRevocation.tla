--------------------------- MODULE MCTokenRevocation ---------------------------
(* Instances of TokenRevocation for TLC.                                   *)
EXTENDS TokenRevocation

\* A client may name a time past every token, beyond the clock.
MCClientTimes == {MaxTime + 1}

================================================================================
