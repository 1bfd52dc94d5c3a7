-------------------------------- MODULE Clock --------------------------------
(* The clock of the process, for the parts that keep their state in memory. *)
EXTENDS Naturals

CONSTANT MaxTime   \* bound of the clock

ASSUME ClockAssumption == MaxTime \in Nat

VARIABLE now

Advance ==
    /\ now < MaxTime
    /\ now' = now + 1
=============================================================================
