------------------------------ MODULE RateMeter ------------------------------
(* What a token bucket promises: a level that rises with the clock and only up
   to the capacity, and from which tokens are only taken that are there. So in t
   ticks at most Capacity + RefillRate * t tokens are granted, those that callers
   hand back apart.                                                            *)
EXTENDS Integers

CONSTANTS Capacity, RefillRate

VARIABLES level, op

Capped(n) == IF n > Capacity THEN Capacity ELSE n

MeterInit == level = Capacity /\ op = "tick"

Rise == op' = "tick" /\ level' = Capped(level + RefillRate)

Take == op' = "take" /\ \E n \in 1..level : level' = level - n

Refuse == op' = "refuse" /\ level' = level

HandBack == op' = "release" /\ \E n \in 1..Capacity : level' = Capped(level + n)

Restart == op' = "reset" /\ level' = Capacity

MeterNext == Rise \/ Take \/ Refuse \/ HandBack \/ Restart

MeterSpec == MeterInit /\ [][MeterNext]_<<level, op>>
=============================================================================
