---------------------------- MODULE RuntimeClock ----------------------------
(* The clock that rate limiter and heartbeats read; a tick of it is the      *)
(* finest difference that the model tells apart.                             *)
EXTENDS Naturals

CONSTANT MaxTime  \* bound

ASSUME ClockAssumption == MaxTime \in Nat

VARIABLE now

Time == 0 .. MaxTime

Least(a, b) == IF a <= b THEN a ELSE b
=============================================================================
