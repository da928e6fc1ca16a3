----------------------------- MODULE MCMetering -----------------------------
(* TLC instances of Metering: the first account has two units, the second   *)
(* one has one.                                                             *)
EXTENDS Metering

CONSTANTS u1, u2, u3, a1, a2

MCAccountOf == [u \in Units |-> IF u = u3 THEN a2 ELSE a1]

====
