------------------------- MODULE MCEntitlementGate -------------------------
(* TLC instance of EntitlementGate: concurrent calls are interchangeable.   *)
EXTENDS EntitlementGate, TLC

Symmetry == Permutations(Calls)

====
