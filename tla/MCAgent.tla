------------------------------ MODULE MCAgent ------------------------------
(* TLC instances of Agent.                                                  *)
EXTENDS Agent, TLC

\* One PoP drains, once, and stays so.
OneDrainSpec == Init /\ [][Next /\ (draining # {} => draining' = draining)]_vars

Symmetry == Permutations(Loops)

====
