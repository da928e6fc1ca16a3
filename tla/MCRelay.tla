------------------------------ MODULE MCRelay ------------------------------
(* TLC instances of Relay.  A second token t2, when an instance has it, may  *)
(* claim only one of the names; all tokens are linked to one account.        *)
EXTENDS Relay, TLC

CONSTANTS n1, t2, a1

MCGrants == [t \in Tokens |-> IF t = t2 THEN {n1} ELSE Names]
MCAccountOf == [t \in Tokens |-> a1]

Symmetry == Permutations(Conns) \cup Permutations(Requests)

\* The relay without an operator: connections, requests and grant expiry.
ServeNext ==
  \/ \E c \in Conns : ControlStep(c)
  \/ \E r \in Requests : PublicStep(r)
  \/ \E t \in Tokens : Expire(t)
  \/ SweepSnapshot("ticker")
  \/ \E c \in Conns : SweepOne("ticker", c)

ServeSpec == Init /\ [][ServeNext]_vars

\* Connections and a control plane that drains and undrains the node.
DrainNext == (\E c \in Conns : ControlStep(c)) \/ DrainStep

DrainSpec == Init /\ [][DrainNext]_vars

\* Connections and an operator who revokes credentials.
RevokeNext == (\E c \in Conns : ControlStep(c)) \/ RevokeStep

RevokeSpec == Init /\ [][RevokeNext]_vars

FairRevokeSpec == RevokeSpec /\ Fairness

====
