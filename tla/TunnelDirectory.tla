-------------------------- MODULE TunnelDirectory --------------------------
(***************************************************************************)
(* What the relay promises about tunnel names, without handshakes, muxes   *)
(* or sweeps: each name has at most one owner, a name changes hands only   *)
(* by becoming free first, and a connection gets at most one chance.       *)
(***************************************************************************)
CONSTANTS Conns, Names, NoConn

VARIABLES
  owner,   \* owner[n]: the connection that serves name n, or NoConn
  used     \* connections that have served a name or were turned away

dirVars == <<owner, used>>

DirInit ==
  /\ owner = [n \in Names |-> NoConn]
  /\ used = {}

\* Connection c starts to serve the free name n.
Claim(n, c) ==
  /\ owner[n] = NoConn
  /\ c \notin used
  /\ owner' = [owner EXCEPT ![n] = c]
  /\ used' = used \cup {c}

\* Connection c is turned away.
TurnAway(c) ==
  /\ c \notin used
  /\ used' = used \cup {c}
  /\ UNCHANGED owner

\* Name n becomes free.
Drop(n) ==
  /\ owner[n] # NoConn
  /\ owner' = [owner EXCEPT ![n] = NoConn]
  /\ UNCHANGED used

DirNext ==
  \/ \E n \in Names, c \in Conns : Claim(n, c)
  \/ \E c \in Conns : TurnAway(c)
  \/ \E n \in Names : Drop(n)

Spec == DirInit /\ [][DirNext]_dirVars

====
