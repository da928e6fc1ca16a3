------------------------------- MODULE Relay -------------------------------
(***************************************************************************)
(* One relay node (PoP) of the tunnel: tunnel/server.                      *)
(*                                                                         *)
(* An agent dials a control connection; handleControl walks it through     *)
(* admission, the draining check, token authorisation and the entitlement  *)
(* gate, hands the socket to yamux, enters it in the registry under the    *)
(* name it serves, acknowledges it, and then blocks until the yamux        *)
(* session (the "mux") closes.  Concurrently, public requests look the     *)
(* name up and open one stream each, the control plane drains the node,    *)
(* an operator revokes credentials, and a ticker sweeps live sessions.     *)
(*                                                                         *)
(* Every step below is one critical section of that code: what two         *)
(* goroutines can interleave is two actions.  A connection (an element of  *)
(* Conns) is one dial; an agent that reconnects is another connection.     *)
(***************************************************************************)
EXTENDS Naturals, FiniteSets

CONSTANTS
  Conns,        \* control connections, each dialled at most once
  Requests,     \* public requests, each reusable once it has been answered
  Names,        \* tunnel names
  Tokens,       \* bearer tokens of the static token store
  Accounts,     \* billing accounts
  Grants,       \* Grants[t]: the names token t may claim
  AccountOf,    \* AccountOf[t]: the account token t is linked to
  MaxAgents,    \* Config.MaxAgents, the registry's hard cap (> 0 here)
  StreamLimit,  \* Config.MaxStreamsPerAgent (> 0 here)
  NoConn        \* no session

ASSUME GrantsAssumption ==
  /\ Grants \in [Tokens -> SUBSET Names]
  /\ AccountOf \in [Tokens -> Accounts]

ASSUME LimitsAssumption ==
  /\ MaxAgents \in Nat \ {0}
  /\ StreamLimit \in Nat \ {0}

ASSUME NoConnAssumption == NoConn \notin Conns

ASSUME FinitenessAssumption ==
  /\ IsFiniteSet(Names)
  /\ IsFiniteSet(Requests)

VARIABLES
  \* handleControl, one goroutine per connection
  pc,          \* pc[c]: how far handleControl is with connection c
  nameOf,      \* nameOf[c]: the name c asks for in its Register frame
  tokenOf,     \* tokenOf[c]: the token c presents
  muxOpen,     \* connections whose yamux session exists and is not closed
  firstFrame,  \* firstFrame[c]: what the relay wrote to c first
  \* registry
  byName,      \* byName[n]: the session registered for name n, or NoConn
  \* public requests
  rpc,         \* rpc[r]: how far handlePublic is with request r
  rconn,       \* rconn[r]: the session request r was routed to
  streams,     \* streams[c]: session.streams, the slots in use
  \* drain
  draining,    \* Server.draining
  drainPc,     \* how far the Drain call is
  drainTodo,   \* sessions of broadcastReconnect's snapshot not yet signalled
  attempted,   \* sessions this Drain has tried to signal
  \* revocation
  revoked,     \* the static revoked-list: tokens, names and accounts
  expired,     \* tokens whose grant TTL has elapsed
  adminPc,     \* how far the operator's Revoke call is
  sweepTodo,   \* sweepTodo[k]: sessions sweep k has still to recheck
  \* observers (no code reads them)
  drainSlip,   \* connections between the draining check and add when Drain began
  revokeSlip   \* connections between Authorize and add when a Revoke was listed

connVars   == <<pc, nameOf, tokenOf>>
reqVars    == <<rpc, rconn, streams>>
drainVars  == <<draining, drainPc, drainTodo, attempted, drainSlip>>
revokeVars == <<revoked, expired, adminPc, sweepTodo, revokeSlip>>
vars       == <<connVars, muxOpen, firstFrame, byName, reqVars, drainVars, revokeVars>>

----------------------------------------------------------------------------
(* State predicates                                                        *)

\* The order in which handleControl reaches its stages.  "closing" is the
\* return after a failed ack, once the deferred mux.Close has run.
Stages == {"idle", "admitted", "undrained", "authorized",
           "added", "live", "closing", "gone"}

\* The two callers of sweepRevoked: the revokePeriod ticker and the operator.
Sweepers == {"ticker", "admin"}

\* registry.snapshot: the sessions in byName.
Registered == {byName[n] : n \in Names} \ {NoConn}

\* registry.count.
Count == Cardinality({n \in Names : byName[n] # NoConn})

\* Everything a session can be revoked by.
CredsOf(c) == {tokenOf[c], nameOf[c], AccountOf[tokenOf[c]]}

\* revocationSource.revoked for a session of the static token store.
Revoked(c) == CredsOf(c) \cap revoked # {} \/ tokenOf[c] \in expired

\* A session through which the relay can open streams.
Serving(c) == pc[c] \in {"added", "live"} /\ c \in muxOpen

\* A request that has reserved one of its session's stream slots.
HoldsSlot(r, c) == rconn[r] = c /\ rpc[r] \in {"holding", "streaming"}

\* The relay writes a frame f to connection c.
Write(c, f) == firstFrame' = [firstFrame EXCEPT ![c] = IF @ = "none" THEN f ELSE @]

----------------------------------------------------------------------------
(* handleControl                                                           *)

\* Pre-upgrade admission, the websocket upgrade and the Register frame: the
\* shared state read is the registry count and the draining flag.
Admit(c) ==
  /\ pc[c] = "idle"
  /\ Count < MaxAgents
  /\ ~draining
  /\ pc' = [pc EXCEPT ![c] = "admitted"]
  /\ UNCHANGED <<nameOf, tokenOf, muxOpen, firstFrame, byName, reqVars, drainVars, revokeVars>>

\* A mutation of PassDrainCheck: only admission looks at the flag.
PassDrainCheckUnread(c) ==
  /\ pc[c] = "admitted"
  /\ pc' = [pc EXCEPT ![c] = "undrained"]
  /\ UNCHANGED <<nameOf, tokenOf, muxOpen, firstFrame, byName, reqVars, drainVars, revokeVars>>

\* The second draining check, after the Register frame is read.
PassDrainCheck(c) ==
  /\ pc[c] = "admitted"
  /\ ~draining
  /\ pc' = [pc EXCEPT ![c] = "undrained"]
  /\ UNCHANGED <<nameOf, tokenOf, muxOpen, firstFrame, byName, reqVars, drainVars, revokeVars>>

\* staticTokenStore.Authorize: the token grants the name, its TTL has not
\* elapsed, and none of token, name and account is on the revoked-list.
Authorize(c) ==
  /\ pc[c] = "undrained"
  /\ nameOf[c] \in Grants[tokenOf[c]]
  /\ ~Revoked(c)
  /\ pc' = [pc EXCEPT ![c] = "authorized"]
  /\ UNCHANGED <<nameOf, tokenOf, muxOpen, firstFrame, byName, reqVars, drainVars, revokeVars>>

\* A mutation of CanAdd: the cap is left to the check at admission.
CanAddOverCap(c) == byName[nameOf[c]] = NoConn

\* What registry.add requires, under its lock: the name is free and the hard
\* cap, already checked at admission, still leaves room.
CanAdd(c) == byName[nameOf[c]] = NoConn /\ Count < MaxAgents

\* yamux.Client on the socket, then registry.add.
Add(c) ==
  /\ pc[c] = "authorized"
  /\ CanAdd(c)
  /\ byName' = [byName EXCEPT ![nameOf[c]] = c]
  /\ muxOpen' = muxOpen \cup {c}
  /\ pc' = [pc EXCEPT ![c] = "added"]
  /\ UNCHANGED <<nameOf, tokenOf, firstFrame, reqVars, drainVars, revokeVars>>

\* Every early return before add: a malformed frame, a token mismatch, an
\* invalid name, a rate limit, a check above that fails, a dropped socket.
Refuse(c) ==
  /\ pc[c] \in {"idle", "admitted", "undrained", "authorized"}
  /\ pc' = [pc EXCEPT ![c] = "gone"]
  /\ UNCHANGED <<nameOf, tokenOf, muxOpen, firstFrame, byName, reqVars, drainVars, revokeVars>>

\* The OK ack is written; handleControl now blocks on mux.CloseChan.
WriteAck(c) ==
  /\ pc[c] = "added"
  /\ Write(c, "ack")
  /\ pc' = [pc EXCEPT ![c] = "live"]
  /\ UNCHANGED <<nameOf, tokenOf, muxOpen, byName, reqVars, drainVars, revokeVars>>

\* The ack cannot be written: the deferred mux.Close runs before release.
AckFails(c) ==
  /\ pc[c] = "added"
  /\ muxOpen' = muxOpen \ {c}
  /\ pc' = [pc EXCEPT ![c] = "closing"]
  /\ UNCHANGED <<nameOf, tokenOf, firstFrame, byName, reqVars, drainVars, revokeVars>>

\* The agent goes away, or a keepalive ping fails and the mux is closed.
PeerClose(c) ==
  /\ Serving(c)
  /\ muxOpen' = muxOpen \ {c}
  /\ UNCHANGED <<connVars, firstFrame, byName, reqVars, drainVars, revokeVars>>

\* A mutation of SessionOver: the entry is released on the way out of a
\* session whose mux is still open.
SessionOverEarly(c) == pc[c] \in {"live", "closing"}

\* handleControl may run its deferred release: it has returned from a failed
\* ack, or mux.CloseChan has fired.
SessionOver(c) == pc[c] = "closing" \/ (pc[c] = "live" /\ c \notin muxOpen)

\* A mutation of Release: the handler goes back and registers the session again.
ReleaseRetries(c) ==
  /\ SessionOver(c)
  /\ byName' = [byName EXCEPT ![nameOf[c]] = IF @ = c THEN NoConn ELSE @]
  /\ pc' = [pc EXCEPT ![c] = "authorized"]
  /\ UNCHANGED <<nameOf, tokenOf, muxOpen, firstFrame, reqVars, drainVars, revokeVars>>

\* The deferred release: the entry goes only if it is still this session's.
Release(c) ==
  /\ SessionOver(c)
  /\ byName' = [byName EXCEPT ![nameOf[c]] = IF @ = c THEN NoConn ELSE @]
  /\ pc' = [pc EXCEPT ![c] = "gone"]
  /\ UNCHANGED <<nameOf, tokenOf, muxOpen, firstFrame, reqVars, drainVars, revokeVars>>

----------------------------------------------------------------------------
(* handlePublic                                                            *)

\* The route and rate-limit checks pass and registry.lookup finds a session.
Lookup(r) ==
  /\ rpc[r] = "idle"
  /\ \E n \in Names :
       /\ byName[n] # NoConn
       /\ rconn' = [rconn EXCEPT ![r] = byName[n]]
  /\ rpc' = [rpc EXCEPT ![r] = "found"]
  /\ UNCHANGED <<connVars, muxOpen, firstFrame, byName, streams, drainVars, revokeVars>>

\* A mutation of HasSlot: an off-by-one in acquireStream.
HasSlotOffByOne(c) == streams[c] <= StreamLimit

\* session.acquireStream finds a free slot.
HasSlot(c) == streams[c] < StreamLimit

\* session.acquireStream takes the slot.
AcquireStream(r) ==
  /\ rpc[r] = "found"
  /\ HasSlot(rconn[r])
  /\ streams' = [streams EXCEPT ![rconn[r]] = @ + 1]
  /\ rpc' = [rpc EXCEPT ![r] = "holding"]
  /\ UNCHANGED <<connVars, muxOpen, firstFrame, byName, rconn, drainVars, revokeVars>>

\* The entitlement gate refuses (402) or the session is busy (503): no slot
\* was taken.
Reject(r) ==
  /\ rpc[r] = "found"
  /\ rpc' = [rpc EXCEPT ![r] = "idle"]
  /\ rconn' = [rconn EXCEPT ![r] = NoConn]
  /\ UNCHANGED <<connVars, muxOpen, firstFrame, byName, streams, drainVars, revokeVars>>

\* mux.OpenStream succeeds: the stream's first frame goes out on the socket.
OpenStream(r) ==
  /\ rpc[r] = "holding"
  /\ rconn[r] \in muxOpen
  /\ Write(rconn[r], "stream")
  /\ rpc' = [rpc EXCEPT ![r] = "streaming"]
  /\ UNCHANGED <<connVars, muxOpen, byName, rconn, streams, drainVars, revokeVars>>

\* A mutation of Finish: the slot is kept when OpenStream fails.
FinishLeaks(r) ==
  /\ rpc[r] \in {"holding", "streaming"}
  /\ streams' = [streams EXCEPT ![rconn[r]] = IF rpc[r] = "streaming" THEN @ - 1 ELSE @]
  /\ rpc' = [rpc EXCEPT ![r] = "idle"]
  /\ rconn' = [rconn EXCEPT ![r] = NoConn]
  /\ UNCHANGED <<connVars, muxOpen, firstFrame, byName, drainVars, revokeVars>>

\* handlePublic returns, after a response, an error or a timeout; from
\* "holding" it returns because OpenStream failed.  releaseStream is deferred.
Finish(r) ==
  /\ rpc[r] \in {"holding", "streaming"}
  /\ streams' = [streams EXCEPT ![rconn[r]] = IF @ > 0 THEN @ - 1 ELSE @]
  /\ rpc' = [rpc EXCEPT ![r] = "idle"]
  /\ rconn' = [rconn EXCEPT ![r] = NoConn]
  /\ UNCHANGED <<connVars, muxOpen, firstFrame, byName, drainVars, revokeVars>>

----------------------------------------------------------------------------
(* Drain: POST /control/drain and /control/undrain                         *)

\* Connections past the draining check that add has not registered yet.
PastDrainCheck == {c \in Conns : pc[c] \in {"undrained", "authorized"}}

\* Drain stores the flag.
DrainStore ==
  /\ drainPc \in {"never", "returned"}
  /\ draining' = TRUE
  /\ drainPc' = "stored"
  /\ attempted' = {}
  /\ drainSlip' = PastDrainCheck
  /\ UNCHANGED <<connVars, muxOpen, firstFrame, byName, reqVars,
                 drainTodo, revokeVars>>

\* broadcastReconnect takes its snapshot of the registry.
DrainSnapshot ==
  /\ drainPc = "stored"
  /\ drainTodo' = Registered
  /\ drainPc' = "broadcast"
  /\ UNCHANGED <<connVars, muxOpen, firstFrame, byName, reqVars,
                 draining, attempted, drainSlip, revokeVars>>

\* signalReconnect opens a stream into one session; it fails on a closed mux,
\* and may fail on an open one (its deadline, a half-dead agent).
SignalReconnect(c) ==
  /\ drainPc = "broadcast"
  /\ c \in drainTodo
  /\ drainTodo' = drainTodo \ {c}
  /\ attempted' = attempted \cup {c}
  /\ \/ c \in muxOpen /\ Write(c, "stream")
     \/ UNCHANGED firstFrame
  /\ UNCHANGED <<connVars, muxOpen, byName, reqVars, draining, drainPc, drainSlip, revokeVars>>

\* wg.Wait returns and Drain answers the control plane.
DrainReturn ==
  /\ drainPc = "broadcast"
  /\ drainTodo = {}
  /\ drainPc' = "returned"
  /\ UNCHANGED <<connVars, muxOpen, firstFrame, byName, reqVars,
                 draining, drainTodo, attempted, drainSlip, revokeVars>>

\* The control plane aborts the drain.
Undrain ==
  /\ draining
  /\ draining' = FALSE
  /\ UNCHANGED <<connVars, muxOpen, firstFrame, byName, reqVars,
                 drainPc, drainTodo, attempted, drainSlip, revokeVars>>

----------------------------------------------------------------------------
(* Revocation                                                              *)

\* Connections past Authorize that add has not registered yet.
PastAuthorize == {c \in Conns : pc[c] = "authorized"}

\* Server.RevokeToken, RevokeName or RevokeAccount: x goes on the list.
Revoke(x) ==
  /\ adminPc = "idle"
  /\ x \notin revoked
  /\ revoked' = revoked \cup {x}
  /\ adminPc' = "listed"
  /\ revokeSlip' = revokeSlip \cup PastAuthorize
  /\ UNCHANGED <<connVars, muxOpen, firstFrame, byName, reqVars, drainVars, expired, sweepTodo>>

\* A grant's TTL elapses: no call is made, Authorize and the sweep read the clock.
Expire(t) ==
  /\ t \notin expired
  /\ expired' = expired \cup {t}
  /\ UNCHANGED <<connVars, muxOpen, firstFrame, byName, reqVars, drainVars,
                 revoked, adminPc, sweepTodo, revokeSlip>>

\* sweepRevoked takes its snapshot, on the operator's behalf or on a tick.
SweepSnapshot(k) ==
  /\ k = "admin" => adminPc = "listed"
  /\ sweepTodo[k] = {}
  /\ sweepTodo' = [sweepTodo EXCEPT ![k] = Registered]
  /\ adminPc' = IF k = "admin" THEN "sweeping" ELSE adminPc
  /\ UNCHANGED <<connVars, muxOpen, firstFrame, byName, reqVars, drainVars,
                 revoked, expired, revokeSlip>>

\* A mutation of Cut: only the token is rechecked, not the name and account.
CutByToken(c) ==
  muxOpen' = IF tokenOf[c] \in revoked \cup expired THEN muxOpen \ {c} ELSE muxOpen

\* A mutation of Cut: the sweep does not read the grant's TTL.
CutListed(c) ==
  muxOpen' = IF CredsOf(c) \cap revoked # {} THEN muxOpen \ {c} ELSE muxOpen

\* The recheck of one session: a revoked one has its mux closed.
Cut(c) == muxOpen' = IF Revoked(c) THEN muxOpen \ {c} ELSE muxOpen

\* One iteration of sweepRevoked.
SweepOne(k, c) ==
  /\ c \in sweepTodo[k]
  /\ Cut(c)
  /\ sweepTodo' = [sweepTodo EXCEPT ![k] = @ \ {c}]
  /\ UNCHANGED <<connVars, firstFrame, byName, reqVars, drainVars,
                 revoked, expired, adminPc, revokeSlip>>

\* The operator's Revoke call returns.
RevokeReturn ==
  /\ adminPc = "sweeping"
  /\ sweepTodo["admin"] = {}
  /\ adminPc' = "idle"
  /\ UNCHANGED <<connVars, muxOpen, firstFrame, byName, reqVars, drainVars,
                 revoked, expired, sweepTodo, revokeSlip>>

----------------------------------------------------------------------------
(* Specification                                                           *)

Subjects == Tokens \cup Names \cup Accounts

Init ==
  /\ pc = [c \in Conns |-> "idle"]
  /\ nameOf \in [Conns -> Names] /\ tokenOf \in [Conns -> Tokens]
  /\ muxOpen = {}
  /\ firstFrame = [c \in Conns |-> "none"]
  /\ byName = [n \in Names |-> NoConn]
  /\ rpc = [r \in Requests |-> "idle"]
  /\ rconn = [r \in Requests |-> NoConn]
  /\ streams = [c \in Conns |-> 0]
  /\ draining = FALSE
  /\ drainPc = "never"
  /\ drainTodo = {} /\ attempted = {}
  /\ revoked = {} /\ expired = {}
  /\ adminPc = "idle"
  /\ sweepTodo = [k \in Sweepers |-> {}]
  /\ drainSlip = {} /\ revokeSlip = {}

ControlStep(c) ==
  \/ Admit(c) \/ PassDrainCheck(c) \/ Authorize(c) \/ Add(c) \/ Refuse(c)
  \/ WriteAck(c) \/ AckFails(c) \/ PeerClose(c) \/ Release(c)

PublicStep(r) ==
  \/ Lookup(r) \/ AcquireStream(r) \/ Reject(r) \/ OpenStream(r) \/ Finish(r)

DrainStep ==
  \/ DrainStore \/ DrainSnapshot \/ DrainReturn \/ Undrain
  \/ \E c \in Conns : SignalReconnect(c)

RevokeStep ==
  \/ \E x \in Subjects : Revoke(x)
  \/ \E t \in Tokens : Expire(t)
  \/ \E k \in Sweepers : SweepSnapshot(k)
  \/ \E k \in Sweepers, c \in Conns : SweepOne(k, c)
  \/ RevokeReturn

Next ==
  \/ \E c \in Conns : ControlStep(c)
  \/ \E r \in Requests : PublicStep(r)
  \/ DrainStep
  \/ RevokeStep

Spec == Init /\ [][Next]_vars

\* The Go scheduler runs every runnable goroutine: the sweep's ticker keeps
\* ticking, a sweep rechecks every session of its snapshot, the ack write ends
\* within its deadline, and handleControl returns once its mux is closed.
\* Nothing is assumed of agents, clients, the operator or the control plane.
Fairness ==
  /\ WF_vars(SweepSnapshot("ticker"))
  /\ \A c \in Conns :
       /\ WF_vars(SweepOne("ticker", c))
       /\ WF_vars(WriteAck(c) \/ AckFails(c))
       /\ WF_vars(Release(c))

FairSpec == Spec /\ Fairness

----------------------------------------------------------------------------
(* Properties                                                              *)

TypeOK ==
  /\ pc \in [Conns -> Stages]
  /\ nameOf \in [Conns -> Names]
  /\ tokenOf \in [Conns -> Tokens]
  /\ muxOpen \subseteq Conns
  /\ firstFrame \in [Conns -> {"none", "ack", "stream"}]
  /\ byName \in [Names -> Conns \cup {NoConn}]
  /\ rpc \in [Requests -> {"idle", "found", "holding", "streaming"}]
  /\ rconn \in [Requests -> Conns \cup {NoConn}]
  /\ streams \in [Conns -> 0 .. StreamLimit]
  /\ draining \in BOOLEAN
  /\ drainPc \in {"never", "stored", "broadcast", "returned"}
  /\ drainTodo \subseteq Conns
  /\ attempted \subseteq Conns
  /\ revoked \subseteq Subjects
  /\ expired \subseteq Tokens
  /\ adminPc \in {"idle", "listed", "sweeping"}
  /\ sweepTodo \in [Sweepers -> SUBSET Conns]
  /\ drainSlip \subseteq Conns
  /\ revokeSlip \subseteq Conns

\* No name ever has two sessions with an open mux, whatever the order in which a
\* dying session's mux closes, its entry is released and a new session adds
\* itself (registry.add and the order of handleControl's deferred calls).
OneServingSessionPerName ==
  \A c, d \in muxOpen : nameOf[c] = nameOf[d] => c = d

\* The hard cap holds however many handshakes passed the admission check while
\* there was still room (registry.add checks it again under the lock).
RegistryWithinCap == Count <= MaxAgents

\* A session's stream counter is the number of requests in flight on it: no
\* return path of handlePublic loses or double-releases a slot.
StreamsAreInFlightRequests ==
  \A c \in Conns : streams[c] = Cardinality({r \in Requests : HoldsSlot(r, c)})

\* When Drain has returned, the only open sessions it did not try to signal are
\* those whose handshake was already past the second draining check when the
\* flag was stored.
DrainMissesOnlyInFlight ==
  draining /\ drainPc = "returned" =>
    \A c \in Conns : Serving(c) => c \in attempted \cup drainSlip

\* When a Revoke call has returned, the only open sessions with a listed token,
\* name or account are those that Authorize had already let through when the
\* entry was listed; every other one was cut by the call's own sweep or refused.
RevokeMissesOnlyInFlight ==
  adminPc = "idle" =>
    \A c \in Conns : Serving(c) /\ CredsOf(c) \cap revoked # {} => c \in revokeSlip

\* A registered session whose credential is revoked or expired does not stay:
\* the periodic sweep also cuts the one that slipped past a Revoke call's sweep.
RevokedSessionsEnd ==
  \A c \in Conns : (c \in Registered /\ Revoked(c)) ~> (c \notin Registered)

\* What drain.go says of Drain: it signals every connected agent, so that none
\* is left behind on a node the control plane is about to terminate.
DrainSignalsEveryAgent ==
  draining /\ drainPc = "returned" =>
    \A c \in Conns : Serving(c) => c \in attempted

\* What wire.go says of the handshake: yamux takes the connection over after
\* the ack, so the ack is the first thing the relay writes to an agent.
AckComesFirst ==
  \A c \in Conns : firstFrame[c] \in {"none", "ack"}

----------------------------------------------------------------------------
(* The abstract directory of tunnels that the relay implements             *)

ServedBy(n) == {c \in Conns : Serving(c) /\ nameOf[c] = n}

Owner == [n \in Names |-> IF ServedBy(n) = {} THEN NoConn ELSE CHOOSE c \in ServedBy(n) : TRUE]

Used == {c \in Conns : pc[c] \in {"added", "live", "closing", "gone"}}

Directory == INSTANCE TunnelDirectory WITH owner <- Owner, used <- Used

\* The relay implements the directory: a name goes from one session to another
\* only through being free, and a session that ended never serves again.
ImplementsDirectory == Directory!Spec

----------------------------------------------------------------------------
(* The inductive invariant behind the safety properties                    *)

\* byName and handleControl agree on who is registered, and only a registered
\* session has an open mux.
RegistryConsistent ==
  /\ \A n \in Names : byName[n] # NoConn =>
       nameOf[byName[n]] = n /\ pc[byName[n]] \in {"added", "live", "closing"}
  /\ \A c \in Conns : pc[c] \in {"added", "live", "closing"} => byName[nameOf[c]] = c
  /\ \A c \in muxOpen : pc[c] \in {"added", "live"}

\* A request past the lookup has a session.
RequestsRouted == \A r \in Requests : rpc[r] # "idle" => rconn[r] \in Conns

\* During a drain the handshakes past the check are the ones seen by DrainStore,
\* and the broadcast still has, or had, every other session to signal.
DrainCovers ==
  draining =>
    /\ PastDrainCheck \subseteq drainSlip
    /\ drainPc \in {"broadcast", "returned"} =>
         \A c \in Conns : Serving(c) => c \in drainTodo \cup attempted \cup drainSlip
    /\ drainPc = "returned" => drainTodo = {}

\* A session with a listed credential slipped past the listing, or the Revoke
\* call's sweep has not been taken or has still to recheck it.
RevokeCovers ==
  \A c \in Conns : CredsOf(c) \cap revoked # {} =>
    /\ pc[c] = "authorized" => c \in revokeSlip
    /\ Serving(c) => c \in revokeSlip \/ adminPc = "listed"
                     \/ (adminPc = "sweeping" /\ c \in sweepTodo["admin"])

IInv == TypeOK /\ RegistryConsistent /\ RequestsRouted /\ DrainCovers /\ RevokeCovers

====
