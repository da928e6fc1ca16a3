------------------------------- MODULE Agent -------------------------------
(***************************************************************************)
(* The box side of a tunnel: tunnel/agent (Start, Stop, the supervise loop,*)
(* the make-before-break handoff), together with the relay nodes (PoPs) it *)
(* can be assigned to, each reduced to whether it drains and whether the   *)
(* agent's name is registered there.                                       *)
(*                                                                         *)
(* A loop is one superviseFrom goroutine: resolve a PoP, dial, register,   *)
(* serve, back off, again.  On a drain signal the serving loop starts a    *)
(* successor loop and waits for it, bounded, before it winds its own       *)
(* session down; the successor may by then have its own signal.            *)
(***************************************************************************)
EXTENDS Naturals, FiniteSets

CONSTANTS
  Loops,    \* goroutines; one that has returned can stand for a new one
  PoPs,     \* relay nodes
  Default,  \* the PoP of Options.ServerURL
  None

ASSUME AgentAssumption == Default \in PoPs /\ None \notin Loops

VARIABLES
  \* Agent
  running,       \* Agent.running
  status,        \* Agent.status
  reconnectReq,  \* a signal is buffered in Agent.reconnectReq
  stopPc,        \* Stop: "none", "waiting" (for handoffWG) or "returned"
  \* one superviseFrom goroutine each
  pc,            \* pc[l]: how far loop l is
  pop,           \* pop[l]: the PoP that loop l dials or serves
  cancelled,     \* loops whose context is cancelled
  successors,    \* loops started by gracefulHandoff (handoffWG counts them)
  pred,          \* pred[l]: the loop that waits for l's ready channel, or None
  readyClosed,   \* loops whose successor has closed its ready channel
  \* the PoPs
  draining,      \* PoPs that drain
  reg,           \* reg[p]: the loop whose session holds the name at p, or None
  \* observers (no code reads them)
  served         \* loops that have registered since they were started

agentVars == <<running, status, reconnectReq, stopPc>>
loopVars  == <<pc, pop, cancelled, successors, pred, readyClosed, served>>
popVars   == <<draining, reg>>
vars      == <<agentVars, loopVars, popVars>>

Stages == {"off", "stagger", "top", "dialing", "acked", "serving",
           "handoff", "winding", "backoff"}

\* The stages of a loop that owns the tunnel, and of one that has handed it on.
Owning == {"stagger", "top", "dialing", "acked", "serving", "backoff"}
HandedOff == {"handoff", "winding"}

----------------------------------------------------------------------------
(* Helpers                                                                 *)

GoTo(l, s) == pc' = [pc EXCEPT ![l] = s]


\* The session of loop l is closed: its PoP releases the name.  (A PoP that is
\* slow to notice refuses the next registration: RegisterFails allows it.)
CloseSession(l) == reg' = [p \in PoPs |-> IF reg[p] = l THEN None ELSE reg[p]]

\* A mutation of Counted: gracefulHandoff forgets handoffWG.Add.
CountedNot(m) == successors

\* handoffWG.Add(1) for the successor m.
Counted(m) == successors \cup {m}

\* The goroutine l returns: what it held goes with it, its place can be reused.
Exit(l) ==
  /\ pc' = [pc EXCEPT ![l] = "off"]
  /\ pop' = [pop EXCEPT ![l] = Default]
  /\ cancelled' = cancelled \ {l}
  /\ successors' = successors \ {l}
  /\ pred' = [m \in Loops |-> IF m = l \/ pred[m] = l THEN None ELSE pred[m]]
  /\ readyClosed' = readyClosed \ {l}
  /\ served' = served \ {l}

----------------------------------------------------------------------------
(* Start, Stop and the drain signal                                        *)

\* Start: no-op when running; otherwise a first supervise loop.
Start ==
  /\ ~running
  /\ stopPc # "waiting"   \* one caller at a time
  /\ running' = TRUE
  /\ status' = "starting"
  /\ stopPc' = "none"
  /\ \E l \in Loops : pc[l] = "off" /\ GoTo(l, "top")
  /\ UNCHANGED <<reconnectReq, pop, cancelled, successors, pred, readyClosed, served, popVars>>

\* Stop: mark stopped, cancel the context of every loop, wait for successors.
Stop ==
  /\ stopPc # "waiting"
  /\ running' = FALSE
  /\ status' = "stopped"
  /\ stopPc' = "waiting"
  /\ cancelled' = {l \in Loops : pc[l] # "off"}
  /\ UNCHANGED <<reconnectReq, pc, pop, successors, pred, readyClosed, served, popVars>>


\* handoffWG has reached zero.
SuccessorsGone == successors = {}

\* Stop returns.
StopReturn ==
  /\ stopPc = "waiting"
  /\ SuccessorsGone
  /\ stopPc' = "returned"
  /\ UNCHANGED <<running, status, reconnectReq, loopVars, popVars>>

\* A draining PoP's reconnect command arrives on a session that is being served
\* (requestReconnect: a buffer of one, a further signal is dropped).
Signal(p) ==
  /\ p \in draining
  /\ reg[p] # None
  /\ pc[reg[p]] \in {"serving", "handoff"}
  /\ reconnectReq' = TRUE
  /\ UNCHANGED <<running, status, stopPc, loopVars, popVars>>

----------------------------------------------------------------------------
(* superviseFrom and connectOnce                                           *)

\* The loop returns because its context is cancelled; its session is closed.
Cancelled(l) ==
  /\ l \in cancelled
  /\ pc[l] \in Owning \cup {"handoff"}
  /\ pc[l] # "acked"
  /\ CloseSession(l)
  /\ Exit(l)
  /\ UNCHANGED <<agentVars, draining>>

\* The stagger of a successor's first dial has passed.
StaggerOver(l) ==
  /\ pc[l] = "stagger"
  /\ GoTo(l, "top")
  /\ UNCHANGED <<agentVars, pop, cancelled, successors, pred, readyClosed, served, popVars>>

\* The head of the loop, then resolveEndpoint: the directory assigns a PoP that does not drain; when it
\* cannot be asked, the agent dials its configured one.
Resolve(l, p) ==
  /\ pc[l] = "top"
  /\ l \notin cancelled
  /\ p \notin draining \/ p = Default
  /\ pop' = [pop EXCEPT ![l] = p]
  /\ GoTo(l, "dialing")
  /\ UNCHANGED <<agentVars, cancelled, successors, pred, readyClosed, served, popVars>>

\* dial and register succeed: the PoP holds the name for this session.
RegisterOK(l) ==
  /\ pc[l] = "dialing"
  /\ pop[l] \notin draining
  /\ reg[pop[l]] = None
  /\ reg' = [reg EXCEPT ![pop[l]] = l]
  /\ served' = served \cup {l}
  /\ GoTo(l, "acked")
  /\ UNCHANGED <<agentVars, pop, cancelled, successors, pred, readyClosed, draining>>

\* A mutation of Retry: a successor that fails gives up.
RetryGivesUp(l, s) ==
  /\ \/ /\ l \in cancelled \cup successors
        /\ Exit(l)
        /\ UNCHANGED status
     \/ /\ l \notin cancelled \cup successors
        /\ GoTo(l, "backoff")
        /\ pred' = [pred EXCEPT ![l] = None]
        /\ status' = s
        /\ UNCHANGED <<pop, cancelled, successors, readyClosed, served>>
  /\ UNCHANGED <<running, reconnectReq, stopPc, draining>>

\* connectOnce returned without a handoff: ready is forgotten, and unless the
\* context is cancelled the status is set and the loop backs off.
Retry(l, s) ==
  /\ \/ /\ l \in cancelled
        /\ Exit(l)
        /\ UNCHANGED status
     \/ /\ l \notin cancelled
        /\ GoTo(l, "backoff")
        /\ pred' = [pred EXCEPT ![l] = None]
        /\ status' = s
        /\ UNCHANGED <<pop, cancelled, successors, readyClosed, served>>
  /\ UNCHANGED <<running, reconnectReq, stopPc, draining>>

\* dial or register fails.  A shed (draining, at capacity) is transient; a taken
\* name or an unreachable PoP is an error.
RegisterFails(l) ==
  /\ pc[l] = "dialing"
  /\ Retry(l, "starting") \/ Retry(l, "error")
  /\ UNCHANGED reg

\* A mutation of Announce: ready is closed before the registration is known
\* to be good, on the way into the dial.
AnnounceEarly(l) ==
  /\ pc[l] \in {"dialing", "acked"}
  /\ status' = "connected"
  /\ readyClosed' = readyClosed \cup ({pred[l]} \ {None})
  /\ GoTo(l, IF pc[l] = "acked" THEN "serving" ELSE "dialing")
  /\ UNCHANGED <<running, reconnectReq, stopPc, pop, cancelled, successors, pred, served, popVars>>

\* After the ack: the status becomes connected and ready is closed.
Announce(l) ==
  /\ pc[l] = "acked"
  /\ status' = "connected"
  /\ readyClosed' = readyClosed \cup ({pred[l]} \ {None})
  /\ GoTo(l, "serving")
  /\ UNCHANGED <<running, reconnectReq, stopPc, pop, cancelled, successors, pred, served, popVars>>

\* The session drops while it is served: cleanly or with an accept error.
SessionEnds(l) ==
  /\ pc[l] = "serving"
  /\ Retry(l, "starting") \/ Retry(l, "error")
  /\ CloseSession(l)

\* The backoff has passed.
BackoffOver(l) ==
  /\ pc[l] = "backoff"
  /\ GoTo(l, "top")
  /\ UNCHANGED <<agentVars, pop, cancelled, successors, pred, readyClosed, served, popVars>>

----------------------------------------------------------------------------
(* gracefulHandoff                                                         *)

\* The serving loop l takes the signal and starts its successor m.
Handoff(l, m) ==
  /\ pc[l] = "serving"
  /\ pc[m] = "off"
  /\ reconnectReq
  /\ reconnectReq' = FALSE
  /\ pc' = [pc EXCEPT ![l] = "handoff", ![m] = "stagger"]
  /\ successors' = Counted(m)
  /\ cancelled' = IF l \in cancelled THEN cancelled \cup {m} ELSE cancelled
  /\ pred' = [pred EXCEPT ![m] = l]
  /\ UNCHANGED <<running, status, stopPc, pop, readyClosed, served, popVars>>

\* The wait ends: the successor is connected, or handoffTimeout has passed.
HandoffWaited(l) ==
  /\ pc[l] = "handoff"
  /\ GoTo(l, "winding")
  /\ UNCHANGED <<agentVars, pop, cancelled, successors, pred, readyClosed, served, popVars>>

\* A session that has been handed on can drop by itself; nobody watches it.
OldSessionDrops(l) ==
  /\ pc[l] \in HandedOff
  /\ \E p \in PoPs : reg[p] = l
  /\ CloseSession(l)
  /\ UNCHANGED <<agentVars, loopVars, draining>>

\* A mutation of WindDown: the caller's loop does not see outcomeHandedOff and
\* goes on to reconnect.
WindDownRetry(l) ==
  /\ pc[l] = "winding"
  /\ CloseSession(l)
  /\ GoTo(l, "backoff")
  /\ pred' = [m \in Loops |-> IF m = l \/ pred[m] = l THEN None ELSE pred[m]]
  /\ UNCHANGED <<agentVars, pop, cancelled, successors, readyClosed, served, draining>>

\* GoAway, a grace period for streams in flight, Close; the loop returns.
WindDown(l) ==
  /\ pc[l] = "winding"
  /\ CloseSession(l)
  /\ Exit(l)
  /\ UNCHANGED <<agentVars, draining>>

----------------------------------------------------------------------------
(* The PoPs                                                                *)

\* The control plane drains a PoP, never the last one; or undrains it.
DrainPoP(p) ==
  /\ p \notin draining
  /\ draining \cup {p} # PoPs
  /\ draining' = draining \cup {p}
  /\ UNCHANGED <<agentVars, loopVars, reg>>

UndrainPoP(p) ==
  /\ p \in draining
  /\ draining' = draining \ {p}
  /\ UNCHANGED <<agentVars, loopVars, reg>>

----------------------------------------------------------------------------
(* Specification                                                           *)

Init ==
  /\ running = FALSE /\ status = "stopped" /\ reconnectReq = FALSE /\ stopPc = "none"
  /\ pc = [l \in Loops |-> "off"]
  /\ pop = [l \in Loops |-> Default]
  /\ cancelled = {} /\ successors = {} /\ readyClosed = {} /\ served = {}
  /\ pred = [l \in Loops |-> None]
  /\ draining = {}
  /\ reg = [p \in PoPs |-> None]

LoopStep(l) ==
  \/ Cancelled(l) \/ StaggerOver(l) \/ (\E p \in PoPs : Resolve(l, p))
  \/ RegisterOK(l) \/ RegisterFails(l) \/ Announce(l)
  \/ BackoffOver(l) \/ HandoffWaited(l) \/ WindDown(l)
  \/ \E m \in Loops \ {l} : Handoff(l, m)

Next ==
  \/ Start \/ Stop \/ StopReturn
  \/ \E l \in Loops : LoopStep(l) \/ SessionEnds(l) \/ OldSessionDrops(l)
  \/ \E p \in PoPs : Signal(p) \/ DrainPoP(p) \/ UndrainPoP(p)

Spec == Init /\ [][Next]_vars

\* The scheduler runs every loop and its timers fire; the directory assigns
\* every available PoP from time to time, and a PoP that can register the agent
\* again and again does so.  Nothing is assumed of Start, Stop and the drains.
Fairness ==
  /\ WF_vars(StopReturn)
  /\ \A l \in Loops :
       /\ WF_vars(LoopStep(l))
       /\ SF_vars(RegisterOK(l))
       /\ \A p \in PoPs : SF_vars(p \notin draining /\ Resolve(l, p))

FairSpec == Spec /\ Fairness

----------------------------------------------------------------------------
(* Properties                                                              *)

TypeOK ==
  /\ running \in BOOLEAN /\ reconnectReq \in BOOLEAN
  /\ status \in {"stopped", "starting", "connected", "error"}
  /\ stopPc \in {"none", "waiting", "returned"}
  /\ pc \in [Loops -> Stages]
  /\ pop \in [Loops -> PoPs]
  /\ cancelled \subseteq Loops /\ successors \subseteq Loops
  /\ readyClosed \subseteq Loops /\ served \subseteq Loops
  /\ pred \in [Loops -> Loops \cup {None}]
  /\ draining \subseteq PoPs
  /\ reg \in [PoPs -> Loops \cup {None}]
  /\ \A m \in Loops : pred[m] # None => m \in successors /\ pc[pred[m]] \in HandedOff

\* At most one loop of a running agent resolves, dials or serves: every other
\* one has handed the tunnel on and only winds down.
OneOwner ==
  \A l, m \in Loops \ cancelled : pc[l] \in Owning /\ pc[m] \in Owning => l = m


\* A loop is told that its successor is ready only when that successor has
\* registered: the old session is not given up for one that does not exist.
ReadyMeansRegistered ==
  \A l, m \in Loops : pred[m] = l /\ l \in readyClosed => m \in served


\* An agent that is not stopped comes back: whatever sessions drop, PoPs drain
\* and handoffs time out, it serves again.
ComesBack == running ~> (~running \/ \E l \in Loops : pc[l] = "serving")

\* What agent.go says of requestReconnect: a burst of drain signals triggers
\* exactly one migration.  Where one PoP drains, once, no loop that a migration
\* has started migrates again.
OneMigrationPerDrain ==
  [][\A l, m \in Loops : Handoff(l, m) => l \notin successors]_vars

\* What conn.go says of ready: it is closed once the first session of the
\* successor's loop is connected, so the predecessor does not wait longer.
ReadyOnFirstSession ==
  \A l \in Loops : pc[l] = "handoff" /\ (\E m \in successors : pc[m] = "serving")
                     => l \in readyClosed

====
