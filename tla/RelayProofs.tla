---------------------------- MODULE RelayProofs ----------------------------
(***************************************************************************)
(* The safety properties of Relay, for any number of connections, requests,*)
(* names, tokens and accounts and any positive caps.                       *)
(*                                                                         *)
(* IInv is inductive; its parts are proved to be preserved one by one, each*)
(* by a case split on the actions that touch the variables it mentions.    *)
(* The two counting properties rest on it and on finite-set arithmetic.    *)
(***************************************************************************)
EXTENDS Relay, TLAPS, FiniteSetTheorems

\* Every step is one of the named actions or leaves all variables alone.
LEMMA NextCases ==
  ASSUME [Next]_vars
  PROVE  \/ \E c \in Conns : ControlStep(c)
         \/ \E r \in Requests : PublicStep(r)
         \/ DrainStep
         \/ RevokeStep
         \/ UNCHANGED vars
BY DEF Next

\* Init establishes the inductive invariant.
LEMMA InitIInv == Init => IInv
<1> SUFFICES ASSUME Init PROVE IInv
  OBVIOUS
<1>1. streams \in [Conns -> 0 .. StreamLimit]
  BY LimitsAssumption DEF LimitsAssumption, Init
<1>2. /\ pc \in [Conns -> Stages]
      /\ byName \in [Names -> Conns \cup {NoConn}]
      /\ sweepTodo \in [Sweepers -> SUBSET Conns]
  BY DEF Init, Stages
<1>3. TypeOK
  BY <1>1, <1>2 DEF Init, TypeOK
<1>4. RegistryConsistent /\ RequestsRouted /\ DrainCovers /\ RevokeCovers
  BY DEF Init, RegistryConsistent, RequestsRouted, DrainCovers, RevokeCovers
<1> QED
  BY <1>3, <1>4 DEF IInv

\* The sessions in byName are connections.
LEMMA RegisteredAreConns == TypeOK => Registered \subseteq Conns
BY DEF TypeOK, Registered

\* No action leaves the types; acquireStream's bound keeps the stream counters
\* within MaxStreamsPerAgent.
LEMMA TypeOKStep ==
  ASSUME TypeOK, RequestsRouted, [Next]_vars
  PROVE  TypeOK'
<1> USE LimitsAssumption DEF LimitsAssumption, TypeOK
<1>1. ASSUME NEW c \in Conns, ControlStep(c)
      PROVE  TypeOK'
  <2>1. CASE Admit(c)
    BY <2>1 DEF Admit, Stages, reqVars, drainVars, revokeVars, Subjects
  <2>2. CASE PassDrainCheck(c)
    BY <2>2 DEF PassDrainCheck, Stages, reqVars, drainVars, revokeVars, Subjects
  <2>3. CASE Authorize(c)
    BY <2>3 DEF Authorize, Stages, reqVars, drainVars, revokeVars, Subjects
  <2>4. CASE Add(c)
    BY <2>4 DEF Add, Stages, reqVars, drainVars, revokeVars, Subjects
  <2>5. CASE Refuse(c)
    BY <2>5 DEF Refuse, Stages, reqVars, drainVars, revokeVars, Subjects
  <2>6. CASE WriteAck(c)
    BY <2>6 DEF WriteAck, Write, Stages, reqVars, drainVars, revokeVars, Subjects
  <2>7. CASE AckFails(c)
    BY <2>7 DEF AckFails, Stages, reqVars, drainVars, revokeVars, Subjects
  <2>8. CASE PeerClose(c)
    BY <2>8 DEF PeerClose, connVars, reqVars, drainVars, revokeVars, Subjects
  <2>9. CASE Release(c)
    BY <2>9 DEF Release, Stages, reqVars, drainVars, revokeVars, Subjects
  <2> QED
    BY <1>1, <2>1, <2>2, <2>3, <2>4, <2>5, <2>6, <2>7, <2>8, <2>9 DEF ControlStep
<1>2. ASSUME NEW r \in Requests, PublicStep(r)
      PROVE  TypeOK'
  <2>1. CASE Lookup(r)
    BY <2>1 DEF Lookup, connVars, drainVars, revokeVars, Subjects
  <2>2. CASE AcquireStream(r)
    BY <2>2 DEF AcquireStream, HasSlot, RequestsRouted, connVars, drainVars, revokeVars, Subjects
  <2>3. CASE Reject(r)
    BY <2>3 DEF Reject, connVars, drainVars, revokeVars, Subjects
  <2>4. CASE OpenStream(r)
    BY <2>4 DEF OpenStream, Write, connVars, drainVars, revokeVars, Subjects
  <2>5. CASE Finish(r)
    BY <2>5 DEF Finish, RequestsRouted, connVars, drainVars, revokeVars, Subjects
  <2> QED
    BY <1>2, <2>1, <2>2, <2>3, <2>4, <2>5 DEF PublicStep
<1>3. CASE DrainStep
  <2>1. CASE DrainStore
    BY <2>1 DEF DrainStore, PastDrainCheck, connVars, reqVars, revokeVars, Subjects
  <2>2. CASE DrainSnapshot
    BY <2>2, RegisteredAreConns DEF DrainSnapshot, connVars, reqVars, revokeVars, Subjects
  <2>3. CASE DrainReturn \/ Undrain
    BY <2>3 DEF DrainReturn, Undrain, connVars, reqVars, revokeVars, Subjects
  <2>4. ASSUME NEW c \in Conns, SignalReconnect(c)
        PROVE  TypeOK'
    BY <2>4 DEF SignalReconnect, Write, connVars, reqVars, revokeVars, Subjects
  <2> QED
    BY <1>3, <2>1, <2>2, <2>3, <2>4 DEF DrainStep
<1>4. CASE RevokeStep
  <2>1. ASSUME NEW x \in Subjects, Revoke(x)
        PROVE  TypeOK'
    BY <2>1 DEF Revoke, PastAuthorize, connVars, reqVars, drainVars, Subjects
  <2>2. ASSUME NEW t \in Tokens, Expire(t)
        PROVE  TypeOK'
    BY <2>2 DEF Expire, connVars, reqVars, drainVars, Subjects
  <2>3. ASSUME NEW k \in Sweepers, SweepSnapshot(k)
        PROVE  TypeOK'
    BY <2>3, RegisteredAreConns DEF SweepSnapshot, connVars, reqVars, drainVars, Subjects
  <2>4. ASSUME NEW k \in Sweepers, NEW c \in Conns, SweepOne(k, c)
        PROVE  TypeOK'
    BY <2>4 DEF SweepOne, Cut, connVars, reqVars, drainVars, Subjects
  <2>5. CASE RevokeReturn
    BY <2>5 DEF RevokeReturn, connVars, reqVars, drainVars, Subjects
  <2> QED
    BY <1>4, <2>1, <2>2, <2>3, <2>4, <2>5 DEF RevokeStep
<1>5. CASE UNCHANGED vars
  BY <1>5 DEF vars, connVars, reqVars, drainVars, revokeVars, Subjects
<1> QED
  BY <1>1, <1>2, <1>3, <1>4, <1>5, NextCases

\* byName and handleControl's stage stay in step: add checks the name is free,
\* and a session releases its entry only after its mux is closed.
LEMMA RegistryConsistentStep ==
  ASSUME TypeOK, RegistryConsistent, [Next]_vars
  PROVE  RegistryConsistent'
<1> USE NoConnAssumption DEF NoConnAssumption, TypeOK, RegistryConsistent
<1>1. ASSUME NEW c \in Conns, ControlStep(c)
      PROVE  RegistryConsistent'
  <2>1. CASE Admit(c) \/ PassDrainCheck(c) \/ Authorize(c) \/ Refuse(c)
    BY <2>1 DEF Admit, PassDrainCheck, Authorize, Refuse, Stages
  <2>2. CASE Add(c)
    BY <2>2 DEF Add, CanAdd, Stages
  <2>3. CASE WriteAck(c)
    BY <2>3 DEF WriteAck, Stages
  <2>4. CASE AckFails(c)
    BY <2>4 DEF AckFails, Stages
  <2>5. CASE PeerClose(c)
    BY <2>5 DEF PeerClose, connVars
  <2>6. CASE Release(c)
    BY <2>6 DEF Release, SessionOver, Stages
  <2> QED
    BY <1>1, <2>1, <2>2, <2>3, <2>4, <2>5, <2>6 DEF ControlStep
<1>2. ASSUME NEW r \in Requests, PublicStep(r)
      PROVE  RegistryConsistent'
  BY <1>2 DEF PublicStep, Lookup, AcquireStream, Reject, OpenStream, Finish, connVars
<1>3. CASE DrainStep
  BY <1>3 DEF DrainStep, DrainStore, DrainSnapshot, SignalReconnect, DrainReturn, Undrain, connVars
<1>4. CASE RevokeStep
  <2>1. UNCHANGED <<pc, nameOf, byName>> /\ muxOpen' \subseteq muxOpen
    BY <1>4 DEF RevokeStep, Revoke, Expire, SweepSnapshot, SweepOne, Cut, RevokeReturn, connVars
  <2> QED
    BY <2>1
<1>5. CASE UNCHANGED vars
  BY <1>5 DEF vars, connVars
<1> QED
  BY <1>1, <1>2, <1>3, <1>4, <1>5, NextCases

\* A request keeps the session it looked up until it has been answered.
LEMMA RequestsRoutedStep ==
  ASSUME TypeOK, RequestsRouted, [Next]_vars
  PROVE  RequestsRouted'
<1> USE DEF TypeOK, RequestsRouted
<1>1. ASSUME NEW r \in Requests, PublicStep(r)
      PROVE  RequestsRouted'
  BY <1>1 DEF PublicStep, Lookup, AcquireStream, Reject, OpenStream, Finish
<1>2. ASSUME UNCHANGED <<rpc, rconn>>
      PROVE  RequestsRouted'
  BY <1>2
<1>3. ASSUME NEW c \in Conns, ControlStep(c)
      PROVE  UNCHANGED <<rpc, rconn>>
  BY <1>3 DEF ControlStep, Admit, PassDrainCheck, Authorize, Add, Refuse, WriteAck,
              AckFails, PeerClose, Release, reqVars
<1>4. CASE DrainStep
  BY <1>2, <1>4 DEF DrainStep, DrainStore, DrainSnapshot, SignalReconnect, DrainReturn, Undrain, reqVars
<1>5. CASE RevokeStep
  BY <1>2, <1>5 DEF RevokeStep, Revoke, Expire, SweepSnapshot, SweepOne, RevokeReturn, reqVars
<1>6. CASE UNCHANGED vars
  BY <1>2, <1>6 DEF vars, reqVars
<1> QED
  BY <1>1, <1>2, <1>3, <1>4, <1>5, <1>6, NextCases

\* An open session is in the registry, so every snapshot holds it.
LEMMA ServingIsRegistered ==
  ASSUME TypeOK, RegistryConsistent, NEW c \in Conns, Serving(c)
  PROVE  c \in Registered
BY NoConnAssumption DEF NoConnAssumption, TypeOK, RegistryConsistent, Serving, Registered

\* A session added during a drain had passed the check before the flag was
\* stored; every other open session was in the broadcast's snapshot.
LEMMA DrainCoversStep ==
  ASSUME TypeOK, RegistryConsistent, DrainCovers, [Next]_vars
  PROVE  DrainCovers'
<1> USE DEF TypeOK, DrainCovers, PastDrainCheck, Serving
<1>1. ASSUME NEW c \in Conns, ControlStep(c)
      PROVE  DrainCovers'
  <2>1. CASE Admit(c) \/ PassDrainCheck(c) \/ Authorize(c) \/ Refuse(c)
    <3>1. /\ UNCHANGED <<muxOpen, drainVars>>
          /\ \A d \in Conns : pc'[d] \notin {"added", "live"} \/ pc'[d] = pc[d]
      BY <2>1 DEF Admit, PassDrainCheck, Authorize, Refuse
    <3>2. draining => PastDrainCheck' \subseteq PastDrainCheck
      BY <2>1 DEF Admit, PassDrainCheck, Authorize, Refuse
    <3> QED
      BY <3>1, <3>2 DEF drainVars
  <2>2. CASE Add(c)
    BY <2>2 DEF Add, Stages, drainVars
  <2>3. CASE WriteAck(c) \/ AckFails(c)
    BY <2>3 DEF WriteAck, AckFails, Stages, drainVars
  <2>4. CASE PeerClose(c)
    BY <2>4 DEF PeerClose, connVars, drainVars
  <2>5. CASE Release(c)
    BY <2>5 DEF Release, Stages, drainVars
  <2> QED
    BY <1>1, <2>1, <2>2, <2>3, <2>4, <2>5 DEF ControlStep
<1>2. ASSUME NEW r \in Requests, PublicStep(r)
      PROVE  DrainCovers'
  BY <1>2 DEF PublicStep, Lookup, AcquireStream, Reject, OpenStream, Finish, connVars, drainVars
<1>3. CASE DrainStep
  <2>1. CASE DrainStore
    BY <2>1 DEF DrainStore, connVars
  <2>2. CASE DrainSnapshot
    BY <2>2, ServingIsRegistered DEF DrainSnapshot, connVars
  <2>3. ASSUME NEW c \in Conns, SignalReconnect(c)
        PROVE  DrainCovers'
    BY <2>3 DEF SignalReconnect, connVars
  <2>4. CASE DrainReturn \/ Undrain
    BY <2>4 DEF DrainReturn, Undrain, connVars
  <2> QED
    BY <1>3, <2>1, <2>2, <2>3, <2>4 DEF DrainStep
<1>4. CASE RevokeStep
  <2>1. UNCHANGED <<pc, drainVars>> /\ muxOpen' \subseteq muxOpen
    BY <1>4 DEF RevokeStep, Revoke, Expire, SweepSnapshot, SweepOne, Cut, RevokeReturn, connVars
  <2> QED
    BY <2>1 DEF drainVars
<1>5. CASE UNCHANGED vars
  BY <1>5 DEF vars, connVars, drainVars
<1> QED
  BY <1>1, <1>2, <1>3, <1>4, <1>5, NextCases

\* A listed credential's sessions: Authorize lets none through after the
\* listing, and the sweep's snapshot holds the open ones.
LEMMA RevokeCoversStep ==
  ASSUME TypeOK, RegistryConsistent, RevokeCovers, [Next]_vars
  PROVE  RevokeCovers'
<1> USE DEF TypeOK, RevokeCovers, CredsOf, Serving
<1>1. ASSUME NEW c \in Conns, ControlStep(c)
      PROVE  RevokeCovers'
  <2>1. CASE Admit(c) \/ PassDrainCheck(c) \/ Refuse(c)
    BY <2>1 DEF Admit, PassDrainCheck, Refuse, Stages, revokeVars
  <2>2. CASE Authorize(c)
    BY <2>2 DEF Authorize, Revoked, Stages, revokeVars
  <2>3. CASE Add(c)
    BY <2>3 DEF Add, Stages, revokeVars
  <2>4. CASE WriteAck(c) \/ AckFails(c)
    BY <2>4 DEF WriteAck, AckFails, Stages, revokeVars
  <2>5. CASE PeerClose(c)
    BY <2>5 DEF PeerClose, connVars, revokeVars
  <2>6. CASE Release(c)
    BY <2>6 DEF Release, Stages, revokeVars
  <2> QED
    BY <1>1, <2>1, <2>2, <2>3, <2>4, <2>5, <2>6 DEF ControlStep
<1>2. ASSUME NEW r \in Requests, PublicStep(r)
      PROVE  RevokeCovers'
  BY <1>2 DEF PublicStep, Lookup, AcquireStream, Reject, OpenStream, Finish, connVars, revokeVars
<1>3. CASE DrainStep
  BY <1>3 DEF DrainStep, DrainStore, DrainSnapshot, SignalReconnect, DrainReturn, Undrain,
              connVars, revokeVars
<1>4. CASE RevokeStep
  <2>1. ASSUME NEW x \in Subjects, Revoke(x)
        PROVE  RevokeCovers'
    BY <2>1 DEF Revoke, PastAuthorize, connVars
  <2>2. ASSUME NEW t \in Tokens, Expire(t)
        PROVE  RevokeCovers'
    BY <2>2 DEF Expire, connVars
  <2>3. ASSUME NEW k \in Sweepers, SweepSnapshot(k)
        PROVE  RevokeCovers'
    BY <2>3, ServingIsRegistered DEF SweepSnapshot, Sweepers, connVars
  <2>4. ASSUME NEW k \in Sweepers, NEW c \in Conns, SweepOne(k, c)
        PROVE  RevokeCovers'
    BY <2>4 DEF SweepOne, Cut, Revoked, Sweepers, connVars
  <2>5. CASE RevokeReturn
    BY <2>5 DEF RevokeReturn, connVars
  <2> QED
    BY <1>4, <2>1, <2>2, <2>3, <2>4, <2>5 DEF RevokeStep
<1>5. CASE UNCHANGED vars
  BY <1>5 DEF vars, connVars, revokeVars
<1> QED
  BY <1>1, <1>2, <1>3, <1>4, <1>5, NextCases

\* The inductive invariant holds in every reachable state of the relay.
THEOREM Invariance == Spec => []IInv
<1>1. IInv /\ [Next]_vars => IInv'
  BY TypeOKStep, RegistryConsistentStep, RequestsRoutedStep, DrainCoversStep, RevokeCoversStep DEF IInv
<1> QED
  BY <1>1, InitIInv, PTL DEF Spec

\* The types are preserved in every reachable state.
THEOREM TypeCorrect == Spec => []TypeOK
BY Invariance, PTL DEF IInv

\* No name is served by two open sessions.
THEOREM OneServing == Spec => []OneServingSessionPerName
<1>1. IInv => OneServingSessionPerName
  BY DEF IInv, TypeOK, RegistryConsistent, OneServingSessionPerName
<1> QED
  BY <1>1, Invariance, PTL

\* A returned Drain has tried every open session but those whose handshake was
\* past the check when it began.
THEOREM DrainMisses == Spec => []DrainMissesOnlyInFlight
<1>1. IInv => DrainMissesOnlyInFlight
  BY DEF IInv, DrainCovers, DrainMissesOnlyInFlight
<1> QED
  BY <1>1, Invariance, PTL

\* A returned Revoke leaves open only sessions that Authorize had let through
\* before the listing.
THEOREM RevokeMisses == Spec => []RevokeMissesOnlyInFlight
<1>1. IInv => RevokeMissesOnlyInFlight
  BY DEF IInv, RevokeCovers, RevokeMissesOnlyInFlight
<1> QED
  BY <1>1, Invariance, PTL

----------------------------------------------------------------------------
(* The counting properties                                                 *)

\* The names with a session are finitely many.
LEMMA TakenFinite == IsFiniteSet({n \in Names : byName[n] # NoConn})
BY FinitenessAssumption, FS_Subset DEF FinitenessAssumption

\* add re-checks the cap under the lock, and nothing else grows the registry.
THEOREM CapRespected == Spec => []RegistryWithinCap
<1> DEFINE Taken == {n \in Names : byName[n] # NoConn}
<1>1. Init => RegistryWithinCap
  <2> SUFFICES ASSUME Init PROVE RegistryWithinCap
    OBVIOUS
  <2>1. Taken = {}
    BY DEF Init
  <2> QED
    BY <2>1, FS_EmptySet, LimitsAssumption DEF RegistryWithinCap, Count, LimitsAssumption
<1>2. ASSUME IInv, RegistryWithinCap, [Next]_vars
      PROVE  RegistryWithinCap'
  <2>0. Cardinality(Taken) \in Nat /\ IsFiniteSet(Taken) /\ Cardinality(Taken) <= MaxAgents
    BY <1>2, TakenFinite, FS_CardinalityType DEF RegistryWithinCap, Count
  <2>1. ASSUME NEW c \in Conns, Add(c)
        PROVE  RegistryWithinCap'
    <3>1. nameOf[c] \in Names /\ Taken' = Taken \cup {nameOf[c]} /\ nameOf[c] \notin Taken
      BY <1>2, <2>1, NoConnAssumption DEF IInv, TypeOK, Add, CanAdd, NoConnAssumption
    <3>2. Cardinality(Taken') = Cardinality(Taken) + 1
      BY <2>0, <3>1, FS_AddElement
    <3>3. Cardinality(Taken) < MaxAgents
      BY <2>1 DEF Add, CanAdd, Count
    <3> HIDE DEF Taken
    <3>4. Cardinality(Taken') <= MaxAgents
      BY <2>0, <3>2, <3>3, LimitsAssumption DEF LimitsAssumption
    <3> QED
      BY <3>4 DEF RegistryWithinCap, Count, Taken
  <2>2. ASSUME NEW c \in Conns, Release(c)
        PROVE  RegistryWithinCap'
    <3>1. Taken' \subseteq Taken
      BY <1>2, <2>2 DEF IInv, TypeOK, Release
    <3>2. IsFiniteSet(Taken') /\ Cardinality(Taken') \in Nat /\ Cardinality(Taken') <= Cardinality(Taken)
      BY <2>0, <3>1, FS_Subset, FS_CardinalityType
    <3> HIDE DEF Taken
    <3>3. Cardinality(Taken') <= MaxAgents
      BY <2>0, <3>2, LimitsAssumption DEF LimitsAssumption
    <3> QED
      BY <3>3 DEF RegistryWithinCap, Count, Taken
  <2>3. CASE UNCHANGED byName
    BY <1>2, <2>3 DEF RegistryWithinCap, Count
  <2>4. ASSUME NEW c \in Conns, ControlStep(c), ~Add(c), ~Release(c)
        PROVE  UNCHANGED byName
    BY <2>4 DEF ControlStep, Admit, PassDrainCheck, Authorize, Refuse, WriteAck, AckFails, PeerClose
  <2>5. ASSUME NEW r \in Requests, PublicStep(r)
        PROVE  UNCHANGED byName
    BY <2>5 DEF PublicStep, Lookup, AcquireStream, Reject, OpenStream, Finish
  <2>6. DrainStep => UNCHANGED byName
    BY DEF DrainStep, DrainStore, DrainSnapshot, SignalReconnect, DrainReturn, Undrain
  <2>7. RevokeStep => UNCHANGED byName
    BY DEF RevokeStep, Revoke, Expire, SweepSnapshot, SweepOne, RevokeReturn
  <2>8. UNCHANGED vars => UNCHANGED byName
    BY DEF vars
  <2> QED
    BY <1>2, <2>1, <2>2, <2>3, <2>4, <2>5, <2>6, <2>7, <2>8, NextCases
<1> QED
  BY <1>1, <1>2, Invariance, PTL DEF Spec

\* Every path through handlePublic takes and returns exactly one slot.
THEOREM StreamsCounted == Spec => []StreamsAreInFlightRequests
<1> DEFINE Slots(c) == {r \in Requests : HoldsSlot(r, c)}
<1>1. Init => StreamsAreInFlightRequests
  <2> SUFFICES ASSUME Init, NEW c \in Conns
               PROVE  streams[c] = Cardinality(Slots(c))
    BY DEF StreamsAreInFlightRequests
  <2>1. Slots(c) = {} /\ streams[c] = 0
    BY DEF Init, HoldsSlot
  <2> QED
    BY <2>1, FS_EmptySet
<1>2. ASSUME IInv, StreamsAreInFlightRequests, [Next]_vars
      PROVE  StreamsAreInFlightRequests'
  <2> SUFFICES ASSUME NEW c \in Conns
               PROVE  streams'[c] = Cardinality(Slots(c)')
    BY DEF StreamsAreInFlightRequests
  <2>0. /\ IsFiniteSet(Slots(c))
        /\ Cardinality(Slots(c)) \in Nat
        /\ streams[c] = Cardinality(Slots(c))
    BY <1>2, FinitenessAssumption, FS_Subset, FS_CardinalityType
       DEF FinitenessAssumption, StreamsAreInFlightRequests
  <2>1. ASSUME NEW r \in Requests, AcquireStream(r)
        PROVE  streams'[c] = Cardinality(Slots(c)')
    <3>1. CASE rconn[r] = c
      <4>1. Slots(c)' = Slots(c) \cup {r} /\ r \notin Slots(c)
        BY <1>2, <2>1, <3>1 DEF IInv, TypeOK, AcquireStream, HoldsSlot
      <4>2. streams'[c] = streams[c] + 1
        BY <1>2, <2>1, <3>1 DEF IInv, TypeOK, AcquireStream
      <4> QED
        BY <2>0, <4>1, <4>2, FS_AddElement
    <3>2. CASE rconn[r] # c
      <4>1. Slots(c)' = Slots(c) /\ streams'[c] = streams[c]
        BY <1>2, <2>1, <3>2 DEF IInv, TypeOK, AcquireStream, HoldsSlot
      <4> QED
        BY <2>0, <4>1
    <3> QED
      BY <3>1, <3>2
  <2>2. ASSUME NEW r \in Requests, Finish(r)
        PROVE  streams'[c] = Cardinality(Slots(c)')
    <3>1. CASE rconn[r] = c
      <4>1. Slots(c)' = Slots(c) \ {r} /\ r \in Slots(c)
        BY <1>2, <2>2, <3>1, NoConnAssumption DEF IInv, TypeOK, Finish, HoldsSlot, NoConnAssumption
      <4>2. Cardinality(Slots(c)) # 0
        BY <2>0, <4>1, FS_EmptySet
      <4>3. streams'[c] = streams[c] - 1
        BY <1>2, <2>0, <2>2, <3>1, <4>2 DEF IInv, TypeOK, Finish
      <4> QED
        BY <2>0, <4>1, <4>3, FS_RemoveElement
    <3>2. CASE rconn[r] # c
      <4>1. Slots(c)' = Slots(c) /\ streams'[c] = streams[c]
        BY <1>2, <2>2, <3>2, NoConnAssumption DEF IInv, TypeOK, Finish, HoldsSlot, NoConnAssumption
      <4> QED
        BY <2>0, <4>1
    <3> QED
      BY <3>1, <3>2
  <2>3. ASSUME NEW r \in Requests, Lookup(r) \/ Reject(r) \/ OpenStream(r)
        PROVE  streams'[c] = Cardinality(Slots(c)')
    <3>1. Slots(c)' = Slots(c) /\ streams' = streams
      BY <1>2, <2>3 DEF IInv, TypeOK, Lookup, Reject, OpenStream, HoldsSlot
    <3> QED
      BY <2>0, <3>1
  <2>4. CASE UNCHANGED reqVars
    <3>1. Slots(c)' = Slots(c) /\ streams' = streams
      BY <2>4 DEF reqVars, HoldsSlot
    <3> QED
      BY <2>0, <3>1
  <2>5. ASSUME NEW d \in Conns, ControlStep(d)
        PROVE  UNCHANGED reqVars
    BY <2>5 DEF ControlStep, Admit, PassDrainCheck, Authorize, Add, Refuse, WriteAck,
                AckFails, PeerClose, Release
  <2>6. DrainStep => UNCHANGED reqVars
    BY DEF DrainStep, DrainStore, DrainSnapshot, SignalReconnect, DrainReturn, Undrain
  <2>7. RevokeStep => UNCHANGED reqVars
    BY DEF RevokeStep, Revoke, Expire, SweepSnapshot, SweepOne, RevokeReturn
  <2>8. UNCHANGED vars => UNCHANGED reqVars
    BY DEF vars
  <2> QED
    BY <1>2, <2>1, <2>2, <2>3, <2>4, <2>5, <2>6, <2>7, <2>8, NextCases DEF PublicStep
<1> QED
  BY <1>1, <1>2, Invariance, PTL DEF Spec

----------------------------------------------------------------------------
(* The relay implements TunnelDirectory                                    *)

\* Under the invariant the owner of a name is read off byName and muxOpen.
OpenEntry == [n \in Names |-> IF byName[n] \in muxOpen THEN byName[n] ELSE NoConn]

\* The open entries of byName are the owners.
LEMMA OwnerIsOpenEntry == TypeOK /\ RegistryConsistent => Owner = OpenEntry
<1> SUFFICES ASSUME TypeOK, RegistryConsistent, NEW n \in Names
             PROVE  (IF ServedBy(n) = {} THEN NoConn ELSE CHOOSE c \in ServedBy(n) : TRUE)
                      = IF byName[n] \in muxOpen THEN byName[n] ELSE NoConn
  BY DEF Owner, OpenEntry
<1> USE NoConnAssumption DEF NoConnAssumption, TypeOK, RegistryConsistent
<1>1. CASE byName[n] \in muxOpen
  <2>1. ServedBy(n) = {byName[n]}
    BY <1>1 DEF ServedBy, Serving
  <2> QED
    BY <1>1, <2>1
<1>2. CASE byName[n] \notin muxOpen
  <2>1. ServedBy(n) = {}
    BY <1>2 DEF ServedBy, Serving
  <2> QED
    BY <1>2, <2>1
<1> QED
  BY <1>1, <1>2

\* Closing a mux frees the name of the session, or changes nothing.
LEMMA CloseDrops ==
  ASSUME IInv, NEW c \in Conns, Owner = OpenEntry, Owner' = OpenEntry',
         UNCHANGED byName, Used' = Used, muxOpen' = muxOpen \ {c}
  PROVE  Directory!DirNext \/ UNCHANGED Directory!dirVars
<1> USE NoConnAssumption DEF NoConnAssumption, IInv, TypeOK, RegistryConsistent
<1>1. CASE c \in muxOpen
  <2>1. nameOf[c] \in Names /\ Owner[nameOf[c]] = c /\ Owner' = [Owner EXCEPT ![nameOf[c]] = NoConn]
    BY <1>1 DEF OpenEntry
  <2>2. Directory!Drop(nameOf[c])
    BY <2>1 DEF Directory!Drop
  <2> QED
    BY <2>1, <2>2 DEF Directory!DirNext
<1>2. CASE c \notin muxOpen
  <2>1. Owner' = Owner
    BY <1>2 DEF OpenEntry
  <2> QED
    BY <2>1 DEF Directory!dirVars
<1> QED
  BY <1>1, <1>2

\* Every step of the relay is a step of the directory or leaves it alone.
LEMMA DirectoryStep ==
  ASSUME IInv, [Next]_vars, Owner = OpenEntry, Owner' = OpenEntry'
  PROVE  Directory!DirNext \/ UNCHANGED Directory!dirVars
<1> USE NoConnAssumption DEF NoConnAssumption, IInv, TypeOK, RegistryConsistent
<1>0. ASSUME UNCHANGED <<pc, byName, muxOpen>>
      PROVE  UNCHANGED Directory!dirVars
  BY <1>0 DEF OpenEntry, Used, Directory!dirVars
<1>1. ASSUME NEW c \in Conns, ControlStep(c)
      PROVE  Directory!DirNext \/ UNCHANGED Directory!dirVars
  <2>1. CASE Admit(c) \/ PassDrainCheck(c) \/ Authorize(c) \/ WriteAck(c)
    <3>1. UNCHANGED <<byName, muxOpen, nameOf>>
      BY <2>1 DEF Admit, PassDrainCheck, Authorize, WriteAck
    <3>2. Owner' = Owner
      BY <3>1 DEF OpenEntry
    <3>3. Used' = Used
      <4>1. CASE Admit(c)
        BY <4>1 DEF Admit, Used
      <4>2. CASE PassDrainCheck(c)
        BY <4>2 DEF PassDrainCheck, Used
      <4>3. CASE Authorize(c)
        BY <4>3 DEF Authorize, Used
      <4>4. CASE WriteAck(c)
        BY <4>4 DEF WriteAck, Used
      <4> QED
        BY <2>1, <4>1, <4>2, <4>3, <4>4
    <3> QED
      BY <3>2, <3>3 DEF Directory!dirVars
  <2>2. CASE Add(c)
    <3>1. nameOf[c] \in Names /\ Owner[nameOf[c]] = NoConn
      BY <2>2 DEF Add, CanAdd, OpenEntry
    <3>2. Owner' = [Owner EXCEPT ![nameOf[c]] = c]
      BY <2>2, <3>1 DEF Add, CanAdd, OpenEntry
    <3>3. c \notin Used /\ Used' = Used \cup {c}
      BY <2>2 DEF Add, Used
    <3>4. Directory!Claim(nameOf[c], c)
      BY <3>1, <3>2, <3>3 DEF Directory!Claim
    <3> QED
      BY <3>1, <3>4 DEF Directory!DirNext
  <2>3. CASE Refuse(c)
    <3>1. c \notin Used /\ Used' = Used \cup {c} /\ Owner' = Owner
      BY <2>3 DEF Refuse, Used, OpenEntry
    <3> QED
      BY <3>1 DEF Directory!TurnAway, Directory!DirNext
  <2>4. CASE AckFails(c)
    <3>1. Used' = Used
      BY <2>4 DEF AckFails, Used
    <3> QED
      BY <2>4, <3>1, CloseDrops DEF AckFails
  <2>5. CASE PeerClose(c)
    <3>1. Used' = Used
      BY <2>5 DEF PeerClose, Used, connVars
    <3> QED
      BY <2>5, <3>1, CloseDrops DEF PeerClose
  <2>6. CASE Release(c)
    <3>1. c \notin muxOpen /\ Used' = Used
      BY <2>6 DEF Release, SessionOver, Used
    <3>2. Owner' = Owner
      BY <2>6, <3>1 DEF Release, OpenEntry
    <3> QED
      BY <3>1, <3>2 DEF Directory!dirVars
  <2> QED
    BY <1>1, <2>1, <2>2, <2>3, <2>4, <2>5, <2>6 DEF ControlStep
<1>2. ASSUME NEW r \in Requests, PublicStep(r)
      PROVE  UNCHANGED Directory!dirVars
  BY <1>0, <1>2 DEF PublicStep, Lookup, AcquireStream, Reject, OpenStream, Finish, connVars
<1>3. CASE DrainStep
  BY <1>0, <1>3 DEF DrainStep, DrainStore, DrainSnapshot, SignalReconnect, DrainReturn, Undrain, connVars
<1>4. ASSUME NEW k \in Sweepers, NEW c \in Conns, SweepOne(k, c)
      PROVE  Directory!DirNext \/ UNCHANGED Directory!dirVars
  <2>1. UNCHANGED <<pc, byName>> /\ Used' = Used
    BY <1>4 DEF SweepOne, connVars, Used
  <2>2. muxOpen' = muxOpen \/ muxOpen' = muxOpen \ {c}
    BY <1>4 DEF SweepOne, Cut
  <2> QED
    BY <1>0, <2>1, <2>2, CloseDrops
<1>5. ASSUME RevokeStep, \A k \in Sweepers, c \in Conns : ~SweepOne(k, c)
      PROVE  UNCHANGED Directory!dirVars
  BY <1>0, <1>5 DEF RevokeStep, Revoke, Expire, SweepSnapshot, RevokeReturn, connVars
<1>6. CASE UNCHANGED vars
  BY <1>0, <1>6 DEF vars, connVars
<1> QED
  BY <1>1, <1>2, <1>3, <1>4, <1>5, <1>6, NextCases

\* The relay implements the abstract directory of tunnels.
THEOREM Refinement == Spec => ImplementsDirectory
<1>1. Init => Directory!DirInit
  <2> SUFFICES ASSUME Init PROVE Directory!DirInit
    OBVIOUS
  <2>1. Owner = [n \in Names |-> NoConn]
    BY DEF Init, Owner, ServedBy, Serving
  <2>2. Used = {}
    BY DEF Init, Used
  <2> QED
    BY <2>1, <2>2 DEF Directory!DirInit
<1>2. IInv => Owner = OpenEntry
  BY OwnerIsOpenEntry DEF IInv
<1>3. IInv /\ [Next]_vars /\ Owner = OpenEntry /\ (Owner = OpenEntry)'
        => [Directory!DirNext]_Directory!dirVars
  BY DirectoryStep
<1> QED
  BY <1>1, <1>2, <1>3, Invariance, PTL DEF Spec, ImplementsDirectory, Directory!Spec

====
