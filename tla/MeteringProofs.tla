--------------------------- MODULE MeteringProofs ---------------------------
(***************************************************************************)
(* Exactly-once billing, for any usage, any number of accounts, any queue  *)
(* bound and any number of restarts.                                       *)
(***************************************************************************)
EXTENDS Metering, TLAPS

\* The relay starts in the invariant.
LEMMA InitIInv == Init => IInv
<1> SUFFICES ASSUME Init PROVE IInv
  OBVIOUS
<1>1. stop \in BOOLEAN /\ final \in BOOLEAN
  BY DEF Init
<1>2. retry \in Seq(issued) /\ batches \in Seq(issued) /\ failed \in Seq(issued)
  BY DEF Init
<1>3. TypeOK
  BY <1>1, <1>2 DEF Init, TypeOK
<1>4. BatchesDisjoint /\ BillIsApplied
  BY DEF Init, BatchesDisjoint, BillIsApplied, Applied
<1> QED
  BY <1>3, <1>4 DEF IInv

\* The batch a flush drains carries an id of its own and units of its own.
LEMMA FlushStartPreserves ==
  ASSUME IInv, FlushStart
  PROVE  IInv'
<1> USE DEF IInv
<1>0. final' \in BOOLEAN
  BY DEF FlushStart, TypeOK
<1>1. CASE pending = {}
  <2>1. batches' \in Seq(issued)
    BY <1>1 DEF FlushStart, ToPost, TypeOK
  <2>2. TypeOK'
    BY <1>0, <1>1, <2>1 DEF FlushStart, TypeOK, cpVars
  <2>3. BatchesDisjoint' /\ BillIsApplied'
    BY <1>1 DEF FlushStart, BatchesDisjoint, BillIsApplied, Applied, cpVars
  <2> QED
    BY <2>2, <2>3
<1>2. CASE pending # {}
  <2>1. Drained \in Batch /\ Drained.id = <<boot, seq + 1>> /\ Drained.items = pending
    BY DEF TypeOK, Batch, Drained, ReportID
  <2>2. \A x \in issued : /\ x \in Batch
                          /\ x.id = <<x.id[1], x.id[2]>> /\ x.id[1] \in Nat /\ x.id[2] \in Nat
    BY DEF TypeOK, Batch
  <2>3. \A x \in issued : x.id # Drained.id /\ x.items \cap Drained.items = {}
    BY <2>1, <2>2 DEF TypeOK, BatchesDisjoint
  <2>4. Drained.id \notin cpSeen
    BY <2>3 DEF TypeOK
  <2>5. /\ issued' = issued \cup {Drained} /\ seq' = seq + 1 /\ batches' = retry \o <<Drained>>
        /\ pending' = {} /\ retry' = <<>> /\ fpc' = "posting"
        /\ UNCHANGED <<boot, stop, failed, cpVars, metered, unmetered, acked, shed, lost>>
    BY <1>2 DEF FlushStart, ToPost
  <2> HIDE DEF IInv
  <2>6. TypeOK'
    <3>1. /\ retry' \in Seq(issued') /\ failed' \in Seq(issued') /\ batches' \in Seq(issued')
      <4>1. retry \in Seq(issued \cup {Drained}) /\ failed \in Seq(issued \cup {Drained})
        BY DEF IInv, TypeOK
      <4> QED
        BY <2>5, <4>1
    <3>2. issued' \subseteq Batch
      BY <2>1, <2>5 DEF IInv, TypeOK
    <3> QED
      BY <1>0, <2>5, <3>1, <3>2 DEF IInv, TypeOK, cpVars
  <2>7. BatchesDisjoint'
    <3>1. \A x, y \in issued' : x # y => x.id # y.id /\ x.items \cap y.items = {}
      BY <2>3, <2>5 DEF IInv, BatchesDisjoint
    <3>2. \A x \in issued' : x.id[1] < boot' \/ (x.id[1] = boot' /\ x.id[2] <= seq')
      BY <2>1, <2>2, <2>5 DEF IInv, TypeOK, BatchesDisjoint
    <3>3. \A x \in issued' : x.items \cap pending' = {} /\ x.items \subseteq metered'
      BY <2>1, <2>5 DEF IInv, BatchesDisjoint
    <3> QED
      BY <2>5, <3>1, <3>2, <3>3 DEF BatchesDisjoint
  <2>8. BillIsApplied'
    <3>1. \A u : Applied(u)' <=> Applied(u)
      BY <2>4, <2>5 DEF Applied, cpVars
    <3> QED
      BY <2>5, <3>1 DEF IInv, BillIsApplied, cpVars
  <2> QED
    BY <2>6, <2>7, <2>8 DEF IInv
<1> QED
  BY <1>1, <1>2

\* A report is applied once: its id is new to the CP only while no unit of it
\* has been billed.
LEMMA CPHandlePreserves ==
  ASSUME IInv, NEW m \in net, CPHandle(m)
  PROVE  IInv'
<1> USE DEF IInv
<1>1. m \in issued /\ m \in Batch
  BY DEF TypeOK
<1>2. UNCHANGED <<pending, retry, boot, seq, stop, fpc, batches, failed, final, net,
                  metered, unmetered, issued, acked, shed, lost>>
  BY DEF CPHandle, meterVars, flushVars, obsVars
<1>3. cpSeen' = cpSeen \cup {m.id} /\ billed' \in [Units -> Nat]
  BY DEF CPHandle, TypeOK
<1>4. TypeOK'
  BY <1>2, <1>3 DEF TypeOK
<1>5. BatchesDisjoint'
  BY <1>2 DEF BatchesDisjoint
<1>6. BillIsApplied'
  <2>1. CASE m.id \in cpSeen
    BY <1>2, <1>3, <2>1 DEF CPHandle, TypeOK, BillIsApplied, Applied
  <2>2. CASE m.id \notin cpSeen
    <3>1. \A b \in issued : b.id = m.id => b = m
      BY <1>1 DEF BatchesDisjoint
    <3>2. \A u \in m.items : ~Applied(u)
      BY <1>1, <2>2 DEF BatchesDisjoint, Applied
    <3>3. \A u \in Units : Applied(u)' <=> Applied(u) \/ u \in m.items
      BY <1>1, <1>2, <1>3, <3>1 DEF Applied
    <3>4. \A u \in Units : billed'[u] = IF u \in m.items THEN billed[u] + 1 ELSE billed[u]
      BY <2>2 DEF CPHandle
    <3>5. \A u \in Units : billed[u] = IF Applied(u) THEN 1 ELSE 0
      BY DEF BillIsApplied
    <3>6. \A u \in acked' : Applied(u)'
      BY <1>2, <3>3 DEF BillIsApplied, TypeOK
    <3> HIDE DEF Applied
    <3>7. \A u \in Units : billed'[u] = IF Applied(u)' THEN 1 ELSE 0
      BY <3>2, <3>3, <3>4, <3>5
    <3> QED
      BY <3>6, <3>7 DEF BillIsApplied
  <2> QED
    BY <2>1, <2>2
<1> QED
  BY <1>4, <1>5, <1>6

\* Every step preserves the invariant.
LEMMA NextIInv ==
  ASSUME IInv, [Next]_vars
  PROVE  IInv'
<1>1. ASSUME NEW u \in Units, Record(u)
      PROVE  IInv'
  <2>1. TypeOK'
    BY <1>1 DEF IInv, TypeOK, Record, flushVars, cpVars
  <2>2. BatchesDisjoint'
    BY <1>1 DEF IInv, TypeOK, BatchesDisjoint, Record
  <2>3. BillIsApplied'
    BY <1>1 DEF IInv, BillIsApplied, Applied, Record, cpVars
  <2> QED
    BY <2>1, <2>2, <2>3 DEF IInv
<1>2. CASE FlushStart
  BY <1>2, FlushStartPreserves
<1>3. CASE FlushNothing
  BY <1>3 DEF IInv, TypeOK, BatchesDisjoint, BillIsApplied, Applied, FlushNothing,
              meterVars, cpVars, obsVars
<1>4. CASE Post
  <2>1. Head(batches) \in issued
    BY <1>4 DEF IInv, TypeOK, Post
  <2>2. TypeOK'
    BY <1>4, <2>1 DEF IInv, TypeOK, Post, meterVars, obsVars
  <2>3. BatchesDisjoint' /\ BillIsApplied'
    BY <1>4 DEF IInv, BatchesDisjoint, BillIsApplied, Applied, Post, meterVars, obsVars
  <2> QED
    BY <2>2, <2>3 DEF IInv
<1>5. CASE PostOK
  <2>1. Head(batches) \in issued /\ Head(batches) \in Batch /\ Tail(batches) \in Seq(issued)
    BY <1>5 DEF IInv, TypeOK, PostOK
  <2>2. TypeOK'
    BY <1>5, <2>1 DEF IInv, TypeOK, PostOK, Batch, meterVars, cpVars
  <2>3. BatchesDisjoint'
    BY <1>5 DEF IInv, BatchesDisjoint, PostOK, meterVars
  <2>4. BillIsApplied'
    BY <1>5, <2>1 DEF IInv, BillIsApplied, Applied, PostOK, cpVars
  <2> QED
    BY <2>2, <2>3, <2>4 DEF IInv
<1>6. CASE PostFails
  <2>1. Head(batches) \in issued /\ Tail(batches) \in Seq(issued)
    BY <1>6 DEF IInv, TypeOK, PostFails
  <2>2. TypeOK'
    BY <1>6, <2>1 DEF IInv, TypeOK, PostFails, meterVars, cpVars, obsVars
  <2>3. BatchesDisjoint' /\ BillIsApplied'
    BY <1>6 DEF IInv, BatchesDisjoint, BillIsApplied, Applied, PostFails, meterVars, cpVars, obsVars
  <2> QED
    BY <2>2, <2>3 DEF IInv
<1>7. CASE FlushEnd
  <2>1. retry' \in Seq(issued)
    <3> DEFINE q == retry \o failed
    <3>1. q \in Seq(issued) /\ Len(q) \in Nat
      BY DEF IInv, TypeOK
    <3> HIDE DEF q
    <3>2. Kept(q) \in Seq(issued)
      BY <3>1, MeterAssumption DEF Kept, MeterAssumption
    <3> QED
      BY <1>7, <3>2 DEF FlushEnd, q
  <2>2. shed' \subseteq Units
    BY <1>7 DEF IInv, TypeOK, Batch, FlushEnd, UnitsIn
  <2>3. TypeOK'
    BY <1>7, <2>1, <2>2 DEF IInv, TypeOK, FlushEnd, cpVars
  <2>4. BatchesDisjoint' /\ BillIsApplied'
    BY <1>7 DEF IInv, BatchesDisjoint, BillIsApplied, Applied, FlushEnd, cpVars
  <2> QED
    BY <2>3, <2>4 DEF IInv
<1>8. CASE Stop
  BY <1>8 DEF IInv, TypeOK, BatchesDisjoint, BillIsApplied, Applied, Stop,
              flushVars, cpVars, obsVars
<1>9. CASE Restart
  <2>1. lost' \subseteq Units
    BY <1>9 DEF IInv, TypeOK, Batch, Restart, Held, UnitsIn
  <2>2. stop' \in BOOLEAN /\ final' \in BOOLEAN
    BY <1>9 DEF Restart
  <2>3. retry' \in Seq(issued') /\ batches' \in Seq(issued') /\ failed' \in Seq(issued')
    BY <1>9 DEF Restart
  <2>4. TypeOK'
    <3>1. boot' \in Nat /\ seq' \in Nat
      BY <1>9 DEF IInv, TypeOK, Restart
    <3>2. cpSeen' \subseteq {m.id : m \in net'}
      BY <1>9 DEF IInv, TypeOK, Restart, cpVars
    <3>3. fpc' = "waiting"
      BY <1>9 DEF Restart
    <3> QED
      BY <1>9, <2>1, <2>2, <2>3, <3>1, <3>2, <3>3 DEF IInv, TypeOK, Restart, cpVars
  <2>5. \A x \in issued : x.id[1] \in Nat
    BY DEF IInv, TypeOK, Batch
  <2>6. BatchesDisjoint'
    <3>1. issued' = issued /\ metered' = metered /\ pending' = {} /\ boot' = boot + 1
      BY <1>9 DEF Restart
    <3>2. \A x \in issued' : x.id[1] < boot'
      BY <2>5, <3>1 DEF IInv, TypeOK, BatchesDisjoint
    <3> QED
      BY <3>1, <3>2 DEF IInv, BatchesDisjoint
  <2>7. BillIsApplied'
    BY <1>9 DEF IInv, BillIsApplied, Applied, Restart, cpVars
  <2> QED
    BY <2>4, <2>6, <2>7 DEF IInv
<1>10. ASSUME NEW m \in net, CPHandle(m)
       PROVE  IInv'
  BY <1>10, CPHandlePreserves
<1>11. CASE UNCHANGED vars
  BY <1>11 DEF IInv, TypeOK, BatchesDisjoint, BillIsApplied, Applied, vars,
               meterVars, flushVars, cpVars, obsVars
<1> QED
  BY <1>1, <1>2, <1>3, <1>4, <1>5, <1>6, <1>7, <1>8, <1>9, <1>10, <1>11 DEF Next

\* The invariant holds in every reachable state.
THEOREM Invariance == Spec => []IInv
<1>1. IInv /\ [Next]_vars => IInv'
  BY NextIInv
<1> QED
  BY <1>1, InitIInv, PTL DEF Spec

\* The types are preserved.
THEOREM TypeCorrect == Spec => []TypeOK
BY Invariance, PTL DEF IInv

\* No unit of usage is ever billed twice.
THEOREM NoDoubleBilling == Spec => []NeverBilledTwice
<1>1. IInv => NeverBilledTwice
  BY DEF IInv, BillIsApplied, NeverBilledTwice
<1> QED
  BY <1>1, Invariance, PTL

\* Usage the meter forgets because its post succeeded has been billed.
THEOREM AcknowledgedBilled == Spec => []AckedIsBilled
<1>1. IInv => AckedIsBilled
  BY DEF IInv, TypeOK, BillIsApplied, AckedIsBilled
<1> QED
  BY <1>1, Invariance, PTL

====
