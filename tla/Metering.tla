------------------------------ MODULE Metering ------------------------------
(***************************************************************************)
(* The usage meter of a relay node and the control plane (CP) that bills:  *)
(* tunnel/server/metering.go and CPClient.ReportUsage.                     *)
(*                                                                         *)
(* The data path adds to per-account counters.  One goroutine drains them  *)
(* on a tick into an immutable batch with a report id, posts it, and keeps *)
(* a batch whose post failed for the next tick under the same id.  A post  *)
(* fails when the CP never saw it, when it arrives after the deadline, and *)
(* when only the answer is lost; the CP tells retries from new batches by  *)
(* their id.  The process may crash, which forgets all of the meter's      *)
(* state, while its posts may still be under way.                          *)
(*                                                                         *)
(* A unit is one countable amount of relayed bytes or one session; counters*)
(* are modelled as the set of units they count.                            *)
(***************************************************************************)
EXTENDS Naturals, Sequences, FiniteSets

CONSTANTS
  Units,            \* amounts of usage, each relayed once
  Accounts,         \* billing accounts
  AccountOf,        \* AccountOf[u]: the account that unit u is metered to
  MaxAccounts,      \* meter.maxAccounts
  MaxRetryBatches,  \* meter.maxRetryBatches
  MaxBoots          \* bound: how often the process is started again

ASSUME MeterAssumption ==
  /\ AccountOf \in [Units -> Accounts]
  /\ MaxAccounts \in Nat \ {0}
  /\ MaxRetryBatches \in Nat \ {0}
  /\ MaxBoots \in Nat

VARIABLES
  \* meter
  pending,   \* units in meter.pending
  retry,     \* meter.retry: failed batches, oldest first
  boot,      \* meter.bootID: the number of restarts stands for the nonce
  seq,       \* meter.seq
  stop,      \* meter.stop is closed
  \* flushOnce
  fpc,       \* the flush goroutine: "waiting", "posting", "awaiting" or "ended"
  batches,   \* batches this flush has still to post
  failed,    \* batches whose post failed in this flush
  final,     \* this is the flush that follows stop
  \* the CP (external)
  net,       \* reports sent; each may reach the CP late, repeatedly or never
  cpSeen,    \* report ids the CP has applied
  billed,    \* billed[u]: how often the CP has billed unit u
  \* observers (no code reads them)
  metered,   \* units that addBytes or addSession counted
  unmetered, \* units dropped because MaxAccounts accounts were pending
  issued,    \* every batch ever drained
  acked,     \* units of batches whose post succeeded
  shed,      \* units of batches dropped by requeue
  lost       \* units the meter held when the process died

meterVars == <<pending, retry, boot, seq, stop>>
flushVars == <<fpc, batches, failed, final>>
cpVars    == <<net, cpSeen, billed>>
obsVars   == <<metered, unmetered, issued, acked, shed, lost>>
vars      == <<meterVars, flushVars, cpVars, obsVars>>

----------------------------------------------------------------------------
(* Helpers                                                                 *)

\* The units in the batches of sequence s.
UnitsIn(s) == UNION {s[i].items : i \in DOMAIN s}

\* The accounts that have an entry in meter.pending.
PendingAccounts == {AccountOf[u] : u \in pending}

\* What the meter still holds.
Held == pending \cup UnitsIn(retry) \cup UnitsIn(batches) \cup UnitsIn(failed)

----------------------------------------------------------------------------
(* The data path                                                           *)

\* The account has an entry already, or there is room for one more.
CanMeter(u) ==
  AccountOf[u] \in PendingAccounts \/ Cardinality(PendingAccounts) < MaxAccounts

\* addBytes or addSession: the unit is counted, or dropped when the map is full.
Record(u) ==
  /\ u \notin metered \cup unmetered
  /\ IF CanMeter(u)
       THEN /\ pending' = pending \cup {u}
            /\ metered' = metered \cup {u}
            /\ UNCHANGED unmetered
       ELSE /\ unmetered' = unmetered \cup {u}
            /\ UNCHANGED <<pending, metered>>
  /\ UNCHANGED <<retry, boot, seq, stop, flushVars, cpVars, issued, acked, shed, lost>>

----------------------------------------------------------------------------
(* flushOnce                                                               *)

\* A mutation of ReportID: the id is not mixed with the boot nonce.
ReportIDNoBoot(b, s) == <<0, s>>

\* nextReportID: unique within a boot by its counter, across boots by the nonce.
ReportID(b, s) == <<b, s>>

\* A mutation of Due: failed batches wait for a flush that has new usage.
DueIfFresh == pending # {}

\* There is something to post: a failed batch or new usage.
Due == retry # <<>> \/ pending # {}

\* A mutation of ToPost: takeRetry's result is overwritten by the fresh batch.
ToPostFresh(fresh) == fresh

\* What a flush posts: the failed batches first, then the fresh one.
ToPost(fresh) == retry \o fresh

\* The batch that drain makes of the counters.
Drained == [id |-> ReportID(boot, seq + 1), items |-> pending]

\* takeRetry and drain, on a tick or after stop.  They are two critical
\* sections, but only this goroutine touches retry in between.
FlushStart ==
  /\ fpc = "waiting"
  /\ Due
  /\ IF pending = {}
       THEN /\ batches' = ToPost(<<>>)
            /\ UNCHANGED <<issued, seq>>
       ELSE /\ batches' = ToPost(<<Drained>>)
            /\ issued' = issued \cup {Drained}
            /\ seq' = seq + 1
  /\ pending' = {}
  /\ retry' = <<>>
  /\ final' \in {FALSE, stop}
  /\ fpc' = "posting"
  /\ UNCHANGED <<boot, stop, failed, cpVars, metered, unmetered, acked, shed, lost>>

\* The final flush finds nothing to post.
FlushNothing ==
  /\ fpc = "waiting"
  /\ stop
  /\ ~Due
  /\ fpc' = "ended"
  /\ UNCHANGED <<meterVars, batches, failed, final, cpVars, obsVars>>

\* ReportUsage sends the next batch.
Post ==
  /\ fpc = "posting"
  /\ batches # <<>>
  /\ net' = net \cup {Head(batches)}
  /\ fpc' = "awaiting"
  /\ UNCHANGED <<meterVars, batches, failed, final, cpSeen, billed, obsVars>>

\* A mutation of PostOK: the loop does not go on to the next batch.
PostOKStuck ==
  /\ fpc = "awaiting"
  /\ Head(batches).id \in cpSeen
  /\ batches' = Tail(batches)
  /\ acked' = acked \cup Head(batches).items
  /\ UNCHANGED <<fpc, meterVars, failed, final, cpVars, metered, unmetered, issued, shed, lost>>

\* The CP's 200 arrives in time.
PostOK ==
  /\ fpc = "awaiting"
  /\ Head(batches).id \in cpSeen
  /\ batches' = Tail(batches)
  /\ acked' = acked \cup Head(batches).items
  /\ fpc' = "posting"
  /\ UNCHANGED <<meterVars, failed, final, cpVars, metered, unmetered, issued, shed, lost>>

\* A mutation of PostFails: the batch is kept for a retry under a new id.
PostFailsNewID ==
  LET again == [Head(batches) EXCEPT !.id = ReportID(boot, seq + 1)]
  IN  /\ fpc = "awaiting"
      /\ seq' = seq + 1
      /\ issued' = issued \cup {again}
      /\ failed' = Append(failed, again)
      /\ batches' = Tail(batches)
      /\ fpc' = "posting"
      /\ UNCHANGED <<pending, retry, boot, stop, final, cpVars, metered, unmetered, acked, shed, lost>>

\* The post fails or its answer does not come within the deadline, whatever the
\* CP has done or will do with it.
PostFails ==
  /\ fpc = "awaiting"
  /\ failed' = Append(failed, Head(batches))
  /\ batches' = Tail(batches)
  /\ fpc' = "posting"
  /\ UNCHANGED <<meterVars, final, cpVars, obsVars>>

\* A mutation of Kept: the queue is not bounded.
KeptAll(q) == q

\* The newest MaxRetryBatches of the batches in q.
Kept(q) == SubSeq(q, IF Len(q) > MaxRetryBatches THEN Len(q) - MaxRetryBatches + 1 ELSE 1, Len(q))

\* requeue: the failed batches wait for the next tick, the oldest are dropped
\* when there are too many.  The goroutine ends after the final flush.
FlushEnd ==
  /\ fpc = "posting"
  /\ batches = <<>>
  /\ LET q == retry \o failed
     IN  /\ retry' = Kept(q)
         /\ shed' = shed \cup (UnitsIn(q) \ UnitsIn(Kept(q)))
  /\ failed' = <<>>
  /\ fpc' = IF final THEN "ended" ELSE "waiting"
  /\ UNCHANGED <<pending, boot, seq, stop, batches, final, cpVars,
                 metered, unmetered, issued, acked, lost>>

\* stopAndFlush closes the stop channel.
Stop ==
  /\ ~stop
  /\ stop' = TRUE
  /\ UNCHANGED <<pending, retry, boot, seq, flushVars, cpVars, obsVars>>

\* The process dies, or exits after stopAndFlush, and is started again.
Restart ==
  /\ boot < MaxBoots
  /\ boot' = boot + 1
  /\ lost' = lost \cup Held
  /\ pending' = {} /\ retry' = <<>> /\ seq' = 0 /\ stop' = FALSE
  /\ fpc' = "waiting" /\ batches' = <<>> /\ failed' = <<>> /\ final' = FALSE
  /\ UNCHANGED <<cpVars, metered, unmetered, issued, acked, shed>>

----------------------------------------------------------------------------
(* The control plane                                                       *)

\* The CP handles a report: a report id it has applied before is a no-op.
CPHandle(m) ==
  /\ cpSeen' = cpSeen \cup {m.id}
  /\ billed' = IF m.id \in cpSeen THEN billed
               ELSE [u \in Units |-> IF u \in m.items THEN billed[u] + 1 ELSE billed[u]]
  /\ UNCHANGED <<meterVars, flushVars, net, obsVars>>

----------------------------------------------------------------------------
(* Specification                                                           *)

Init ==
  /\ pending = {} /\ retry = <<>> /\ boot = 0 /\ seq = 0 /\ stop = FALSE
  /\ fpc = "waiting" /\ batches = <<>> /\ failed = <<>> /\ final = FALSE
  /\ net = {} /\ cpSeen = {} /\ billed = [u \in Units |-> 0]
  /\ metered = {} /\ unmetered = {} /\ issued = {} /\ acked = {} /\ shed = {} /\ lost = {}

Next ==
  \/ \E u \in Units : Record(u)
  \/ FlushStart \/ FlushNothing \/ Post \/ PostOK \/ PostFails \/ FlushEnd
  \/ Stop \/ Restart
  \/ \E m \in net : CPHandle(m)

Spec == Init /\ [][Next]_vars

\* The ticker ticks and the flush goroutine runs; a report that is posted again
\* and again reaches the CP while it is awaited, and so does the CP's answer.
Fairness ==
  /\ WF_vars(FlushStart) /\ WF_vars(Post) /\ WF_vars(FlushEnd)
  /\ WF_vars(PostOK \/ PostFails)
  /\ SF_vars(PostOK)
  /\ SF_vars(\E m \in net : fpc = "awaiting" /\ m = Head(batches) /\ m.id \notin cpSeen /\ CPHandle(m))

FairSpec == Spec /\ Fairness

----------------------------------------------------------------------------
(* Properties                                                              *)

Batch == [id : Nat \X Nat, items : SUBSET Units]

TypeOK ==
  /\ pending \subseteq Units
  /\ issued \subseteq Batch
  /\ retry \in Seq(issued) /\ batches \in Seq(issued) /\ failed \in Seq(issued)
  /\ boot \in Nat /\ seq \in Nat
  /\ stop \in BOOLEAN /\ final \in BOOLEAN
  /\ fpc \in {"waiting", "posting", "awaiting", "ended"}
  /\ fpc = "awaiting" => batches # <<>>
  /\ net \subseteq issued
  /\ cpSeen \subseteq {m.id : m \in net}
  /\ billed \in [Units -> Nat]
  /\ metered \subseteq Units /\ unmetered \subseteq Units
  /\ acked \subseteq Units /\ shed \subseteq Units /\ lost \subseteq Units

\* No unit is billed twice, however posts, answers, retries and restarts fall:
\* a retried batch keeps its report id, and drain empties the counters.
NeverBilledTwice == \A u \in Units : billed[u] <= 1

\* What the meter forgets because its post succeeded, the CP has billed: no
\* report is taken for a replay of another boot's or another batch's.
AckedIsBilled == \A u \in acked : billed[u] = 1

\* Metered usage leaves the meter only by being billed, by a crash, or by the
\* bounded retry queue; nothing is lost between drain, post and requeue.
NothingVanishes == metered \subseteq Held \cup acked \cup shed \cup lost

\* A control plane that is down or slow does not grow the meter: at most
\* maxRetryBatches batches wait between flushes, and maxAccounts counters.
MeterIsBounded ==
  /\ Len(retry) <= MaxRetryBatches
  /\ Cardinality(PendingAccounts) <= MaxAccounts

\* With a CP that is reachable again and again, metered usage does not stay in
\* the meter for ever: it is billed, or shed, or lost with the process, or the
\* goroutine has done its final flush.
UsageSettles ==
  \A u \in Units : (u \in metered) ~> (billed[u] = 1 \/ u \in shed \cup lost \/ fpc = "ended")

----------------------------------------------------------------------------
(* The inductive invariant behind NeverBilledTwice and AckedIsBilled       *)

\* Report ids name batches uniquely and none is ahead of the counter; a unit is
\* in one batch at most, and not in a batch while it is pending.
BatchesDisjoint ==
  /\ \A x, y \in issued : x # y => x.id # y.id /\ x.items \cap y.items = {}
  /\ \A x \in issued : x.id[1] < boot \/ (x.id[1] = boot /\ x.id[2] <= seq)
  /\ \A x \in issued : x.items \cap pending = {} /\ x.items \subseteq metered
  /\ pending \subseteq metered

\* The batch with unit u has been applied by the CP.
Applied(u) == \E b \in issued : b.id \in cpSeen /\ u \in b.items

\* The CP's bill is what it applied, and what was acknowledged is applied.
BillIsApplied ==
  /\ \A u \in Units : billed[u] = IF Applied(u) THEN 1 ELSE 0
  /\ \A u \in acked : Applied(u)

IInv == TypeOK /\ BatchesDisjoint /\ BillIsApplied

====
