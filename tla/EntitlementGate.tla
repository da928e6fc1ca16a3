-------------------------- MODULE EntitlementGate --------------------------
(***************************************************************************)
(* The relay's cache of one account's entitlement: tunnel/server/gate.go.  *)
(*                                                                         *)
(* Three kinds of call consult it: allowConnect (a new tunnel; fails closed*)
(* when the control plane, CP, cannot be asked), allowContinue (a request  *)
(* on a live tunnel; fails open) and definitivelyRevoked (the revocation   *)
(* sweep).  A call reads the cache under the lock, asks the CP without the *)
(* lock when the entry is missing or past its TTL, and then writes the     *)
(* answer back; meanwhile other calls run, the entry expires, and the      *)
(* usage meter pushes an over-quota signal into the entry.                 *)
(***************************************************************************)
EXTENDS Naturals

CONSTANTS Calls   \* concurrent calls, each reusable

VARIABLES
  cp,      \* what the CP would answer now: "ok", "denied", "over" or "revoked"
  push,    \* the CP's answer to a usage report named the account over quota
  cache,   \* the account's gateDecision; known: an entry exists, fresh: in its TTL
  kind,    \* kind[k]: what call k is
  pc,      \* pc[k]: how far call k is
  ans,     \* ans[k]: the CP's answer that call k holds
  result,  \* result[k]: what call k returned
  \* observers (no code reads them)
  saidNo,     \* the answers other than "ok" that the CP has given
  saidOK,     \* the CP has answered "ok"
  sawRevoke,  \* calls that began when a revoke was cached
  sawQuota,   \* calls that began after the last push, whose TTL still runs
  pushed,     \* a push is in the cache and its TTL still runs
  pushSlip    \* ... and a call was asking the CP when it came

callVars == <<kind, pc, ans, result>>
obsVars  == <<saidNo, saidOK, sawRevoke, sawQuota, pushed, pushSlip>>
vars     == <<cp, push, cache, callVars, obsVars>>

CPAnswers == {"ok", "denied", "over", "revoked"}
Kinds == {"connect", "continue", "sweep"}

----------------------------------------------------------------------------
(* Helpers                                                                 *)

\* The zero gateDecision, which a missing map entry reads as.
NoEntry == [known |-> FALSE, fresh |-> FALSE,
            allowed |-> FALSE, overQuota |-> FALSE, revoked |-> FALSE]

\* A decision permits relaying.
Allowed(d) == d.allowed /\ ~d.overQuota /\ ~d.revoked

\* What call k returns on decision d: the sweep asks only for the revoke.
Verdict(k, d) ==
  LET pass == IF kind[k] = "sweep" THEN ~d.revoked ELSE Allowed(d)
  IN  IF pass THEN "allow" ELSE "deny"

\* Call k returns v.
Return(k, v) == pc' = [pc EXCEPT ![k] = "idle"] /\ result' = [result EXCEPT ![k] = v]

----------------------------------------------------------------------------
(* A call                                                                  *)

\* A call of kind x begins.  allowContinue and definitivelyRevoked first cut on
\* a cached revoke, even one past its TTL.
Begin(k, x) ==
  /\ pc[k] = "idle"
  /\ kind' = [kind EXCEPT ![k] = x]
  /\ sawRevoke' = IF cache.revoked THEN sawRevoke \cup {k} ELSE sawRevoke \ {k}
  /\ sawQuota' = IF pushed THEN sawQuota \cup {k} ELSE sawQuota \ {k}
  /\ IF x # "connect" /\ cache.known /\ cache.revoked
       THEN Return(k, "deny")
       ELSE pc' = [pc EXCEPT ![k] = "lookup"] /\ result' = [result EXCEPT ![k] = "none"]
  /\ UNCHANGED <<cp, push, cache, ans, saidNo, saidOK, pushed, pushSlip>>

\* lookup: an entry within its TTL decides, otherwise refresh asks the CP.
Lookup(k) ==
  /\ pc[k] = "lookup"
  /\ IF cache.known /\ cache.fresh
       THEN Return(k, Verdict(k, cache))
       ELSE pc' = [pc EXCEPT ![k] = "asking"] /\ UNCHANGED result
  /\ UNCHANGED <<cp, push, cache, kind, ans, obsVars>>

\* The CP answers the call's request.
Answer(k) ==
  /\ pc[k] = "asking"
  /\ ans' = [ans EXCEPT ![k] = cp]
  /\ pc' = [pc EXCEPT ![k] = "answered"]
  /\ saidNo' = IF cp = "ok" THEN saidNo ELSE saidNo \cup {cp}
  /\ saidOK' = (saidOK \/ cp = "ok")
  /\ UNCHANGED <<cp, push, cache, kind, result, sawRevoke, sawQuota, pushed, pushSlip>>

\* The request fails: a timeout, a 5xx, an undecodable body.
Fail(k) ==
  /\ pc[k] = "asking"
  /\ pc' = [pc EXCEPT ![k] = "failed"]
  /\ UNCHANGED <<cp, push, cache, kind, ans, result, obsVars>>

\* A mutation of Fresh: the answer replaces the entry, revoked or not.
FreshUnmerged(a) ==
  [known |-> TRUE, fresh |-> TRUE, allowed |-> a # "denied", overQuota |-> a = "over",
   revoked |-> FALSE]

\* A mutation of Fresh: the sticky revoke does not take the permission back.
FreshAllowed(a) ==
  [known |-> TRUE, fresh |-> TRUE, allowed |-> a # "denied",
   overQuota |-> a = "over", revoked |-> cache.revoked]

\* The entry for an answer that is not a revoke; a cached revoke stays.
Fresh(a) ==
  [known |-> TRUE, fresh |-> TRUE, allowed |-> a # "denied" /\ ~cache.revoked,
   overQuota |-> a = "over", revoked |-> cache.revoked]

\* refresh writes the answer to the cache and the call returns.
Store(k) ==
  /\ pc[k] = "answered"
  /\ IF ans[k] = "revoked"
       THEN /\ cache' = [cache EXCEPT !.known = TRUE, !.fresh = TRUE, !.revoked = TRUE, !.allowed = FALSE]
            /\ Return(k, "deny")
       ELSE /\ cache' = Fresh(ans[k])
            /\ Return(k, Verdict(k, Fresh(ans[k])))
  /\ UNCHANGED <<cp, push, kind, ans, obsVars>>


\* A mutation of OnError: a connect fails open when nothing is cached.
OnErrorOpen(k) == IF cache.known THEN Verdict(k, cache) ELSE "allow"

\* What a call returns when the CP cannot be asked: a connect fails closed, a
\* request goes by the stale entry if there is one, a sweep leaves the tunnel.
OnError(k) ==
  IF kind[k] = "connect" THEN "deny"
  ELSE IF kind[k] = "continue" /\ cache.known THEN Verdict(k, cache)
  ELSE "allow"

\* The call returns after a failed request.
ReturnOnError(k) ==
  /\ pc[k] = "failed"
  /\ Return(k, OnError(k))
  /\ UNCHANGED <<cp, push, cache, kind, ans, obsVars>>

----------------------------------------------------------------------------
(* The meter, the clock and the CP                                         *)

\* The CP's answer to a usage report says the account is over its quota.
ReportAnswer ==
  /\ cp = "over"
  /\ push' = TRUE
  /\ saidNo' = saidNo \cup {"over"}
  /\ UNCHANGED <<cp, cache, callVars, saidOK, sawRevoke, sawQuota, pushed, pushSlip>>

\* A mutation of Marked: an entry past its TTL is not renewed.
MarkedUnrenewed(d) == [d EXCEPT !.known = TRUE, !.overQuota = TRUE]

\* The entry after an over-quota signal, which runs for at least the old TTL.
Marked(d) == [d EXCEPT !.known = TRUE, !.overQuota = TRUE, !.fresh = TRUE]

\* markOverQuota, called by flushOnce.
MarkOverQuota ==
  /\ push
  /\ push' = FALSE
  /\ cache' = Marked(cache)
  /\ pushed' = TRUE
  /\ pushSlip' = \E k \in Calls : pc[k] \in {"asking", "answered"}
  /\ sawQuota' = {}
  /\ UNCHANGED <<cp, callVars, saidNo, saidOK, sawRevoke>>

\* The entry's TTL runs out.
Expire ==
  /\ cache.fresh
  /\ cache' = [cache EXCEPT !.fresh = FALSE]
  /\ pushed' = FALSE /\ pushSlip' = FALSE /\ sawQuota' = {}
  /\ UNCHANGED <<cp, push, callVars, saidNo, saidOK, sawRevoke>>

\* The account's standing changes at the CP.
CPChange ==
  /\ cp' \in CPAnswers \ {cp}
  /\ UNCHANGED <<push, cache, callVars, obsVars>>

----------------------------------------------------------------------------
(* Specification                                                           *)

Init ==
  /\ cp \in CPAnswers
  /\ push = FALSE
  /\ cache = NoEntry
  /\ kind = [k \in Calls |-> "connect"]
  /\ pc = [k \in Calls |-> "idle"]
  /\ ans = [k \in Calls |-> "ok"]
  /\ result = [k \in Calls |-> "none"]
  /\ saidNo = {} /\ saidOK = FALSE
  /\ sawRevoke = {} /\ sawQuota = {} /\ pushed = FALSE /\ pushSlip = FALSE

Next ==
  \/ \E k \in Calls :
       \/ \E x \in Kinds : Begin(k, x)
       \/ Lookup(k) \/ Answer(k) \/ Fail(k) \/ Store(k) \/ ReturnOnError(k)
  \/ ReportAnswer \/ MarkOverQuota \/ Expire \/ CPChange

Spec == Init /\ [][Next]_vars

----------------------------------------------------------------------------
(* Properties                                                              *)

Decision == [known : BOOLEAN, fresh : BOOLEAN, allowed : BOOLEAN,
             overQuota : BOOLEAN, revoked : BOOLEAN]

TypeOK ==
  /\ cp \in CPAnswers /\ push \in BOOLEAN
  /\ cache \in Decision
  /\ cache.allowed \/ cache.overQuota \/ cache.revoked \/ cache.fresh => cache.known
  /\ ~(cache.allowed /\ cache.revoked)
  /\ kind \in [Calls -> Kinds]
  /\ pc \in [Calls -> {"idle", "lookup", "asking", "answered", "failed"}]
  /\ ans \in [Calls -> CPAnswers]
  /\ result \in [Calls -> {"none", "allow", "deny"}]
  /\ saidNo \subseteq CPAnswers \ {"ok"} /\ saidOK \in BOOLEAN
  /\ sawRevoke \subseteq Calls /\ sawQuota \subseteq Calls
  /\ pushed \in BOOLEAN /\ pushSlip \in BOOLEAN

\* Once a revoke is in the cache no call that begins later lets the account
\* through, whatever answers were under way, however often the entry expires
\* and whether or not the CP can be reached ("never un-revoke").
RevokeSticks == \A k \in sawRevoke : result[k] # "allow"


\* No tunnel is opened before the CP has approved of the account once.
ConnectNeedsApproval ==
  \A k \in Calls : kind[k] = "connect" /\ result[k] = "allow" => saidOK

\* After an over-quota push no request is let through until the entry expires,
\* unless some call was asking the CP at the moment of the push.
OverQuotaHolds ==
  ~pushSlip => \A k \in sawQuota : kind[k] # "sweep" => result[k] # "allow"

\* What gate.go says of markOverQuota: an over-cap account is cut on its next
\* request, without waiting for the TTL to expire.
OverQuotaCutsNextRequest ==
  \A k \in sawQuota : kind[k] # "sweep" => result[k] # "allow"

====
