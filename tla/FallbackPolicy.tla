--------------------------- MODULE FallbackPolicy ---------------------------
(***************************************************************************)
(* The allocation fallback policy of packages/router/src/fallback.ts: the  *)
(* classification of provider failures, and the state machine that decides *)
(* whether a failed allocation may be tried once more on another runtime.  *)
(* The API does not call the state machine; module Allocation shows that   *)
(* what the API does instead implements it.  Explanatory reason codes are  *)
(* left out.                                                               *)
(***************************************************************************)
EXTENDS Naturals, Sequences

CONSTANT Candidate   \* identities of routing candidates, each with its runtime

VARIABLE fallback

None == "none"
NoCandidate == [id |-> << >>, runtime |-> None]

EligibleFailures ==
  {"provider_transient", "allocation_timeout", "provider_rate_limited",
   "provider_capacity_exhausted", "connection_failure", "runtime_incompatibility"}

FailureClasses ==
  EligibleFailures \cup
  {"provider_configuration", "provider_authentication", "operation_canceled",
   "invalid_client_request", "policy_denial", "security_denial",
   "tenant_quota_exhausted", "no_compatible_candidate", "malformed_request",
   "invalid_provider_response", "termination_failure", "unknown"}

(* The failure class of an error of provider.allocate.                     *)
AllocationFailureClass ==
  [PROVIDER_CONFIGURATION_ERROR        |-> "provider_configuration",
   PROVIDER_AUTHORIZATION_ERROR        |-> "provider_authentication",
   PROVIDER_OPERATION_ABORTED          |-> "operation_canceled",
   PROVIDER_OPERATION_TIMEOUT          |-> "allocation_timeout",
   PROVIDER_RATE_LIMITED               |-> "provider_rate_limited",
   PROVIDER_CAPACITY_EXHAUSTED         |-> "provider_capacity_exhausted",
   PROVIDER_TRANSIENT_UPSTREAM_FAILURE |-> "provider_transient",
   PROVIDER_UNSUPPORTED                |-> "runtime_incompatibility",
   PROVIDER_CONNECTION_FAILED          |-> "connection_failure",
   PROVIDER_INVALID_RESPONSE           |-> "invalid_provider_response",
   PROVIDER_TERMINATION_FAILED         |-> "termination_failure",
   PROVIDER_UNKNOWN_ERROR              |-> "unknown"]

ProviderErrorCodes == DOMAIN AllocationFailureClass

(* An effective policy allows no fallback, or exactly one.                 *)
FallbackPolicies == {[allowed |-> b, maximum |-> IF b THEN 1 ELSE 0] : b \in BOOLEAN}

(***************************************************************************)
(* States.  A field that a status does not have is None or NoCandidate.    *)
(***************************************************************************)
CreateFallbackState(policy) ==
  [status |-> "REQUESTED", policy |-> policy, attempted |-> << >>, used |-> 0,
   current |-> NoCandidate, original |-> NoCandidate, primary |-> None, failure |-> None]

(* The conditions FallbackStateSchema places on a state.                   *)
HistoryConsistent(s) ==
  /\ \A i, j \in DOMAIN s.attempted : i # j => s.attempted[i] # s.attempted[j]
  /\ s.used <= s.policy.maximum
  /\ s.used = 1 => /\ s.policy.allowed
                   /\ Len(s.attempted) = 2
                   /\ s.attempted[1].runtime # s.attempted[2].runtime
  /\ s.primary # None => s.primary \in EligibleFailures

StatusConsistent(s) ==
  CASE s.status \in {"ROUTED", "ALLOCATING"} ->
         /\ Len(s.attempted) = 1
         /\ s.used = 0
         /\ s.current = s.attempted[1]
    [] s.status \in {"FALLBACK_ROUTED", "FALLBACK_ALLOCATING"} ->
         /\ Len(s.attempted) = 2
         /\ s.used = 1
         /\ s.original = s.attempted[1]
         /\ s.current = s.attempted[2]
         /\ s.primary # None
    [] s.status = "ACTIVE" ->
         /\ Len(s.attempted) = s.used + 1
         /\ s.current = s.attempted[Len(s.attempted)]
         /\ (s.used = 1) <=> (s.primary # None)
    [] s.status = "FAILED" ->
         /\ IF s.used = 1 THEN Len(s.attempted) = 2 ELSE Len(s.attempted) <= 1
         /\ s.failure \in FailureClasses
         /\ (s.used = 1) <=> (s.primary # None)

Parses(s) ==
  /\ s.policy \in FallbackPolicies
  /\ s.status = "REQUESTED" \/ (HistoryConsistent(s) /\ StatusConsistent(s))

(***************************************************************************)
(* Events and their effect, transitionFallbackState.                       *)
(***************************************************************************)
Events ==
  [type : {"ROUTE_SELECTED"}, candidate : Candidate]
  \cup [type : {"ROUTE_FAILED", "ALLOCATION_STARTED", "ALLOCATION_SUCCEEDED"}]
  \cup [type : {"ALLOCATION_FAILED"}, class : FailureClasses,
        candidate : Candidate \cup {NoCandidate}]

Accepts(s, e) ==
  \/ s.status = "REQUESTED" /\ e.type \in {"ROUTE_SELECTED", "ROUTE_FAILED"}
  \/ s.status \in {"ROUTED", "FALLBACK_ROUTED"} /\ e.type = "ALLOCATION_STARTED"
  \/ /\ s.status \in {"ALLOCATING", "FALLBACK_ALLOCATING"}
     /\ e.type \in {"ALLOCATION_SUCCEEDED", "ALLOCATION_FAILED"}

\* Mutant: another candidate of the same runtime is taken as a fallback.
CanFallbackSameRuntime(s, class, c) ==
  class \in EligibleFailures /\ s.policy.allowed /\ c # NoCandidate /\ c # s.current

CanFallback(s, class, c) ==
  /\ class \in EligibleFailures
  /\ s.policy.allowed
  /\ s.policy.maximum = 1
  /\ c # NoCandidate
  /\ c # s.current
  /\ c.runtime # s.current.runtime

FailedState(s, class) ==
  [s EXCEPT !.status = "FAILED", !.current = NoCandidate, !.original = NoCandidate, !.failure = class]

FallbackRouted(s, class, c) ==
  [s EXCEPT !.status = "FALLBACK_ROUTED", !.original = s.current, !.current = c,
            !.attempted = <<s.current, c>>, !.used = 1, !.primary = class]

Apply(s, e) ==
  CASE e.type = "ROUTE_SELECTED" ->
         [s EXCEPT !.status = "ROUTED", !.current = e.candidate,
                   !.attempted = <<e.candidate>>]
    [] e.type = "ROUTE_FAILED" -> FailedState(s, "no_compatible_candidate")
    [] e.type = "ALLOCATION_STARTED" ->
         [s EXCEPT !.status = IF s.status = "ROUTED" THEN "ALLOCATING"
                              ELSE "FALLBACK_ALLOCATING"]
    [] e.type = "ALLOCATION_SUCCEEDED" ->
         [s EXCEPT !.status = "ACTIVE", !.original = NoCandidate]
    [] e.type = "ALLOCATION_FAILED" ->
         IF s.status = "ALLOCATING" /\ CanFallback(s, e.class, e.candidate)
         THEN FallbackRouted(s, e.class, e.candidate)
         ELSE FailedState(s, e.class)

Init == fallback \in {CreateFallbackState(p) : p \in FallbackPolicies}

Next == \E e \in Events : Accepts(fallback, e) /\ fallback' = Apply(fallback, e)

Spec == Init /\ [][Next]_fallback

-----------------------------------------------------------------------------
(* Every state that transitionFallbackState produces passes                *)
(* FallbackStateSchema, so its own parse never throws: a candidate is tried *)
(* once, at most one fallback is used, only where the policy allows it,    *)
(* only after an eligible failure, only to another runtime, and the        *)
(* failure of the primary attempt is kept.                                 *)
StateParses == Parses(fallback)

=============================================================================
