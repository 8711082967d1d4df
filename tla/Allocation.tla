----------------------------- MODULE Allocation -----------------------------
(***************************************************************************)
(* Routing and allocation of one session request: the service gathers      *)
(* provider health, lets the router decide, allocates at the selected      *)
(* provider and, when the failure is eligible, once at another runtime.    *)
(* Composes Router with the two Cloudflare profiles and the session row,   *)
(* and implements FallbackPolicy.  Failures of database calls, crashes and *)
(* concurrent deletes belong to SessionControl.                            *)
(***************************************************************************)
EXTENDS Router

CONSTANT MaxSessionDuration   \* the configured quota, in units of ten minutes

ASSUME DurationAssumption == MaxSessionDuration \in Durations

VARIABLES
  request,    \* the validated create request
  probes,     \* what each provider's health probe answers
  pc,         \* where the service is
  decision,   \* the saved routing decision
  row,        \* runtime and status of the session row
  attempts    \* the rows of session_allocation_attempts, in order

vars == <<request, probes, pc, decision, row, attempts>>

Policy == INSTANCE FallbackPolicy WITH Candidate <- {}, fallback <- {}

ProviderErrorCodes == Policy!ProviderErrorCodes

(***************************************************************************)
(* The two profiles: descriptor, and a duration limit that only Kitesurf's *)
(* provider has and its descriptor does not show.                          *)
(***************************************************************************)
KitesurfCapabilities ==
  [cap \in CapabilityNames |->
     IF cap \in {"javascript", "dom", "xhr", "svg", "screenshot", "pdf"} THEN "experimental"
     ELSE IF cap \in {"downloads", "uploads"} THEN "unknown" ELSE "unsupported"]

ChromiumCapabilities ==
  [cap \in CapabilityNames |->
     IF cap = "video" THEN "experimental"
     ELSE IF cap \in {"downloads", "uploads"} THEN "unknown" ELSE "supported"]

Capabilities(runtime) ==
  IF runtime = "kitesurf" THEN KitesurfCapabilities ELSE ChromiumCapabilities

ProfileMaximumDuration(runtime) == IF runtime = "kitesurf" THEN 1 ELSE Unlimited

(***************************************************************************)
(* Health.  A probe succeeds or fails with an error code; the provider     *)
(* turns some errors into an answer and the registry the rest.             *)
(***************************************************************************)
ProviderHealth(probe) ==
  CASE probe = "ok" -> [status |-> "healthy", configured |-> TRUE, capacity |-> "unknown"]
    [] probe \in {"PROVIDER_RATE_LIMITED", "PROVIDER_CAPACITY_EXHAUSTED"} ->
         [status |-> "degraded", configured |-> TRUE, capacity |-> "constrained"]
    [] OTHER -> [status |-> "unavailable", configured |-> TRUE, capacity |-> "unknown"]

Profile(runtime) == [provider |-> 1, runtime |-> runtime, region |-> 0]

RoutingSource(runtime) ==
  [provider |-> 1, runtime |-> runtime, region |-> 0, configured |-> TRUE,
   health |-> ProviderHealth(probes[runtime]),
   capabilities |-> [cap \in Capability |-> Capabilities(runtime)[cap]],
   safety |-> [status |-> "allowed", maximumDuration |-> Unlimited]]

RoutingSources == <<RoutingSource("chromium"), RoutingSource("kitesurf")>>

(* The service repeats the request's runtime selection as tenant policy.   *)
RoutingInput ==
  LET silent == [id \in {CandidateID(RoutingSources[i]) : i \in DOMAIN RoutingSources}
                   |-> NoSignal]
  IN  [sources |-> RoutingSources, requirements |-> request.capabilities,
       preference |-> request.preference, allowFallback |-> request.allowFallback,
       allowExperimental |-> request.allowExperimental, duration |-> request.duration,
       policy |-> [allowedProviders |-> {1}, deniedProviders |-> {},
                   allowedRuntimes |-> Runtimes, deniedRuntimes |-> {},
                   preferredRuntime |-> request.preference,
                   maximumDuration |-> MaxSessionDuration, allowDegraded |-> TRUE,
                   allowFallback |-> request.allowFallback,
                   allowExperimental |-> request.allowExperimental],
       signals |-> [efficiency |-> silent, compatibility |-> silent, latency |-> silent]]

(***************************************************************************)
(* What the provider itself checks before it contacts the upstream.        *)
(***************************************************************************)
SatisfiesRequirement(runtime, cap) ==
  request.capabilities[cap] = "required" =>
    \/ Capabilities(runtime)[cap] = "supported"
    \/ Capabilities(runtime)[cap] = "experimental" /\ request.allowExperimental

SupportedRequest(runtime) ==
  /\ request.duration <= ProfileMaximumDuration(runtime)
  /\ \A cap \in Capability : SatisfiesRequirement(runtime, cap)

(* An operation that was aborted is refused before the request is looked   *)
(* at.                                                                     *)
AllocationErrors(runtime) ==
  IF SupportedRequest(runtime) THEN ProviderErrorCodes
  ELSE {"PROVIDER_OPERATION_ABORTED", "PROVIDER_UNSUPPORTED"}

(***************************************************************************)
(* The service                                                             *)
(***************************************************************************)
Requests ==
  [capabilities : [Capability -> RequirementStates],
   preference : Runtimes \cup {"auto"}, allowFallback : BOOLEAN,
   allowExperimental : BOOLEAN, duration : 1..MaxSessionDuration]

Init ==
  /\ request \in Requests
  /\ probes \in [Runtimes -> {"ok", "PROVIDER_RATE_LIMITED", "PROVIDER_CONNECTION_FAILED",
                              "PROVIDER_OPERATION_TIMEOUT"}]
  /\ pc = "routing"
  /\ decision = [selected |-> NoSelection]
  /\ row = [status |-> "routing", runtime |-> "none"]
  /\ attempts = << >>

(* The decision is made and saved; the row names the selected runtime, or  *)
(* fails when there is none.                                               *)
Decide ==
  /\ pc = "routing"
  /\ decision' = RouteBrowserRuntime(RoutingInput)
  /\ IF decision'.selected = NoSelection
     THEN /\ pc' = "failed"
          /\ row' = [row EXCEPT !.status = "failed"]
     ELSE /\ pc' = "routed"
          /\ row' = [status |-> "allocating", runtime |-> decision'.selected.runtime]
  /\ UNCHANGED <<request, probes, attempts>>

(* Eligible candidates of another runtime, in rank order.                  *)
FallbackCandidates ==
  LET eligible == [i \in DOMAIN decision.eligible |-> decision.eligible[i].candidate]
  IN  Kept(eligible, {i \in DOMAIN eligible : eligible[i].runtime # decision.selected.runtime})

Attempt(c) == [candidate |-> c, status |-> "started", class |-> "none", eligible |-> FALSE]

(* The target is validated again before every attempt, and what it names   *)
(* may have changed: a refusal is no provider's error, so nothing falls    *)
(* back, no attempt is recorded and create fails the row.                  *)
TargetRefused ==
  /\ \/ pc = "routed" /\ pc' = "refused"
     \/ pc = "fallback_routed" /\ pc' = "fallback_refused"
  /\ row' = [row EXCEPT !.status = "failed"]
  /\ UNCHANGED <<request, probes, decision, attempts>>

(* The target passes, or there is none.                                    *)
StartAttempt ==
  /\ \/ pc = "routed" /\ pc' = "allocating" /\ attempts' = <<Attempt(decision.selected)>>
     \/ /\ pc = "fallback_routed" /\ pc' = "fallback_allocating"
        /\ attempts' = Append(attempts, Attempt(Head(FallbackCandidates)))
  /\ UNCHANGED <<request, probes, decision, row>>

Completed(status, class, eligible) ==
  [attempts EXCEPT ![Len(attempts)] =
     [@ EXCEPT !.status = status, !.class = class, !.eligible = eligible]]

AllocationSucceeds ==
  /\ pc \in {"allocating", "fallback_allocating"}
  /\ SupportedRequest(attempts[Len(attempts)].candidate.runtime)
  /\ pc' = "active"
  /\ row' = [row EXCEPT !.status = "active"]
  /\ attempts' = Completed("succeeded", "none", FALSE)
  /\ UNCHANGED <<request, probes, decision>>

\* Mutant: any allocation failure may fall back.
FallsBackUnclassified(class) == decision.policy.allowed /\ FallbackCandidates # << >>

FallsBack(class) ==
  class \in Policy!EligibleFailures /\ decision.policy.allowed /\ FallbackCandidates # << >>

\* Mutant: the row keeps the runtime that was selected first.
BeginFallbackKeepsRuntime == [row EXCEPT !.status = "fallback_allocating"]

BeginFallback ==
  [status |-> "fallback_allocating", runtime |-> Head(FallbackCandidates).runtime]

PrimaryFails ==
  /\ pc = "allocating"
  /\ \E code \in AllocationErrors(attempts[1].candidate.runtime) :
       LET class == Policy!AllocationFailureClass[code]
       IN  /\ attempts' = Completed("failed", class, class \in Policy!EligibleFailures)
           /\ IF FallsBack(class)
              THEN pc' = "fallback_routed" /\ row' = BeginFallback
              ELSE pc' = "failed" /\ row' = [row EXCEPT !.status = "failed"]
  /\ UNCHANGED <<request, probes, decision>>

FallbackFails ==
  /\ pc = "fallback_allocating"
  /\ \E code \in AllocationErrors(attempts[2].candidate.runtime) :
       attempts' = Completed("failed", Policy!AllocationFailureClass[code], FALSE)
  /\ pc' = "failed"
  /\ row' = [row EXCEPT !.status = "failed"]
  /\ UNCHANGED <<request, probes, decision>>

Next ==
  \/ Decide \/ TargetRefused \/ StartAttempt \/ AllocationSucceeds
  \/ PrimaryFails \/ FallbackFails

Spec == Init /\ [][Next]_vars

-----------------------------------------------------------------------------
(***************************************************************************)
(* The service seen as a state of the fallback state machine.  The machine *)
(* has no event for a refused target: it is left where it was, at the      *)
(* route whose attempt does not start.                                     *)
(***************************************************************************)
MachineStatus ==
  CASE pc = "routing" -> "REQUESTED"  [] pc \in {"routed", "refused"} -> "ROUTED"
    [] pc = "allocating" -> "ALLOCATING"
    [] pc \in {"fallback_routed", "fallback_refused"} -> "FALLBACK_ROUTED"
    [] pc = "fallback_allocating" -> "FALLBACK_ALLOCATING"
    [] pc = "active" -> "ACTIVE"  [] pc = "failed" -> "FAILED"

InFallback == pc \in {"fallback_routed", "fallback_refused", "fallback_allocating"}
UsedFallback == InFallback \/ Len(attempts) = 2

MachineAttempted ==
  IF decision.selected = NoSelection THEN << >>
  ELSE IF UsedFallback THEN <<decision.selected, Head(FallbackCandidates)>>
       ELSE <<decision.selected>>

MachineState ==
  [status |-> MachineStatus,
   policy |-> (IF pc = "routing" THEN RouteBrowserRuntime(RoutingInput) ELSE decision).policy,
   attempted |-> MachineAttempted, used |-> IF UsedFallback THEN 1 ELSE 0,
   current |-> IF pc \in {"routing", "failed"} THEN NoSelection
               ELSE MachineAttempted[Len(MachineAttempted)],
   original |-> IF InFallback THEN decision.selected ELSE NoSelection,
   primary |-> IF UsedFallback THEN attempts[1].class ELSE "none",
   failure |-> IF pc # "failed" THEN "none"
               ELSE IF attempts = << >> THEN "no_compatible_candidate"
               ELSE attempts[Len(attempts)].class]

Machine ==
  INSTANCE FallbackPolicy
    WITH Candidate <- {[id |-> CandidateID(Profile(r)), runtime |-> r] : r \in Runtimes},
         fallback <- MachineState

(* The service's own allocation code, which does not use the state machine *)
(* of packages/router, behaves as that machine prescribes: at most one     *)
(* fallback, to another runtime, after an eligible failure, within policy. *)
(* A request whose target is refused abandons the machine, without a move  *)
(* of it and so without a fallback, although its row has failed.           *)
(* This is Machine!Spec, with the reminder that a step which changes none  *)
(* of the variables does not change the mapped state either.               *)
PolicyImplemented == Machine!Init /\ [][vars' # vars => Machine!Next]_MachineState

(* While an attempt runs or has succeeded, the session row names the       *)
(* runtime that is being or has been allocated, also after a fallback; by  *)
(* the provider's own check that runtime has every capability the request  *)
(* requires, so that a provider the router selected never refuses for one; *)
(* and an earlier attempt has been closed as failed.                       *)
AttemptFits ==
  pc \in {"allocating", "fallback_allocating", "active"} =>
    /\ row.runtime = attempts[Len(attempts)].candidate.runtime
    /\ \A cap \in Capability : SatisfiesRequirement(row.runtime, cap)
    /\ \A i \in 1..(Len(attempts) - 1) : attempts[i].status = "failed" /\ attempts[i].eligible

(* docs/ROUTING.md lists duration limits among the hard constraints of a   *)
(* decision: the selected provider can hold a session of the requested     *)
(* duration.                                                               *)
DurationLimitApplied ==
  pc = "routed" => request.duration <= ProfileMaximumDuration(decision.selected.runtime)
=============================================================================
