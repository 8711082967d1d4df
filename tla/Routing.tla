------------------------------ MODULE Routing ------------------------------
(***************************************************************************)
(* The router package: routeBrowserRuntime as a step, which parses an      *)
(* input and decides, and the fallback state machine.                      *)
(***************************************************************************)
EXTENDS Router

CONSTANT Candidate    \* the candidates the fallback state machine is asked about

VARIABLES
  input,      \* what the router received
  choice,     \* what it decided
  fallback    \* the fallback state machine

routerVars == <<input, choice>>

RouterInit == input = << >> /\ choice = NoSelection

(* An input that does not parse is answered by an exception.               *)
Receive(in) ==
  /\ choice = NoSelection
  /\ WellFormed(in)
  /\ input' = in
  /\ choice' = RouteBrowserRuntime(in)

RouterNext == \E sources \in Seq(Sources) : \E in \in RoutingInputs(sources) : Receive(in)

RouterSpec == RouterInit /\ [][RouterNext]_routerVars

FSM == INSTANCE FallbackPolicy

-----------------------------------------------------------------------------
Decided == choice # NoSelection

(* The decision of routeBrowserRuntime passes RoutingDecisionSchema, which *)
(* it parses before returning: the ranking is the deterministic one, every *)
(* candidate appears once with its health and with the one explanation its *)
(* rank calls for, scores stay within 0..100, and only the first candidate *)
(* is selected.                                                            *)
DecisionIsValid == Decided => DecisionParses(choice)

(* Reference for one requirement: satisfiesCapabilityRequirement of        *)
(* packages/contracts.                                                     *)
Satisfies(support, requirement, experimental) ==
  requirement = "required" =>
    support = "supported" \/ (support = "experimental" /\ experimental)

(* What docs/ROUTING.md asks of an eligible candidate, stated directly.    *)
Servable(s) ==
  /\ s.configured /\ s.health.configured
  /\ s.health.status # "unavailable"
  /\ s.health.status = "degraded" => input.policy.allowDegraded
  /\ s.health.capacity # "exhausted"
  /\ s.provider \in input.policy.allowedProviders \ input.policy.deniedProviders
  /\ s.runtime \in input.policy.allowedRuntimes \ input.policy.deniedRuntimes
  /\ s.safety.status = "allowed"
  /\ input.duration <= s.safety.maximumDuration
  /\ input.duration <= input.policy.maximumDuration
  /\ \A cap \in Capability :
       Satisfies(s.capabilities[cap], input.requirements[cap],
                 input.allowExperimental /\ input.policy.allowExperimental)
  /\ \/ input.preference \in {"auto", s.runtime}
     \/ input.allowFallback /\ input.policy.allowFallback

(* The eligible candidates are exactly those that meet every hard          *)
(* constraint: no score rescues a candidate, no candidate is lost, and a   *)
(* preference without fallback is strict.                                  *)
HardConstraints ==
  Decided =>
    {choice.eligible[i].candidate.id : i \in DOMAIN choice.eligible}
      = {CandidateID(input.sources[i]) : i \in {j \in DOMAIN input.sources :
                                                  Servable(input.sources[j])}}

(* The order in which the registry lists its providers has no influence on *)
(* any part of the decision.                                               *)
OrderIndependent ==
  Decided =>
    \A p \in Bijection(DOMAIN input.sources, DOMAIN input.sources) :
      RouteBrowserRuntime([input EXCEPT !.sources =
                             [i \in DOMAIN @ |-> input.sources[p[i]]]]) = choice

(* Every state of the fallback state machine passes its own schema.        *)
StateParses == FSM!StateParses
=============================================================================
