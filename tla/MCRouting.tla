----------------------------- MODULE MCRouting -----------------------------
(***************************************************************************)
(* The routing package for TLC.  A behaviour starts in one of three ways:  *)
(* with a request to the service (mode "service", module Allocation); with *)
(* provider sources for which the router receives a request (mode          *)
(* "router"), which reaches the policies, signals and regions the service  *)
(* does not use; or with the fallback state machine (mode "machine"),      *)
(* under every sequence of events.                                         *)
(***************************************************************************)
EXTENDS Allocation, Routing

VARIABLE mode

mcvars == <<vars, routerVars, mode, fallback>>

\* Experimental on one runtime only, supported on one only, experimental on the
\* other only, and of unknown support on both.
MCCapability == {"javascript", "webgl", "video", "downloads"}

\* Two candidates of one runtime, in different regions, and two others.
MCCandidate ==
  {[id |-> <<1>>, runtime |-> "kitesurf"], [id |-> <<2>>, runtime |-> "chromium"],
   [id |-> <<3>>, runtime |-> "chromium"], [id |-> <<4>>, runtime |-> "webkit"]}

HealthOf(status, capacity) ==
  [status |-> status, configured |-> TRUE, capacity |-> capacity]
NotConfigured == [status |-> "unavailable", configured |-> FALSE, capacity |-> "unknown"]
Best == HealthOf("healthy", "available")

Source(provider, runtime, region, health, javascript, webgl, safety) ==
  [provider |-> provider, runtime |-> runtime, region |-> region, configured |-> TRUE,
   health |-> health, safety |-> safety,
   capabilities |-> [cap \in Capability |-> IF cap = "webgl" THEN webgl ELSE javascript]]

Safe == [status |-> "allowed", maximumDuration |-> Unlimited]

DefaultPolicy ==
  [allowedProviders |-> {1, 2}, deniedProviders |-> {},
   allowedRuntimes |-> {"kitesurf", "chromium"}, deniedRuntimes |-> {},
   preferredRuntime |-> "auto", maximumDuration |-> Unlimited,
   allowDegraded |-> TRUE, allowFallback |-> TRUE, allowExperimental |-> TRUE]

SilentSignals(sources) ==
  [id \in {CandidateID(sources[i]) : i \in DOMAIN sources} |-> NoSignal]

\* The two capabilities in which these sources differ are required or not.
Requirements(states) ==
  {[cap \in Capability |-> IF cap = "javascript" THEN j ELSE IF cap = "webgl" THEN w
                           ELSE "not_required"] : j, w \in states}

Preferences == {"auto", "kitesurf", "chromium"}

(***************************************************************************)
(* Inputs that make candidates ineligible                                  *)
(***************************************************************************)
HardSources ==
  {<<Source(1, "kitesurf", 0, k, j, w, Safe), Source(2, "chromium", 0, c, "supported", v, s)>> :
     k \in {Best, HealthOf("degraded", "constrained"), HealthOf("unavailable", "unknown"),
            HealthOf("healthy", "exhausted"), NotConfigured},
     c \in {HealthOf("healthy", "unknown"), HealthOf("degraded", "unknown")},
     j \in SupportStates, w \in {"unsupported", "experimental"},
     v \in {"supported", "unknown"},
     s \in {Safe, [status |-> "blocked", maximumDuration |-> Unlimited],
            [status |-> "allowed", maximumDuration |-> 1]}}

HardPolicies ==
  {DefaultPolicy,
   [DefaultPolicy EXCEPT !.deniedProviders = {1}, !.maximumDuration = 2],
   [DefaultPolicy EXCEPT !.allowedRuntimes = {"kitesurf"}, !.allowFallback = FALSE],
   [DefaultPolicy EXCEPT !.deniedRuntimes = {"kitesurf"}, !.allowedProviders = {2}],
   [DefaultPolicy EXCEPT !.allowDegraded = FALSE, !.allowExperimental = FALSE,
                         !.preferredRuntime = "chromium"]}

HardRequests(sources) ==
  [sources : {sources}, requirements : Requirements(RequirementStates),
   preference : Preferences, allowFallback : BOOLEAN, allowExperimental : BOOLEAN,
   duration : {2}, policy : HardPolicies,
   signals : {[efficiency |-> SilentSignals(sources),
               compatibility |-> SilentSignals(sources),
               latency |-> SilentSignals(sources)]}]

(***************************************************************************)
(* Inputs that order three candidates, two of which differ by region only  *)
(***************************************************************************)
Levels == {"silent", "low", "best"}

LevelSignal(level, low) ==
  CASE level = "silent" -> NoSignal [] level = "low" -> low [] level = "best" -> 100

RankSources ==
  {<<Source(1, "kitesurf", 0, h[1], "experimental", "unsupported", Safe),
     Source(1, "chromium", 1, h[2], "supported", "experimental", Safe),
     Source(1, "chromium", 0, h[3], "supported", "experimental", Safe)>> :
     h \in [1..3 -> {Best, HealthOf("degraded", "constrained"),
                     HealthOf("healthy", "unknown")}]}

RankRequests(sources) ==
  {[sources |-> sources, requirements |-> r, preference |-> p, allowFallback |-> TRUE,
    allowExperimental |-> x, duration |-> 1,
    policy |-> [DefaultPolicy EXCEPT !.preferredRuntime = t],
    signals |-> [efficiency |-> [id \in DOMAIN l |-> LevelSignal(l[id], 60)],
                 compatibility |-> [id \in DOMAIN l |-> LevelSignal(l[id], 39)],
                 latency |-> [id \in DOMAIN l |-> LevelSignal(l[id], 0)]]] :
     r \in Requirements({"preferred", "not_required"}), p \in {"auto", "chromium"},
     t \in {"auto", "kitesurf"}, x \in BOOLEAN,
     l \in [DOMAIN SilentSignals(sources) -> Levels]}

(***************************************************************************)
(* The specification                                                       *)
(***************************************************************************)
\* The service does nothing in the other modes.
Unused ==
  /\ request = [capabilities |-> [cap \in Capability |-> "not_required"], preference |-> "auto",
                allowFallback |-> FALSE, allowExperimental |-> FALSE, duration |-> 1]
  /\ probes = [r \in Runtimes |-> "ok"]
  /\ pc = "routing"
  /\ decision = [selected |-> NoSelection]
  /\ row = [status |-> "routing", runtime |-> "none"]
  /\ attempts = << >>

NoMachine == FSM!CreateFallbackState([allowed |-> FALSE, maximum |-> 0])

MCInit ==
  /\ choice = NoSelection
  /\ \/ mode = "service" /\ Init /\ input = << >> /\ fallback = NoMachine
     \/ /\ mode = "router" /\ Unused /\ fallback = NoMachine
        /\ input \in [sources : HardSources \cup RankSources]
     \/ mode = "machine" /\ Unused /\ input = << >> /\ FSM!Init

Serve == mode = "service" /\ Next /\ UNCHANGED <<mode, input, choice, fallback>>

Route(sources, requests) ==
  /\ mode = "router"
  /\ choice = NoSelection
  /\ input.sources \in sources
  /\ \E in \in requests : Receive(in)
  /\ UNCHANGED <<vars, mode, fallback>>

Move == mode = "machine" /\ FSM!Next /\ UNCHANGED <<vars, mode, input, choice>>

MCNext ==
  \/ Serve
  \/ Route(HardSources, HardRequests(input.sources))
  \/ Route(RankSources, RankRequests(input.sources))
  \/ Move

MCSpec == MCInit /\ [][MCNext]_mcvars

=============================================================================
