------------------------------- MODULE Router -------------------------------
(***************************************************************************)
(* The deterministic router of packages/router: candidates are built from  *)
(* provider descriptors and health, filtered by hard constraints, scored   *)
(* with the router-v1 weights and ranked.  Everything is an operator of    *)
(* one routing input.                                                      *)
(*                                                                         *)
(* Scores are integers in thousandths, the precision roundScore keeps.     *)
(* Reason codes are sets: addReason never adds one twice, and their order  *)
(* is presentation.  Provider and region names are numbers, since the      *)
(* router compares identities by the order of their encodings.             *)
(***************************************************************************)
EXTENDS Integers, Sequences, FiniteSets, FiniteSetsExt, Functions

CONSTANT Capability   \* the capabilities that are told apart

CapabilityNames ==
  {"javascript", "dom", "xhr", "svg", "screenshot", "pdf", "webgl", "video",
   "persistentAuth", "realBrowserTLS", "downloads", "uploads", "multiTab", "longSession"}

ASSUME CapabilityAssumption == Capability \subseteq CapabilityNames

Runtimes == {"kitesurf", "chromium"}
RequirementStates == {"required", "preferred", "not_required"}
SupportStates == {"supported", "experimental", "unknown", "unsupported"}

Unlimited == 1000000  \* no duration limit
NoSignal == -1        \* no signal for a candidate
Precision == 1000     \* a score keeps three decimals

(* Capabilities with a rejection reason of their own.                      *)
SpecializedReason ==
  [webgl |-> "REQUIRES_WEBGL", video |-> "REQUIRES_VIDEO",
   persistentAuth |-> "REQUIRES_PERSISTENT_AUTH",
   realBrowserTLS |-> "REQUIRES_REAL_BROWSER_TLS"]

When(condition, reason) == IF condition THEN {reason} ELSE {}

(***************************************************************************)
(* Sequences.  The elements of a finite set in a strict total order: the   *)
(* one at position k has k - 1 others before it.  And what is left of a    *)
(* sequence when only some of its positions are kept.                      *)
(***************************************************************************)
Before(S, R, x) == {y \in S : <<y, x>> \in R}

InOrder(S, R) ==
  [k \in 1..Cardinality(S) |-> CHOOSE x \in S : Cardinality(Before(S, R, x)) = k - 1]

Kept(s, I) ==
  LET at == InOrder(I, {p \in I \X I : p[1] < p[2]})
  IN  [k \in DOMAIN at |-> s[at[k]]]

(***************************************************************************)
(* The inputs                                                              *)
(***************************************************************************)
Durations == 1..Unlimited

Healths ==
  {h \in [status : {"healthy", "degraded", "unavailable"}, configured : BOOLEAN,
          capacity : {"available", "constrained", "exhausted", "unknown"}] :
     h.configured \/ (h.status = "unavailable" /\ h.capacity = "unknown")}

Sources ==
  [provider : Nat, runtime : Runtimes, region : Nat, configured : BOOLEAN,
   health : Healths, capabilities : [Capability -> SupportStates],
   safety : [status : {"allowed", "blocked"}, maximumDuration : Durations]]

Policies ==
  [allowedProviders : SUBSET Nat, deniedProviders : SUBSET Nat,
   allowedRuntimes : SUBSET Runtimes, deniedRuntimes : SUBSET Runtimes,
   preferredRuntime : Runtimes \cup {"auto"}, maximumDuration : Durations,
   allowDegraded : BOOLEAN, allowFallback : BOOLEAN, allowExperimental : BOOLEAN]

(***************************************************************************)
(* Candidates                                                              *)
(***************************************************************************)
RuntimeRank(runtime) == IF runtime = "chromium" THEN 1 ELSE 2

(* An absent region is encoded "-" and a present one "=" with its name, so *)
(* the two differ and the absent one comes first.                          *)
CandidateID(source) ==
  <<source.provider, RuntimeRank(source.runtime),
    IF source.region = 0 THEN <<0>> ELSE <<1, source.region>> >>

(* What RoutingInputSchema accepts: at least one source, each of a         *)
(* different identity, and signals of known candidates, one value each.    *)
CandidateIDs(sources) == {CandidateID(sources[i]) : i \in DOMAIN sources}

Signals(sources) == [CandidateIDs(sources) -> {NoSignal} \cup 0..100]

RoutingInputs(sources) ==
  [sources : {sources}, requirements : [Capability -> RequirementStates],
   preference : Runtimes \cup {"auto"}, allowFallback : BOOLEAN, allowExperimental : BOOLEAN,
   duration : Durations, policy : Policies,
   signals : [efficiency : Signals(sources), compatibility : Signals(sources),
              latency : Signals(sources)]]

WellFormed(in) ==
  /\ in.sources \in Seq(Sources) /\ in.sources # << >>
  /\ \A i, j \in DOMAIN in.sources :
       CandidateID(in.sources[i]) = CandidateID(in.sources[j]) => i = j
  /\ in \in RoutingInputs(in.sources)

IDBefore(a, b) ==
  \/ a[1] < b[1]
  \/ a[1] = b[1] /\ a[2] < b[2]
  \/ /\ a[1] = b[1] /\ a[2] = b[2]
     /\ \/ a[3][1] < b[3][1]
        \/ a[3][1] = 1 /\ b[3][1] = 1 /\ a[3][2] < b[3][2]

ToCandidate(source) ==
  [id |-> CandidateID(source), provider |-> source.provider, runtime |-> source.runtime,
   configured |-> source.configured /\ source.health.configured,
   capabilities |-> source.capabilities, health |-> source.health,
   safety |-> source.safety]

\* Mutant: candidates keep the order in which the sources were given.
BuildRoutingCandidatesUnsorted(sources) ==
  [i \in DOMAIN sources |-> ToCandidate(sources[i])]

BuildRoutingCandidates(sources) ==
  LET candidates == {ToCandidate(sources[i]) : i \in DOMAIN sources}
  IN  InOrder(candidates, {p \in candidates \X candidates : IDBefore(p[1].id, p[2].id)})

Identity(c) == [id |-> c.id, runtime |-> c.runtime]

(***************************************************************************)
(* Eligibility                                                             *)
(***************************************************************************)
AllowFallback(in) == in.allowFallback /\ in.policy.allowFallback
AllowExperimental(in) == in.allowExperimental /\ in.policy.allowExperimental

(* An absent allow list is the set of everything.                          *)
Permitted(allowed, denied, x) == x \in allowed /\ x \notin denied

HealthReasons(c, in) ==
  IF ~c.configured THEN {"CANDIDATE_NOT_CONFIGURED"}
  ELSE When(c.health.status = "unavailable", "CANDIDATE_UNHEALTHY")
       \cup When(c.health.status = "degraded" /\ ~in.policy.allowDegraded,
                 "CANDIDATE_DEGRADED")

\* Mutant: a capability of unknown support satisfies a requirement.
UnmetUnknownPasses(c, in, cap) ==
  /\ in.requirements[cap] = "required"
  /\ \/ c.capabilities[cap] = "unsupported"
     \/ c.capabilities[cap] = "experimental" /\ ~AllowExperimental(in)

Unmet(c, in, cap) ==
  /\ in.requirements[cap] = "required"
  /\ ~ \/ c.capabilities[cap] = "supported"
       \/ c.capabilities[cap] = "experimental" /\ AllowExperimental(in)

CapabilityReasons(c, in) ==
  UNION {(IF cap \in DOMAIN SpecializedReason THEN {SpecializedReason[cap]} ELSE {})
         \cup {CASE c.capabilities[cap] = "unsupported" -> "REQUIRED_CAPABILITY_UNSUPPORTED"
                 [] c.capabilities[cap] = "unknown" -> "CAPABILITY_UNKNOWN"
                 [] OTHER -> "CAPABILITY_EXPERIMENTAL_NOT_ALLOWED"}
         : cap \in {cap \in Capability : Unmet(c, in, cap)}}

RejectionReasons(c, in) ==
  HealthReasons(c, in)
  \cup When(c.health.capacity = "exhausted", "PROVIDER_CAPACITY_EXHAUSTED")
  \cup When(~Permitted(in.policy.allowedProviders, in.policy.deniedProviders, c.provider),
            "CANDIDATE_FORBIDDEN_BY_POLICY")
  \cup When(~Permitted(in.policy.allowedRuntimes, in.policy.deniedRuntimes, c.runtime),
            "RUNTIME_FORBIDDEN_BY_POLICY")
  \cup When(/\ in.preference # "auto"
            /\ ~AllowFallback(in)
            /\ c.runtime # in.preference, "RUNTIME_PREFERENCE_REQUIRED")
  \cup When(c.safety.status = "blocked", "CANDIDATE_BLOCKED_BY_SAFETY")
  \cup When(in.duration > Min({c.safety.maximumDuration, in.policy.maximumDuration}),
            "SESSION_DURATION_UNSUPPORTED")
  \cup CapabilityReasons(c, in)

Eligible(c, in) == RejectionReasons(c, in) = {}

EligibleReasons(c) ==
  {"CAPABILITIES_SATISFIED"} \cup When(c.health.status = "degraded", "CANDIDATE_DEGRADED")

(***************************************************************************)
(* Scoring, with the router-v1 weights and tables                          *)
(***************************************************************************)
Weights ==
  [preference |-> 30, efficiency |-> 25, compatibility |-> 20,
   health |-> 15, latency |-> 5, capacity |-> 5]

HealthScore(status) ==
  CASE status = "healthy" -> 100 [] status = "degraded" -> 50 [] OTHER -> 0

CapacityScore(capacity) ==
  CASE capacity = "available" -> 100 [] capacity = "constrained" -> 25
    [] capacity = "unknown" -> 50 [] OTHER -> 0

PreferredSupportScore(support, experimental) ==
  CASE support = "supported" -> 100
    [] support = "experimental" -> IF experimental THEN 80 ELSE 40
    [] support = "unknown" -> 25
    [] support = "unsupported" -> 0

(* Math.round of the rational n/d, which rounds halves up.                 *)
Round(n, d) == (2 * n + d) \div (2 * d)

Signal(signals, c, default) == IF signals[c.id] = NoSignal THEN default ELSE signals[c.id]

PreferenceScore(c, in) ==
  CASE in.preference # "auto" -> IF c.runtime = in.preference THEN 100 ELSE 0
    [] in.preference = "auto" /\ in.policy.preferredRuntime # "auto" ->
         IF c.runtime = in.policy.preferredRuntime THEN 100 ELSE 25
    [] OTHER -> 50

EfficiencyScore(c, in) ==
  Signal(in.signals.efficiency, c,
         CASE c.runtime = "kitesurf" -> 100 [] c.runtime = "chromium" -> 60 [] OTHER -> 50)

Preferred(in) == {cap \in Capability : in.requirements[cap] = "preferred"}

(* The sum of the support scores, one product per kind of support.         *)
SupportShare(c, in, support) ==
  PreferredSupportScore(support, AllowExperimental(in))
    * Cardinality({cap \in Preferred(in) : c.capabilities[cap] = support})

SupportSum(c, in) ==
  SupportShare(c, in, "supported") + SupportShare(c, in, "experimental")
    + SupportShare(c, in, "unknown") + SupportShare(c, in, "unsupported")

(* In thousandths: the signal, averaged with the mean support of the       *)
(* preferred capabilities when there are any.                              *)
CompatibilityScore(c, in) ==
  LET signal == Signal(in.signals.compatibility, c, 50)
      n == Cardinality(Preferred(in))
      support == SupportSum(c, in)
  IN  IF n = 0 THEN Precision * signal
      ELSE Round(Precision * (signal * n + support), 2 * n)

TotalScore(s) ==
  Round(Precision * (  s.preference * Weights.preference
                     + s.efficiency * Weights.efficiency
                     + s.health * Weights.health + s.latency * Weights.latency
                     + s.capacity * Weights.capacity)
        + s.compatibility * Weights.compatibility, 100)

ScoreBreakdown(c, in) ==
  LET parts == [preference |-> PreferenceScore(c, in), efficiency |-> EfficiencyScore(c, in),
                compatibility |-> CompatibilityScore(c, in),
                health |-> HealthScore(c.health.status),
                latency |-> Signal(in.signals.latency, c, 50),
                capacity |-> CapacityScore(c.health.capacity)]
  IN  [total |-> TotalScore(parts), parts |-> parts]

ScoreReasons(c, in) ==
  EligibleReasons(c)
  \cup When(in.preference = c.runtime, "REQUESTED_RUNTIME_PREFERENCE")
  \cup When(in.preference = "auto" /\ in.policy.preferredRuntime = c.runtime,
            "TENANT_RUNTIME_PREFERENCE")
  \cup When(EfficiencyScore(c, in) >= 90, "FAST_PATH_PREFERRED")
  \cup When(Signal(in.signals.compatibility, c, 50) < 40, "DOMAIN_COMPATIBILITY_LOW")
  \cup When(\E cap \in Preferred(in) :
              \/ c.capabilities[cap] = "supported"
              \/ c.capabilities[cap] = "experimental" /\ AllowExperimental(in),
            "PREFERRED_CAPABILITY_MATCH")

ScoreEligibleCandidate(c, in) ==
  [candidate |-> Identity(c), score |-> ScoreBreakdown(c, in),
   reasons |-> ScoreReasons(c, in)]

(***************************************************************************)
(* Ranking and the decision                                                *)
(***************************************************************************)
RankKey(s) == <<s.score.total, s.score.parts.preference, s.score.parts.efficiency>>

RankedBefore(a, b) ==
  LET x == RankKey(a)
      y == RankKey(b)
  IN  \/ \E i \in 1..3 : x[i] > y[i] /\ \A j \in 1..(i - 1) : x[j] = y[j]
      \/ x = y /\ IDBefore(a.candidate.id, b.candidate.id)

HasExactRankTie(a, b) == RankKey(a) = RankKey(b)

\* Mutant: only the runner-up is checked for a tie with the winner.
RankReasonRunnerUp(ranked, i) ==
  LET tie == Len(ranked) > 1 /\ HasExactRankTie(ranked[1], ranked[2])
  IN  CASE i = 1 -> IF tie THEN "STABLE_TIE_BREAK" ELSE "SELECTED_HIGHEST_SCORE"
        [] i > 1 -> IF tie /\ i = 2 THEN "STABLE_TIE_BREAK" ELSE "LOWER_SCORE"

RankReason(ranked, i) ==
  LET tie == Len(ranked) > 1 /\ HasExactRankTie(ranked[1], ranked[2])
  IN  CASE i = 1 -> IF tie THEN "STABLE_TIE_BREAK" ELSE "SELECTED_HIGHEST_SCORE"
        [] i > 1 -> IF tie /\ HasExactRankTie(ranked[1], ranked[i])
                    THEN "STABLE_TIE_BREAK" ELSE "LOWER_SCORE"

NoSelection == [id |-> << >>, runtime |-> "none"]

(* The loop over the candidates, in their order.                           *)
Accepted(candidates, in) ==
  Kept(candidates, {i \in DOMAIN candidates : Eligible(candidates[i], in)})
Refused(candidates, in) ==
  Kept(candidates, {i \in DOMAIN candidates : ~Eligible(candidates[i], in)})

Ranked(accepted, in) ==
  LET scored == {ScoreEligibleCandidate(c, in) : c \in Range(accepted)}
  IN  InOrder(scored, {p \in scored \X scored : RankedBefore(p[1], p[2])})

Explained(ranked) ==
  [i \in DOMAIN ranked |->
     [candidate |-> ranked[i].candidate, score |-> ranked[i].score,
      reasons |-> ranked[i].reasons \cup {RankReason(ranked, i)},
      selected |-> i = 1]]

RouteBrowserRuntime(in) ==
  LET candidates == BuildRoutingCandidates(in.sources)
      refused == Refused(candidates, in)
      eligible == Explained(Ranked(Accepted(candidates, in), in))
      won == Len(eligible) > 0
      allowed == won /\ AllowFallback(in)
  IN  [outcome |-> IF won THEN "selected" ELSE "no_compatible_runtime",
       selected |-> IF won THEN eligible[1].candidate ELSE NoSelection,
       eligible |-> eligible,
       rejected |-> [i \in DOMAIN refused |->
                       [candidate |-> Identity(refused[i]),
                        reasons |-> RejectionReasons(refused[i], in)]],
       reasons |-> IF won THEN eligible[1].reasons ELSE {"NO_COMPATIBLE_RUNTIME"},
       health |-> [i \in DOMAIN candidates |->
                     [id |-> candidates[i].id, health |-> candidates[i].health]],
       policy |-> [allowed |-> allowed, maximum |-> IF allowed THEN 1 ELSE 0]]

(***************************************************************************)
(* What RoutingDecisionSchema demands of a decision                        *)
(***************************************************************************)
ScoreParses(s) ==
  /\ \A part \in {"preference", "efficiency", "health", "latency", "capacity"} :
       s.parts[part] \in 0..100
  /\ s.parts.compatibility \in 0..(100 * Precision)
  /\ s.total \in 0..(100 * Precision)
  /\ s.total = TotalScore(s.parts)

RankReasons == {"SELECTED_HIGHEST_SCORE", "LOWER_SCORE", "STABLE_TIE_BREAK"}

(* Positions, then explanations, of the eligible candidates.               *)
RankingParses(d) ==
  LET n == Len(d.eligible)
      tied == n > 1 /\ HasExactRankTie(d.eligible[1], d.eligible[2])
      Expected(i) == IF tied /\ HasExactRankTie(d.eligible[1], d.eligible[i])
                     THEN "STABLE_TIE_BREAK"
                     ELSE IF i = 1 THEN "SELECTED_HIGHEST_SCORE" ELSE "LOWER_SCORE"
  IN  /\ \A i \in 1..(n - 1) : RankedBefore(d.eligible[i], d.eligible[i + 1])
      /\ \A i \in 1..n : /\ d.eligible[i].reasons \cap RankReasons = {Expected(i)}
                         /\ ScoreParses(d.eligible[i].score)

DecisionParses(d) ==
  LET ids == [i \in DOMAIN d.eligible |-> d.eligible[i].candidate.id]
             \o [i \in DOMAIN d.rejected |-> d.rejected[i].candidate.id]
      healthIDs == {d.health[i].id : i \in DOMAIN d.health}
  IN  /\ \A i, j \in DOMAIN ids : i # j => ids[i] # ids[j]
      /\ Len(d.health) = Len(ids)
      /\ healthIDs = {ids[i] : i \in DOMAIN ids}
      /\ RankingParses(d)
      /\ \A i \in DOMAIN d.rejected : d.rejected[i].reasons # {}
      /\ d.policy.allowed <=> (d.policy.maximum = 1)
      /\ IF d.outcome = "selected"
         THEN /\ {i \in DOMAIN d.eligible : d.eligible[i].selected} = {1}
              /\ d.eligible[1].candidate = d.selected
              /\ d.eligible[1].reasons = d.reasons
         ELSE /\ d.selected = NoSelection
              /\ d.eligible = << >>
              /\ d.reasons = {"NO_COMPATIBLE_RUNTIME"}
=============================================================================
