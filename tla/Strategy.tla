------------------------------ MODULE Strategy ------------------------------
(***************************************************************************)
(* How PA turns the bids of a contract-net round into a strategy: each bid   *)
(* is normalised and scored as it is collected (evaluate_proposal), scored   *)
(* again and ranked (rank_proposals_by_comparison), the winner's numbers     *)
(* become the strategy, by rules or by the solver with an LLM that may only  *)
(* add words (evaluate_proposals), and the decision card and the report are  *)
(* made from it.  Planning models when this happens and what is done with    *)
(* it; here are the computations.                                            *)
(*                                                                         *)
(* Metrics are in hundredths, scores in ten-thousandths (the four decimals   *)
(* the code rounds to), sensor readings in tenths.                           *)
(***************************************************************************)
EXTENDS DomainAgents

CONSTANTS
  Responders,  \* the agents in the order PA asks them
  RawBids,     \* agent -> the proposals handle_cfp may return
  Readings,    \* readings [vib, ma, oil] of WC-01
  SpeedMin,    \* CNPConstraints.speed_min_pct
  SpeedMax     \* CNPConstraints.speed_max_pct

VARIABLES
  pc,         \* collect, build, report or done
  next,       \* index of the agent asked next
  proposals,  \* evaluated proposals in the order collected
  ranked,     \* the same, evaluated again and sorted
  context,    \* what the LLM is told of the line, if it is asked
  llm,        \* how the LLM took part: off, raises, or one of LlmAnswers
  strategy,   \* [agent, speed, mode, score, decision, rationale]
  card        \* [agent, alternatives, speed, mode]

vars == <<pc, next, proposals, ranked, context, llm, strategy, card>>

-----------------------------------------------------------------------------
\* cnp_comparison.

\* A block of metrics is a dict: the keys it has, in hundredths.  QA's effect
\* goes up to 1.25 for a Cpk of 2.
MetricKeys == {"expected_effect", "expected_cost", "cost_estimate", "quality_risk",
               "constraint_violation", "constraint_violation_total", "confidence"}
MetricMax(key) == IF key = "expected_effect" THEN 125 ELSE 100
IsMetrics(m) == /\ DOMAIN m \subseteq MetricKeys
                /\ \A key \in DOMAIN m : m[key] \in 0..MetricMax(key)

None == -1

\* {**pm, **comp}.get(key): the comparison block wins over the metrics.
Get(p, key) == IF key \in DOMAIN p.comparison THEN p.comparison[key]
               ELSE IF key \in DOMAIN p.metrics THEN p.metrics[key] ELSE None

\* Python's x or y: a zero gives way as a missing value does.
Or(x, y) == IF x \in {None, 0} THEN y ELSE x
Default(x, d) == IF x = None THEN d ELSE x

\* Mutant: an already normalised effect is taken for a benefit in percent.
Normalize_Rescales(p) ==
  [expected_effect |-> Default(Or(Get(p, "expected_effect"), None), 50) \div 2,
   expected_cost |-> Default(Or(Get(p, "expected_cost"), Get(p, "cost_estimate")), 50),
   quality_risk |-> Default(Get(p, "quality_risk"), 30),
   constraint_violation |-> Default(Get(p, "constraint_violation_total"), 0),
   confidence |-> Default(Or(Get(p, "confidence"), None), 70)]

\* normalize_comparison_metrics.  (No agent sends the synonyms
\* expected_benefit, cost_estimate_norm and recommendation_confidence, and the
\* impacts are not scored.)
Normalize(p) ==
  [expected_effect |-> Default(Or(Get(p, "expected_effect"), None), 50),
   expected_cost |->
     Default(Or(Or(Get(p, "expected_cost"), Get(p, "cost_estimate")), None), 50),
   quality_risk |-> Default(Get(p, "quality_risk"), 30),
   constraint_violation |->
     Default(Or(Get(p, "constraint_violation"), Get(p, "constraint_violation_total")), 0),
   confidence |-> Default(Or(Get(p, "confidence"), None), 70)]

\* merge_into_proposal.
Merged(p) == [p EXCEPT !.comparison = Normalize(p)]

-----------------------------------------------------------------------------
\* Proposals: what handle_cfp returns (EA and QA normalise theirs themselves).

Scores ==
  [EA |-> [quality |-> 70, delivery |-> 60, cost |-> 50, safety |-> 90],
   QA |-> [quality |-> 90, delivery |-> 50, cost |-> 40, safety |-> 80],
   SA |-> [quality |-> 50, delivery |-> 80, cost |-> 60, safety |-> 60],
   DA |-> [quality |-> 50, delivery |-> 90, cost |-> 60, safety |-> 50],
   IA |-> [quality |-> 60, delivery |-> 70, cost |-> 70, safety |-> 50]]

NoComparison == << >>

Proposal(a, bid, metrics) ==
  [agent |-> a, speed |-> bid.speed, mode |-> bid.mode, scores |-> Scores[a],
   metrics |-> metrics, comparison |-> NoComparison]

EaProposal(rul) ==
  LET bid == EaBid(rul)
  IN  Merged(Proposal("EA", bid,
        [cost_estimate |-> bid.cost, constraint_violation_total |-> bid.viol,
         expected_effect |-> 100 - bid.cost, quality_risk |-> 35, confidence |-> 75]))

QaProposal(cpk) ==
  LET bid == QaBid(cpk)
  IN  Merged(Proposal("QA", bid,
        [cost_estimate |-> bid.cost, constraint_violation_total |-> bid.viol,
         expected_effect |-> 50 + (50 * cpk) \div CpkGood,
         quality_risk |-> 100 - Least(100, (100 * cpk) \div CpkGood), confidence |-> 82]))

BidMetrics(bid) == [cost_estimate |-> bid.cost, constraint_violation_total |-> bid.viol]

SaProposal(log) == Proposal("SA", SaBid(log), BidMetrics(SaBid(log)))
DaProposal(util) == Proposal("DA", DaBid(util), BidMetrics(DaBid(util)))
IaProposal(flow) == Proposal("IA", IaBid(flow), BidMetrics(IaBid(flow)))

\* What PA gets from agent a: its own scores, metrics within their scale, and
\* a comparison made of nothing but these metrics, if any.
IsRawBid(p, a) ==
  /\ DOMAIN p = {"agent", "speed", "mode", "scores", "metrics", "comparison"}
  /\ p.agent = a /\ p.scores = Scores[a]
  /\ p.speed \in Nat /\ p.mode \in InspectionMode
  /\ IsMetrics(p.metrics)
  /\ p.comparison \in {NoComparison, Normalize([p EXCEPT !.comparison = NoComparison])}

ASSUME StrategyAssumption ==
  /\ SpeedMin \in 40..100 /\ SpeedMax \in SpeedMin..100
  /\ Responders \in Seq(DOMAIN Scores)
  /\ DOMAIN RawBids = {Responders[i] : i \in DOMAIN Responders}
  /\ \A a \in DOMAIN RawBids : \A p \in RawBids[a] : IsRawBid(p, a)
  /\ Readings \subseteq [vib : Nat, ma : Nat, oil : Nat]

-----------------------------------------------------------------------------
\* evaluate_proposal.

KpiWeights == [quality |-> 30, delivery |-> 25, cost |-> 25, safety |-> 20]

BusinessScore(scores) ==
  scores.quality * KpiWeights.quality + scores.delivery * KpiWeights.delivery
    + scores.cost * KpiWeights.cost + scores.safety * KpiWeights.safety

\* Mutant: a higher cost counts in favour.
ComparisonScore_CostAdds(c) ==
  Or(c.expected_effect, 50) * Or(c.confidence, 70)
    + 35 * Or(c.expected_cost, 50) - 25 * Or(c.quality_risk, 30)

ComparisonScore(c) ==
  Or(c.expected_effect, 50) * Or(c.confidence, 70)
    - 35 * Or(c.expected_cost, 50) - 25 * Or(c.quality_risk, 30)

\* score_against_constraints.
ConstraintPenalty(speed, c) ==
  Least(10000, (IF speed < SpeedMin \/ speed > SpeedMax THEN 4000 ELSE 0)
                 + 20 * c.constraint_violation)

\* round(x, 4) of a value in millionths (ties up).
Round(x) == (x + 50) \div 100

\* The proposal with the comparison of merge_into_proposal and the scores; what
\* scores it had before are written over.
Evaluate(p) ==
  LET c == Normalize(p)
      business == BusinessScore(p.scores)
      compared == ComparisonScore(c)
      penalty == ConstraintPenalty(p.speed, c)
  IN  [agent |-> p.agent, speed |-> p.speed, mode |-> p.mode, scores |-> p.scores,
       metrics |-> p.metrics, comparison |-> c,
       business_score |-> business, comparison_score |-> compared,
       constraint_penalty |-> penalty,
       total_score |-> Round(40 * business + 60 * compared - 20 * penalty)]

-----------------------------------------------------------------------------
\* rank_proposals_by_comparison.

RankKey == <<"total_score", "comparison_score", "business_score">>

\* p comes before q by the first field of the key in which they differ.
Above(p, q, key) ==
  \E i \in DOMAIN key : p[key[i]] > q[key[i]] /\ \A j \in 1 .. i - 1 : p[key[j]] = q[key[j]]

\* A stable sort, the highest first: the proposal at i comes before the one at
\* j if it is above it or, where neither is, was there before.
Before(ps, key, i, j) ==
  \/ Above(ps[i], ps[j], key)
  \/ ~Above(ps[j], ps[i], key) /\ i < j
Place(ps, key, i) == 1 + Cardinality({j \in DOMAIN ps : Before(ps, key, j, i)})
SortedBy(ps, key) ==
  [k \in DOMAIN ps |-> ps[CHOOSE i \in DOMAIN ps : Place(ps, key, i) = k]]

Rank(ps) == SortedBy([i \in DOMAIN ps |-> Evaluate(ps[i])], RankKey)

-----------------------------------------------------------------------------
\* optimization_engine.

Clamp(v) == Greatest(SpeedMin, Least(SpeedMax, v))

SolverMode(mode) == IF mode \in {"tightened", "enhanced"} THEN "enhanced" ELSE "standard"

\* Mutant: the solver takes the highest business score.
NumericStrategy_Business(ps) ==
  LET best == SortedBy(ps, <<"business_score">>)[1]
  IN  [agent |-> best.agent, speed |-> Greatest(40, Least(100, best.speed)),
       mode |-> SolverMode(best.mode), score |-> best.total_score, decision |-> "solver_first"]

\* cnp_numeric_strategy sorts the ranked proposals again, by total score.
NumericStrategy(ps) ==
  LET best == SortedBy(ps, <<"total_score">>)[1]
  IN  [agent |-> best.agent, speed |-> Greatest(40, Least(100, best.speed)),
       mode |-> SolverMode(best.mode), score |-> best.total_score, decision |-> "solver_first"]

NumericKeys == {"agent", "speed", "mode", "score", "decision"}

\* merge_numeric_and_rationale: what the LLM says of a numeric key is ignored.
MergeRationale(numeric, part) ==
  [k \in DOMAIN numeric \cup DOMAIN part \cup {"rationale"} |->
     IF k \in DOMAIN part \ NumericKeys THEN part[k]
     ELSE IF k \in DOMAIN numeric THEN numeric[k] ELSE "rules"]

\* An answer of the LLM is nothing (an error, or an empty object), an opinion
\* on every number without a rationale, or one with.
LlmAnswers == {"none", "terse", "explains"}
LlmPart(answer) ==
  CASE answer = "none" -> << >>
    [] answer = "terse" -> [agent |-> "LLM", speed |-> SpeedMin, mode |-> "total",
                            score |-> 0, decision |-> "llm"]
    [] answer = "explains" -> [agent |-> "LLM", speed |-> SpeedMin, mode |-> "total",
                               score |-> 0, decision |-> "llm", rationale |-> "llm"]

\* evaluate_proposals; the words the answer does not give are canned ones.
SolverStrategy(ps, answer) ==
  [MergeRationale(NumericStrategy(ps), LlmPart(answer))
     EXCEPT !.decision = IF answer = "none" THEN "solver_only" ELSE "hybrid_solver_llm"]

\* _build_strategy_rules.
RulesStrategy(ps) ==
  [agent |-> ps[1].agent, speed |-> ps[1].speed, mode |-> ps[1].mode,
   score |-> ps[1].total_score, decision |-> "rule_based", rationale |-> "rules"]

\* infer_domain_signals.
DefectRisk(r) == IF r.vib >= 45 \/ r.ma >= 42 THEN "HIGH"
                 ELSE IF r.vib >= 35 \/ r.ma >= 33 THEN "MEDIUM" ELSE "LOW"

\* Mutant: oil temperature is compared with the wrong limit.
RulBand_OilHigh(r) == IF r.oil >= 850 \/ r.vib >= 50 THEN "RED"
                      ELSE IF r.oil >= 600 \/ r.vib >= 40 THEN "YELLOW" ELSE "GREEN"

RulBand(r) == IF r.oil >= 750 \/ r.vib >= 50 THEN "RED"
              ELSE IF r.oil >= 600 \/ r.vib >= 40 THEN "YELLOW" ELSE "GREEN"

\* build_llm_context, of which the bands are what an answer can hang on.
LlmContext(r) == [reading |-> r, defect_risk_band |-> DefectRisk(r), rul_band |-> RulBand(r)]

-----------------------------------------------------------------------------
NoContext == LlmContext([vib |-> 0, ma |-> 0, oil |-> 0])
NoStrategy == [agent |-> "none", speed |-> 0, mode |-> "none", score |-> 0,
               decision |-> "none", rationale |-> "none"]
NoCard == [agent |-> "none", alternatives |-> << >>, speed |-> 0, mode |-> "none"]

Init ==
  /\ pc = "collect" /\ next = 1 /\ proposals = << >> /\ ranked = << >>
  /\ context = NoContext /\ llm = "off" /\ strategy = NoStrategy /\ card = NoCard

\* _collect_proposals: the speed is clamped before the bid is scored.
Scored(raw) == Evaluate([raw EXCEPT !.speed = Clamp(@)])

Collect ==
  /\ pc = "collect" /\ next <= Len(Responders)
  /\ \E raw \in RawBids[Responders[next]] : proposals' = Append(proposals, Scored(raw))
  /\ next' = next + 1
  /\ UNCHANGED <<pc, ranked, context, llm, strategy, card>>

\* An agent that raises is passed over.
CollectFails ==
  /\ pc = "collect" /\ next <= Len(Responders)
  /\ next' = next + 1
  /\ UNCHANGED <<pc, proposals, ranked, context, llm, strategy, card>>

\* Nobody bids: the round is over.
RankAll ==
  /\ pc = "collect" /\ next > Len(Responders)
  /\ ranked' = Rank(proposals)
  /\ pc' = IF proposals = << >> THEN "done" ELSE "build"
  /\ UNCHANGED <<next, proposals, context, llm, strategy, card>>

\* _build_strategy without an LLM, or after an exception on the way to it.
BuildByRules ==
  /\ pc = "build"
  /\ llm' \in {"off", "raises"}
  /\ strategy' = RulesStrategy(ranked)
  /\ pc' = "report"
  /\ UNCHANGED <<next, proposals, ranked, context, card>>

\* _build_strategy_llm with the context made of the current readings.
BuildBySolver ==
  /\ pc = "build"
  /\ llm' \in LlmAnswers
  /\ \E r \in Readings : context' = LlmContext(r)
  /\ strategy' = SolverStrategy(ranked, llm')
  /\ pc' = "report"
  /\ UNCHANGED <<next, proposals, ranked, card>>

\* clamp_strategy, from_cnp_strategy and build_pa_report_lines.
Report ==
  /\ pc = "report"
  /\ strategy' = [strategy EXCEPT !.speed = Clamp(@)]
  /\ card' = [agent |-> ranked[1].agent,
              alternatives |-> [i \in 1 .. Least(2, Len(ranked) - 1) |-> ranked[i + 1].agent],
              speed |-> Clamp(strategy.speed), mode |-> strategy.mode]
  /\ pc' = "done"
  /\ UNCHANGED <<next, proposals, ranked, context, llm>>

Next == Collect \/ CollectFails \/ RankAll \/ BuildByRules \/ BuildBySolver \/ Report

Spec == Init /\ [][Next]_vars

-----------------------------------------------------------------------------
Made == pc \in {"report", "done"} /\ ranked # << >>

\* The scores of the worst and the best metrics.
WorstScore == -4000
BestScore == 11500

\* Speeds stay within the constraints and scores in their scale at every
\* stage of a round.
TypeOK ==
  /\ pc \in {"collect", "build", "report", "done"} /\ next \in 1 .. Len(Responders) + 1
  /\ \A i \in DOMAIN proposals : /\ proposals[i].speed \in SpeedMin..SpeedMax
                                 /\ proposals[i].total_score \in WorstScore..BestScore
  /\ Made => strategy.speed \in SpeedMin..SpeedMax

\* Proposals are scored when they are collected and again when they are
\* ranked, from metrics the first pass has rewritten; the scores the round
\* decides on are those it collected, and nobody's bid gets lost or doubled.
ReevaluationStable ==
  ranked # << >> => /\ Len(ranked) = Len(proposals)
                    /\ Range(ranked) = Range(proposals)

\* The ranking follows the rounded total score, and where rounding makes two
\* bids equal the exact comparison score decides.
RankedByScore ==
  \A i, j \in DOMAIN ranked : i < j =>
    /\ ranked[i].total_score >= ranked[j].total_score
    /\ ranked[i].total_score = ranked[j].total_score =>
         ranked[i].comparison_score >= ranked[j].comparison_score

\* The ranking a round decides on: in range, unchanged by the second
\* evaluation, and in order.
RankingSound == TypeOK /\ ReevaluationStable /\ RankedByScore

\* Three places choose a winner: the ranking, the solver, which sorts again by
\* another key, and the card.  With an LLM or without it they name the same
\* agent, and the speed to be applied is the one that agent bid.
OneWinner ==
  Made => /\ strategy.agent = ranked[1].agent
          /\ strategy.speed = ranked[1].speed
          /\ strategy.score = ranked[1].total_score
          /\ pc = "done" => card.agent = strategy.agent /\ card.speed = strategy.speed

\* Whatever the LLM answers, the numbers are the solver's.  A decision is
\* called hybrid when the LLM answered, and the words are the LLM's when its
\* answer had some: a hybrid decision may have canned words, but the LLM's words
\* never stand under a decision it took no part in.
LlmOnlyExplains ==
  Made => /\ strategy.mode \in {ranked[1].mode, SolverMode(ranked[1].mode)}
          /\ strategy.speed = ranked[1].speed
          /\ strategy.decision = "hybrid_solver_llm" <=> llm \in {"terse", "explains"}
          /\ strategy.rationale = "llm" <=> llm = "explains"

\* Ranking, solver, LLM and report make one strategy: one winner, its numbers,
\* and the LLM's words at most.
OneStrategy == OneWinner /\ LlmOnlyExplains

Axes == {"expected_effect", "expected_cost", "quality_risk", "confidence"}
Dominates(c, d) ==
  /\ c.expected_effect >= d.expected_effect /\ c.confidence >= d.confidence
  /\ c.expected_cost <= d.expected_cost /\ c.quality_risk <= d.quality_risk
  /\ c.constraint_violation <= d.constraint_violation

\* An agent that could have bid better on every axis would have scored at
\* least as high, after rounding too, as long as no metric is zero: the code
\* reads a zero as missing and puts a default of 0.3 to 0.7 in its place.
BetterBidScoresHigher ==
  \A i \in DOMAIN proposals : \A raw \in RawBids[proposals[i].agent] :
    LET p == proposals[i]
        q == Scored(raw)
    IN  (/\ Dominates(q.comparison, p.comparison)
         /\ \A a \in Axes : p.comparison[a] # 0 /\ q.comparison[a] # 0)
        => q.total_score >= p.total_score

\* The bands the LLM is told do not contradict the router: readings that stop
\* the line are RED, and those that slow EA down are a HIGH defect risk.
SignalsAgreeWithRouter ==
  LET sensors == <<[name |-> "vibration", value |-> context.reading.vib],
                   [name |-> "oil_temp", value |-> context.reading.oil]>>
      snap == [stations |-> <<[sensors |-> sensors]>>, materials |-> << >>]
  IN  /\ SafetyRule(snap) => context.rul_band = "RED"
      /\ ThresholdRule("EA", snap) => context.defect_risk_band = "HIGH"
=============================================================================
