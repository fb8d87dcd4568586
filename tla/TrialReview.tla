---------------------------- MODULE TrialReview -----------------------------
(***************************************************************************)
(* How a run judges its trials: the loop hands each backtest to the        *)
(* gatekeeper, whose pipeline takes the gates in the order of their cost,  *)
(* and a survivor to the critic, an LLM with a rule-based fallback.        *)
(* Strategist, critic and reporter share one token ledger.                 *)
(*                                                                         *)
(* ResearchLoop takes these verdicts as given; here they are computed.     *)
(* The iterations that end before a backtest are ResearchLoop's too.       *)
(***************************************************************************)
EXTENDS GateRules, TokenLedger, Sequences, FiniteSets

CONSTANTS
    Trials,                  \* what a backtest can report
    Configs,                 \* the settings a run can have
    Variances, DefaultVariance,      \* measured; 0.001 where it cannot be
    NullVariances,           \* null_variance_floor of the clocks of a trial
    Visited,                 \* numbers of cells the campaign has visited
    None

Agents == {"rule_based", "ai_assisted", "full_ai"}

Config ==
    [rigor : Rigors, mode : Modes, softDsr : BOOLEAN, coverageDsr : BOOLEAN,
     canary : BOOLEAN, agents : Agents, priced : BOOLEAN]

\* run.py grants soft_dsr and the coverage memory in robustness mode only.
ASSUME ReviewAssumption ==
    /\ Trials \subseteq Trial
    /\ Configs \subseteq Config
    /\ \A c \in Configs : c.mode = "regime" => ~c.softDsr /\ ~c.coverageDsr
    /\ Variances \subseteq VarianceSet /\ NullVariances \subseteq VarianceSet \ {0}
    /\ DefaultVariance \in VarianceSet \ {0} /\ Visited \subseteq Counts
    /\ \A m, n \in Counts : AtLeast(m, n) \in Counts

Gates == <<"spec_validation", "provider_capability", "data_integrity",
           "minimum_activity", "performance_floor", "benchmark_relative",
           "cost_stress", "lag_fragility", "deflated_sharpe", "leakage_canary">>
Gate == {Gates[i] : i \in 1..10}

ASSUME NoneAssumption == None \notin Gate \cup {"unknown", "error"}

VARIABLES
    pc,
    config,
    trial,                   \* metrics of the trial in flight
    registry,                \* what the gatekeeper knows of the run's trials
    next,                    \* position in the pipeline
    results,                 \* status of each gate; "none" until it is reached
    shortCircuited, firstFailed, erroredGate,
    outcome, cause,          \* of the trial; the gate a failure is put down to
    recommendation, source,  \* the critique, and who wrote it
    confidence               \* of a candidate, in regime mode

pipeline == <<next, results, shortCircuited, firstFailed, erroredGate>>
verdict  == <<outcome, cause, recommendation, source, confidence>>
vars == <<pc, config, trial, registry, pipeline, verdict, ledger>>

Statuses == {"PASS", "FAIL", "ERROR", "NOT_EVALUATED"}
Recommendations == {"accept", "reject", "investigate"}

TypeOK ==
    /\ pc \in {"PROPOSING", "EXECUTING", "GATING", "CRITIQUING", "DECIDING",
               "REPORTING", "DONE"}
    /\ config \in Configs /\ trial \in Trials \cup {None}
    /\ registry \in Registry
    /\ next \in 1..11 /\ results \in [Gate -> Statuses \cup {"none"}]
    /\ shortCircuited \in BOOLEAN
    /\ firstFailed \in Gate \cup {None} /\ erroredGate \in Gate \cup {None}
    /\ outcome \in {"none", "gate_fail", "critic_reject", "candidate"}
    /\ cause \in Gate \cup {None, "unknown", "error"}
    /\ recommendation \in Recommendations \cup {"none"}
    /\ source \in {"none", "llm", "heuristic", "failed"}
    /\ confidence \in {"none", "very_low", "low", "moderate"}
    /\ LedgerType

-----------------------------------------------------------------------------
(* The pipeline of a run *)

Rules == RigorPresets(config.rigor)

\* The weaknesses regime mode records are no reason to drop an idea; soft_dsr
\* leaves the verdict on luck to the lockbox.
SoftGates ==
    {"provider_capability", "leakage_canary"} \cup
    (IF config.mode = "regime" THEN {"performance_floor", "cost_stress", "lag_fragility"}
     ELSE IF config.softDsr THEN {"deflated_sharpe"} ELSE {})

\* The gates that are a function of the evidence.  The strategists stamp every
\* spec with its hash and template, so the first gate always passes.
Passes(g, r, mode, reg, t) ==
    CASE g = "spec_validation" -> TRUE
      [] g = "provider_capability" -> ~t.biased
      [] g = "data_integrity" -> DataIntegrity(t)
      [] g = "minimum_activity" -> MinimumActivity(r, mode, t)
      [] g = "performance_floor" -> PerformanceFloor(r, t)
      [] g = "benchmark_relative" -> BenchmarkRelative(r, t)
      [] g = "cost_stress" -> CostStress(r, t)
      [] g = "lag_fragility" -> LagFragility(t)
      [] g = "deflated_sharpe" -> DeflatedSharpe(r, reg, t)

\* The canary reruns the trial on random walks: whatever they turn out to be,
\* unless it is off or the series is too short.
CanaryAnswers ==
    IF ~config.canary THEN {"PASS"}
    ELSE IF trial.bars < 10 THEN {"FAIL"} ELSE {"PASS", "FAIL"}

\* What gate.check can return; one that computes on the metrics may raise.
Answers(g) ==
    IF g = "leakage_canary" THEN CanaryAnswers \cup {"ERROR"}
    ELSE {IF Passes(g, Rules, config.mode, registry, trial) THEN "PASS" ELSE "FAIL"}
         \cup IF g \in {"spec_validation", "provider_capability"} THEN {} ELSE {"ERROR"}

-----------------------------------------------------------------------------
(* The loop around the pipeline *)

NewTrial ==
    /\ next' = 1 /\ results' = [g \in Gate |-> "none"]
    /\ shortCircuited' = FALSE /\ firstFailed' = None /\ erroredGate' = None
    /\ outcome' = "none" /\ cause' = None
    /\ recommendation' = "none" /\ source' = "none" /\ confidence' = "none"

Init ==
    /\ pc = "PROPOSING" /\ config \in Configs /\ trial = None
    /\ registry = [n |-> 0, variance |-> DefaultVariance, defaulted |-> TRUE,
                   search |-> 0, nullVariance |-> DefaultVariance]
    /\ next = 1 /\ results = [g \in Gate |-> "none"]
    /\ shortCircuited = FALSE /\ firstFailed = None /\ erroredGate = None
    /\ outcome = "none" /\ cause = None
    /\ recommendation = "none" /\ source = "none" /\ confidence = "none"
    /\ NewLedger

\* By rules, because there is no LLM or because it is over its budget.
ProposeByRules ==
    /\ pc = "PROPOSING" /\ pc' = "EXECUTING"
    /\ config.agents # "full_ai" \/ OverBudget
    /\ UNCHANGED <<config, trial, registry, pipeline, verdict, ledger>>

\* The LLM answered (usably or not) or raised.
ProposeByLLM ==
    /\ pc = "PROPOSING" /\ pc' = "EXECUTING"
    /\ config.agents = "full_ai" /\ ~OverBudget
    /\ Record(config.priced) \/ RecordFailure(config.priced)
    /\ UNCHANGED <<config, trial, registry, pipeline, verdict>>

\* The backtest of t is in: the trial counts itself if it has a Sharpe ratio.
Execute(t) ==
    /\ pc = "EXECUTING" /\ pc' = "GATING"
    /\ trial' = t
    /\ \E v \in Variances, f \in NullVariances, s \in Visited :
         LET n == IF Measurable(t) THEN registry.n + 1 ELSE registry.n IN
         /\ n \in Counts
         /\ registry' = [n |-> n,
                         variance |-> IF n > 1 THEN v ELSE DefaultVariance,
                         defaulted |-> n <= 1,
                         search |-> IF config.coverageDsr THEN AtLeast(s, n) ELSE 0,
                         nullVariance |-> f]
    /\ NewTrial
    /\ UNCHANGED <<config, ledger>>

-----------------------------------------------------------------------------
(* GatePipeline.evaluate, a gate a step *)

Current == Gates[next]
Evaluating == pc = "GATING" /\ next <= 10 /\ ~shortCircuited

GatePasses ==
    /\ Evaluating /\ "PASS" \in Answers(Current)
    /\ results' = [results EXCEPT ![Current] = "PASS"] /\ next' = next + 1
    /\ UNCHANGED <<pc, config, trial, registry, shortCircuited, firstFailed,
                   erroredGate, verdict, ledger>>

\* Mutant: the first weakness is blamed, blocking or not (the bug M21 fixed).
GateFailsBlamesSoft ==
    /\ Evaluating /\ "FAIL" \in Answers(Current)
    /\ results' = [results EXCEPT ![Current] = "FAIL"] /\ next' = next + 1
    /\ shortCircuited' = (Current \notin SoftGates)
    /\ firstFailed' = IF firstFailed = None THEN Current ELSE firstFailed
    /\ UNCHANGED <<pc, config, trial, registry, erroredGate, verdict, ledger>>

\* M21: a hard failure is the cause and ends the evaluation, a soft one is a
\* recorded weakness.
GateFails ==
    /\ Evaluating /\ "FAIL" \in Answers(Current)
    /\ results' = [results EXCEPT ![Current] = "FAIL"] /\ next' = next + 1
    /\ IF Current \in SoftGates THEN UNCHANGED <<shortCircuited, firstFailed>>
       ELSE shortCircuited' = TRUE /\ firstFailed' = Current
    /\ UNCHANGED <<pc, config, trial, registry, erroredGate, verdict, ledger>>

\* A hard gate that raised could not rule a flaw out: it ends the evaluation.
GateRaises ==
    /\ Evaluating /\ "ERROR" \in Answers(Current)
    /\ results' = [results EXCEPT ![Current] = "ERROR"] /\ next' = next + 1
    /\ IF Current \in SoftGates THEN UNCHANGED <<shortCircuited, erroredGate>>
       ELSE shortCircuited' = TRUE /\ erroredGate' = Current
    /\ UNCHANGED <<pc, config, trial, registry, firstFailed, verdict, ledger>>

SkipGate ==
    /\ pc = "GATING" /\ next <= 10 /\ shortCircuited
    /\ results' = [results EXCEPT ![Current] = "NOT_EVALUATED"] /\ next' = next + 1
    /\ UNCHANGED <<pc, config, trial, registry, shortCircuited, firstFailed,
                   erroredGate, verdict, ledger>>

\* Mutant: a gate that could not be evaluated does not block.
PassedUnlessFailed == \A g \in Gate : results[g] # "FAIL" \/ g \in SoftGates
Passed == \A g \in Gate : results[g] \in {"PASS", "NOT_EVALUATED"} \/ g \in SoftGates

PassGates ==
    /\ pc = "GATING" /\ next = 11 /\ Passed
    /\ pc' = "CRITIQUING"
    /\ UNCHANGED <<config, trial, registry, pipeline, verdict, ledger>>

Cause == IF firstFailed # None THEN firstFailed
         ELSE IF erroredGate # None THEN erroredGate ELSE "unknown"

FailGates ==
    /\ pc = "GATING" /\ next = 11 /\ ~Passed
    /\ pc' = "DECIDING" /\ outcome' = "gate_fail" /\ cause' = Cause
    /\ UNCHANGED <<config, trial, registry, pipeline, recommendation, source,
                   confidence, ledger>>

\* The gatekeeper is injected; one that raises fails the trial.
GatekeeperRaises ==
    /\ pc = "GATING"
    /\ pc' = "DECIDING" /\ outcome' = "gate_fail" /\ cause' = "error"
    /\ UNCHANGED <<config, trial, registry, pipeline, recommendation, source,
                   confidence, ledger>>

-----------------------------------------------------------------------------
(* The critic *)

\* _heuristic_review: what is held against a trial.  The loop always hands over
\* a benchmark, so "no benchmark" is never found.  A thin sample is a caveat.
Overfit(t) == t.sharpe > 300
Loses(t) == t.return <= 0
Concern(t) ==
    \/ t.regimeBound \/ t.return < t.holdReturn
    \/ t.return \in 1..199 \/ t.drawdown > 3000

Heuristic(t) == IF Overfit(t) \/ Loses(t) THEN "reject"
                ELSE IF Concern(t) THEN "investigate" ELSE "accept"

\* In a passed report every FAIL is soft.
SoftFails == {g \in Gate \ {"minimum_activity"} : results[g] = "FAIL"}

\* The tier of the sample, one level lower for each weakness.
GateLevel ==
    LET base == IF ThinSample(Rules, trial) THEN 1 ELSE 2
    IN  AtLeast(0, base - Cardinality(SoftFails))

Level == [very_low |-> 0, low |-> 1, moderate |-> 2]
Tier == <<"very_low", "low", "moderate">>

Confidence(rec) ==
    CASE rec = "reject" -> "very_low"
      [] rec = "investigate" -> "low"
      [] rec = "accept" -> Tier[GateLevel + 1]

\* Regime mode surfaces ideas: there the critic never kills.
Kills(rec) == rec \in {"reject", "investigate"} /\ config.mode # "regime"

Critique(rec, by) ==
    /\ pc' = "DECIDING" /\ recommendation' = rec /\ source' = by
    /\ outcome' = IF Kills(rec) THEN "critic_reject" ELSE "candidate"
    /\ confidence' = IF config.mode = "regime" THEN Confidence(rec) ELSE "none"
    /\ UNCHANGED <<config, trial, registry, pipeline, cause>>

HasLLM == config.agents # "rule_based"

ReviewByRules ==
    /\ pc = "CRITIQUING" /\ (~HasLLM \/ OverBudget)
    /\ Critique(Heuristic(trial), "heuristic")
    /\ UNCHANGED ledger

ReviewByLLM ==
    /\ pc = "CRITIQUING" /\ HasLLM /\ ~OverBudget
    /\ Record(config.priced)
    /\ \E rec \in Recommendations : Critique(rec, "llm")

\* The answer cannot be parsed, or the call raised: the rules decide.
ReviewFallsBack ==
    /\ pc = "CRITIQUING" /\ HasLLM /\ ~OverBudget
    /\ Record(config.priced) \/ RecordFailure(config.priced)
    /\ Critique(Heuristic(trial), "heuristic")

\* The critic is injected; one that raises counts as "investigate".
CriticRaises ==
    /\ pc = "CRITIQUING"
    /\ Critique("investigate", "failed")
    /\ UNCHANGED ledger

-----------------------------------------------------------------------------
(* After the verdict *)

Continue ==
    /\ pc = "DECIDING" /\ ~OverBudget
    /\ pc' = "PROPOSING" /\ trial' = None
    /\ NewTrial
    /\ UNCHANGED <<config, registry, ledger>>

\* R2 when the money is spent; the Director's other reasons are ResearchLoop's.
\* Nothing reads the trial in flight any more.
EndSearch ==
    /\ pc = "DECIDING" /\ pc' = "REPORTING" /\ trial' = None
    /\ NewTrial
    /\ UNCHANGED <<config, registry, ledger>>

ReportByTemplate ==
    /\ pc = "REPORTING" /\ (~HasLLM \/ OverBudget)
    /\ pc' = "DONE"
    /\ UNCHANGED <<config, trial, registry, pipeline, verdict, ledger>>

\* Narration that is paid for and then rejected in every section is a failure.
ReportByLLM ==
    /\ pc = "REPORTING" /\ HasLLM /\ ~OverBudget
    /\ pc' = "DONE"
    /\ Record(config.priced) \/ RecordFailure(config.priced)
    /\ UNCHANGED <<config, trial, registry, pipeline, verdict>>

Judge == GatePasses \/ GateFails \/ GateRaises \/ SkipGate \/ PassGates \/ FailGates
         \/ GatekeeperRaises
Review == ReviewByRules \/ ReviewByLLM \/ ReviewFallsBack \/ CriticRaises

Next ==
    \/ ProposeByRules \/ ProposeByLLM
    \/ \E t \in Trials : Execute(t)
    \/ Judge \/ Review
    \/ Continue \/ EndSearch \/ ReportByTemplate \/ ReportByLLM

Spec == Init /\ [][Next]_vars

-----------------------------------------------------------------------------
(* Properties *)

Judged == next = 11

\* M21: a report that is not passed names exactly one cause, and that is the
\* first blocking gate in the order of cost: every blocking gate before it
\* passed, no gate after it was evaluated.  A passed report names none.
CauseIsTheFirstBlocker ==
    LET causes == {firstFailed, erroredGate} \ {None} IN
    Judged =>
        /\ Passed <=> causes = {}
        /\ \A g, h \in causes : g = h
        /\ \A i \in 1..10 : Gates[i] \in causes =>
             /\ Gates[i] \notin SoftGates
             /\ \A j \in 1..10 :
                  /\ j < i => results[Gates[j]] = "PASS" \/ Gates[j] \in SoftGates
                  /\ j > i => results[Gates[j]] = "NOT_EVALUATED"

\* Whatever the critic says, whether its LLM answers, and also where the
\* deflated Sharpe gate is advisory: a candidate of robustness mode made money,
\* still does under stressed costs, and has the trades its tier asks for.
RobustCandidatesEarn ==
    outcome = "candidate" /\ config.mode = "robustness" =>
        /\ trial.return > 0 /\ trial.sharpe >= Rules.sharpe
        /\ StressedTenfold(Rules, trial) > 0
        /\ trial.trades >= Rules.minTrades

\* A tier is not beaten by a stricter one: what passed every gate would have
\* passed every gate of each laxer tier, in the same mode and on the same
\* evidence (the canary, which is random, aside).
StricterRigorAdmitsLess ==
    Judged /\ (\A g \in Gate : results[g] = "PASS") =>
        \A tier \in Rigors : Laxer(tier, config.rigor) =>
            \A g \in Gate \ {"leakage_canary"} :
                Passes(g, RigorPresets(tier), config.mode, registry, trial)

\* B4, B5, PF4: sizing the hurdle to the campaign and flooring the variance
\* only tighten.  A firm pass would have been one on the run's own count as well as on
\* the campaign's, and on the measured variance as well as on the null variance, unless
\* the trials are all alike: of a variance of 0 the statistic is not defined, and the
\* 0.0 that deflated_sharpe returns there would pass nothing.
WideningOnlyTightens ==
    results["deflated_sharpe"] = "PASS" /\ ~Provisional(registry) /\ registry.n >= 2 =>
        \A m \in {registry.n, registry.search} \ {0} :
        \A v \in {registry.variance, registry.nullVariance} \ {0} :
            Dsr[trial.skill][m][v] >= Rules.dsr

\* M24: the deflated Sharpe gate never fails a trial on thin evidence, too few
\* trials so far or a dispersion of the trials that nobody could measure, and never
\* by the 0.0 of a statistic that is not defined for its count or its variance.
DeflationWaitsForEvidence ==
    results["deflated_sharpe"] = "FAIL" =>
        \/ trial.bars < 3
        \/ /\ registry.n >= ProvisionalBelow /\ ~registry.defaulted
           /\ SearchSize(registry) > 0 /\ VarianceUsed(registry) > 0

\* A regime idea keeps the best tier only if its sample is adequate, no gate
\* found a weakness and the critic had no doubt.
ModerateIsUnblemished ==
    confidence = "moderate" =>
        /\ recommendation = "accept" /\ SoftFails = {}
        /\ trial.edge # NoReading /\ trial.edge >= Rules.edge

\* Praise is earned in either mode: what robustness mode calls a candidate made
\* money, also at stressed costs, and the best tier of regime mode is spotless.
PraiseIsEarned == RobustCandidatesEarn /\ ModerateIsUnblemished

\* H26: where the rules review, a modest number of trades alone never costs a
\* trial its candidacy once the gates have accepted it.
ThinSampleNeverKills ==
    outcome = "critic_reject" /\ source = "heuristic" =>
        \/ trial.sharpe > 300 \/ trial.drawdown > 3000 \/ trial.regimeBound
        \/ trial.return < 200 \/ trial.return < trial.holdReturn

\* A critic that fails never accepts silently: a candidate of robustness mode
\* was accepted by a parsed answer, or meets every demand of the rules.
NothingIsAcceptedUnreviewed ==
    outcome = "candidate" /\ config.mode = "robustness" /\ source # "llm" =>
        /\ source = "heuristic"
        /\ trial.return >= 200 /\ trial.return >= trial.holdReturn
        /\ trial.sharpe <= 300 /\ trial.drawdown <= 3000

\* The limit is checked before each call and charged after it, so the agents
\* together overshoot it by less than one call.
OvershootsByLessThanOneCall ==
    MaxEur > 0 => usedEur < MaxEur \/ \E c \in CallCosts : usedEur < MaxEur + c

\* loop.py: in regime mode "the Critic only LOWERS" the confidence.
CriticOnlyLowers ==
    outcome = "candidate" /\ config.mode = "regime" => Level[confidence] <= GateLevel
=============================================================================
