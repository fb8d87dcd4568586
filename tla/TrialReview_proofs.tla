------------------------- MODULE TrialReview_proofs --------------------------
(* Proofs about TrialReview, for any trials, settings, statistics and costs,  *)
(* and, at the end, about the assembly of the run that orders the review.     *)
EXTENDS RunAssembly, FiniteSetTheorems, TLAPS

-----------------------------------------------------------------------------
(* The inductive invariant *)

\* A gate lets a trial continue.
Continues(g) == results[g] = "PASS" \/ g \in SoftGates

\* The pipeline so far: statuses up to the current gate, none after it; while
\* nothing blocked, every gate let the trial continue; a blocking gate is hard,
\* the first one, and the only one, and the gates after it were skipped.
Reached ==
    \A i \in 1..10 : results[Gates[i]] = "none" <=> i >= next

NothingBlocked ==
    ~shortCircuited =>
        /\ firstFailed = None /\ erroredGate = None
        /\ \A i \in 1..10 : i < next => Continues(Gates[i])

Blocker(i) ==
    /\ i < next /\ Gates[i] \notin SoftGates
    /\ \/ results[Gates[i]] = "FAIL" /\ firstFailed = Gates[i] /\ erroredGate = None
       \/ results[Gates[i]] = "ERROR" /\ erroredGate = Gates[i] /\ firstFailed = None
    /\ \A j \in 1..10 : j < i => Continues(Gates[j])
    /\ \A j \in 1..10 : i < j /\ j < next => results[Gates[j]] = "NOT_EVALUATED"

OneBlocker == shortCircuited => \E i \in 1..10 : Blocker(i)

\* Statuses are those of the trial in flight.
Honest ==
    \A g \in Gate \ {"leakage_canary"} :
        /\ results[g] = "PASS" => Passes(g, Rules, config.mode, registry, trial)
        /\ results[g] = "FAIL" => ~Passes(g, Rules, config.mode, registry, trial)

InFlight ==
    /\ pc \in {"GATING", "CRITIQUING", "DECIDING"} => trial \in Trials
    /\ pc \notin {"GATING", "CRITIQUING", "DECIDING"} => results = [g \in Gate |-> "none"]

\* What the critic was shown, and what became of it.
Reviewed ==
    /\ pc = "CRITIQUING" => next = 11 /\ Passed
    /\ outcome \in {"candidate", "critic_reject"} =>
         /\ pc = "DECIDING" /\ next = 11 /\ Passed
         /\ outcome = "candidate" <=> ~Kills(recommendation)
         /\ \/ source = "llm"
            \/ source = "heuristic" /\ recommendation = Heuristic(trial)
            \/ source = "failed" /\ recommendation = "investigate"

Unblemished ==
    confidence = "moderate" =>
        /\ pc = "DECIDING" /\ recommendation = "accept"
        /\ SoftFails = {} /\ ~ThinSample(Rules, trial)

PipelineInv == Reached /\ NothingBlocked /\ OneBlocker

IInv ==
    /\ TypeOK /\ PipelineInv /\ Honest /\ InFlight /\ Reviewed /\ Unblemished
    /\ OvershootsByLessThanOneCall

\* The steps of the pipeline, the steps that begin or drop a trial, the rest.
GateStep ==
    /\ pc = "GATING" /\ pc' = pc /\ next <= 10
    /\ GatePasses \/ GateFails \/ GateRaises \/ SkipGate

VerdictStep == UNCHANGED <<config, trial, registry, pipeline>>

-----------------------------------------------------------------------------
(* Lemmas *)

\* The gates have different names.
LEMMA GatesDiffer ==
    \A i, j \in 1..10 : Gates[i] = Gates[j] => i = j
BY DEF Gates

\* Gates enumerates them.
LEMMA GateNames ==
    /\ \A i \in 1..10 : Gates[i] \in Gate
    /\ \A g \in Gate : \E i \in 1..10 : g = Gates[i]
BY DEF Gate

\* There are finitely many.
LEMMA GateIsFinite == IsFiniteSet(Gate)
<1>1. IsFiniteSet(1..10)
  <2>1. 1 \in Int /\ 10 \in Int
    OBVIOUS
  <2>. QED BY <2>1, FS_Interval, Zenon
<1>. DEFINE f == [i \in 1..10 |-> Gates[i]]
<1>2. f \in Surjection(1..10, Gate)
  BY GateNames DEF Surjection
<1>. QED BY <1>1, <1>2, FS_Surjection

\* A step takes a gate, leaves the evidence alone, or begins or drops a trial.
LEMMA Cases ==
    ASSUME Next
    PROVE  \/ GateStep /\ UNCHANGED <<config, trial, registry, verdict, ledger>>
           \/ VerdictStep
           \/ NewTrial /\ config' = config
BY DEF Next, Judge, Review, ProposeByRules, ProposeByLLM, Execute, GatePasses,
       GateFails, GateRaises, SkipGate, PassGates, FailGates, GatekeeperRaises,
       ReviewByRules, ReviewByLLM, ReviewFallsBack, CriticRaises, Critique, Continue,
       EndSearch, ReportByTemplate, ReportByLLM, GateStep, VerdictStep, Evaluating,
       pipeline

-----------------------------------------------------------------------------
(* Types *)

\* Types by group of variables.
TrialType ==
    /\ config \in Configs /\ trial \in Trials \cup {None} /\ registry \in Registry

PipelineType ==
    /\ next \in 1..11 /\ results \in [Gate -> Statuses \cup {"none"}]
    /\ shortCircuited \in BOOLEAN
    /\ firstFailed \in Gate \cup {None} /\ erroredGate \in Gate \cup {None}

VerdictType ==
    /\ pc \in {"PROPOSING", "EXECUTING", "GATING", "CRITIQUING", "DECIDING",
               "REPORTING", "DONE"}
    /\ outcome \in {"none", "gate_fail", "critic_reject", "candidate"}
    /\ cause \in Gate \cup {None, "unknown", "error"}
    /\ recommendation \in Recommendations \cup {"none"}
    /\ source \in {"none", "llm", "heuristic", "failed"}
    /\ confidence \in {"none", "very_low", "low", "moderate"}

\* What a new trial starts with.
LEMMA NewTrialTypes ==
    ASSUME NewTrial
    PROVE  /\ PipelineType'
           /\ outcome' = "none" /\ cause' = None /\ recommendation' = "none"
           /\ source' = "none" /\ confidence' = "none"
<1>1. next' \in 1..11
  BY DEF NewTrial
<1>2. results' \in [Gate -> Statuses \cup {"none"}]
  BY DEF NewTrial
<1>3. /\ shortCircuited' \in BOOLEAN
      /\ firstFailed' \in Gate \cup {None} /\ erroredGate' \in Gate \cup {None}
  BY Zenon DEF NewTrial
<1>. QED BY <1>1, <1>2, <1>3, Zenon DEF NewTrial, PipelineType

\* The ledger after a step.
LEMMA LedgerTypes ==
    ASSUME TypeOK, Next
    PROVE  LedgerType'
<1>1. CASE UNCHANGED ledger
  BY <1>1 DEF ledger, LedgerType, TypeOK
<1>2. ASSUME Charge(config.priced), degraded' \in BOOLEAN
      PROVE  LedgerType'
  <2>1. usedEur' \in Nat
    BY <1>2, CostAssumption DEF Charge, LedgerType, TypeOK
  <2>2. costKnown' \in BOOLEAN
    BY <1>2, Zenon DEF Charge, LedgerType, TypeOK
  <2>. QED BY <1>2, <2>1, <2>2, Zenon DEF LedgerType
<1>3. CASE Record(config.priced)
  BY <1>3, <1>2 DEF Record, TypeOK, LedgerType
<1>4. CASE RecordFailure(config.priced)
  BY <1>4, <1>2, Zenon DEF RecordFailure
<1>5. CASE ReportByLLM
  BY <1>5, <1>2, <1>3, <1>4 DEF ReportByLLM
<1>. QED
  BY <1>1, <1>3, <1>4, <1>5
     DEF Next, Judge, Review, ProposeByRules, ProposeByLLM, Execute, GatePasses,
         GateFails, GateRaises, SkipGate, PassGates, FailGates, GatekeeperRaises,
         ReviewByRules, ReviewByLLM, ReviewFallsBack, CriticRaises, Continue,
         EndSearch, ReportByTemplate

\* The pipeline after a step.
LEMMA PipelineTypes ==
    ASSUME TypeOK, Next
    PROVE  PipelineType'
<1>1. CASE NewTrial
  BY <1>1, NewTrialTypes
<1>2. CASE VerdictStep
  BY <1>2 DEF VerdictStep, pipeline, PipelineType, TypeOK
<1>3. CASE GateStep
  <2>1. next \in 1..10 /\ next' = next + 1
    BY <1>3 DEF GateStep, GatePasses, GateFails, GateRaises, SkipGate, TypeOK
  <2>2. Current \in Gate
    BY <2>1, GateNames DEF Current
  <2>3. \E s \in Statuses : results' = [results EXCEPT ![Current] = s]
    BY <1>3 DEF GateStep, GatePasses, GateFails, GateRaises, SkipGate, Statuses
  <2>4. results' \in [Gate -> Statuses \cup {"none"}]
    BY <2>2, <2>3 DEF TypeOK
  <2>5. /\ shortCircuited' \in BOOLEAN
        /\ firstFailed' \in Gate \cup {None} /\ erroredGate' \in Gate \cup {None}
    BY <1>3, <2>2, Zenon DEF GateStep, GatePasses, GateFails, GateRaises, SkipGate, TypeOK
  <2>6. next' \in 1..11
    BY <2>1
  <2>. QED BY <2>4, <2>5, <2>6, Zenon DEF PipelineType
<1>. QED BY <1>1, <1>2, <1>3, Cases

\* The evidence after a step.
LEMMA TrialTypes ==
    ASSUME TypeOK, Next
    PROVE  TrialType'
<1>1. ASSUME NEW t \in Trials, Execute(t)
      PROVE  TrialType'
  <2>1. registry' \in Registry
    <3>1. PICK v \in Variances, f \in NullVariances, s \in Visited, n \in Counts :
            registry' = [n |-> n, variance |-> IF n > 1 THEN v ELSE DefaultVariance,
                         defaulted |-> n <= 1,
                         search |-> IF config.coverageDsr THEN AtLeast(s, n) ELSE 0,
                         nullVariance |-> f]
      BY <1>1, Zenon DEF Execute
    <3>2. /\ (IF n > 1 THEN v ELSE DefaultVariance) \in VarianceSet
          /\ (IF config.coverageDsr THEN AtLeast(s, n) ELSE 0) \in Counts
          /\ f \in VarianceSet \ {0}
      BY ReviewAssumption, DsrAssumption
    <3>3. (n <= 1) \in BOOLEAN
      OBVIOUS
    <3>. QED BY <3>1, <3>2, <3>3, Zenon DEF Registry
  <2>. QED BY <1>1, <2>1 DEF Execute, TrialType, TypeOK
<1>2. CASE Continue \/ EndSearch
  BY <1>2 DEF Continue, EndSearch, TrialType, TypeOK
<1>3. CASE UNCHANGED <<config, trial, registry>>
  BY <1>3 DEF TrialType, TypeOK
<1>. QED
  BY <1>1, <1>2, <1>3
     DEF Next, Judge, Review, ProposeByRules, ProposeByLLM, GatePasses, GateFails,
         GateRaises, SkipGate, PassGates, FailGates, GatekeeperRaises, ReviewByRules,
         ReviewByLLM, ReviewFallsBack, CriticRaises, Critique, ReportByTemplate,
         ReportByLLM

\* GateLevel is one of three.
LEMMA LevelType ==
    ASSUME TypeOK
    PROVE  GateLevel \in 0..2
<1>1. SoftFails \subseteq Gate
  BY DEF SoftFails
<1>2. Cardinality(SoftFails) \in Nat
  BY <1>1, GateIsFinite, FS_Subset, FS_CardinalityType
<1>. QED BY <1>2 DEF GateLevel, AtLeast

\* The verdict after a step.
LEMMA VerdictTypes ==
    ASSUME TypeOK, Next
    PROVE  VerdictType'
<1>1. CASE NewTrial
  BY <1>1, NewTrialTypes
     DEF Next, Judge, Review, ProposeByRules, ProposeByLLM, Execute, GatePasses,
         GateFails, GateRaises, SkipGate, PassGates, FailGates, GatekeeperRaises,
         ReviewByRules, ReviewByLLM, ReviewFallsBack, CriticRaises, Critique, Continue,
         EndSearch, ReportByTemplate, ReportByLLM, VerdictType, verdict, TypeOK
<1>2. ASSUME NEW rec \in Recommendations, NEW by \in {"llm", "heuristic", "failed"},
             Critique(rec, by)
      PROVE  VerdictType'
  <2>1. Confidence(rec) \in {"very_low", "low", "moderate"}
    BY LevelType DEF Confidence, Tier, Recommendations
  <2>. QED BY <1>2, <2>1 DEF Critique, VerdictType, TypeOK
<1>3. Heuristic(trial) \in Recommendations
  BY DEF Heuristic, Recommendations
<1>4. CASE Review
  BY <1>4, <1>2, <1>3
     DEF Review, ReviewByRules, ReviewByLLM, ReviewFallsBack, CriticRaises, Recommendations
<1>5. CASE Judge
  <2>1. Cause \in Gate \cup {"unknown"}
    BY DEF Cause, TypeOK
  <2>. QED
    BY <1>5, <2>1
       DEF Judge, GatePasses, GateFails, GateRaises, SkipGate, PassGates, FailGates,
           GatekeeperRaises, VerdictType, verdict, TypeOK
<1>6. CASE ProposeByRules \/ ProposeByLLM \/ ReportByTemplate \/ ReportByLLM
  BY <1>6 DEF ProposeByRules, ProposeByLLM, ReportByTemplate, ReportByLLM, VerdictType,
              verdict, TypeOK
<1>. QED BY <1>1, <1>4, <1>5, <1>6 DEF Next, Execute, Continue, EndSearch

\* The variables start in their types.
LEMMA InitTypes ==
    ASSUME Init
    PROVE  TypeOK
<1>1. registry \in Registry
  BY DsrAssumption, ReviewAssumption, Zenon DEF Init, Registry
<1>2. next \in 1..11 /\ usedEur \in Nat
  BY DEF Init, NewLedger
<1>3. results \in [Gate -> Statuses \cup {"none"}]
  BY DEF Init
<1>. QED BY <1>1, <1>2, <1>3, Zenon DEF Init, TypeOK, NewLedger, LedgerType

-----------------------------------------------------------------------------
(* The pipeline *)

\* What depends on the settings alone.
LEMMA SameRules ==
    ASSUME config' = config
    PROVE  Rules' = Rules /\ SoftGates' = SoftGates
BY DEF Rules, SoftGates

\* A gate is taken once, in its turn.
LEMMA GateTaken ==
    ASSUME TypeOK, GateStep
    PROVE  /\ next \in 1..10 /\ next' = next + 1
           /\ Current = Gates[next] /\ Current \in Gate
           /\ \A i \in 1..10 : i # next => results'[Gates[i]] = results[Gates[i]]
           /\ GatePasses => results'[Current] = "PASS"
           /\ GateFails => results'[Current] = "FAIL"
           /\ GateRaises => results'[Current] = "ERROR"
           /\ SkipGate => results'[Current] = "NOT_EVALUATED"
<1>1. next \in 1..10 /\ next' = next + 1
  BY DEF GateStep, GatePasses, GateFails, GateRaises, SkipGate, TypeOK
<1>2. Current = Gates[next] /\ Current \in Gate
  BY <1>1, GateNames DEF Current
<1>3. DOMAIN results = Gate
  BY DEF TypeOK
<1>4. \A i \in 1..10 : i # next => Gates[i] \in Gate /\ Gates[i] # Current
  BY <1>1, <1>2, GatesDiffer, GateNames
<1>5. /\ GatePasses => results'[Current] = "PASS"
      /\ GateFails => results'[Current] = "FAIL"
      /\ GateRaises => results'[Current] = "ERROR"
      /\ SkipGate => results'[Current] = "NOT_EVALUATED"
  BY <1>2, <1>3 DEF GatePasses, GateFails, GateRaises, SkipGate
<1>6. \A i \in 1..10 : i # next => results'[Gates[i]] = results[Gates[i]]
  BY <1>3, <1>4 DEF GateStep, GatePasses, GateFails, GateRaises, SkipGate
<1>. QED BY <1>1, <1>2, <1>5, <1>6

\* A new trial has been through no gate.
LEMMA NewTrialPipeline ==
    ASSUME NewTrial
    PROVE  PipelineInv' /\ Honest'
<1>1. \A g \in Gate : results'[g] = "none"
  BY DEF NewTrial
<1>2. Reached'
  BY <1>1, GateNames DEF NewTrial, Reached
<1>3. NothingBlocked' /\ OneBlocker'
  BY DEF NewTrial, NothingBlocked, OneBlocker
<1>4. Honest'
  BY <1>1 DEF Honest
<1>. QED BY <1>2, <1>3, <1>4 DEF PipelineInv

\* A gate that takes its turn leaves the pipeline in order.
LEMMA GateStepPipeline ==
    ASSUME TypeOK, PipelineInv, GateStep, config' = config
    PROVE  PipelineInv'
<1>1. Reached'
  <2>1. results'[Gates[next]] # "none"
    BY GateTaken DEF GateStep
  <2>2. ASSUME NEW i \in 1..10
        PROVE  results'[Gates[i]] = "none" <=> i >= next + 1
    <3>1. CASE i = next
      BY <2>1, <3>1
    <3>2. CASE i # next
      <4>1. results'[Gates[i]] = results[Gates[i]]
        BY <3>2, GateTaken
      <4>2. next \in 1..10
        BY GateTaken
      <4>. QED BY <3>2, <4>1, <4>2 DEF PipelineInv, Reached
    <3>. QED BY <3>1, <3>2
  <2>. QED BY <2>2, GateTaken DEF Reached
<1>2. NothingBlocked'
  <2>. SUFFICES ASSUME ~shortCircuited'
                PROVE  /\ firstFailed' = None /\ erroredGate' = None
                       /\ \A i \in 1..10 : i < next' => Continues(Gates[i])'
    BY DEF NothingBlocked
  <2>1. /\ ~shortCircuited
        /\ firstFailed' = firstFailed /\ erroredGate' = erroredGate
        /\ GatePasses \/ Current \in SoftGates
    <3>1. CASE GatePasses
      BY <3>1 DEF GatePasses, Evaluating
    <3>2. CASE GateFails
      BY <3>2 DEF GateFails, Evaluating
    <3>3. CASE GateRaises
      BY <3>3 DEF GateRaises, Evaluating
    <3>4. CASE SkipGate
      BY <3>4 DEF SkipGate
    <3>. QED BY <3>1, <3>2, <3>3, <3>4 DEF GateStep
  <2>2. results'[Gates[next]] = "PASS" \/ Gates[next] \in SoftGates'
    <3>1. GatePasses => results'[Gates[next]] = "PASS"
      BY GateTaken
    <3>2. Current = Gates[next]
      BY DEF Current
    <3>. QED BY <2>1, <3>1, <3>2, SameRules, Zenon
  <2>3. ASSUME NEW i \in 1..10, i < next
        PROVE  Continues(Gates[i])'
    <3>1. Continues(Gates[i])
      BY <2>1, <2>3 DEF PipelineInv, NothingBlocked
    <3>2. results'[Gates[i]] = results[Gates[i]]
      BY <2>3, GateTaken
    <3>. QED BY <3>1, <3>2, SameRules DEF Continues
  <2>4. \A i \in 1..10 : i < next' => i < next \/ i = next
    BY GateTaken
  <2>5. firstFailed = None /\ erroredGate = None
    BY <2>1 DEF PipelineInv, NothingBlocked
  <2>. QED BY <2>1, <2>2, <2>3, <2>4, <2>5 DEF Continues
<1>3. OneBlocker'
  <2>. SUFFICES ASSUME shortCircuited' PROVE \E i \in 1..10 : Blocker(i)'
    BY DEF OneBlocker
  <2>1. CASE SkipGate
    <3>1. PICK i \in 1..10 : Blocker(i)
      BY <2>1 DEF SkipGate, PipelineInv, OneBlocker
    <3>2. i < next /\ i < next' /\ i # next
      BY <3>1, GateTaken DEF Blocker
    <3>3. \A j \in 1..10 : j < i => Continues(Gates[j])'
      <4>1. ASSUME NEW j \in 1..10, j < i
            PROVE  results'[Gates[j]] = results[Gates[j]]
        <5>1. j # next
          BY <3>2, <4>1, GateTaken
        <5>. QED BY <5>1, GateTaken
      <4>. QED BY <3>1, <4>1, SameRules DEF Blocker, Continues
    <3>4. ASSUME NEW j \in 1..10, i < j, j < next'
          PROVE  results'[Gates[j]] = "NOT_EVALUATED"
      <4>1. CASE j = next
        BY <2>1, <4>1, GateTaken
      <4>2. CASE j # next
        <5>1. j < next
          BY <3>4, <4>2, GateTaken
        <5>2. results'[Gates[j]] = results[Gates[j]]
          BY <4>2, GateTaken
        <5>. QED BY <3>1, <3>4, <5>1, <5>2 DEF Blocker
      <4>. QED BY <4>1, <4>2
    <3>5. /\ results'[Gates[i]] = results[Gates[i]]
          /\ firstFailed' = firstFailed /\ erroredGate' = erroredGate
      BY <2>1, <3>2, GateTaken DEF SkipGate
    <3>. QED BY <3>1, <3>2, <3>3, <3>4, <3>5, SameRules DEF Blocker
  <2>2. CASE ~SkipGate
    <3>1. /\ ~shortCircuited /\ Current \notin SoftGates
          /\ \/ GateFails /\ firstFailed' = Current /\ erroredGate' = erroredGate
             \/ GateRaises /\ erroredGate' = Current /\ firstFailed' = firstFailed
      BY <2>2, Zenon DEF GateStep, GatePasses, GateFails, GateRaises, Evaluating
    <3>2. firstFailed = None /\ erroredGate = None
      BY <3>1 DEF PipelineInv, NothingBlocked
    <3>3. ASSUME NEW j \in 1..10, j < next
          PROVE  Continues(Gates[j])'
      <4>1. Continues(Gates[j])
        BY <3>1, <3>3 DEF PipelineInv, NothingBlocked
      <4>2. results'[Gates[j]] = results[Gates[j]]
        BY <3>3, GateTaken
      <4>. QED BY <4>1, <4>2, SameRules DEF Continues
    <3>4. next \in 1..10 /\ next < next' /\ \A j \in 1..10 : ~(next < j /\ j < next')
      BY GateTaken
    <3>5. /\ Gates[next] \notin SoftGates'
          /\ \/ results'[Gates[next]] = "FAIL" /\ firstFailed' = Gates[next] /\ erroredGate' = None
             \/ results'[Gates[next]] = "ERROR" /\ erroredGate' = Gates[next] /\ firstFailed' = None
      BY <3>1, <3>2, GateTaken, SameRules, Zenon
    <3>. QED BY <3>3, <3>4, <3>5 DEF Blocker
  <2>. QED BY <2>1, <2>2
<1>. QED BY <1>1, <1>2, <1>3 DEF PipelineInv

-----------------------------------------------------------------------------
(* The evidence and the verdict *)

\* A verdict is reached without touching the pipeline.
LEMMA VerdictStepPipeline ==
    ASSUME PipelineInv, Honest, VerdictStep
    PROVE  PipelineInv' /\ Honest' /\ (Passed' <=> Passed)
<1>1. /\ config' = config /\ trial' = trial /\ registry' = registry
      /\ next' = next /\ results' = results /\ shortCircuited' = shortCircuited
      /\ firstFailed' = firstFailed /\ erroredGate' = erroredGate
  BY DEF VerdictStep, pipeline
<1>2. Rules' = Rules /\ SoftGates' = SoftGates
  BY <1>1, SameRules
<1>3. Reached' /\ NothingBlocked'
  BY <1>1, <1>2 DEF PipelineInv, Reached, NothingBlocked, Continues
<1>4. \A i \in 1..10 : Blocker(i) => Blocker(i)'
  BY <1>1, <1>2 DEF Blocker, Continues
<1>5. OneBlocker'
  BY <1>1, <1>4 DEF PipelineInv, OneBlocker
<1>6. Honest'
  BY <1>1, <1>2 DEF Honest
<1>. QED BY <1>1, <1>2, <1>3, <1>5, <1>6 DEF PipelineInv, Passed

\* A gate's answer is about the trial in flight.
LEMMA GateStepHonest ==
    ASSUME TypeOK, Honest, GateStep, UNCHANGED <<config, trial, registry>>
    PROVE  Honest'
<1>1. Rules' = Rules
  BY SameRules
<1>. SUFFICES ASSUME NEW g \in Gate \ {"leakage_canary"}
              PROVE  /\ results'[g] = "PASS" => Passes(g, Rules, config.mode, registry, trial)
                     /\ results'[g] = "FAIL" => ~Passes(g, Rules, config.mode, registry, trial)
  BY <1>1 DEF Honest
<1>2. CASE g # Current
  <2>1. results'[g] = results[g]
    BY <1>2, GateNames, GateTaken
  <2>. QED BY <2>1 DEF Honest
<1>3. CASE g = Current
  <2>1. CASE GatePasses
    <3>1. "PASS" \in Answers(g)
      BY <1>3, <2>1 DEF GatePasses
    <3>2. Passes(g, Rules, config.mode, registry, trial)
      BY <3>1, Zenon DEF Answers
    <3>. QED BY <1>3, <2>1, <3>2, GateTaken
  <2>2. CASE GateFails
    <3>1. "FAIL" \in Answers(g)
      BY <1>3, <2>2 DEF GateFails
    <3>2. ~Passes(g, Rules, config.mode, registry, trial)
      BY <3>1, Zenon DEF Answers
    <3>. QED BY <1>3, <2>2, <3>2, GateTaken
  <2>3. CASE GateRaises \/ SkipGate
    BY <1>3, <2>3, GateTaken
  <2>. QED BY <2>1, <2>2, <2>3 DEF GateStep
<1>. QED BY <1>2, <1>3

\* Until the backtest is in there is nothing to be honest about.
LEMMA FlightStep ==
    ASSUME TypeOK, InFlight, Next
    PROVE  InFlight'
<1>1. ASSUME NEW t \in Trials, Execute(t)
      PROVE  InFlight'
  BY <1>1 DEF Execute, InFlight
<1>2. CASE Continue \/ EndSearch
  BY <1>2 DEF Continue, EndSearch, NewTrial, InFlight
<1>3. CASE Judge
  BY <1>3 DEF Judge, GatePasses, GateFails, GateRaises, SkipGate, PassGates, FailGates,
              GatekeeperRaises, Evaluating, InFlight
<1>4. CASE Review
  BY <1>4 DEF Review, ReviewByRules, ReviewByLLM, ReviewFallsBack, CriticRaises, Critique,
              InFlight
<1>5. CASE ProposeByRules \/ ProposeByLLM \/ ReportByTemplate \/ ReportByLLM
  BY <1>5 DEF ProposeByRules, ProposeByLLM, ReportByTemplate, ReportByLLM, pipeline, InFlight
<1>. QED BY <1>1, <1>2, <1>3, <1>4, <1>5 DEF Next

\* What any critique settles.
LEMMA CritiqueSettles ==
    ASSUME TypeOK, Passed, next = 11,
           NEW rec \in Recommendations, NEW by \in {"llm", "heuristic", "failed"},
           Critique(rec, by),
           by = "heuristic" => rec = Heuristic(trial),
           by = "failed" => rec = "investigate"
    PROVE  Reviewed' /\ Unblemished'
<1>1. /\ config' = config /\ trial' = trial /\ results' = results /\ next' = next
      /\ pc' = "DECIDING" /\ recommendation' = rec /\ source' = by
      /\ outcome' = IF Kills(rec) THEN "critic_reject" ELSE "candidate"
      /\ confidence' = IF config.mode = "regime" THEN Confidence(rec) ELSE "none"
  BY DEF Critique, pipeline
<1>2. Rules' = Rules /\ Passed' /\ Kills(recommendation)' = Kills(rec)
  BY <1>1, SameRules DEF Passed, Kills
<1>3. Reviewed'
  BY <1>1, <1>2 DEF Reviewed
<1>4. ASSUME confidence' = "moderate"
      PROVE  rec = "accept" /\ SoftFails = {} /\ ~ThinSample(Rules, trial)
  <2>1. Confidence(rec) = "moderate"
    BY <1>1, <1>4
  <2>2. rec = "accept" /\ Tier[GateLevel + 1] = "moderate"
    BY <2>1 DEF Confidence, Recommendations
  <2>3. GateLevel = 2
    BY <2>2, LevelType DEF Tier
  <2>4. Cardinality(SoftFails) \in Nat /\ IsFiniteSet(SoftFails)
    BY GateIsFinite, FS_Subset, FS_CardinalityType DEF SoftFails
  <2>5. ~ThinSample(Rules, trial) /\ Cardinality(SoftFails) = 0
    BY <2>3, <2>4 DEF GateLevel, AtLeast
  <2>. QED BY <2>2, <2>4, <2>5, FS_EmptySet
<1>5. SoftFails' = SoftFails
  BY <1>1 DEF SoftFails
<1>. QED BY <1>1, <1>2, <1>3, <1>4, <1>5 DEF Unblemished

\* The verdict on a trial after a step.
LEMMA ReviewStep ==
    ASSUME TypeOK, PipelineInv, Honest, Reviewed, Unblemished, Next
    PROVE  Reviewed' /\ Unblemished'
<1>1. CASE Review
  <2>1. pc = "CRITIQUING" /\ Passed /\ next = 11
    BY <1>1 DEF Review, ReviewByRules, ReviewByLLM, ReviewFallsBack, CriticRaises, Reviewed
  <2>2. Heuristic(trial) \in Recommendations /\ "investigate" \in Recommendations
    BY DEF Heuristic, Recommendations
  <2>. QED
    BY <1>1, <2>1, <2>2, CritiqueSettles, Zenon
       DEF Review, ReviewByRules, ReviewByLLM, ReviewFallsBack, CriticRaises
<1>2. CASE FailGates \/ GatekeeperRaises
  <2>1. pc = "GATING" /\ pc' = "DECIDING" /\ outcome' = "gate_fail" /\ confidence' = confidence
    BY <1>2 DEF FailGates, GatekeeperRaises
  <2>. QED BY <2>1 DEF Reviewed, Unblemished
<1>3. CASE PassGates
  <2>1. /\ pc = "GATING" /\ next = 11 /\ Passed /\ VerdictStep
        /\ pc' = "CRITIQUING" /\ outcome' = outcome /\ confidence' = confidence
    BY <1>3 DEF PassGates, VerdictStep, verdict
  <2>2. next' = 11 /\ Passed'
    BY <2>1, VerdictStepPipeline DEF VerdictStep, pipeline
  <2>. QED BY <2>1, <2>2 DEF Reviewed, Unblemished
<1>4. CASE GateStep /\ UNCHANGED verdict
  BY <1>4 DEF GateStep, verdict, Reviewed, Unblemished
<1>5. ASSUME NEW t \in Trials, Execute(t)
      PROVE  Reviewed' /\ Unblemished'
  BY <1>5 DEF Execute, NewTrial, Reviewed, Unblemished
<1>6. CASE Continue \/ EndSearch
  BY <1>6 DEF Continue, EndSearch, NewTrial, Reviewed, Unblemished
<1>7. CASE ProposeByRules \/ ProposeByLLM \/ ReportByTemplate \/ ReportByLLM
  <2>1. /\ pc \in {"PROPOSING", "REPORTING"} /\ pc' \in {"EXECUTING", "DONE"}
        /\ outcome' = outcome /\ confidence' = confidence
    BY <1>7 DEF ProposeByRules, ProposeByLLM, ReportByTemplate, ReportByLLM, verdict
  <2>. QED BY <2>1 DEF Reviewed, Unblemished
<1>8. GatePasses \/ GateFails \/ GateRaises \/ SkipGate => GateStep /\ UNCHANGED verdict
  BY DEF GateStep, GatePasses, GateFails, GateRaises, SkipGate, Evaluating, verdict
<1>. QED BY <1>1, <1>2, <1>3, <1>4, <1>5, <1>6, <1>7, <1>8 DEF Next, Judge

\* Money is spent only below the limit, one call at a time.
LEMMA SpendStep ==
    ASSUME TypeOK, OvershootsByLessThanOneCall, Next
    PROVE  OvershootsByLessThanOneCall'
<1>1. CASE usedEur' = usedEur
  BY <1>1 DEF OvershootsByLessThanOneCall
<1>2. ASSUME ~OverBudget, Charge(config.priced)
      PROVE  OvershootsByLessThanOneCall'
  <2>1. MaxEur > 0 => usedEur < MaxEur
    BY <1>2, CostAssumption DEF OverBudget, TypeOK, LedgerType
  <2>2. usedEur' = usedEur \/ \E c \in CallCosts : usedEur' = usedEur + c
    BY <1>2 DEF Charge
  <2>. QED BY <2>1, <2>2, CostAssumption DEF OvershootsByLessThanOneCall, TypeOK, LedgerType
<1>3. CASE UNCHANGED ledger
  BY <1>1, <1>3 DEF ledger
<1>4. CASE ~OverBudget /\ Charge(config.priced)
  BY <1>2, <1>4
<1>. QED
  BY <1>3, <1>4
     DEF Next, Judge, Review, ProposeByRules, ProposeByLLM, Execute, GatePasses,
         GateFails, GateRaises, SkipGate, PassGates, FailGates, GatekeeperRaises,
         ReviewByRules, ReviewByLLM, ReviewFallsBack, CriticRaises, Continue,
         EndSearch, ReportByTemplate, ReportByLLM, Record, RecordFailure

-----------------------------------------------------------------------------
(* The invariant, and what it says *)

\* A step takes the invariant to itself.
LEMMA InvStep ==
    ASSUME IInv, [Next]_vars
    PROVE  IInv'
<1>1. CASE Next
  <2>1. TypeOK'
    BY <1>1, LedgerTypes, PipelineTypes, TrialTypes, VerdictTypes
       DEF IInv, TypeOK, TrialType, PipelineType, VerdictType
  <2>2. PipelineInv' /\ Honest'
    <3>1. CASE GateStep /\ UNCHANGED <<config, trial, registry, verdict, ledger>>
      BY <3>1, GateStepPipeline, GateStepHonest DEF IInv
    <3>2. CASE VerdictStep
      BY <3>2, VerdictStepPipeline DEF IInv
    <3>3. CASE NewTrial
      BY <3>3, NewTrialPipeline
    <3>. QED BY <1>1, <3>1, <3>2, <3>3, Cases
  <2>3. InFlight' /\ Reviewed' /\ Unblemished' /\ OvershootsByLessThanOneCall'
    BY <1>1, FlightStep, ReviewStep, SpendStep DEF IInv
  <2>. QED BY <2>1, <2>2, <2>3 DEF IInv
<1>2. CASE UNCHANGED vars
  <2>1. /\ pc' = pc /\ config' = config /\ trial' = trial /\ registry' = registry
        /\ next' = next /\ results' = results /\ shortCircuited' = shortCircuited
        /\ firstFailed' = firstFailed /\ erroredGate' = erroredGate
        /\ outcome' = outcome /\ cause' = cause /\ source' = source
        /\ recommendation' = recommendation /\ confidence' = confidence
        /\ usedEur' = usedEur /\ costKnown' = costKnown /\ degraded' = degraded
    BY <1>2 DEF vars, pipeline, verdict, ledger
  <2>2. TypeOK'
    BY <2>1 DEF IInv, TypeOK, LedgerType
  <2>3. PipelineInv' /\ Honest' /\ (Passed' <=> Passed)
    BY <2>1, VerdictStepPipeline DEF IInv, VerdictStep, pipeline
  <2>4. Rules' = Rules
    BY <2>1, SameRules
  <2>5. InFlight' /\ OvershootsByLessThanOneCall'
    BY <2>1 DEF IInv, InFlight, OvershootsByLessThanOneCall
  <2>6. Reviewed'
    BY <2>1, <2>3 DEF IInv, Reviewed, Kills
  <2>7. Unblemished'
    BY <2>1, <2>4 DEF IInv, Unblemished, SoftFails
  <2>. QED BY <2>2, <2>3, <2>5, <2>6, <2>7 DEF IInv
<1>. QED BY <1>1, <1>2

\* The pipeline is in order, the gates answered for the trial in flight, and
\* the verdict follows from both.
THEOREM Invariance == Spec => []IInv
<1>1. Init => IInv
  <2>. SUFFICES ASSUME Init PROVE IInv
    OBVIOUS
  <2>1. TypeOK
    BY InitTypes
  <2>2. \A g \in Gate : results[g] = "none"
    BY DEF Init
  <2>3. PipelineInv /\ Honest
    BY <2>2, GateNames DEF Init, PipelineInv, Reached, NothingBlocked, OneBlocker, Honest
  <2>4. InFlight /\ Reviewed /\ Unblemished
    BY DEF Init, InFlight, Reviewed, Unblemished
  <2>5. OvershootsByLessThanOneCall
    BY DEF Init, NewLedger, OvershootsByLessThanOneCall
  <2>. QED BY <2>1, <2>3, <2>4, <2>5 DEF IInv
<1>2. IInv /\ [Next]_vars => IInv'
  BY InvStep
<1>. QED BY <1>1, <1>2, PTL DEF Spec

\* Type correctness.
THEOREM TypeCorrect == Spec => []TypeOK
BY Invariance, PTL DEF IInv

\* A killed trial is put down to the first blocking gate, and to that alone.
THEOREM CauseTheorem == Spec => []CauseIsTheFirstBlocker
<1>1. IInv => CauseIsTheFirstBlocker
  <2>. SUFFICES ASSUME IInv, Judged PROVE CauseIsTheFirstBlocker
    BY DEF CauseIsTheFirstBlocker
  <2>. DEFINE causes == {firstFailed, erroredGate} \ {None}
  <2>0. next = 11
    BY DEF Judged
  <2>1. CASE ~shortCircuited
    <3>1. firstFailed = None /\ erroredGate = None
      BY <2>1 DEF IInv, PipelineInv, NothingBlocked
    <3>2. \A i \in 1..10 : Continues(Gates[i])
      BY <2>0, <2>1 DEF IInv, PipelineInv, NothingBlocked
    <3>3. Passed
      BY <3>2, GateNames, Zenon DEF Passed, Continues
    <3>. QED BY <3>1, <3>3 DEF CauseIsTheFirstBlocker
  <2>2. CASE shortCircuited
    <3>1. PICK i \in 1..10 : Blocker(i)
      BY <2>2 DEF IInv, PipelineInv, OneBlocker
    <3>2. Gates[i] # None
      BY NoneAssumption, GateNames
    <3>3. causes = {Gates[i]}
      BY <3>1, <3>2 DEF Blocker
    <3>4. ~Passed
      BY <3>1, GateNames DEF Blocker, Passed
    <3>5. \A j \in 1..10 : /\ j < i => results[Gates[j]] = "PASS" \/ Gates[j] \in SoftGates
                           /\ j > i => results[Gates[j]] = "NOT_EVALUATED"
      BY <2>0, <3>1 DEF Blocker, Continues
    <3>6. \A j \in 1..10 : Gates[j] \in causes => j = i
      BY <3>3, GatesDiffer
    <3>7. Gates[i] \notin SoftGates
      BY <3>1 DEF Blocker
    <3>8. /\ Passed <=> causes = {}
          /\ \A g, h \in causes : g = h
      BY <3>3, <3>4
    <3>. HIDE DEF causes
    <3>9. \A k \in 1..10 : Gates[k] \in causes =>
             /\ Gates[k] \notin SoftGates
             /\ \A j \in 1..10 :
                  /\ j < k => results[Gates[j]] = "PASS" \/ Gates[j] \in SoftGates
                  /\ j > k => results[Gates[j]] = "NOT_EVALUATED"
      BY <3>5, <3>6, <3>7
    <3>. QED BY <3>8, <3>9 DEF CauseIsTheFirstBlocker, causes
  <2>. QED BY <2>1, <2>2
<1>. QED BY <1>1, Invariance, PTL

\* Where every blocking gate passed, a hard gate passed on the evidence.
LEMMA HardGatesPassed ==
    ASSUME IInv, next = 11, Passed,
           NEW g \in Gate \ {"leakage_canary"}, g \notin SoftGates
    PROVE  Passes(g, Rules, config.mode, registry, trial)
<1>1. ~shortCircuited
  <2>. SUFFICES ASSUME shortCircuited PROVE FALSE
    OBVIOUS
  <2>1. PICK i \in 1..10 : Blocker(i)
    BY DEF IInv, PipelineInv, OneBlocker
  <2>. QED BY <2>1, GateNames DEF Blocker, Passed
<1>2. PICK i \in 1..10 : g = Gates[i]
  BY GateNames
<1>3. results[g] = "PASS"
  BY <1>1, <1>2 DEF IInv, PipelineInv, NothingBlocked, Continues
<1>. QED BY <1>3 DEF IInv, Honest

\* A trial is judged while it is in flight.
LEMMA OnEvidence ==
    ASSUME IInv, \E g \in Gate : results[g] # "none"
    PROVE  trial \in Trial
<1>1. results # [g \in Gate |-> "none"]
  BY Zenon
<1>2. trial \in Trials
  BY <1>1 DEF IInv, InFlight, TypeOK
<1>. QED BY <1>2, ReviewAssumption

\* The tier of the run, and the thresholds it asks for.
LEMMA RigorType ==
    ASSUME IInv
    PROVE  /\ config \in Config /\ config.rigor \in Rigors
           /\ Rules.dsr \in Nat /\ Rules.edge \in Nat
<1>1. config \in Config
  BY ReviewAssumption DEF IInv, TypeOK
<1>2. config.rigor \in Rigors
  BY <1>1 DEF Config
<1>. QED BY <1>1, <1>2 DEF Rules, RigorPresets, ActivityT, Rigors

\* What the deflated Sharpe gate is told.
LEMMA RegistryType ==
    ASSUME IInv
    PROVE  /\ registry.n \in Counts /\ registry.variance \in VarianceSet
           /\ registry.search \in Counts /\ registry.nullVariance \in VarianceSet
           /\ registry.n \in Nat /\ registry.variance \in Nat
           /\ registry.search \in Nat /\ registry.nullVariance \in Nat \ {0}
<1>1. registry \in Registry
  BY DEF IInv, TypeOK
<1>2. /\ registry.n \in Counts /\ registry.variance \in VarianceSet
      /\ registry.search \in Counts /\ registry.nullVariance \in VarianceSet \ {0}
  BY <1>1, Zenon DEF Registry
<1>. QED BY <1>2, DsrAssumption

\* The hurdle is never below what the run itself asks for, and never undefined.
LEMMA WiderSearch ==
    ASSUME IInv
    PROVE  /\ SearchSize(registry) \in Counts /\ registry.n <= SearchSize(registry)
           /\ registry.search <= SearchSize(registry)
           /\ VarianceUsed(registry) \in VarianceSet
           /\ registry.variance <= VarianceUsed(registry)
           /\ registry.nullVariance <= VarianceUsed(registry) /\ VarianceUsed(registry) > 0
<1>1. \A m, n \in Nat : n <= AtLeast(m, n) /\ m <= AtLeast(m, n)
  BY DEF AtLeast
<1>2. \A m, n \in VarianceSet : AtLeast(m, n) \in VarianceSet
  BY DEF AtLeast
<1>3. \A m, n \in Counts : AtLeast(m, n) \in Counts
  BY ReviewAssumption
<1>4. /\ SearchSize(registry) \in Counts /\ registry.n <= SearchSize(registry)
      /\ registry.search <= SearchSize(registry)
  <2>1. CASE registry.search = 0
    BY <2>1, RegistryType DEF SearchSize
  <2>2. CASE registry.search # 0
    BY <1>1, <1>3, <2>2, RegistryType DEF SearchSize
  <2>. QED BY <2>1, <2>2
<1>5. /\ VarianceUsed(registry) \in VarianceSet
      /\ registry.variance <= VarianceUsed(registry)
      /\ registry.nullVariance <= VarianceUsed(registry)
  BY <1>1, <1>2, RegistryType DEF VarianceUsed
<1>6. VarianceUsed(registry) > 0
  BY RegistryType DEF VarianceUsed, AtLeast
<1>. QED BY <1>4, <1>5, <1>6

\* A candidate of robustness mode earns money, also under stressed costs.
THEOREM RobustTheorem == Spec => []RobustCandidatesEarn
<1>1. IInv => RobustCandidatesEarn
  <2>. SUFFICES ASSUME IInv, outcome = "candidate", config.mode = "robustness"
                PROVE  /\ trial.return > 0 /\ trial.sharpe >= Rules.sharpe
                       /\ StressedTenfold(Rules, trial) > 0
                       /\ trial.trades >= Rules.minTrades
    BY DEF RobustCandidatesEarn
  <2>1. next = 11 /\ Passed
    BY DEF IInv, Reviewed
  <2>2. \A g \in {"minimum_activity", "performance_floor", "cost_stress"} :
          g \in Gate \ {"leakage_canary"} /\ g \notin SoftGates
    BY DEF Gate, Gates, SoftGates
  <2>3. \A g \in {"minimum_activity", "performance_floor", "cost_stress"} :
          Passes(g, Rules, config.mode, registry, trial)
    BY <2>1, <2>2, HardGatesPassed
  <2>4. /\ MinimumActivity(Rules, config.mode, trial)
        /\ PerformanceFloor(Rules, trial) /\ CostStress(Rules, trial)
    BY <2>3 DEF Passes
  <2>. QED BY <2>4, Zenon DEF MinimumActivity, EnoughActivity, PerformanceFloor, CostStress
<1>. QED BY <1>1, Invariance, PTL

\* The null floor and the campaign's search size only tighten the hurdle, wherever
\* the statistic is defined.
THEOREM WideningTheorem == Spec => []WideningOnlyTightens
<1>1. IInv => WideningOnlyTightens
  <2>. SUFFICES ASSUME IInv, results["deflated_sharpe"] = "PASS",
                       ~Provisional(registry), registry.n >= 2,
                       NEW m \in {registry.n, registry.search} \ {0},
                       NEW v \in {registry.variance, registry.nullVariance} \ {0}
                PROVE  Dsr[trial.skill][m][v] >= Rules.dsr
    BY Zenon DEF WideningOnlyTightens
  <2>0. /\ m \in Counts /\ m # 0 /\ m <= SearchSize(registry)
        /\ v \in VarianceSet /\ v # 0 /\ v <= VarianceUsed(registry)
    BY RegistryType, WiderSearch
  <2>1. "deflated_sharpe" \in Gate \ {"leakage_canary"}
    BY DEF Gate, Gates
  <2>2. trial.skill \in Skills
    BY <2>1, OnEvidence DEF Trial
  <2>3. DeflatedSharpe(Rules, registry, trial)
    BY <2>1 DEF IInv, Honest, Passes
  <2>. DEFINE a == Dsr[trial.skill][SearchSize(registry)][VarianceUsed(registry)]
              b == Dsr[trial.skill][m][v]
  <2>4. a >= Rules.dsr
    BY <2>3, RegistryType DEF DeflatedSharpe
  <2>5. a <= b
    <3>1. 0 < m /\ 0 < v
      BY <2>0, DsrAssumption
    <3>. QED BY <2>0, <2>2, <3>1, WiderSearch, DsrAssumption
  <2>6. a \in Nat /\ b \in Nat
    <3>1. Dsr[trial.skill] \in [Counts -> [VarianceSet -> Nat]]
      BY <2>2, DsrAssumption
    <3>2. /\ Dsr[trial.skill][SearchSize(registry)] \in [VarianceSet -> Nat]
          /\ Dsr[trial.skill][m] \in [VarianceSet -> Nat]
      BY <2>0, <3>1, WiderSearch
    <3>. QED BY <2>0, <3>2, WiderSearch
  <2>. HIDE DEF a, b
  <2>7. b >= Rules.dsr
    BY <2>4, <2>5, <2>6, RigorType
  <2>. QED BY <2>7 DEF b
<1>. QED BY <1>1, Invariance, PTL

\* Neither thin evidence of the search nor an undefined statistic ever fails a trial.
THEOREM DeflationTheorem == Spec => []DeflationWaitsForEvidence
<1>1. IInv => DeflationWaitsForEvidence
  <2>. SUFFICES ASSUME IInv, results["deflated_sharpe"] = "FAIL"
                PROVE  \/ trial.bars < 3
                       \/ /\ registry.n >= ProvisionalBelow /\ ~registry.defaulted
                          /\ SearchSize(registry) > 0 /\ VarianceUsed(registry) > 0
    BY DEF DeflationWaitsForEvidence
  <2>1. "deflated_sharpe" \in Gate \ {"leakage_canary"}
    BY DEF Gate, Gates
  <2>2. trial.bars \in Nat
    BY <2>1, OnEvidence DEF Trial
  <2>3. ~DeflatedSharpe(Rules, registry, trial)
    <3>1. ~Passes("deflated_sharpe", Rules, config.mode, registry, trial)
      BY <2>1 DEF IInv, Honest
    <3>. SUFFICES ASSUME DeflatedSharpe(Rules, registry, trial)
                  PROVE  Passes("deflated_sharpe", Rules, config.mode, registry, trial)
      BY <3>1
    <3>. QED BY DEF Passes
  <2>4. registry.n >= 2 /\ (trial.bars < 3 \/ ~Provisional(registry))
    BY <2>2, <2>3, RegistryType DEF DeflatedSharpe
  <2>5. SearchSize(registry) > 0 /\ VarianceUsed(registry) > 0
    <3>1. SearchSize(registry) \in Nat /\ registry.n <= SearchSize(registry)
      BY WiderSearch, DsrAssumption
    <3>. QED BY <2>4, <3>1, RegistryType, WiderSearch
  <2>. QED BY <2>4, <2>5, RegistryType, RulesAssumption DEF Provisional
<1>. QED BY <1>1, Invariance, PTL

\* The best tier of regime mode.
THEOREM UnblemishedTheorem == Spec => []ModerateIsUnblemished
<1>1. IInv => ModerateIsUnblemished
  <2>. SUFFICES ASSUME IInv, confidence = "moderate"
                PROVE  /\ recommendation = "accept" /\ SoftFails = {}
                       /\ trial.edge # NoReading /\ trial.edge >= Rules.edge
    BY DEF ModerateIsUnblemished
  <2>1. recommendation = "accept" /\ SoftFails = {} /\ ~ThinSample(Rules, trial)
    BY DEF IInv, Unblemished
  <2>2. trial \in Trials
    BY DEF IInv, Unblemished, InFlight
  <2>3. trial.edge \in Int \cup {NoReading}
    BY <2>2, ReviewAssumption DEF Trial
  <2>. QED BY <2>1, <2>3, RigorType DEF ThinSample
<1>. QED BY <1>1, Invariance, PTL

\* Both modes together.
THEOREM PraiseTheorem == Spec => []PraiseIsEarned
BY RobustTheorem, UnblemishedTheorem, PTL DEF PraiseIsEarned

\* Spending.
THEOREM SpendTheorem == Spec => []OvershootsByLessThanOneCall
BY Invariance, PTL DEF IInv

\* What a trial reports.
LEMMA TrialTypeOnVerdict ==
    ASSUME IInv, pc = "DECIDING"
    PROVE  /\ trial.sharpe \in Int /\ trial.return \in Int /\ trial.drawdown \in Nat
           /\ trial.holdReturn \in Int /\ trial.regimeBound \in BOOLEAN
<1>1. trial \in Trial
  BY ReviewAssumption DEF IInv, InFlight
<1>. QED BY <1>1, Zenon DEF Trial

\* Where the critic's answer is missing, the rules accept, and never by default.
THEOREM ReviewedTheorem == Spec => []NothingIsAcceptedUnreviewed
<1>1. IInv => NothingIsAcceptedUnreviewed
  <2>. SUFFICES ASSUME IInv, outcome = "candidate", config.mode = "robustness", source # "llm"
                PROVE  /\ source = "heuristic"
                       /\ trial.return >= 200 /\ trial.return >= trial.holdReturn
                       /\ trial.sharpe <= 300 /\ trial.drawdown <= 3000
    BY DEF NothingIsAcceptedUnreviewed
  <2>1. /\ pc = "DECIDING" /\ ~Kills(recommendation)
        /\ \/ source = "heuristic" /\ recommendation = Heuristic(trial)
           \/ source = "failed" /\ recommendation = "investigate"
    BY DEF IInv, Reviewed
  <2>2. recommendation \notin {"reject", "investigate"}
    BY <2>1 DEF Kills
  <2>3. source = "heuristic" /\ ~Overfit(trial) /\ ~Loses(trial) /\ ~Concern(trial)
    BY <2>1, <2>2, Zenon DEF Heuristic
  <2>. QED BY <2>1, <2>3, TrialTypeOnVerdict DEF Overfit, Loses, Concern
<1>. QED BY <1>1, Invariance, PTL

\* A modest number of trades alone costs no trial its candidacy.
THEOREM ThinSampleTheorem == Spec => []ThinSampleNeverKills
<1>1. IInv => ThinSampleNeverKills
  <2>. SUFFICES ASSUME IInv, outcome = "critic_reject", source = "heuristic"
                PROVE  \/ trial.sharpe > 300 \/ trial.drawdown > 3000 \/ trial.regimeBound
                       \/ trial.return < 200 \/ trial.return < trial.holdReturn
    BY DEF ThinSampleNeverKills
  <2>1. pc = "DECIDING" /\ Kills(recommendation) /\ recommendation = Heuristic(trial)
    BY DEF IInv, Reviewed
  <2>2. Overfit(trial) \/ Loses(trial) \/ Concern(trial)
    BY <2>1 DEF Kills, Heuristic
  <2>. QED BY <2>1, <2>2, TrialTypeOnVerdict DEF Overfit, Loses, Concern
<1>. QED BY <1>1, Invariance, PTL

-----------------------------------------------------------------------------
(* The tiers *)

\* Multiplying by a natural number keeps the order.
LEMMA MulMono ==
    ASSUME NEW x \in Int, NEW y \in Int, NEW k \in Nat, x <= y
    PROVE  k * x <= k * y
<1>1. k * (y - x) >= 0
  OBVIOUS
<1>2. k * (y - x) = k * y - k * x
  OBVIOUS
<1>. QED BY <1>1, <1>2

\* A laxer tier asks for less of everything.
LEMMA PresetsGrow ==
    ASSUME NEW tier \in Rigors, NEW rigor \in Rigors, Laxer(tier, rigor)
    PROVE  LET a == RigorPresets(tier) b == RigorPresets(rigor) IN
           /\ a.minTrades \in Nat /\ b.minTrades \in Nat /\ a.minTrades <= b.minTrades
           /\ a.edge \in Nat /\ b.edge \in Nat /\ a.edge <= b.edge
           /\ a.sharpe \in Nat /\ b.sharpe \in Nat /\ a.sharpe <= b.sharpe
           /\ a.benchmark \in Nat /\ b.benchmark \in Nat /\ a.benchmark <= b.benchmark
           /\ a.costTenths \in 11..30 /\ b.costTenths \in 11..30 /\ a.costTenths <= b.costTenths
           /\ a.stressed \in Nat /\ b.stressed \in Nat /\ a.stressed <= b.stressed
           /\ a.dsr \in Nat /\ b.dsr \in Nat /\ a.dsr <= b.dsr
BY DEF RigorPresets, ActivityT, Rigors, Laxer

\* The cost gate: a smaller cost leaves more of the return, and less is asked.
LEMMA CostStressGrows ==
    ASSUME NEW t \in Trial, NEW tier \in Rigors, NEW rigor \in Rigors, Laxer(tier, rigor),
           PerformanceFloor(RigorPresets(rigor), t), CostStress(RigorPresets(rigor), t)
    PROVE  CostStress(RigorPresets(tier), t)
<1>. DEFINE a == RigorPresets(tier)
            b == RigorPresets(rigor)
            paid == 2 * t.trades * Commission
<1>1. /\ a.costTenths \in Int /\ b.costTenths \in Int /\ a.costTenths <= b.costTenths
      /\ a.stressed \in Nat /\ b.stressed \in Nat /\ a.stressed <= b.stressed
      /\ b.sharpe \in Nat
  BY PresetsGrow
<1>2. t.trades \in Nat /\ t.sharpe \in Int /\ t.return \in Int
  BY Zenon DEF Trial
<1>. HIDE DEF a, b
<1>3. paid \in Nat
  BY <1>2, RulesAssumption
<1>4. t.sharpe \in Nat /\ t.return \in Nat
  <2>1. t.sharpe >= b.sharpe /\ t.return > 0
    BY DEF PerformanceFloor, b
  <2>. QED BY <1>1, <1>2, <2>1
<1>. HIDE DEF paid
<1>5. paid * (a.costTenths - 10) <= paid * (b.costTenths - 10)
  <2>1. /\ a.costTenths - 10 \in Int /\ b.costTenths - 10 \in Int
        /\ a.costTenths - 10 <= b.costTenths - 10
    BY <1>1
  <2>. QED BY <1>3, <2>1, MulMono
<1>6. /\ paid * (a.costTenths - 10) \in Int /\ paid * (b.costTenths - 10) \in Int
  BY <1>1, <1>3
<1>7. /\ StressedTenfold(a, t) = 10 * t.return - paid * (a.costTenths - 10)
      /\ StressedTenfold(b, t) = 10 * t.return - paid * (b.costTenths - 10)
  BY DEF StressedTenfold, paid
<1>8. /\ StressedTenfold(a, t) \in Int /\ StressedTenfold(b, t) \in Int
      /\ StressedTenfold(b, t) <= StressedTenfold(a, t)
  <2>. DEFINE p == paid * (a.costTenths - 10)
              q == paid * (b.costTenths - 10)
  <2>1. p \in Int /\ q \in Int /\ p <= q
    BY <1>5, <1>6
  <2>2. StressedTenfold(a, t) = 10 * t.return - p /\ StressedTenfold(b, t) = 10 * t.return - q
    BY <1>7
  <2>. HIDE DEF p, q
  <2>. QED BY <1>2, <2>1, <2>2
<1>9. t.sharpe * StressedTenfold(b, t) <= t.sharpe * StressedTenfold(a, t)
  BY <1>4, <1>8, MulMono
<1>10. a.stressed * 10 * t.return <= b.stressed * 10 * t.return
  <2>1. (10 * t.return) * a.stressed <= (10 * t.return) * b.stressed
    <3>1. 10 * t.return \in Nat
      BY <1>4
    <3>. HIDE DEF a, b
    <3>. QED BY <1>1, <3>1, MulMono
  <2>. QED BY <1>1, <1>4, <2>1
<1>11. StressedTenfold(b, t) > 0 /\ t.sharpe * StressedTenfold(b, t) >= b.stressed * 10 * t.return
  BY DEF CostStress, b
<1>12. /\ t.sharpe * StressedTenfold(b, t) \in Int /\ t.sharpe * StressedTenfold(a, t) \in Int
       /\ a.stressed * 10 * t.return \in Int /\ b.stressed * 10 * t.return \in Int
  BY <1>1, <1>4, <1>8
<1>13. StressedTenfold(a, t) > 0
  BY <1>8, <1>11
<1>14. t.sharpe * StressedTenfold(a, t) >= a.stressed * 10 * t.return
  <2>. DEFINE w == t.sharpe * StressedTenfold(a, t)
              x == t.sharpe * StressedTenfold(b, t)
              y == b.stressed * 10 * t.return
              z == a.stressed * 10 * t.return
  <2>1. w \in Int /\ x \in Int /\ y \in Int /\ z \in Int /\ x <= w /\ z <= y /\ x >= y
    BY <1>9, <1>10, <1>11, <1>12
  <2>. HIDE DEF w, x, y, z
  <2>2. w >= z
    BY <2>1
  <2>. QED BY <2>2 DEF w, z
<1>. QED BY <1>13, <1>14 DEF CostStress, a

\* The gates whose thresholds are compared with the evidence as it is.
LEMMA ThresholdsGrow ==
    ASSUME NEW t \in Trial, NEW tier \in Rigors, NEW rigor \in Rigors, Laxer(tier, rigor),
           NEW mode
    PROVE  LET a == RigorPresets(tier) b == RigorPresets(rigor) IN
           /\ MinimumActivity(b, mode, t) => MinimumActivity(a, mode, t)
           /\ PerformanceFloor(b, t) => PerformanceFloor(a, t)
           /\ BenchmarkRelative(b, t) => BenchmarkRelative(a, t)
<1>. DEFINE a == RigorPresets(tier)
            b == RigorPresets(rigor)
<1>1. /\ a.minTrades \in Nat /\ b.minTrades \in Nat /\ a.minTrades <= b.minTrades
      /\ a.edge \in Nat /\ b.edge \in Nat /\ a.edge <= b.edge
      /\ a.sharpe \in Nat /\ b.sharpe \in Nat /\ a.sharpe <= b.sharpe
      /\ a.benchmark \in Nat /\ b.benchmark \in Nat /\ a.benchmark <= b.benchmark
  BY PresetsGrow
<1>2. /\ t.trades \in Nat /\ t.edge \in Int \cup {NoReading} /\ t.sharpe \in Int
      /\ t.holdSharpe \in Int
  BY Zenon DEF Trial
<1>. HIDE DEF a, b
<1>3. MinimumActivity(b, mode, t) => MinimumActivity(a, mode, t)
  <2>1. EnoughActivity(b, t) => EnoughActivity(a, t)
    BY <1>1, <1>2 DEF EnoughActivity
  <2>2. t.edge # NoReading /\ t.edge >= b.edge => t.edge >= a.edge
    BY <1>1, <1>2
  <2>. QED BY <2>1, <2>2, Zenon DEF MinimumActivity
<1>4. PerformanceFloor(b, t) => PerformanceFloor(a, t)
  BY <1>1, <1>2 DEF PerformanceFloor
<1>5. BenchmarkRelative(b, t) => BenchmarkRelative(a, t)
  <2>1. t.sharpe - t.holdSharpe >= b.benchmark => t.sharpe - t.holdSharpe >= a.benchmark
    BY <1>1, <1>2
  <2>. QED BY <2>1, Zenon DEF BenchmarkRelative
<1>. QED BY <1>3, <1>4, <1>5 DEF a, b

\* The statistic does not depend on the tier, its level does.
LEMMA DeflationGrows ==
    ASSUME IInv, trial \in Trial,
           NEW tier \in Rigors, NEW rigor \in Rigors, Laxer(tier, rigor),
           DeflatedSharpe(RigorPresets(rigor), registry, trial)
    PROVE  DeflatedSharpe(RigorPresets(tier), registry, trial)
<1>. DEFINE a == RigorPresets(tier)
            b == RigorPresets(rigor)
            d == Dsr[trial.skill][SearchSize(registry)][VarianceUsed(registry)]
<1>1. a.dsr \in Nat /\ b.dsr \in Nat /\ a.dsr <= b.dsr
  BY PresetsGrow
<1>2. d \in Nat
  <2>1. trial.skill \in Skills
    BY DEF Trial
  <2>2. Dsr[trial.skill] \in [Counts -> [VarianceSet -> Nat]]
    BY <2>1, DsrAssumption
  <2>3. Dsr[trial.skill][SearchSize(registry)] \in [VarianceSet -> Nat]
    BY <2>2, WiderSearch
  <2>. QED BY <2>3, WiderSearch
<1>. HIDE DEF a, b, d
<1>3. d >= b.dsr => d >= a.dsr
  BY <1>1, <1>2
<1>4. DeflatedSharpe(b, registry, trial) => DeflatedSharpe(a, registry, trial)
  BY <1>3, Zenon DEF DeflatedSharpe, d
<1>. QED BY <1>4 DEF a, b

\* What a tier accepts, every laxer one accepts.
THEOREM StricterTheorem == Spec => []StricterRigorAdmitsLess
<1>1. IInv => StricterRigorAdmitsLess
  <2>. SUFFICES ASSUME IInv, Judged, \A g \in Gate : results[g] = "PASS",
                       NEW tier \in Rigors, Laxer(tier, config.rigor),
                       NEW g \in Gate \ {"leakage_canary"}
                PROVE  Passes(g, RigorPresets(tier), config.mode, registry, trial)
    BY DEF StricterRigorAdmitsLess
  <2>1. config.rigor \in Rigors
    BY RigorType
  <2>2. trial \in Trial
    BY OnEvidence, Zenon
  <2>3. \A h \in Gate \ {"leakage_canary"} :
          Passes(h, RigorPresets(config.rigor), config.mode, registry, trial)
    BY DEF IInv, Honest, Rules
  <2>4. \A h \in {"minimum_activity", "performance_floor", "benchmark_relative",
                  "cost_stress", "deflated_sharpe"} :
          Passes(h, RigorPresets(tier), config.mode, registry, trial)
    <3>1. /\ MinimumActivity(RigorPresets(config.rigor), config.mode, trial)
          /\ PerformanceFloor(RigorPresets(config.rigor), trial)
          /\ BenchmarkRelative(RigorPresets(config.rigor), trial)
          /\ CostStress(RigorPresets(config.rigor), trial)
          /\ DeflatedSharpe(RigorPresets(config.rigor), registry, trial)
      <4>1. \A h \in {"minimum_activity", "performance_floor", "benchmark_relative",
                      "cost_stress", "deflated_sharpe"} : h \in Gate \ {"leakage_canary"}
        BY DEF Gate, Gates
      <4>. QED BY <2>3, <4>1 DEF Passes
    <3>2. /\ MinimumActivity(RigorPresets(tier), config.mode, trial)
          /\ PerformanceFloor(RigorPresets(tier), trial)
          /\ BenchmarkRelative(RigorPresets(tier), trial)
      BY <2>1, <2>2, <3>1, ThresholdsGrow
    <3>3. CostStress(RigorPresets(tier), trial)
      BY <2>1, <2>2, <3>1, CostStressGrows
    <3>4. DeflatedSharpe(RigorPresets(tier), registry, trial)
      BY <2>1, <2>2, <3>1, DeflationGrows
    <3>. QED BY <3>2, <3>3, <3>4 DEF Passes
  <2>5. CASE g \in {"minimum_activity", "performance_floor", "benchmark_relative",
                   "cost_stress", "deflated_sharpe"}
    BY <2>4, <2>5
  <2>6. CASE g \in {"spec_validation", "provider_capability", "data_integrity", "lag_fragility"}
    BY <2>3, <2>6 DEF Passes
  <2>7. \/ g \in {"minimum_activity", "performance_floor", "benchmark_relative",
                 "cost_stress", "deflated_sharpe"}
        \/ g \in {"spec_validation", "provider_capability", "data_integrity", "lag_fragility"}
    BY GateNames DEF Gates
  <2>. QED BY <2>5, <2>6, <2>7
<1>. QED BY <1>1, Invariance, PTL

-----------------------------------------------------------------------------
(* What the assembly of a run promises of every window and every request *)

\* The last quarter of a length, rounded down, is at most two fifths of it.
LEMMA QuarterFact ==
    ASSUME NEW n \in Nat
    PROVE  n \div 4 \in Nat /\ 5 * (n \div 4) <= 2 * n
  OBVIOUS

(***************************************************************************)
(* However long the window and the minimum, the hold-out _train_split      *)
(* carves is neither thin nor most of the data, and selection ends before  *)
(* it.                                                                     *)
(***************************************************************************)
THEOREM HoldoutFact ==
    ASSUME MinHoldDays \in Nat \ {0}, NEW w \in [first : Int, last : Int]
    PROVE  HoldoutIsFair(w)
<1>. DEFINE n == Span(w)
            held == w.last - TrainEnd(w)
<1>1. w.first \in Int /\ w.last \in Int /\ n = w.last - w.first
  BY DEF Span
<1>. SUFFICES ASSUME Splits(w) PROVE HoldoutIsFair(w)
  BY DEF HoldoutIsFair
<1>2. n \in Nat /\ n > 0 /\ 2 * n >= 5 * MinHoldDays
  BY <1>1 DEF Splits
<1>3. n \div 4 \in Nat /\ 5 * (n \div 4) <= 2 * n
  BY <1>2, QuarterFact
<1>4. held = IF n \div 4 > MinHoldDays THEN n \div 4 ELSE MinHoldDays
  BY <1>1, <1>3 DEF TrainEnd
<1>5. held >= MinHoldDays /\ 5 * held <= 2 * n /\ held \in Nat
  BY <1>2, <1>3, <1>4
<1>6. w.first < TrainEnd(w)
  <2>1. TrainEnd(w) = w.last - held /\ TrainEnd(w) \in Int
    BY <1>1, <1>3 DEF TrainEnd
  <2>. QED BY <1>1, <1>2, <1>5, <2>1
<1>. QED BY <1>5, <1>6 DEF HoldoutIsFair

(***************************************************************************)
(* No run goes on with a softened gate or under strict rigor, unless it is *)
(* of a regime, that has no lockbox to be backed by.                       *)
(***************************************************************************)
THEOREM LockboxFact ==
    ASSUME NEW q
    PROVE  BackedByTheLockbox(q)
<1>. SUFFICES ASSUME Runs(q)
              PROVE  /\ SettingsOf(q).softDsr \/ (q.rigor = "strict" /\ q.mode = "robustness")
                           => EnableOOS(q) /\ LockboxOpens
                     /\ SettingsOf(q).softDsr => SettingsOf(q).mode = "robustness"
  BY DEF BackedByTheLockbox
<1>1. SettingsOf(q).softDsr = q.softDsr /\ SettingsOf(q).mode = q.mode
  BY DEF SettingsOf
<1>2. q.softDsr => EnableOOS(q) /\ q.mode = "robustness"
  BY DEF Runs, SoftDsrGranted
<1>3. q.rigor = "strict" /\ q.mode = "robustness" => EnableOOS(q)
  BY DEF EnableOOS
<1>4. EnableOOS(q) => LockboxOpens
  BY DEF Runs, LockboxGranted
<1>. QED BY <1>1, <1>2, <1>3, <1>4, Zenon
=============================================================================
