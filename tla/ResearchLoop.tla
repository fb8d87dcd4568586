---------------------------- MODULE ResearchLoop ----------------------------
(***************************************************************************)
(* The autonomous research loop of ai/research/loop.py (research_loop),    *)
(* with its Director (RuleBasedOrchestrator), its trial-budget guard, the  *)
(* regime hold-out and the out-of-sample (OOS) lockbox step.               *)
(*                                                                         *)
(* One run is one coroutine on the server's event loop.  The actions are   *)
(* its phases, in order; between two suspension points nothing else can    *)
(* run, so the actions of the environment (the user's control flag,        *)
(* another run writing to the shared lockbox) are enabled only where the   *)
(* coroutine awaits: while paused, in an LLM proposal, in an LLM review.   *)
(*                                                                         *)
(* Abstracted: prices, parameters and metrics.  A strategy is a model      *)
(* value with a template; a backtest yields a Sharpe ratio out of a small  *)
(* set; gates, critic and statistical tests yield any of their outcomes.   *)
(***************************************************************************)
EXTENDS Integers, Sequences, FiniteSets, AgentBudget

CONSTANTS
    Assets, AssetPool,       \* the tickers, and goal.asset_pool in order
    Strategies,              \* parameterisations the strategist can propose
    Templates, TemplateOf,   \* their templates
    None,                    \* the empty string of the source
    Mode,                    \* "robustness" or "regime"
    OOSEnabled,              \* a lockbox is present
    Sharpes,                 \* annualised Sharpe ratios a backtest can report
    MaxRuns,                 \* budget.max_runs
    IterationsPerRun, IterationSlack,        \* T6: max_runs * 3 + 10
    TargetCandidates,        \* goal.target_candidates
    PerAssetCap, MaxConsecutiveFailures,
    PlateauEps, MinPlateauWindow,            \* plateau: eps, and at least 4
    ErrorBreaker, SkipBreaker,               \* DirectorConfig
    LineageOOSBudget,        \* ensure_budget(total = 3)
    CampaignOOSBudget        \* CAMPAIGN_OOS_BUDGET

ASSUME PoolAssumption ==
    /\ AssetPool \in Seq(Assets)
    /\ TemplateOf \in [Strategies -> Templates]
    /\ None \notin Templates /\ None \notin Strategies

ASSUME GoalAssumption ==
    /\ MaxRuns \in Nat \ {0} /\ TargetCandidates \in Nat \ {0}
    /\ IterationsPerRun \in Nat /\ IterationSlack \in Nat
    /\ Sharpes \subseteq Int /\ PlateauEps \in Nat

\* run.py switches OOS off in regime mode.
ASSUME ModeAssumption ==
    /\ Mode \in {"robustness", "regime"}
    /\ OOSEnabled \in BOOLEAN
    /\ Mode = "regime" => ~OOSEnabled

ASSUME DirectorAssumption ==
    /\ PerAssetCap \in Nat /\ MinPlateauWindow \in Nat \ {0}
    /\ MaxConsecutiveFailures \in Nat \ {0}
    /\ ErrorBreaker \in Nat \ {0} /\ SkipBreaker \in Nat \ {0}
    /\ LineageOOSBudget \in Nat /\ CampaignOOSBudget \in Nat

VARIABLES
    pc,                      \* state.phase, with the loop's unnamed points
    current,                 \* position in AssetPool of state.current_asset
    control,                 \* the control flag the router sets
    overBudget,              \* max_seconds elapsed or max_eur spent
    stopReason,              \* state.stop_reason
    iterations, attempts,    \* total_iterations, attempts_on_current_asset
    usedRuns,                \* budget.used_runs
    consecutiveFailures, consecutiveErrors, consecutiveSkips,
    proposal, mutation,      \* the spec in flight and its _is_mutation
    sharpe,                  \* the Sharpe ratio of the trial in flight
    root, prevTemplate,      \* lineage root, _prev_hypothesis_template
    usage,                   \* the strategist's BudgetUsage
    candidates,              \* state.candidates
    allFailures,             \* Len(state.all_failures)
    bestSharpe,              \* state.best_sharpe_on_asset
    holdoutPeeks,            \* state.holdout_eval_counts, per asset
    oosResults,              \* state.oos_results
    verdicts,                \* lockbox: the terminal rows, per strategy hash
    familySpent,             \* lockbox: budget_used of the current root
    campaignSpent,           \* lockbox: tests_terminal of this scope
    admitted, admittedMutations,   \* history: trials of the current root
    barren, fruitless        \* history: trials of this asset since progress

flow     == <<current, control, overBudget, stopReason>>
counters == <<iterations, attempts>>
streaks  == <<consecutiveFailures, consecutiveErrors, consecutiveSkips>>
inflight == <<proposal, mutation, sharpe>>
lineage  == <<root, prevTemplate, usage, admitted, admittedMutations>>
records  == <<candidates, allFailures, bestSharpe, holdoutPeeks>>
lockbox  == <<verdicts, familySpent, campaignSpent>>
oosVars  == <<oosResults, lockbox>>
progress == <<barren, fruitless>>

vars == <<pc, flow, counters, usedRuns, streaks, inflight, lineage, records,
          oosVars, progress>>

-----------------------------------------------------------------------------
(* Types and derived state *)

Hashes == Strategies \X Assets
RootIds == 1..3          \* enough for one current id, one held by usage
StatusSet == {"", "unvalidated", "regime_validated", "regime_failed"}

Candidate == [strategy : Strategies, visit : 1..Len(AssetPool), sharpe : Sharpes,
              meets : BOOLEAN, status : StatusSet, peek : Nat]

OOSResult == [hash : Hashes, outcome : {"PASS", "FAIL", "UNEVALUATED"}]

Terminal == {"COMPLETED", "STOPPED"}
StopReasons ==
    {"", "no_assets", "stopped_by_user", "iteration_cap", "goal_met",
     "budget_exhausted", "circuit_breaker_last", "skip_breaker_last",
     "asset_exhausted_last"}

Phases == {"GOAL_RECEIVED", "LOOP_HEAD", "PROPOSING", "BUDGET_GUARD",
           "DATA_PREPARING", "GATING", "CRITIQUING", "OOS_EVALUATING",
           "DECIDING", "REPORTING"} \cup Terminal

FlowType ==
    /\ pc \in Phases /\ current \in 0..Len(AssetPool)
    /\ control \in {"run", "pause", "stop"}
    /\ overBudget \in BOOLEAN /\ stopReason \in StopReasons
CounterType ==
    /\ iterations \in Nat /\ attempts \in Nat /\ usedRuns \in Nat
    /\ consecutiveFailures \in Nat /\ consecutiveErrors \in Nat
    /\ consecutiveSkips \in Nat /\ allFailures \in Nat
    /\ barren \in Nat /\ fruitless \in Nat
TrialType ==
    /\ proposal \in Strategies \cup {None} /\ mutation \in BOOLEAN
    /\ sharpe \in Sharpes \cup {0}
LineageType ==
    /\ root \in RootIds \cup {0} /\ prevTemplate \in Templates \cup {None}
    /\ usage \in Usage /\ admitted \in Nat /\ admittedMutations \in Nat
RecordType ==
    /\ candidates \in Seq(Candidate) /\ bestSharpe \in Seq(Sharpes)
    /\ holdoutPeeks \in [Assets -> Nat]
LockboxType ==
    /\ oosResults \in Seq(OOSResult)
    /\ verdicts \in [Hashes -> {"none", "PASS", "FAIL"}]
    /\ familySpent \in Nat /\ campaignSpent \in Nat

TypeOK == /\ FlowType /\ CounterType /\ TrialType /\ LineageType
          /\ RecordType /\ LockboxType

HashOf(c) == <<c.strategy, AssetPool[c.visit]>>

\* ResearchState.validated_count: candidates that satisfy the criteria, are
\* not regime_failed and, with OOS on, have an OOS PASS.
Passed == {oosResults[i].hash : i \in {j \in DOMAIN oosResults :
                                         oosResults[j].outcome = "PASS"}}
ValidatedAt == {i \in DOMAIN candidates :
                  /\ candidates[i].meets
                  /\ candidates[i].status # "regime_failed"
                  /\ OOSEnabled => HashOf(candidates[i]) \in Passed}
Validated == Cardinality(ValidatedAt)

QueueNonEmpty == current < Len(AssetPool)
MaxIterations == MaxRuns * IterationsPerRun + IterationSlack
PlateauWindow == IF PerAssetCap \div 3 > MinPlateauWindow
                 THEN PerAssetCap \div 3 ELSE MinPlateauWindow

\* plateau(): the running maximum gained less than eps over the window.
Plateau ==
    /\ Len(bestSharpe) >= PlateauWindow
    /\ bestSharpe[Len(bestSharpe)]
         - bestSharpe[Len(bestSharpe) - PlateauWindow + 1] < PlateauEps

-----------------------------------------------------------------------------
(* Helpers of the actions *)

\* lineage_tracker.create_root: a fresh id, without a budget row.  A root that
\* is no longer current never becomes so again: only the row of the current
\* root is kept, and an id that nothing holds any more may be reused.
NewRoot ==
    /\ root' = CHOOSE r \in RootIds : r \notin {root, usage.hypothesis}
    /\ familySpent' = 0
    /\ admitted' = 0 /\ admittedMutations' = 0

\* budget.consume_run
ConsumeRun == usedRuns' = usedRuns + 1

\* Mutant: a failure path that forgets to record.
RecordFailureForgotten == UNCHANGED allFailures

\* _record_failure: one more entry of all_failures.
RecordFailure == allFailures' = allFailures + 1

\* The error and skip streaks at the end of an iteration with outcome o, and
\* the history of trials without metrics.
Bookkeeping(o) ==
    /\ consecutiveErrors' = IF o = "error" THEN consecutiveErrors + 1
                            ELSE IF o = "skipped" THEN consecutiveErrors ELSE 0
    /\ consecutiveSkips' = IF o = "skipped" THEN consecutiveSkips + 1 ELSE 0
    /\ barren' = IF o \in {"error", "skipped"} THEN barren + 1 ELSE 0

\* A gate failure or a critic rejection.
CountFailure ==
    /\ consecutiveFailures' = consecutiveFailures + 1
    /\ fruitless' = fruitless + 1

-----------------------------------------------------------------------------
(* The environment *)

\* Where the coroutine gives up the event loop (LLM modes), or has not begun.
Suspended ==
    \/ pc \in {"GOAL_RECEIVED", "PROPOSING", "CRITIQUING"}
    \/ pc = "LOOP_HEAD" /\ control = "pause"

\* The router sets rec.control (pause, resume, stop, cancel); the loop treats
\* "stop_report" as "stop".
SetControl ==
    /\ Suspended
    /\ control' \in {"run", "pause", "stop"} \ {control}
    /\ UNCHANGED <<pc, current, overBudget, stopReason, counters, usedRuns,
                   streaks, inflight, lineage, records, oosVars, progress>>

\* max_seconds elapses or the ledger reaches max_eur; neither is undone.  Only
\* the Director looks, so it is enough that this happens just before it does.
ExceedTimeOrCost ==
    /\ pc = "DECIDING"
    /\ ~overBudget /\ overBudget' = TRUE
    /\ UNCHANGED <<pc, current, control, stopReason, counters, usedRuns,
                   streaks, inflight, lineage, records, oosVars, progress>>

\* Midnight UTC, as _maybe_reset_daily will see it.
NewDay ==
    /\ Suspended
    /\ usage.lineageToday > 0
    /\ usage' = NewDayUsage(usage)
    /\ UNCHANGED <<pc, flow, counters, usedRuns, streaks, inflight, root,
                   prevTemplate, admitted, admittedMutations, records, oosVars,
                   progress>>

\* Another run on the same lockbox file records a terminal verdict, on this
\* run's campaign scope or on another user's.
OtherRunEvaluates ==
    /\ OOSEnabled /\ Suspended
    /\ \E h \in Hashes, o \in {"PASS", "FAIL"}, sameScope \in BOOLEAN :
         /\ verdicts[h] = "none"
         /\ verdicts' = [verdicts EXCEPT ![h] = o]
         /\ sameScope => campaignSpent < CampaignOOSBudget
         /\ campaignSpent' = IF sameScope THEN campaignSpent + 1 ELSE campaignSpent
    /\ UNCHANGED <<pc, flow, counters, usedRuns, streaks, inflight, lineage,
                   records, oosResults, familySpent, progress>>

-----------------------------------------------------------------------------
(* The loop *)

Init ==
    /\ pc = "GOAL_RECEIVED" /\ current = 0 /\ control = "run"
    /\ overBudget = FALSE /\ stopReason = ""
    /\ iterations = 0 /\ attempts = 0 /\ usedRuns = 0
    /\ consecutiveFailures = 0 /\ consecutiveErrors = 0 /\ consecutiveSkips = 0
    /\ proposal = None /\ mutation = FALSE /\ sharpe = 0
    /\ root = 0 /\ prevTemplate = None /\ usage = FreshUsage
    /\ candidates = <<>> /\ allFailures = 0 /\ bestSharpe = <<>>
    /\ holdoutPeeks = [a \in Assets |-> 0]
    /\ oosResults = <<>> /\ verdicts = [h \in Hashes |-> "none"]
    /\ familySpent = 0 /\ campaignSpent = 0
    /\ admitted = 0 /\ admittedMutations = 0 /\ barren = 0 /\ fruitless = 0

\* GOAL_RECEIVED: take the first asset, or stop at once.
StartWithoutAssets ==
    /\ pc = "GOAL_RECEIVED" /\ AssetPool = <<>>
    /\ pc' = "STOPPED" /\ stopReason' = "no_assets"
    /\ UNCHANGED <<current, control, overBudget, counters, usedRuns, streaks,
                   inflight, lineage, records, oosVars, progress>>

StartOnFirstAsset ==
    /\ pc = "GOAL_RECEIVED" /\ AssetPool # <<>>
    /\ pc' = "LOOP_HEAD" /\ current' = 1
    /\ NewRoot
    /\ UNCHANGED <<control, overBudget, stopReason, counters, usedRuns, streaks,
                   inflight, prevTemplate, usage, records, oosResults, verdicts,
                   campaignSpent, progress>>

Start == IF AssetPool = <<>> THEN StartWithoutAssets ELSE StartOnFirstAsset

\* T6: the hard iteration backstop, before the control flag is read.
HitIterationCap ==
    /\ pc = "LOOP_HEAD" /\ iterations >= MaxIterations
    /\ pc' = "REPORTING" /\ stopReason' = "iteration_cap"
    /\ UNCHANGED <<current, control, overBudget, counters, usedRuns, streaks,
                   inflight, lineage, records, oosVars, progress>>

\* Mutant: a stopped loop waits at its head, as a paused one does.
StopOnRequestSpins ==
    /\ pc = "LOOP_HEAD" /\ iterations < MaxIterations
    /\ control = "stop"
    /\ UNCHANGED vars

\* A-9: cooperative stop; a paused loop stays at the head.
StopOnRequest ==
    /\ pc = "LOOP_HEAD" /\ iterations < MaxIterations
    /\ control = "stop"
    /\ pc' = "REPORTING" /\ stopReason' = "stopped_by_user"
    /\ UNCHANGED <<current, control, overBudget, counters, usedRuns, streaks,
                   inflight, lineage, records, oosVars, progress>>

BeginIteration ==
    /\ pc = "LOOP_HEAD" /\ iterations < MaxIterations /\ control = "run"
    /\ pc' = "PROPOSING"
    /\ iterations' = iterations + 1 /\ attempts' = attempts + 1
    /\ UNCHANGED <<flow, usedRuns, streaks, inflight, lineage, records, oosVars,
                   progress>>

\* strategist.propose returned s: a new template starts a new lineage root, the
\* previous one again is a child of the current lineage (a mutation).
Propose(s) ==
    /\ pc = "PROPOSING" /\ pc' = "BUDGET_GUARD"
    /\ proposal' = s
    /\ mutation' = (TemplateOf[s] = prevTemplate)
    /\ prevTemplate' = TemplateOf[s]
    /\ IF TemplateOf[s] = prevTemplate
       THEN UNCHANGED <<root, familySpent, admitted, admittedMutations>>
       ELSE NewRoot
    /\ UNCHANGED <<flow, counters, usedRuns, streaks, sharpe, usage, records,
                   oosResults, verdicts, campaignSpent, progress>>

\* The strategist raised: the iteration is an error and consumes no run.
ProposeFails ==
    /\ pc = "PROPOSING" /\ pc' = "DECIDING"
    /\ Bookkeeping("error")
    /\ UNCHANGED <<flow, counters, usedRuns, consecutiveFailures, inflight,
                   lineage, records, oosVars, fruitless>>

\* Mutant: the caps are keyed on a fresh id per call (the bug H19 fixed).
FamilyKeyPerCall == iterations

\* Phase 2b: check_and_consume, keyed on the lineage root.
FamilyKey == root
MutationAfterFailure == mutation /\ consecutiveFailures > 0
Switched == SwitchFamily(usage, FamilyKey, FamilyKey)

Admit ==
    /\ pc = "BUDGET_GUARD" /\ ~Refuses(Switched, MutationAfterFailure)
    /\ pc' = "DATA_PREPARING"
    /\ usage' = Consume(Switched, MutationAfterFailure)
    /\ admitted' = admitted + 1
    /\ admittedMutations' = IF MutationAfterFailure THEN admittedMutations + 1
                            ELSE admittedMutations
    /\ mutation' = FALSE
    /\ UNCHANGED <<flow, counters, usedRuns, streaks, proposal, sharpe, root,
                   prevTemplate, records, oosVars, progress>>

\* BudgetExceededError: the proposal is skipped; the switch has happened.
Skip ==
    /\ pc = "BUDGET_GUARD" /\ Refuses(Switched, MutationAfterFailure)
    /\ pc' = "DECIDING"
    /\ usage' = Switched
    /\ proposal' = None /\ mutation' = FALSE
    /\ Bookkeeping("skipped")
    /\ UNCHANGED <<flow, counters, usedRuns, consecutiveFailures, sharpe, root,
                   prevTemplate, admitted, admittedMutations, records, oosVars, fruitless>>

\* Data preparation raised: an error that consumes no run.
DataFails ==
    /\ pc = "DATA_PREPARING" /\ pc' = "DECIDING"
    /\ proposal' = None
    /\ Bookkeeping("error")
    /\ UNCHANGED <<flow, counters, usedRuns, consecutiveFailures, mutation,
                   sharpe, lineage, records, oosVars, fruitless>>

\* The data came and the backtest ran.
Execute(sr) ==
    /\ pc = "DATA_PREPARING" /\ pc' = "GATING"
    /\ ConsumeRun
    /\ sharpe' = sr
    /\ UNCHANGED <<flow, counters, streaks, proposal, mutation, lineage,
                   records, oosVars, progress>>

\* The executor raised: the run is consumed and the failure recorded, but it
\* counts as an error, not as a failure of the strategy.
ExecuteFails ==
    /\ pc = "DATA_PREPARING" /\ pc' = "DECIDING"
    /\ ConsumeRun /\ RecordFailure
    /\ proposal' = None
    /\ Bookkeeping("error")
    /\ UNCHANGED <<flow, counters, consecutiveFailures, mutation, sharpe,
                   lineage, candidates, bestSharpe, holdoutPeeks, oosVars,
                   fruitless>>

PassGates ==
    /\ pc = "GATING" /\ pc' = "CRITIQUING"
    /\ UNCHANGED <<flow, counters, usedRuns, streaks, inflight, lineage,
                   records, oosVars, progress>>

\* A HARD gate failed or errored, or the gatekeeper itself raised.
FailGates ==
    /\ pc = "GATING" /\ pc' = "DECIDING"
    /\ RecordFailure /\ CountFailure
    /\ proposal' = None /\ sharpe' = 0
    /\ Bookkeeping("gate_fail")
    /\ UNCHANGED <<flow, counters, usedRuns, mutation, lineage, candidates,
                   bestSharpe, holdoutPeeks, oosVars>>

\* The critic said reject or investigate, or raised (= investigate).
CriticKills ==
    /\ pc = "CRITIQUING" /\ Mode = "robustness" /\ pc' = "DECIDING"
    /\ RecordFailure /\ CountFailure
    /\ proposal' = None /\ sharpe' = 0
    /\ Bookkeeping("critic_reject")
    /\ UNCHANGED <<flow, counters, usedRuns, mutation, lineage, candidates,
                   bestSharpe, holdoutPeeks, oosVars>>

\* The plateau watermark: the running maximum over what counts as a success.
MovesWatermark(status) == status # "regime_failed"
\* Mutant: the watermark is the latest Sharpe ratio, not the running maximum.
NewBestLatest == sharpe
NewBest == IF bestSharpe # <<>> /\ bestSharpe[Len(bestSharpe)] > sharpe
           THEN bestSharpe[Len(bestSharpe)] ELSE sharpe

\* Mutant: any surfaced idea ends the failure streak (the bug M28 fixed).
StreakAfterSurfacing(status) == 0

\* consecutive_failures after a candidate: a collapsed idea is a failure.
StreakAfter(status) == IF status = "regime_failed" THEN consecutiveFailures + 1 ELSE 0

\* Append the trial in flight as a candidate.  A regime_failed idea is kept,
\* but it is a failure: it neither moves the watermark nor ends the streak.
Surface(meets, status, peek) ==
    /\ candidates' = Append(candidates,
           [strategy |-> proposal, visit |-> current, sharpe |-> sharpe,
            meets |-> meets, status |-> status, peek |-> peek])
    /\ consecutiveFailures' = StreakAfter(status)
    /\ fruitless' = IF status = "regime_failed" THEN fruitless + 1 ELSE 0
    /\ bestSharpe' = IF MovesWatermark(status) THEN Append(bestSharpe, NewBest)
                     ELSE bestSharpe
    /\ proposal' = None /\ sharpe' = 0
    /\ Bookkeeping("candidate")
    /\ UNCHANGED <<flow, counters, usedRuns, mutation, lineage, allFailures,
                   oosVars>>

CriticAccepts ==
    /\ pc = "CRITIQUING" /\ Mode = "robustness"
    /\ pc' = IF OOSEnabled THEN "OOS_EVALUATING" ELSE "DECIDING"
    /\ \E meets \in BOOLEAN : Surface(meets, "", 0)
    /\ UNCHANGED holdoutPeeks

\* Mutant: the reuse of the hold-out slice is not counted (the bug H18 fixed).
NextPeekUncounted == 1

\* Regime mode: the critic only lowers confidence; the within-regime hold-out
\* decides the status, and only a real per-trade test consumes a Sidak peek.
NextPeek == holdoutPeeks[AssetPool[current]] + 1

TestHoldout ==
    /\ pc = "CRITIQUING" /\ Mode = "regime" /\ pc' = "DECIDING"
    /\ \E meets \in BOOLEAN,
          status \in {"regime_validated", "regime_failed", "unvalidated"} :
            Surface(meets, status, NextPeek)
    /\ holdoutPeeks' = [holdoutPeeks EXCEPT ![AssetPool[current]] = NextPeek]

\* No usable slice, a failed hold-out backtest, or too thin for the test.
HoldoutTooThin ==
    /\ pc = "CRITIQUING" /\ Mode = "regime" /\ pc' = "DECIDING"
    /\ \E meets \in BOOLEAN : Surface(meets, "unvalidated", 0)
    /\ UNCHANGED holdoutPeeks

-----------------------------------------------------------------------------
(* The OOS lockbox step, _run_oos_lockbox: no await, so one step *)

OOSHash == HashOf(candidates[Len(candidates)])

RecordOOS(o) ==
    /\ pc' = "DECIDING"
    /\ oosResults' = Append(oosResults, [hash |-> OOSHash, outcome |-> o])
    /\ UNCHANGED <<flow, counters, usedRuns, streaks, inflight, lineage,
                   records, progress>>

\* Mutant: a strategy with a verdict is evaluated again (the bug H16 fixed).
NoVerdictYetUnchecked == pc = "OOS_EVALUATING"

\* The lockbox answers without a new evaluation unless there is no verdict yet.
NoVerdictYet == pc = "OOS_EVALUATING" /\ verdicts[OOSHash] = "none"
OOSBudgetLeft == familySpent < LineageOOSBudget /\ campaignSpent < CampaignOOSBudget

\* H16: a terminal verdict of an earlier evaluation is recovered, not re-run.
OOSRecover ==
    /\ pc = "OOS_EVALUATING" /\ verdicts[OOSHash] # "none"
    /\ RecordOOS(verdicts[OOSHash])
    /\ UNCHANGED lockbox

\* PASS and FAIL are terminal: both budgets and the row in one commit.
OOSTerminal ==
    /\ NoVerdictYet /\ OOSBudgetLeft
    /\ \E o \in {"PASS", "FAIL"} :
         /\ RecordOOS(o)
         /\ verdicts' = [verdicts EXCEPT ![OOSHash] = o]
    /\ familySpent' = familySpent + 1 /\ campaignSpent' = campaignSpent + 1

\* Mutant: an evaluation without a verdict is charged (the bug H17 fixed).
OOSUnevaluatedCharged ==
    /\ NoVerdictYet /\ OOSBudgetLeft
    /\ RecordOOS("UNEVALUATED")
    /\ familySpent' = familySpent + 1 /\ campaignSpent' = campaignSpent + 1
    /\ UNCHANGED verdicts

\* Too thin, no benchmark, floor undetermined, or the OOS backtest raised.
OOSUnevaluated ==
    /\ NoVerdictYet /\ OOSBudgetLeft
    /\ RecordOOS("UNEVALUATED")
    /\ UNCHANGED lockbox

\* BudgetExhaustedError is swallowed by the loop: nothing is recorded.
OOSRefused ==
    /\ NoVerdictYet /\ ~OOSBudgetLeft
    /\ pc' = "DECIDING"
    /\ UNCHANGED <<flow, counters, usedRuns, streaks, inflight, lineage,
                   records, oosVars, progress>>

-----------------------------------------------------------------------------
(* The Director: rules R1 to R6, the first that applies *)

Done(r) == [decision |-> "done", reason |-> r]
LeaveAsset(lastReason) ==
    IF QueueNonEmpty THEN [decision |-> "next_asset", reason |-> ""]
    ELSE Done(lastReason)

GoalMet == Validated >= TargetCandidates

\* Mutant: one run too many.
BudgetExhaustedLate == usedRuns > MaxRuns \/ overBudget
BudgetExhausted == usedRuns >= MaxRuns \/ overBudget

ErrorsTripped == consecutiveErrors >= ErrorBreaker
SkipsTripped == consecutiveSkips >= SkipBreaker
AssetExhausted == Plateau \/ consecutiveFailures >= MaxConsecutiveFailures

\* Mutant: one attempt too many on an asset.
CapReachedLate == attempts > PerAssetCap /\ QueueNonEmpty
CapReached == attempts >= PerAssetCap /\ QueueNonEmpty

Decision ==
    IF GoalMet THEN Done("goal_met")
    ELSE IF BudgetExhausted THEN Done("budget_exhausted")
    ELSE IF ErrorsTripped THEN LeaveAsset("circuit_breaker_last")
    ELSE IF SkipsTripped THEN LeaveAsset("skip_breaker_last")
    ELSE IF AssetExhausted THEN LeaveAsset("asset_exhausted_last")
    ELSE IF CapReached THEN LeaveAsset("")
    ELSE [decision |-> "continue", reason |-> ""]

DecideDone ==
    /\ pc = "DECIDING" /\ Decision.decision = "done"
    /\ pc' = "REPORTING" /\ stopReason' = Decision.reason
    /\ UNCHANGED <<current, control, overBudget, counters, usedRuns, streaks,
                   inflight, lineage, records, oosVars, progress>>

\* state.advance_asset() and a fresh orchestrator lineage.
DecideNextAsset ==
    /\ pc = "DECIDING" /\ Decision.decision = "next_asset"
    /\ pc' = "LOOP_HEAD" /\ current' = current + 1
    /\ attempts' = 0 /\ bestSharpe' = <<>>
    /\ consecutiveFailures' = 0 /\ consecutiveErrors' = 0 /\ consecutiveSkips' = 0
    /\ prevTemplate' = None /\ NewRoot
    /\ barren' = 0 /\ fruitless' = 0
    /\ UNCHANGED <<control, overBudget, stopReason, iterations, usedRuns,
                   inflight, usage, candidates, allFailures, holdoutPeeks,
                   oosResults, verdicts, campaignSpent>>

DecideContinue ==
    /\ pc = "DECIDING" /\ Decision.decision = "continue"
    /\ pc' = "LOOP_HEAD"
    /\ UNCHANGED <<flow, counters, usedRuns, streaks, inflight, lineage,
                   records, oosVars, progress>>

Report ==
    /\ pc = "REPORTING"
    /\ pc' = IF stopReason = "goal_met" THEN "COMPLETED" ELSE "STOPPED"
    /\ UNCHANGED <<flow, counters, usedRuns, streaks, inflight, lineage,
                   records, oosVars, progress>>

\* The coroutine has returned.
Returned == pc \in Terminal /\ UNCHANGED vars

-----------------------------------------------------------------------------

Loop ==
    \/ Start
    \/ HitIterationCap \/ StopOnRequest \/ BeginIteration
    \/ (\E s \in Strategies : Propose(s)) \/ ProposeFails
    \/ Admit \/ Skip \/ DataFails
    \/ (\E sr \in Sharpes : Execute(sr)) \/ ExecuteFails
    \/ PassGates \/ FailGates
    \/ CriticKills \/ CriticAccepts \/ TestHoldout \/ HoldoutTooThin
    \/ OOSRecover \/ OOSTerminal \/ OOSUnevaluated \/ OOSRefused
    \/ DecideDone \/ DecideNextAsset \/ DecideContinue \/ Report

Environment == SetControl \/ ExceedTimeOrCost \/ NewDay \/ OtherRunEvaluates

Next == Loop \/ Environment \/ Returned

Spec == Init /\ [][Next]_vars

\* The event loop keeps scheduling a coroutine that can run; nothing is
\* assumed of the user, the clock or other runs.
FairSpec == Spec /\ WF_vars(Loop)

-----------------------------------------------------------------------------
(* Properties *)

\* The budget buys what it is charged for: at every step each consumed run is
\* either still in flight or in exactly one record, a candidate or a failure,
\* on every error path; and neither the run budget nor the iteration backstop
\* is ever exceeded.  (consume_run, _record_failure and the candidate branch.)
InFlight == IF pc \in {"GATING", "CRITIQUING"} THEN 1 ELSE 0

RunAccounting ==
    /\ usedRuns = allFailures + Len(candidates) + InFlight
    /\ usedRuns <= MaxRuns
    /\ iterations <= MaxIterations

\* A finished run is COMPLETED exactly when enough strategies were validated,
\* whichever of budget, breakers, backstop or the user ended it (T10: a tie of
\* goal and budget is a success).
CompletedIffGoalMet ==
    pc \in Terminal => (pc = "COMPLETED" <=> Validated >= TargetCandidates)

\* An asset that yields nothing is left: the breakers bound any mix of errors
\* and skips without a metric by the product of their limits, and trials that
\* ran but never succeeded by max_consecutive_failures (R3, R3b, R4, M28, M48).
DeadAssetIsLeft ==
    /\ barren <= ErrorBreaker * SkipBreaker
    /\ fruitless <= MaxConsecutiveFailures

\* While other assets wait, no asset takes more than its share (R5).
FairShare == QueueNonEmpty => attempts <= PerAssetCap

\* The anti-brute-force caps bind on the lineage root: no hypothesis family is
\* backtested more often than its cap, nor mutated more often after failures
\* (H19), and the per-day cap never binds before the per-family one does
\* (the BUDGET-2 caveat).
FamilyCaps ==
    /\ admitted <= MaxTrialsPerHypothesis
    /\ admittedMutations <= MaxMutationsAfterFailedGate
    /\ usage.lineageToday <= usage.trials

\* The plateau watermark is the best Sharpe ratio among the candidates of the
\* current asset that did not collapse on their hold-out (M49, F1).
Earned == {i \in DOMAIN candidates : /\ candidates[i].visit = current
                                     /\ candidates[i].status # "regime_failed"}
WatermarkEarned ==
    /\ Len(bestSharpe) = Cardinality(Earned)
    /\ bestSharpe # <<>> =>
         LET best == bestSharpe[Len(bestSharpe)]
         IN  /\ \E i \in Earned : candidates[i].sharpe = best
             /\ \A i \in Earned : candidates[i].sharpe <= best

\* An asset is not given up in the step after a record: if the last trial is the
\* best success of this visit by at least PlateauEps, only the share of R5 (or
\* the end of the run) takes the loop away from it.  An idea that collapsed on
\* its hold-out must not hide the record from the plateau rule (M49, F1).
Record ==
    /\ barren = 0 /\ Earned # {} /\ Len(candidates) \in Earned
    /\ \A i \in Earned \ {Len(candidates)} :
          candidates[Len(candidates)].sharpe >= candidates[i].sharpe + PlateauEps
GivesUpAsset == \/ current' # current
                \/ stopReason' # stopReason /\ stopReason' = "asset_exhausted_last"
ProductiveAssetKept ==
    [][pc = "DECIDING" /\ fruitless = 0 /\ Record /\ GivesUpAsset
         => attempts >= PerAssetCap]_vars

\* Each significance test on one hold-out slice faces a strictly later Sidak
\* peek than every earlier test on it, even when the asset is visited again
\* (H18), and the peeks count exactly the tests.
TestsOn(a) == {i \in DOMAIN candidates : /\ AssetPool[candidates[i].visit] = a
                                         /\ candidates[i].peek > 0}
PeeksTighten ==
    \A a \in Assets :
        /\ holdoutPeeks[a] = Cardinality(TestsOn(a))
        /\ \A i, j \in TestsOn(a) : i < j => candidates[i].peek < candidates[j].peek

\* Every terminal verdict the run reports is the verdict in the lockbox, also
\* after other runs have used it: a strategy has one verdict, for ever (H16).
VerdictsStand ==
    \A i \in DOMAIN oosResults :
        oosResults[i].outcome # "UNEVALUATED" =>
            verdicts[oosResults[i].hash] = oosResults[i].outcome

\* No budget is overdrawn, and every charge to the campaign bought a terminal
\* row: UNEVALUATED, recovered and refused candidates are free (H17, FB4).
Rows == {h \in Hashes : verdicts[h] # "none"}
ChargesBuyVerdicts ==
    /\ familySpent <= LineageOOSBudget /\ campaignSpent <= CampaignOOSBudget
    /\ familySpent <= campaignSpent /\ campaignSpent <= Cardinality(Rows)

\* Unless the user leaves the run paused, it ends.
Termination == <>[](control # "pause") => <>(pc \in Terminal)

\* The loop keeps the promise of ResearchSession.
Session == INSTANCE ResearchSession WITH
    status <- IF pc = "COMPLETED" THEN "completed"
              ELSE IF pc = "STOPPED" THEN "stopped" ELSE "running",
    spent <- usedRuns,
    validated <- Validated
KeepsSessionPromise == Session!SessionSpec

\* run.py says the run stops when target_candidates validated strategies were
\* found: a completed run has that many different ones.
GoalCountsStrategies ==
    pc = "COMPLETED" =>
        Cardinality({HashOf(candidates[i]) : i \in ValidatedAt}) >= TargetCandidates

=============================================================================
