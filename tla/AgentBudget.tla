---------------------------- MODULE AgentBudget ----------------------------
(***************************************************************************)
(* The anti-brute-force trial caps of ai/research/budgets.py.              *)
(*                                                                         *)
(* AgentBudgetController keeps one BudgetUsage per agent.  The controller  *)
(* is a small pure algorithm over that record, so it is given here as      *)
(* operators on a usage record: check_and_consume is SwitchFamily, then    *)
(* the three limit checks (Refuses), then Consume.                         *)
(***************************************************************************)
EXTENDS Naturals

CONSTANTS
    MaxTrialsPerHypothesis,        \* limits.max_trials_per_hypothesis
    MaxTrialsPerLineagePerDay,     \* limits.max_trials_per_lineage_per_day
    MaxMutationsAfterFailedGate    \* limits.max_mutations_after_failed_gate

ASSUME LimitsAssumption ==
    /\ MaxTrialsPerHypothesis \in Nat
    /\ MaxTrialsPerLineagePerDay \in Nat
    /\ MaxMutationsAfterFailedGate \in Nat

(***************************************************************************)
(* A usage record.  Hypotheses and lineages are identified by natural      *)
(* numbers; 0 stands for the empty string of a fresh BudgetUsage.          *)
(***************************************************************************)
Usage == [hypothesis : Nat, lineage : Nat,
          trials : Nat, lineageToday : Nat, mutations : Nat]

FreshUsage == [hypothesis |-> 0, lineage |-> 0,
               trials |-> 0, lineageToday |-> 0, mutations |-> 0]

\* A hypothesis switch restarts the trial and mutation counters, a lineage
\* switch restarts the per-day counter.
SwitchFamily(u, hyp, lin) ==
    [hypothesis   |-> hyp,
     lineage      |-> lin,
     trials       |-> IF u.hypothesis = hyp THEN u.trials ELSE 0,
     mutations    |-> IF u.hypothesis = hyp THEN u.mutations ELSE 0,
     lineageToday |-> IF u.lineage = lin THEN u.lineageToday ELSE 0]

\* BudgetExceededError: the three checks, evaluated on the switched record.
Refuses(u, mutationAfterFailure) ==
    \/ u.trials >= MaxTrialsPerHypothesis
    \/ u.lineageToday >= MaxTrialsPerLineagePerDay
    \/ mutationAfterFailure /\ u.mutations >= MaxMutationsAfterFailedGate

Consume(u, mutationAfterFailure) ==
    [u EXCEPT !.trials = @ + 1,
              !.lineageToday = @ + 1,
              !.mutations = IF mutationAfterFailure THEN @ + 1 ELSE @]

\* _maybe_reset_daily: only the per-day counter is reset at midnight.
NewDayUsage(u) == [u EXCEPT !.lineageToday = 0]

=============================================================================
