---------------------------- MODULE TokenLedger -----------------------------
(***************************************************************************)
(* The cost of the LLM calls of a run (ai/research/agent_llm.py): the one  *)
(* TokenLedger that strategist, critic and reporter share, and the Budget  *)
(* it charges.  Costs are in some unit of money.                           *)
(***************************************************************************)
EXTENDS Integers

CONSTANTS
    MaxEur,                  \* budget.max_eur; 0: no limit
    CallCosts                \* what one call can cost

ASSUME CostAssumption ==
    /\ MaxEur \in Nat /\ CallCosts \subseteq Nat
    /\ MaxEur > 0 => CallCosts # {}

VARIABLES
    usedEur,                 \* budget.used_eur
    costKnown,               \* budget.cost_known
    degraded                 \* budget.llm_failures > 0

ledger == <<usedEur, costKnown, degraded>>

LedgerType == usedEur \in Nat /\ costKnown \in BOOLEAN /\ degraded \in BOOLEAN

NewLedger == usedEur = 0 /\ costKnown = TRUE /\ degraded = FALSE

\* Mutant: the agents check the limit one call late.
OverBudgetLate == MaxEur > 0 /\ usedEur > MaxEur
OverBudget == MaxEur > 0 /\ usedEur >= MaxEur

\* The provider answered: with a price the call is charged, without one the
\* total is only a lower bound, and an answer without usage is not counted.
Charge(priced) ==
    \/ priced /\ costKnown' = costKnown /\ \E c \in CallCosts : usedEur' = usedEur + c
    \/ ~priced /\ costKnown' = FALSE /\ usedEur' = usedEur
    \/ UNCHANGED <<usedEur, costKnown>>

Record(priced) == Charge(priced) /\ UNCHANGED degraded

\* The call raised, or reading its answer did after it was charged: the agent
\* falls back to its rules.
RecordFailure(priced) == Charge(priced) /\ degraded' = TRUE
=============================================================================
