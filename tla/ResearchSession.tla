--------------------------- MODULE ResearchSession ---------------------------
(***************************************************************************)
(* What a research run promises its user, without saying how: it spends at *)
(* most MaxRuns backtests, it never spends one after the goal is reached,  *)
(* what has been validated stays validated, and it ends "completed"        *)
(* exactly when the goal was reached.  ResearchLoop is the program that    *)
(* keeps this promise.                                                     *)
(***************************************************************************)
EXTENDS Naturals

CONSTANTS MaxRuns, TargetCandidates

VARIABLES
    status,      \* "running", "completed" or "stopped"
    spent,       \* backtests consumed
    validated    \* validated strategies found

sessionVars == <<status, spent, validated>>

SessionInit ==
    /\ status = "running"
    /\ spent = 0
    /\ validated = 0

GoalReached == validated >= TargetCandidates

\* One backtest is consumed: only while the goal is open and budget is left.
Spend ==
    /\ status = "running"
    /\ ~GoalReached
    /\ spent < MaxRuns
    /\ spent' = spent + 1
    /\ UNCHANGED <<status, validated>>

\* A result counts towards the goal.  A single verdict may count for several
\* earlier candidates of one strategy, never for more than were backtested.
Certify ==
    /\ status = "running"
    /\ ~GoalReached
    /\ validated' \in (validated + 1)..spent
    /\ UNCHANGED <<status, spent>>

Finish ==
    /\ status = "running"
    /\ status' = IF GoalReached THEN "completed" ELSE "stopped"
    /\ UNCHANGED <<spent, validated>>

SessionNext == Spend \/ Certify \/ Finish

SessionSpec == SessionInit /\ [][SessionNext]_sessionVars

=============================================================================
