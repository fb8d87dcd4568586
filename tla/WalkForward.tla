----------------------------- MODULE WalkForward -----------------------------
(***************************************************************************)
(* The rules of walk-forward validation, as operators: the rolling windows *)
(* (marketdata/windows.py), the confidence a test window earns             *)
(* (engine/confidence.py) and the verdict on the strategy                  *)
(* (_build_wf_result).  Days are numbers, t statistics are in hundredths.  *)
(*                                                                         *)
(* What a test window shows is a record: trades, the number reported;      *)
(* usable, those with a finite P&L; spread, whether they differ at all; t  *)
(* and sharpe of them; bars, the bars in the market, and barSharpe, the    *)
(* sign of the daily edge; ci, whether the interval lies above zero.       *)
(***************************************************************************)
EXTENDS Integers, FiniteSets, Sequences, FiniteSetsExt

CONSTANT TCritical   \* the Student-t quantile by degrees of freedom (external)

Floor == 5           \* REGIME_FLOOR
Ceil == 20           \* VALIDATE_CEIL
ValidateT == 165     \* VALIDATE_T
StrongT == 250
StrongFloor == 12
MinBars == 20

(***************************************************************************)
(* iter_rolling_windows: windows start every step until the training part  *)
(* would end behind the data; one without bars on either side is left out. *)
(***************************************************************************)
Windows(days, train, test, step) ==
    LET first == Min(days)
        count == IF first + train > Max(days) THEN 0
                 ELSE (Max(days) - first - train) \div step + 1
        Split(k) == LET cut == first + (k - 1) * step + train
                    IN  [train |-> {d \in days : cut - train <= d /\ d < cut},
                         test |-> {d \in days : cut <= d /\ d < cut + test}]
        kept == {k \in 1..count : Split(k).train # {} /\ Split(k).test # {}}
    IN  [i \in 1..Cardinality(kept) |->
            Split(CHOOSE k \in kept : Cardinality({j \in kept : j <= k}) = i)]

\* Python's round: halves go to the even neighbour.
Round(a, b) ==
    LET q == a \div b  r == 2 * (a % b)
    IN  IF r > b \/ (r = b /\ q % 2 = 1) THEN q + 1 ELSE q

ScaledMinTrades(trades, trainDays, holdoutDays) ==
    IF trainDays <= 0 \/ trades <= 0 THEN Ceil
    ELSE Min({Ceil, Max({Floor, Round(trades * Max({holdoutDays, 0}), trainDays)})})

(***************************************************************************)
(* assess_confidence: the per-trade test runs only on enough usable trades *)
(* that differ; below that, daily returns are evidence and nothing more.   *)
(***************************************************************************)
Basis(o, minReq) ==
    IF o.trades >= minReq /\ o.usable >= minReq /\ o.spread THEN "per_trade"
    ELSE IF o.bars >= MinBars THEN "per_bar" ELSE "none"

\* confidence_tier on a per-trade basis.
TradeTier(o) ==
    CASE o.sharpe < 0 \/ o.t <= -ValidateT -> "failed"
      [] o.sharpe >= 0 /\ o.usable >= StrongFloor /\ o.t >= StrongT /\ o.ci -> "strong"
      [] o.sharpe > 0 /\ ~(o.usable >= StrongFloor /\ o.t >= StrongT /\ o.ci)
            /\ o.t >= Max({ValidateT, TCritical[Max({1, o.usable - 1})]}) -> "moderate"
      [] OTHER -> "weak"

ConfidenceTier(o, basis) ==
    CASE basis = "per_trade" -> TradeTier(o)
      [] basis = "per_bar" /\ o.barSharpe > 0 -> "weak"
      [] OTHER -> "inconclusive"

Assess(o, trainTrades, trainDays, holdoutDays) ==
    ConfidenceTier(o, Basis(o, ScaledMinTrades(trainTrades, trainDays, holdoutDays)))

Validates(tier) == tier \in {"strong", "moderate"}

\* Mutant: the share is taken of the windows that were evaluated.
VerdictOfEvaluated(windows, crashed) ==
    2 * Cardinality({i \in DOMAIN windows : windows[i].valid}) > Len(windows)

(***************************************************************************)
(* _build_wf_result: more than half of the windows attempted, crashed ones *)
(* included, must be valid.                                                *)
(***************************************************************************)
Verdict(windows, crashed) ==
    2 * Cardinality({i \in DOMAIN windows : windows[i].valid}) > Len(windows) + crashed
=============================================================================
