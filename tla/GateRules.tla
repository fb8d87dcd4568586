------------------------------ MODULE GateRules ------------------------------
(***************************************************************************)
(* The quality gates of backtesting/gates, with the rigor presets and the  *)
(* modes of ai/research/gatekeeper.py: when a gate lets a trial pass.      *)
(*                                                                         *)
(* A trial is the evidence the executor reports.  Ratios are integers:     *)
(* Sharpe ratios and t statistics in hundredths, returns, drawdowns (as    *)
(* magnitudes) and commissions in basis points, exposure in per cent.      *)
(***************************************************************************)
EXTENDS Integers

CONSTANTS
    Skills, Flat,            \* shapes of a return series; one without a Sharpe
    NoReading,               \* None: a figure the executor cannot reconstruct
    Counts,                  \* trial counts and search sizes
    VarianceSet,             \* variances of the trials' Sharpe ratios
    Dsr,                     \* deflated_sharpe: shape, count, variance -> 0..100
    Commission,              \* the run's effective commission
    ProvisionalBelow         \* PROVISIONAL_BELOW

\* The statistic deflated_sharpe.  Where it is defined, a longer search or more
\* dispersed trials raise sr0, the Sharpe ratio luck alone reaches, and never help a
\* trial.  Without a search or a dispersion it is not defined, and the code says 0.0.
ASSUME DsrAssumption ==
    /\ Flat \in Skills
    /\ Counts \subseteq Nat /\ 0 \in Counts /\ VarianceSet \subseteq Nat
    /\ Dsr \in [Skills -> [Counts -> [VarianceSet -> Nat]]]
    /\ \A s \in Skills : \A m, n \in Counts : \A v, w \in VarianceSet :
         /\ 0 < m /\ m <= n /\ 0 < v /\ v <= w => Dsr[s][n][w] <= Dsr[s][m][v]
         /\ m = 0 \/ v = 0 => Dsr[s][m][v] = 0

ASSUME RulesAssumption ==
    /\ Commission \in Nat /\ ProvisionalBelow \in Nat
    /\ NoReading \notin Int

Trial ==
    [biased : BOOLEAN,       \* the provider's data has survivorship bias
     bars : Nat,             \* length of the return series
     skill : Skills,         \* its shape
     jump : Nat,             \* largest single-bar return, per cent
     trades : Nat,           \* n_trades
     edge : Int \cup {NoReading},     \* per_trade_t of trade_returns
     exposure : Nat,
     sharpe : Int, return : Int, drawdown : Nat,
     lagged : Int \cup {NoReading},   \* lagged_sharpe_annual
     holdSharpe : Int, holdReturn : Int, holdDrawdown : Nat,   \* buy and hold
     regimeBound : BOOLEAN]  \* the sub-periods' Sharpe ratios look one-sided

Rigors == {"exploratory", "standard", "strict"}
Modes == {"robustness", "regime"}

\* Mutant: a typo in the strict tier.
ActivityTTypo(rigor) ==
    CASE rigor = "exploratory" -> 100 [] rigor = "standard" -> 165 [] rigor = "strict" -> 33

\* Calibrated on the observed distribution of per-trade t statistics.
ActivityT(rigor) ==
    CASE rigor = "exploratory" -> 100 [] rigor = "standard" -> 165 [] rigor = "strict" -> 233

RigorPresets(rigor) ==
    CASE rigor = "exploratory" ->
           [minTrades |-> 5, edge |-> ActivityT(rigor), sharpe |-> 30, benchmark |-> 10,
            costTenths |-> 15, stressed |-> 20, dsr |-> 90]
      [] rigor = "standard" ->
           [minTrades |-> 5, edge |-> ActivityT(rigor), sharpe |-> 50, benchmark |-> 20,
            costTenths |-> 20, stressed |-> 40, dsr |-> 95]
      [] rigor = "strict" ->
           [minTrades |-> 8, edge |-> ActivityT(rigor), sharpe |-> 80, benchmark |-> 30,
            costTenths |-> 30, stressed |-> 60, dsr |-> 95]

\* tier is at most as demanding as rigor.
Laxer(tier, rigor) ==
    \/ tier = rigor \/ rigor = "strict"
    \/ tier = "exploratory" /\ rigor = "standard"

Size(x) == IF x < 0 THEN -x ELSE x

-----------------------------------------------------------------------------
(* The cheap gates *)

DataIntegrity(t) == t.bars = 0 \/ t.jump <= 50

EnoughActivity(r, t) ==
    /\ t.trades >= r.minTrades
    /\ t.exposure \in 5..95

\* The tier of the sample: a missing statistic passes with low confidence.
ThinSample(r, t) == t.edge = NoReading \/ t.edge < r.edge

\* label: regime mode keeps a thin sample, at low confidence.
MinimumActivity(r, mode, t) ==
    /\ EnoughActivity(r, t)
    /\ mode = "regime" \/ t.edge = NoReading \/ t.edge >= r.edge

PerformanceFloor(r, t) == t.sharpe >= r.sharpe /\ t.return > 0

\* Beat buy-and-hold on the Sharpe ratio, on the drawdown without giving up
\* 30 % of the return, or on the return at no lower a Sharpe ratio.
BenchmarkRelative(r, t) ==
    \/ t.sharpe - t.holdSharpe >= r.benchmark
    \/ /\ t.holdDrawdown # 0
       /\ 5 * t.drawdown < 4 * t.holdDrawdown
       /\ IF t.holdReturn = 0 THEN t.return >= 0
          ELSE 10 * (t.holdReturn - t.return) < 3 * Size(t.holdReturn)
    \/ t.return > t.holdReturn /\ t.sharpe >= t.holdSharpe

\* Ten times the return left when every entry and exit costs more.
StressedTenfold(r, t) ==
    10 * t.return - 2 * t.trades * Commission * (r.costTenths - 10)

\* The Sharpe ratio is scaled by what is left of the return.
CostStress(r, t) ==
    /\ StressedTenfold(r, t) > 0
    /\ t.sharpe * StressedTenfold(r, t) >= r.stressed * 10 * t.return

\* 60 % of the Sharpe ratio, and its sign, survive one more bar of delay.
LagFragility(t) ==
    \/ t.lagged = NoReading \/ t.sharpe = 0
    \/ /\ (t.lagged > 0) = (t.sharpe > 0)
       /\ IF t.sharpe > 0 THEN 10 * t.lagged >= 6 * t.sharpe
          ELSE 10 * t.lagged <= 6 * t.sharpe

-----------------------------------------------------------------------------
(* The deflated Sharpe ratio, against what the run has searched so far *)

\* What update_registry_stats hands over: trials measured, their dispersion,
\* whether it is a default, the campaign's search size (0: not supplied), and
\* the null-variance floor the gate derives from the clocks of the trials.
\* The floor is three over a number of bars: unlike what is measured, never zero.
Registry ==
    [n : Counts, variance : VarianceSet, defaulted : BOOLEAN, search : Counts,
     nullVariance : VarianceSet \ {0}]

Measurable(t) == t.bars >= 2 /\ t.skill # Flat

AtLeast(a, b) == IF a >= b THEN a ELSE b

SearchSize(reg) == IF reg.search = 0 THEN reg.n ELSE AtLeast(reg.search, reg.n)

VarianceUsed(reg) == AtLeast(reg.variance, reg.nullVariance)

Provisional(reg) == reg.n < ProvisionalBelow \/ reg.defaulted

DeflatedSharpe(r, reg, t) ==
    \/ reg.n < 2
    \/ /\ t.bars >= 3
       /\ \/ Provisional(reg)
          \/ Dsr[t.skill][SearchSize(reg)][VarianceUsed(reg)] >= r.dsr
=============================================================================
