-------------------------------- MODULE Sweep ---------------------------------
(***************************************************************************)
(* What one sweep of the coverage-grid calibration measures                *)
(* (scripts/calibrate_coverage_grid_v3.py): scan_asset takes one reading   *)
(* per asset, window, dial and rung, Tensor collects the usable ones, and  *)
(* run_phase_b looks for the finest rung at which the readings stay past   *)
(* the target.                                                             *)
(*                                                                         *)
(* A rung is a natural number, the smaller the finer; one base setting     *)
(* stands for the two or three of a dial.  What a backtest returns is      *)
(* given by the constants: Reach is the finest rung at which the positions *)
(* of the stepped setting differ from those of the base by the target      *)
(* share, Crashes the settings on which the engine raises, Held the days   *)
(* both settings hold a position, the last days of the window among them.  *)
(* The percentile is taken without interpolation, the bootstrap and the    *)
(* pooling of close candidates are left out: they move the value reported, *)
(* not the rungs it is looked for on.  So is the guard against saturated   *)
(* rungs, and degenerate readings count as inactive ones.                  *)
(***************************************************************************)
EXTENDS Integers, Sequences, FiniteSets

CONSTANTS
    Names,         \* the tickers that may be on a panel
    Dials,         \* PARAMS
    Windows,       \* WINDOWS; every one of them is a regime here
    Coarse,        \* per dial, the rungs of RATIOS or ABS_STEPS
    Finer,         \* per dial, the rungs of EXTEND_FINER
    Base, High,    \* per dial, the setting stepped from and its upper bound
    Ratios,        \* per name, adjusted over raw close of its bars, 0 where that is no number
    Bars,          \* per name and window, the trading days
    Held,          \* per name and window, the days both settings hold a position
    StaleDays,     \* per name, the days of equal closes at its end
    Reach,         \* per name and dial
    Crashes,       \* <<name, dial, setting>>
    Delisted,      \* names that are not alive
    Cap, Vol,      \* per name, the median capitalisation, None if unknown, and the volatility
    CapTertiles, VolMedian,    \* the cutpoints of the panel
    WarmupK,       \* per dial: bars asked for per unit of a period, 0 for the other kinds
    MinOverlap, MinActive, TrimDays, StaleRun,
    MinReadings, MinCells, MinDelisted,
    Quantile,      \* PRIMARY_Q in per cent
    MaxCrashRate,  \* in per cent
    None

ASSUME RungsAssumption ==
    Coarse \in [Dials -> SUBSET Nat] /\ Finer \in [Dials -> SUBSET Nat]

NoRungs == [d \in Dials |-> {}]

(***************************************************************************)
(* The rungs a dial is stepped by: those of its kind and the extra ones,   *)
(* unless the stepped value leaves the range of the parameter.             *)
(***************************************************************************)
Rungs(d, extra) == { r \in Coarse[d] \cup extra : Base[d] + r <= High[d] }

(***************************************************************************)
(* The guards of the warehouse over all bars of a name: there are some, no *)
(* ratio is out of range, and none leaves its level by over one per cent   *)
(* to come back at once; a step that stays, as a split makes, is none.     *)
(***************************************************************************)
Distance(x, y) == IF x > y THEN x - y ELSE y - x
Event(x, y) == 100 * Distance(x, y) > x

Spike(ratios) ==
    \E i \in 1 .. Len(ratios) - 2 :
        /\ Event(ratios[i], ratios[i + 1])
        /\ Event(ratios[i + 1], ratios[i + 2])
        /\ 200 * Distance(ratios[i], ratios[i + 2]) < ratios[i]

Refused(n) ==
    \/ Ratios[n] = <<>>
    \/ \E i \in DOMAIN Ratios[n] : Ratios[n][i] = 0
    \/ Spike(Ratios[n])

(***************************************************************************)
(* One backtest: the engine may raise on a setting.                        *)
(***************************************************************************)
Positions(n, d, setting) == IF <<n, d, setting>> \in Crashes THEN "crashed" ELSE "traded"

\* The days a window of a delisted name ends with that are masked out: a
\* fixed number, and the run of equal closes before them if it is long.
Trimmed(n, w) ==
    IF n \notin Delisted \/ Bars[n][w] <= TrimDays + StaleRun THEN 0
    ELSE TrimDays + IF StaleDays[n] - TrimDays >= StaleRun THEN StaleDays[n] - TrimDays ELSE 0

Active(n, w) == Held[n][w] - Trimmed(n, w)

Delta(n, d, w, r) ==
    CASE "crashed" \in {Positions(n, d, Base[d]), Positions(n, d, Base[d] + r)} -> "crashed"
      [] OTHER -> IF Active(n, w) < MinActive THEN "active_lt_nmin" ELSE "ok"

(***************************************************************************)
(* One record of a shard.  The reasons are tried in this order.            *)
(***************************************************************************)
Status(n, d, w, r) ==
    CASE Bars[n][w] < MinOverlap -> "overlap_lt_50"
      [] Bars[n][w] >= MinOverlap /\ Bars[n][w] < WarmupK[d] * (Base[d] + r) -> "bars_lt_warmup_k"
      [] OTHER -> Delta(n, d, w, r)

\* What scan_asset leaves in the shard of a name; a window without bars leaves nothing.
Content(n, windows, dials, extra) ==
    [windows |-> { w \in windows : Bars[n][w] > 0 },
     rungs |-> [d \in Dials |-> IF d \in dials THEN Rungs(d, extra[d]) ELSE {}]]

(***************************************************************************)
(* The tensor over the shards loaded: used maps a name to its content.     *)
(***************************************************************************)
Attempts(used, d) ==
    UNION { {n} \X used[n].windows \X used[n].rungs[d] : n \in DOMAIN used }

Readings(used, d, w, r) ==
    { n \in DOMAIN used :
          w \in used[n].windows /\ r \in used[n].rungs[d] /\ Status(n, d, w, r) = "ok" }

CrashViolations(used) ==
    { d \in Dials :
        LET crashed == { a \in Attempts(used, d) : Status(a[1], d, a[2], a[3]) = "crashed" }
        IN 100 * Cardinality(crashed) > MaxCrashRate * Cardinality(Attempts(used, d)) }

\* The rungs of one curve with enough readings.
Points(used, d, w) ==
    { r \in UNION { used[n].rungs[d] : n \in DOMAIN used } :
          Cardinality(Readings(used, d, w, r)) >= MinReadings }

\* The quantile of the readings on the rung reaches the target.
PastTarget(used, d, w, r) ==
    LET all == Readings(used, d, w, r)
    IN 100 * Cardinality({ n \in all : r >= Reach[n][d] }) >= (100 - Quantile) * Cardinality(all)

\* Sustained crossings: past the target from this rung on.
Sustained(used, d, w) ==
    LET points == Points(used, d, w)
        below == { r \in points : ~PastTarget(used, d, w, r) }
    IN { r \in points : \A s \in below : s < r }

Least(S) == CHOOSE r \in S : \A s \in S : r <= s

(***************************************************************************)
(* The stratum of a living name whose capitalisation is known.             *)
(***************************************************************************)
CapBucket(n) ==
    CASE n \in Delisted \/ Cap[n] = None -> None
      [] OTHER -> IF Cap[n] <= CapTertiles[1] THEN "small"
                  ELSE IF Cap[n] <= CapTertiles[2] THEN "mid" ELSE "large_liquid"

VolBucket(n) == IF Vol[n] >= VolMedian THEN "high" ELSE "low"

Cells(names) == { <<CapBucket(n), VolBucket(n)>> : n \in { m \in names : CapBucket(m) # None } }

Balanced(names) ==
    /\ Cardinality(Cells(names)) >= MinCells
    /\ Cardinality(names \cap Delisted) >= MinDelisted

\* A window whose curve may set the dial.
Eligible(used, d, w) ==
    LET crossings == Sustained(used, d, w)
    IN /\ Cardinality(Points(used, d, w)) >= 2
       /\ crossings # {}
       /\ Balanced(Readings(used, d, w, Least(crossings)))

\* The finest rung the eligible windows set a dial to; one candidate, no pool.
Jnd(used, d) ==
    LET least == { Least(Sustained(used, d, w)) : w \in { v \in Windows : Eligible(used, d, v) } }
    IN IF least = {} THEN None ELSE Least(least)

AtFloor(used, d, w) == Least(Points(used, d, w)) \in Sustained(used, d, w)

\* As a rule that waits for every window would do.
NeedsFinerEverywhere(used) ==
    { d \in Dials : \A w \in Windows : Eligible(used, d, w) /\ AtFloor(used, d, w) }

\* The dials a finer sweep is asked for.
NeedsFiner(used) == { d \in Dials : \E w \in Windows : Eligible(used, d, w) /\ AtFloor(used, d, w) }

(***************************************************************************)
(* The verdict over the panels: the values of a dial, as places among the  *)
(* rungs of the sweep, are at most one apart.                              *)
(***************************************************************************)
Place(d, extra, v) == Cardinality({ r \in Coarse[d] \cup extra[d] : r < v })

Spread(d, extra, values) ==
    CASE None \in values -> "UNDEFINED"
      [] OTHER -> IF \A u, v \in values : Place(d, extra, u) <= Place(d, extra, v) + 1
                  THEN "STABLE" ELSE "UNSTABLE"

===============================================================================
