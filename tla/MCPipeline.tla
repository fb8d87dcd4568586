------------------------------ MODULE MCPipeline ------------------------------
(* Small instances of Pipeline for TLC. *)
EXTENDS Pipeline, TLC

MCParams == 1..3

Ok(v, n) == [kind |-> "ok", value |-> v, trades |-> n]
Bad(k) == [kind |-> k, value |-> NoValue, trades |-> 0]

\* Landscapes: rising, with a tie and a hole, negative with a failure, nothing.
MCLandscapes ==
    { <<Ok(1, 40), Ok(2, 40), Ok(3, 4)>>,
      <<Ok(2, 0), Bad("invalid"), Ok(2, 40)>>,
      <<Bad("error"), Ok(-2, 12), Bad("nonfinite")>>,
      <<Bad("invalid"), Bad("error"), Bad("nonfinite")>> }

CLI(mode, n) ==
    [caller |-> "cli", mode |-> mode, trials |-> n, patience |-> 0, jobs |-> 1, timeout |-> FALSE,
     determinism |-> FALSE, progress |-> mode = "optimize"]

Library(mode, n, patience, jobs, timeout, determinism) ==
    [caller |-> "library", mode |-> mode, trials |-> n, patience |-> patience, jobs |-> jobs,
     timeout |-> timeout, determinism |-> determinism, progress |-> FALSE]

MCCallers ==
    { CLI("optimize", 2), CLI("walk_forward", 1),
      Library("optimize", 4, 1, 1, TRUE, FALSE), Library("optimize", 4, 2, 2, FALSE, TRUE),
      Library("optimize", 4, 0, 2, FALSE, FALSE), Library("optimize", 4, 1, 2, FALSE, FALSE),
      Library("walk_forward", 2, 0, 1, FALSE, FALSE) }

\* Two workers and a patience of one trial: for ImprovementIsNotStale, which fails.
JobsCallers == { Library("optimize", 4, 1, 2, FALSE, FALSE) }

MCSymbols == <<"A", "B">>
MCStrategies == <<"SMACrossover", "Unknown">>
MCKnown == {"SMACrossover"}

\* Two weeks with a gap: windows of 4 and 3 days every 3 days, one without bars.
MCDays == {0, 1, 2, 3, 4, 5, 6, 10, 11, 12, 13}

Shown(trades, usable, spread, t, sharpe, bars, ci) ==
    [trades |-> trades, usable |-> usable, spread |-> spread, t |-> t, sharpe |-> sharpe,
     bars |-> bars, barSharpe |-> 1, ci |-> ci]

\* Strong, moderate, lost, thin after dropping non-finite P&L, constant, idle.
MCOutcomes ==
    { Shown(25, 25, TRUE, 300, 1, 60, TRUE), Shown(20, 20, TRUE, 180, 1, 60, FALSE),
      Shown(30, 30, TRUE, -200, -1, 60, FALSE), Shown(20, 3, TRUE, 900, 1, 10, FALSE),
      Shown(0, 0, FALSE, 0, 0, 40, FALSE) }

MCTCritical ==
    [df \in 1..40 |-> IF df < 4 THEN 235 ELSE IF df < 10 THEN 213 ELSE IF df < 19 THEN 181 ELSE 173]
==============================================================================
