--------------------------- MODULE MCStrategyRun ---------------------------
(***************************************************************************)
(* Two runs on one class, over data that starts on either of two bars: a   *)
(* gated run and a gate-less one, with and without a warm-up prefix, the   *)
(* pre-load answering or not, for every template.                          *)
(***************************************************************************)
EXTENDS StrategyRun

CONSTANT Templates

BlockNews == [event |-> 2, known |-> 1 * BarsPerDay, before |-> 1, after |-> 0, mult |-> 100,
              action |-> "BLOCK_NEW_ENTRIES", severity |-> 1, importance |-> 1]
HalveAfter == [event |-> 2, known |-> None, before |-> 2, after |-> 2, mult |-> 50,
               action |-> "REDUCE_POSITION_SIZE", severity |-> 2, importance |-> 1]
StopLater == [event |-> 6, known |-> 5 * BarsPerDay + BarsPerDay \div 2,
              before |-> 2, after |-> 0, mult |-> 0,
              action |-> "REDUCE_POSITION_SIZE", severity |-> 3, importance |-> 1]
Weak == [event |-> 3, known |-> 0, before |-> 1, after |-> 1, mult |-> 20,
         action |-> "REDUCE_POSITION_SIZE", severity |-> 0, importance |-> 1]
MCDecisions == {BlockNews, HalveAfter, StopLater, Weak}

EventGate == [enabled |-> TRUE, allowed |-> {"BLOCK_NEW_ENTRIES", "REDUCE_POSITION_SIZE"},
              minSeverity |-> 1, minImportance |-> 1]

MCConfigs ==
    {[template |-> t, first |-> f * BarsPerDay, bars |-> 7, warmup |-> w, gate |-> g,
      preload |-> p, cash |-> 100, commission |-> 1, registry |-> w > 0,
      raiseOnNone |-> ~p, unfixable |-> FALSE, stop |-> p, exitOnMean |-> w > 0] :
        t \in Templates, f \in {0, 3}, w \in {0, 2}, g \in {NoGate, EventGate}, p \in BOOLEAN}
    \cup
    {[template |-> t, first |-> 0, bars |-> n, warmup |-> 0, gate |-> NoGate,
      preload |-> TRUE, cash |-> 100, commission |-> 1, registry |-> TRUE,
      raiseOnNone |-> FALSE, unfixable |-> TRUE, stop |-> FALSE, exitOnMean |-> FALSE] :
        t \in Templates, n \in {1, 5}}
    \cup
    {[template |-> t, first |-> 0, bars |-> 4, warmup |-> w, gate |-> NoGate,
      preload |-> FALSE, cash |-> 100, commission |-> 1, registry |-> TRUE,
      raiseOnNone |-> FALSE, unfixable |-> FALSE, stop |-> FALSE, exitOnMean |-> FALSE] :
        t \in Templates, w \in {1, 2}}
=============================================================================
