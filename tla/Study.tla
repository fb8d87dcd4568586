-------------------------------- MODULE Study --------------------------------
(***************************************************************************)
(* optimize() of backtesting/engine/optimizer.py: an Optuna study over the *)
(* parameters of one strategy on one stretch of data.  Optuna itself is    *)
(* external and modelled by what optimize() relies on: workers ask for     *)
(* parameters, run the objective, tell the study the outcome, and then run *)
(* the callbacks in their own thread, while other workers go on.           *)
(*                                                                         *)
(* A landscape says what the backtest of each parameter choice yields on   *)
(* the data of the study: kind "ok" with an objective value, "invalid"     *)
(* (create_with_params refuses it), "error" or "nonfinite".                *)
(***************************************************************************)
EXTENDS Integers, FiniteSets, Sequences, FiniteSetsExt

CONSTANTS
    Params,       \* the parameter choices of the search space
    Landscapes    \* what the choices may yield: subset of [Params -> outcome]

VARIABLE study

\* A mark no objective takes, for "not yet".
NoValue == -99

ASSUME LandscapesAssumption ==
    /\ Landscapes \subseteq
         [Params -> [kind : {"ok", "invalid", "error", "nonfinite"}, value : Int, trades : Nat]]
    /\ \A land \in Landscapes, p \in Params :
          land[p].kind = "ok" => land[p].value # NoValue

NoStudy == [on |-> FALSE]

(***************************************************************************)
(* stale and best are the closure state of the early-stop callback, told   *)
(* the trials whose callbacks have run, ended the order of completion.     *)
(***************************************************************************)
NewStudy(land) ==
    [on |-> TRUE, land |-> land, trials |-> <<>>, ended |-> <<>>, told |-> {},
     best |-> NoValue, stale |-> 0, why |-> "running", result |-> {}]

Complete == {n \in DOMAIN study.trials : study.trials[n].state = "COMPLETE"}
Open == DOMAIN study.trials \ study.told
ValueOf(n) == study.trials[n].value
BestValue == Max({ValueOf(n) : n \in Complete})

\* Optuna keeps the first of the trials that share the best value.
BestTrial ==
    LET places == {i \in DOMAIN study.ended :
                      /\ study.ended[i] \in Complete
                      /\ ValueOf(study.ended[i]) = BestValue}
    IN  study.ended[Min(places)]

EffectiveJobs(s) == IF s.determinism THEN 1 ELSE s.jobs

Ask(s) ==
    /\ study.on /\ study.why = "running"
    /\ Len(study.trials) < s.trials /\ Cardinality(Open) < EffectiveJobs(s)
    /\ \E p \in Params :
        study' = [study EXCEPT !.trials =
                    Append(@, [params |-> p, state |-> "RUNNING", value |-> NoValue])]

\* What failed or is not finite is pruned: it never becomes a value.
Objective(p, y) ==
    IF y.kind = "ok" THEN [params |-> p, state |-> "COMPLETE", value |-> y.value]
    ELSE [params |-> p, state |-> "PRUNED", value |-> NoValue]

Tell(n) ==
    /\ study.on /\ n \in DOMAIN study.trials /\ study.trials[n].state = "RUNNING"
    /\ LET p == study.trials[n].params
       IN  study' = [study EXCEPT !.trials[n] = Objective(p, study.land[p]),
                                  !.ended = Append(@, n)]

\* Mutant: a value that ties with the best resets the count.
EarlyStopTies(s, n) ==
    IF s.patience = 0 \/ n \notin Complete THEN [study EXCEPT !.told = @ \cup {n}]
    ELSE IF study.best = NoValue \/ ValueOf(n) = BestValue
         THEN [study EXCEPT !.told = @ \cup {n}, !.best = ValueOf(n), !.stale = 0]
         ELSE [study EXCEPT !.told = @ \cup {n}, !.stale = @ + 1,
                            !.why = IF study.stale + 1 >= s.patience THEN "patience" ELSE @]

(***************************************************************************)
(* The early-stop callback of trial n: pruned trials do not count, the     *)
(* first value only sets the mark, a value improves when it is the study's *)
(* best by now and not the mark.                                           *)
(***************************************************************************)
EarlyStop(s, n) ==
    CASE s.patience = 0 \/ n \notin Complete ->
            [study EXCEPT !.told = @ \cup {n}]
      [] s.patience > 0 /\ n \in Complete /\ study.best = NoValue ->
            [study EXCEPT !.told = @ \cup {n}, !.best = ValueOf(n)]
      [] s.patience > 0 /\ n \in Complete /\ study.best # NoValue
            /\ ValueOf(n) = BestValue /\ ValueOf(n) # study.best ->
            [study EXCEPT !.told = @ \cup {n}, !.best = ValueOf(n), !.stale = 0]
      [] OTHER ->
            [study EXCEPT !.told = @ \cup {n}, !.stale = @ + 1,
                          !.why = IF @ = "running" /\ study.stale + 1 >= s.patience
                                  THEN "patience" ELSE @]

\* The progress callback reads best_trial: it raises until a trial completes.
ProgressRaises(s) == s.progress /\ Complete = {}

CallbackDue(n) ==
    study.on /\ n \in Open /\ study.trials[n].state # "RUNNING"

Callback(s, n) ==
    /\ CallbackDue(n) /\ ~ProgressRaises(s)
    /\ study' = EarlyStop(s, n)

TimeOut(s) ==
    /\ study.on /\ s.timeout /\ study.why = "running"
    /\ study' = [study EXCEPT !.why = "timeout"]

StudyOver(s) ==
    study.on /\ Open = {} /\ (study.why # "running" \/ Len(study.trials) = s.trials)

(***************************************************************************)
(* _build_optimization_result: the best trial's parameters are backtested  *)
(* once more for the full result; without a completed trial, an error.     *)
(***************************************************************************)
BestParams == study.trials[BestTrial].params

OptimizationFails == Complete = {}

\* The other completed trials, of which save_optimization keeps a summary.
Others == {study.trials[n].params : n \in Complete} \ {BestParams}
-----------------------------------------------------------------------------
\* Where in the order of completion the values are whose callback has run.
Ran == {i \in DOMAIN study.ended : study.ended[i] \in Complete \cap study.told}
ValueAt(i) == ValueOf(study.ended[i])

\* The last k values, at least, brought nothing above one that was there before them.
Stagnant(k) ==
    \E i \in Ran :
        /\ Cardinality({j \in Ran : j > i}) >= k
        /\ \A j \in Ran : j > i => ValueAt(j) <= ValueAt(i)
=============================================================================
