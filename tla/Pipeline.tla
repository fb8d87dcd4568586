------------------------------- MODULE Pipeline -------------------------------
(***************************************************************************)
(* The backtesting pipeline: run_pipeline of backtesting/cli.py fetches    *)
(* the symbols, takes symbol and strategy combinations one by one, runs a  *)
(* study (optimize) or one per window (walk_forward_validate) and saves    *)
(* the trials through ResultStore, each save a transaction of its own.  A  *)
(* first Ctrl+C is noticed between tasks, a second one exits at once.      *)
(*                                                                         *)
(* The library's callers use the same engine with the settings the command *)
(* line leaves at their defaults and keep the results with                 *)
(* save_optimization and save_walk_forward.                                *)
(***************************************************************************)
EXTENDS Study, WalkForward, SequencesExt

CONSTANTS
    Callers,      \* how the engine may be called: records of settings
    Symbols,      \* the symbols asked for, in order
    Strategies,   \* the strategies asked for, in order
    Known,        \* those the command line can resolve
    Days,         \* the trading days of the data fetched
    Train, Test, Step,   \* the window sizes, in days
    Outcomes      \* what the backtest of a test window may show

\* A symbol and a strategy are asked for once: the error report tells the
\* combinations apart by their names.
ASSUME NamesAssumption ==
    /\ Symbols \in Seq({Symbols[i] : i \in DOMAIN Symbols}) /\ Symbols # <<>>
    /\ \A i, j \in DOMAIN Symbols : Symbols[i] = Symbols[j] => i = j
    /\ Strategies \in Seq({Strategies[i] : i \in DOMAIN Strategies})
    /\ \A i, j \in DOMAIN Strategies : Strategies[i] = Strategies[j] => i = j

ASSUME CallersAssumption ==
    \A c \in Callers :
        /\ c.caller \in {"cli", "library"} /\ c.mode \in {"optimize", "walk_forward"}
        /\ c.trials \in Nat /\ c.patience \in Nat /\ c.jobs \in Nat \ {0}
        /\ c.determinism \in BOOLEAN

ASSUME SplitsAssumption ==
    /\ Days \subseteq Int /\ IsFiniteSet(Days) /\ Days # {}
    /\ Train \in Nat \ {0} /\ Test \in Nat \ {0} /\ Step \in Nat \ {0}

ASSUME OutcomesAssumption ==
    \A o \in Outcomes :
        /\ o.trades \in Nat /\ o.usable \in Nat /\ o.t \in Int /\ o.sharpe \in Int
        /\ o.spread \in BOOLEAN
        /\ TCritical[Max({1, o.usable - 1})] \in Int

VARIABLES
    call,         \* the settings of this call
    phase,
    interrupted,  \* Ctrl+C seen
    asked,        \* symbols tried
    data,         \* symbols with data, in order
    combo,        \* combinations begun (combo_idx)
    windows,      \* windows evaluated
    crashed,      \* windows that crashed
    unsaved,      \* commits still to make for the combination
    rows,         \* trials stored
    results,      \* what the call returns
    errors,       \* contexts of the error report
    told          \* what the progress callback was told last

pipelineVars == <<study, call, phase, interrupted, asked, data, combo, windows,
                  crashed, unsaved, rows, results, errors, told>>

Live == phase \notin {"printed", "crashed", "no_data", "aborted"}
Combos == Len(data) * Len(Strategies)
Pair(k) == [symbol |-> data[(k - 1) \div Len(Strategies) + 1],
            strategy |-> Strategies[((k - 1) % Len(Strategies)) + 1]]
Current == Pair(combo)

\* What the error report calls combination k: a strategy that cannot be resolved
\* is named without the symbol.
Context(k) == IF Pair(k).strategy \in Known THEN Pair(k)
              ELSE [strategy |-> Pair(k).strategy]

Splits == Windows(Days, Train, Test, Step)

Quiet == UNCHANGED <<call, interrupted, asked, data>>

(***************************************************************************)
(* _handle_sigint runs between any two steps of the main thread.           *)
(***************************************************************************)
HandleSigint ==
    /\ Live /\ call.caller = "cli"
    /\ interrupted' = TRUE
    /\ phase' = IF interrupted THEN "aborted" ELSE phase
    /\ UNCHANGED <<study, call, asked, data, combo, windows, crashed, unsaved,
                   rows, results, errors, told>>

Fetch(found) ==
    /\ phase = "fetch" /\ ~interrupted /\ asked < Len(Symbols)
    /\ asked' = asked + 1
    /\ data' = IF found = "data" THEN Append(data, Symbols[asked + 1]) ELSE data
    /\ errors' = IF found = "error" THEN errors \cup {[symbol |-> Symbols[asked + 1]]} ELSE errors
    /\ UNCHANGED <<study, call, phase, interrupted, combo, windows, crashed, unsaved,
                   rows, results, told>>

Fetched ==
    /\ phase = "fetch" /\ (interrupted \/ asked = Len(Symbols))
    /\ phase' = IF data = <<>> THEN "no_data" ELSE "next"
    /\ UNCHANGED <<study, call, interrupted, asked, data, combo, windows, crashed,
                   unsaved, rows, results, errors, told>>

(***************************************************************************)
(* The head of the loop over the combinations.  A strategy that cannot be  *)
(* resolved is an error, and the progress callback is not told of it.      *)
(***************************************************************************)
BeginCombo(land) ==
    /\ phase = "next" /\ ~interrupted /\ combo < Combos
    /\ combo' = combo + 1
    /\ windows' = <<>> /\ crashed' = 0 /\ unsaved' = <<>>
    /\ IF Pair(combo + 1).strategy \notin Known
       THEN errors' = errors \cup {Context(combo + 1)} /\ UNCHANGED <<phase, study>>
       ELSE /\ UNCHANGED errors
            /\ IF call.mode = "walk_forward" /\ Splits = <<>>
               THEN phase' = "saving" /\ UNCHANGED study
               ELSE phase' = "study" /\ study' = NewStudy(land)
    /\ Quiet /\ UNCHANGED <<rows, results, told>>

LoopEnds ==
    /\ phase = "next" /\ (interrupted \/ combo = Combos)
    /\ phase' = IF call.caller = "cli" THEN "summary" ELSE "printed"
    /\ Quiet /\ UNCHANGED <<study, combo, windows, crashed, unsaved, rows, results,
                            errors, told>>

\* The except clause of a combination, and the progress report after it.
ComboFails ==
    /\ errors' = errors \cup {Current}
    /\ phase' = "next" /\ told' = combo
    /\ study' = NoStudy /\ unsaved' = <<>>
    /\ Quiet /\ UNCHANGED <<combo, windows, crashed, rows, results>>

Row(kind, window, verdict) ==
    [combo |-> combo, kind |-> kind, window |-> window, validated |-> verdict]

(***************************************************************************)
(* The study of the combination, or of its window.                         *)
(***************************************************************************)
StudyStep ==
    /\ phase = "study"
    /\ \/ Ask(call) \/ TimeOut(call)
       \/ \E n \in DOMAIN study.trials : Tell(n) \/ Callback(call, n)
    /\ Quiet /\ UNCHANGED <<phase, combo, windows, crashed, unsaved, rows, results,
                            errors, told>>

ProgressCallbackRaises ==
    /\ phase = "study" /\ ProgressRaises(call)
    /\ \E n \in DOMAIN study.trials : CallbackDue(n)
    /\ ComboFails

\* optimize() returns; the best trial is saved in a commit of its own.
Optimized ==
    /\ phase = "study" /\ call.mode = "optimize" /\ StudyOver(call) /\ ~OptimizationFails
    /\ study' = [study EXCEPT !.on = FALSE, !.result = {BestParams}]
    /\ LET best == {Row("best", BestParams, "none")}
           summary == {Row("summary", p, "none") : p \in Others}
       IN  unsaved' = IF call.caller = "cli" THEN <<best>> ELSE <<best, summary>>
    /\ phase' = "saving"
    /\ Quiet /\ UNCHANGED <<combo, windows, crashed, rows, results, errors, told>>

OptimizationError ==
    /\ phase = "study" /\ call.mode = "optimize" /\ StudyOver(call) /\ OptimizationFails
    /\ ComboFails

(***************************************************************************)
(* One window of walk_forward_validate.  A failure to optimize or to       *)
(* evaluate counts against the verdict, and the next window follows.       *)
(***************************************************************************)
Window == Len(windows) + crashed + 1

\* The next window's study, or after the last one the trials to save.
Onward(evaluated, lost, land) ==
    IF Len(evaluated) + lost < Len(Splits)
    THEN phase' = "study" /\ study' = NewStudy(land) /\ UNCHANGED unsaved
    ELSE /\ phase' = "saving" /\ study' = NoStudy
         /\ unsaved' =
              [i \in 1..(2 * Len(evaluated)) |->
                 LET w == evaluated[(i + 1) \div 2]
                 IN  {Row(IF i % 2 = 1 THEN "train" ELSE "test", w.index,
                          IF (call.caller = "cli" /\ Verdict(evaluated, lost))
                             \/ (call.caller # "cli" /\ w.valid)
                          THEN "yes" ELSE "no")}]

WindowCrashes(land) ==
    /\ phase = "study" /\ call.mode = "walk_forward" /\ StudyOver(call)
    /\ crashed' = crashed + 1 /\ UNCHANGED windows
    /\ Onward(windows, crashed + 1, land)
    /\ Quiet /\ UNCHANGED <<combo, rows, results, errors, told>>

Span(days) == Max({Max(days) - Min(days), 1})

WindowEvaluated(o, land) ==
    /\ phase = "study" /\ call.mode = "walk_forward" /\ StudyOver(call) /\ ~OptimizationFails
    /\ LET split == Splits[Window]
           tier == Assess(o, study.land[BestParams].trades, Span(split.train), Span(split.test))
           all == Append(windows, [index |-> Window, shown |-> o, valid |-> Validates(tier)])
       IN  windows' = all /\ Onward(all, crashed, land)
    /\ Quiet /\ UNCHANGED <<crashed, combo, rows, results, errors, told>>

(***************************************************************************)
(* Saving: each element is one save_trial, or the rest of                  *)
(* save_optimization, and commits for itself.  What a failure finds        *)
(* committed stays, and the combination becomes an error.                  *)
(***************************************************************************)
Save ==
    /\ phase = "saving" /\ unsaved # <<>>
    /\ rows' = rows \cup Head(unsaved) /\ unsaved' = Tail(unsaved)
    /\ Quiet /\ UNCHANGED <<study, phase, combo, windows, crashed, results, errors, told>>

SaveFails == phase = "saving" /\ unsaved # <<>> /\ ComboFails

\* Mutant: the result is reported before its trials are saved.
ReportUnsaved ==
    /\ phase = "saving"
    /\ results' = Append(results, [combo |-> combo, evaluated |-> Len(windows),
                        validated |-> Verdict(windows, crashed)])
    /\ phase' = "next" /\ told' = combo /\ study' = NoStudy
    /\ Quiet /\ UNCHANGED <<combo, windows, crashed, unsaved, rows, errors>>

Report ==
    /\ phase = "saving" /\ unsaved = <<>>
    /\ results' = Append(results, [combo |-> combo, evaluated |-> Len(windows),
                        validated |-> Verdict(windows, crashed)])
    /\ phase' = "next" /\ told' = combo /\ study' = NoStudy
    /\ Quiet /\ UNCHANGED <<combo, windows, crashed, unsaved, rows, errors>>

(***************************************************************************)
(* _print_summary formats the totals of every result as numbers; those of  *)
(* a walk-forward result are None.                                         *)
(***************************************************************************)
PrintSummary ==
    /\ phase = "summary"
    /\ phase' = IF call.mode = "walk_forward" /\ results # <<>> THEN "crashed" ELSE "printed"
    /\ Quiet /\ UNCHANGED <<study, combo, windows, crashed, unsaved, rows, results,
                            errors, told>>

PipelineInit ==
    /\ call \in Callers
    /\ phase = IF call.caller = "cli" THEN "fetch" ELSE "next"
    /\ data = IF call.caller = "cli" THEN <<>> ELSE <<Symbols[1]>>
    /\ interrupted = FALSE /\ asked = 0 /\ combo = 0 /\ told = 0
    /\ study = NoStudy /\ windows = <<>> /\ crashed = 0 /\ unsaved = <<>>
    /\ rows = {} /\ results = <<>> /\ errors = {}

PipelineNext ==
    \/ HandleSigint \/ Fetched \/ LoopEnds
    \/ \E found \in {"data", "empty", "error"} : Fetch(found)
    \/ \E land \in Landscapes : BeginCombo(land) \/ WindowCrashes(land)
    \/ \E o \in Outcomes, land \in Landscapes : WindowEvaluated(o, land)
    \/ StudyStep \/ ProgressCallbackRaises \/ Optimized \/ OptimizationError
    \/ Save \/ SaveFails \/ Report \/ PrintSummary

PipelineSpec == PipelineInit /\ [][PipelineNext]_pipelineVars
-----------------------------------------------------------------------------
(***************************************************************************)
(* A study returns the best of the choices it tried that really could be   *)
(* backtested to a finite value, never one that failed, and fails only     *)
(* when none of them could (M8 of optimize).                               *)
(***************************************************************************)
BestOfTheStudy ==
    phase \in {"study", "saving"} /\ study # NoStudy =>
        LET tried == {study.trials[n].params : n \in DOMAIN study.trials}
            sound == {p \in tried : study.land[p].kind = "ok"}
        IN  /\ \A p \in study.result :
                  p \in sound /\ \A q \in sound : study.land[q].value <= study.land[p].value
            /\ StudyOver(call) => (OptimizationFails <=> sound = {})

(***************************************************************************)
(* A study with a patience stops exactly when that many completed trials   *)
(* in a row have brought nothing better than what was there before them,   *)
(* pruned ones left aside, as long as one worker runs them                 *)
(* (_make_early_stop_callback).                                            *)
(***************************************************************************)
PatienceIsKept ==
    study # NoStudy /\ call.patience > 0 /\ EffectiveJobs(call) = 1 =>
        /\ study.why = "patience" => Stagnant(call.patience)
        /\ study.why = "running" => ~Stagnant(call.patience)

(***************************************************************************)
(* A study ends when it should, and with what it should.                   *)
(***************************************************************************)
StudyIsHonest == BestOfTheStudy /\ PatienceIsKept

(***************************************************************************)
(* "A trial counts as 'no improvement' when its value is not strictly      *)
(* better than the best-seen so far" (_make_early_stop_callback): one that *)
(* is better starts the count anew.                                        *)
(***************************************************************************)
ImprovementIsNotStale ==
    [][study.on /\ study'.on /\ call.patience > 0 =>
          \A n \in (study'.told \ study.told) \cap Complete :
              study.best # NoValue /\ ValueOf(n) > study.best => study'.stale = 0]_study

(***************************************************************************)
(* A strategy is reported as validated only when more than half of all the *)
(* windows its data offers, crashed ones included, showed a positive edge  *)
(* on at least the floor of usable trades that differ, at no less than the *)
(* base significance (H6, R10 of walk_forward.py and confidence.py).       *)
(***************************************************************************)
Convincing(o) ==
    o.usable >= Floor /\ o.spread /\ o.t >= ValidateT /\ o.sharpe >= 0

ValidatedByMajority ==
    call.mode = "walk_forward" /\ phase = "next" /\ results # <<>> /\ Last(results).combo = combo
        /\ Last(results).validated =>
            2 * Cardinality({i \in DOMAIN windows : Convincing(windows[i].shown)}) > Len(Splits)

(***************************************************************************)
(* No combination is lost: each one begun, but the one in progress, is     *)
(* reported or in the error report, by itself or with every other of its   *)
(* unknown strategy, never both; a reported one has every trial it rests   *)
(* on stored, train and test of each window under one verdict; trials that *)
(* no result mentions belong to a reported error.                          *)
(***************************************************************************)
Reported == {results[i].combo : i \in DOMAIN results}
Failed == {k \in 1..combo : Context(k) \in errors}

\* What is stored bears a result out.
Backed(x) ==
    LET own == {r \in rows : r.combo = x.combo}
    IN  IF call.mode = "optimize" THEN \E r \in own : r.kind = "best"
        ELSE /\ Cardinality(own) = 2 * x.evaluated
             /\ call.caller = "cli" => \A r \in own : (r.validated = "yes") = x.validated

EveryComboIsAccountedFor ==
    phase \in {"next", "summary", "printed", "crashed"} =>
        /\ Reported \cup Failed = 1..combo /\ Reported \cap Failed = {}
        /\ \A i \in DOMAIN results : Backed(results[i])
        /\ \A r \in rows : r.combo \in Reported \cup Failed

(***************************************************************************)
(* The command line's own example "--preset standard --walk-forward" is    *)
(* to end in a results summary, as every other run does.                   *)
(***************************************************************************)
SummaryIsPrinted == phase # "crashed"
=============================================================================
