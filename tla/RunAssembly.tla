----------------------------- MODULE RunAssembly -----------------------------
(***************************************************************************)
(* How a request becomes the run that TrialReview judges: StartRunRequest  *)
(* of ai/research/router.py and run_research of ai/research/run.py.  Each  *)
(* option is settled by its own rule, in this order: the enums, the OOS    *)
(* switch and the window, the provider, the coverage memory, the softened  *)
(* gate, the lockbox.                                                      *)
(*                                                                         *)
(* A day is a number.  What the power canary measures is external: Power   *)
(* gives, in per cent, the power of the DSR gate at its reference edge.    *)
(***************************************************************************)
EXTENDS TrialReview

CONSTANTS
    Providers,        \* the registry, in order: name, active, and models
    DefaultWindow,    \* WINDOW_START and WINDOW_END, as first and last
    MinHoldDays,      \* MIN_HOLD_DAYS
    Power(_),         \* the length of a window, in days -> per cent
    PowerFloor,
    CanaryHealthy,    \* the canary's check of itself
    LockboxOpens      \* OOSLockboxService can be built

Span(w) == w.last - w.first

\* The pair is there and ordered.
ProperWindow(w) == None \notin {w.first, w.last} /\ w.first < w.last

\* Refused with a message, by the request model or by run_research.
Accepted(q) ==
    /\ q.agents \in Agents /\ q.rigor \in Rigors /\ q.mode \in Modes
    /\ q.mode = "regime" => ProperWindow(q.window)

\* Strict rigor forces the lockbox on; regime mode has none.
EnableOOS(q) == (q.oos \/ q.rigor = "strict") /\ q.mode # "regime"

EffectiveWindow(q) == IF q.mode = "regime" THEN q.window ELSE DefaultWindow

(***************************************************************************)
(* _train_split: the last quarter of a window, four months at least, is    *)
(* held out; a window of which that would be over two fifths is not split. *)
(***************************************************************************)
Splits(w) == Span(w) > 0 /\ 2 * Span(w) >= 5 * MinHoldDays

TrainEnd(w) ==
    w.last - IF Span(w) \div 4 > MinHoldDays THEN Span(w) \div 4 ELSE MinHoldDays

\* What the strategist, the backtests, the gates and the critic see.
TrainWindow(q) ==
    LET w == EffectiveWindow(q)
    IN  IF q.mode = "regime" /\ Splits(w) THEN [w EXCEPT !.last = TrainEnd(w)] ELSE w

(***************************************************************************)
(* resolve_agent_llm: the provider named, or the first active one with a   *)
(* model that reasons, or the first active one; of it the model named, or  *)
(* its first.                                                              *)
(***************************************************************************)
First(S) == CHOOSE i \in S : \A j \in S : i <= j

AutoPick ==
    LET active == { i \in DOMAIN Providers : Providers[i].active }
        reasoning == { i \in active : \E k \in DOMAIN Providers[i].models :
                                          Providers[i].models[k].reasoning }
    IN  IF reasoning # {} THEN First(reasoning) ELSE IF active # {} THEN First(active) ELSE 0

Picked(q) ==
    LET named == { i \in DOMAIN Providers : Providers[i].name = q.provider }
    IN  IF q.provider = None THEN AutoPick ELSE IF named = {} THEN 0 ELSE First(named)

ResolveLLM(q) ==
    LET models == IF Picked(q) = 0 THEN <<>> ELSE Providers[Picked(q)].models
        named == { k \in DOMAIN models : models[k].id = q.model }
    IN  IF models = <<>> THEN None
        ELSE models[IF named = {} THEN 1 ELSE First(named)]

\* Without a model to talk to the run goes by rules, and says so.
EffectiveAgents(q) ==
    IF q.agents # "rule_based" /\ ResolveLLM(q) = None THEN "rule_based" ELSE q.agents

Priced(q) == ResolveLLM(q) # None /\ ResolveLLM(q).priced

\* The coverage memory, and the DSR hurdle it may raise.
CoverageDsr(q) == q.coverageDsr /\ q.coverageMemory /\ q.mode = "robustness"

(***************************************************************************)
(* _resolve_soft_dsr: a request that has no lockbox behind it, or a gate   *)
(* that really filters, ends the run with an error.                        *)
(***************************************************************************)
AtLeast45(days) == IF days < 45 THEN 45 ELSE days

SoftDsrGranted(q) ==
    q.softDsr => /\ EnableOOS(q) /\ q.mode = "robustness"
                 /\ CanaryHealthy
                 /\ Power(AtLeast45(Span(EffectiveWindow(q)))) < PowerFloor

\* No lockbox, no run: OOS that was asked for is never left out.
LockboxGranted(q) == EnableOOS(q) => LockboxOpens

Runs(q) == Accepted(q) /\ SoftDsrGranted(q) /\ LockboxGranted(q)

\* What the agents of the run are built with.
SettingsOf(q) ==
    [rigor |-> q.rigor, mode |-> q.mode, softDsr |-> q.softDsr,
     coverageDsr |-> CoverageDsr(q), canary |-> q.canary,
     agents |-> EffectiveAgents(q), priced |-> Priced(q)]

-----------------------------------------------------------------------------
(***************************************************************************)
(* Selecting on the training part leaves a hold-out worth the name: it is  *)
(* at least four months and at most two fifths of the window, and all of   *)
(* it lies behind what the selection sees (_train_split).                  *)
(***************************************************************************)
HoldoutIsFair(w) ==
    Splits(w) =>
        LET held == w.last - TrainEnd(w)
        IN  /\ w.first < TrainEnd(w) /\ held >= MinHoldDays
            /\ 5 * held <= 2 * Span(w)

(***************************************************************************)
(* What a run may loosen it must back: with a softened DSR gate there is a *)
(* lockbox, as there is under strict rigor unless the run is of a regime.  *)
(***************************************************************************)
BackedByTheLockbox(q) ==
    Runs(q) =>
        /\ SettingsOf(q).softDsr \/ (q.rigor = "strict" /\ q.mode = "robustness")
              => EnableOOS(q) /\ LockboxOpens
        /\ SettingsOf(q).softDsr => SettingsOf(q).mode = "robustness"
===============================================================================
