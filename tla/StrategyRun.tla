---------------------------- MODULE StrategyRun ----------------------------
(***************************************************************************)
(* One backtest after another on the same strategy class: run_backtest     *)
(* (engine/runner.py) attaches the event gates and the warm-up mask to the *)
(* class, backtesting.py walks the bars, and each template's next() enters *)
(* through StrategyBase._gated_buy.  The broker of backtesting.py is       *)
(* external and modelled by the behaviour the templates rely on: an order  *)
(* is carried out on the bar after the one that placed it, an entry may be *)
(* refused for lack of margin, a stop may close the position.              *)
(*                                                                         *)
(* Time counts bars since some epoch, a day has BarsPerDay of them; sizes  *)
(* are percent of equity, 100 being the all-in buy().  Which way the       *)
(* indicators point on a bar is free.                                      *)
(***************************************************************************)
EXTENDS Integers, FiniteSets, Sequences

CONSTANTS
    BarsPerDay,   \* bars of one calendar day: 1 for daily data
    Configs,      \* the BacktestConfigs a caller may run
    Decisions,    \* the persisted event_gate_decisions of the asset
    Pad,          \* days the gate query is widened on either side (30)
    MaxHolding,   \* max_holding_bars of the rebound template, in bars
    MaxRuns       \* bound: runs made on one class

(***************************************************************************)
(* A gate's own window is never longer than the padding of the query that  *)
(* pre-loads it: "30 days is comfortably wider than ... the longest known  *)
(* event-type window".                                                     *)
(***************************************************************************)
ASSUME PadAssumption ==
    /\ BarsPerDay \in Nat \ {0} /\ MaxRuns \in Nat /\ MaxHolding \in Nat \ {0}
    /\ Pad \in Nat /\ \A d \in Decisions : d.before <= Pad /\ d.after <= Pad

None == -1

ASSUME DecisionAssumption ==
    /\ IsFiniteSet(Decisions)
    /\ \A d \in Decisions :
          /\ d.event \in Int /\ d.known \in Nat \cup {None}
          /\ d.before \in Int /\ d.after \in Int /\ d.mult \in Nat
          /\ d.severity \in Int /\ d.importance \in Int

\* The warm-up prefix never is the whole of the data: "never let the warm-up
\* swallow the scoring window" (loop.py), a prefix before the test data elsewhere.
ASSUME ConfigAssumption ==
    \A c \in Configs :
        /\ c.first \in Nat /\ c.bars \in Nat
        /\ c.warmup \in Nat /\ (c.warmup = 0 \/ c.warmup < c.bars)
        /\ c.gate.enabled \in BOOLEAN /\ c.preload \in BOOLEAN /\ c.stop \in BOOLEAN

VARIABLES
    cls,        \* the class attributes the runner writes
    cfg,        \* the configuration of the run in progress
    bar,        \* bars processed so far
    order,      \* the order placed on the last bar, not yet carried out
    position,   \* the open position
    entry,      \* _entry_bar of the rebound template
    blocked,    \* blocked_log: the bars and the gates
    reduced,    \* reduced_log
    filled,     \* entries the broker carried out
    closed,     \* trades the statistics count
    result,     \* what the last run that ended reports
    outcome,    \* what run_backtest did last
    session,    \* registry events of the run, flushed
    saved,      \* registry events, committed by the runner
    runs        \* runs begun

vars == <<cls, cfg, bar, order, position, entry, blocked, reduced, filled,
          closed, result, outcome, session, saved, runs>>

Nothing == [kind |-> "none"]
NoResult == [trades |-> 0]
Flat == [size |-> 0, side |-> "buy", at |-> None, sl |-> FALSE]
NoGate == [enabled |-> FALSE]
Unattached == [gates |-> {}, gate |-> NoGate, start |-> None]

Running == outcome = "running"
Time(b) == cfg.first + b
DateOf(t) == t \div BarsPerDay

(***************************************************************************)
(* load_gates_for_backtest: the decisions whose event falls into the range *)
(* of the data, widened by the padding.                                    *)
(***************************************************************************)
Preload(c) ==
    {d \in Decisions :
        /\ d.event >= DateOf(c.first) - Pad
        /\ d.event <= DateOf(c.first + c.bars - 1) + Pad}

\* No database, or a running event loop: the run goes on without gates.
PreloadGatesBlocking(c) == IF c.preload THEN Preload(c) ELSE {}

\* Mutant: a gate-less run leaves what the run before it attached.
AttachKeepsGate(c) ==
    [gates |-> IF c.gate.enabled THEN PreloadGatesBlocking(c) ELSE cls.gates,
     gate  |-> IF c.gate.enabled THEN c.gate ELSE cls.gate,
     start |-> IF c.warmup > 0 /\ c.bars > c.warmup
               THEN c.first + c.warmup ELSE None]

Attach(c) ==
    [gates |-> IF c.gate.enabled THEN PreloadGatesBlocking(c) ELSE {},
     gate  |-> IF c.gate.enabled THEN c.gate ELSE NoGate,
     start |-> IF c.warmup > 0 /\ c.bars > c.warmup
               THEN c.first + c.warmup ELSE None]

(***************************************************************************)
(* apply_gate_at_decision: the strictest of the gates that are active on a *)
(* date.  A gate nobody knew of yet cannot act before it is known; without *)
(* a known date it cannot act before its event.                            *)
(***************************************************************************)
KnownDate(g) == IF g.known = None THEN g.event ELSE DateOf(g.known)

LowerDate(g) ==
    IF KnownDate(g) > g.event - g.before THEN KnownDate(g) ELSE g.event - g.before

Candidates(d) ==
    {g \in cls.gates :
        /\ LowerDate(g) <= d /\ d <= g.event + g.after
        /\ g.action \in cls.gate.allowed
        /\ g.severity >= cls.gate.minSeverity
        /\ g.importance >= cls.gate.minImportance}

Strictness(action) ==
    CASE action = "BLOCK_NEW_ENTRIES" -> 2
      [] action = "REDUCE_POSITION_SIZE" -> 1
      [] OTHER -> 0

Stricter(g, h) ==
    \/ Strictness(g.action) > Strictness(h.action)
    \/ /\ Strictness(g.action) = Strictness(h.action)
       /\ \/ g.severity > h.severity
          \/ g.severity = h.severity /\ g.event < h.event

AppliedGates(d) ==
    {g \in Candidates(d) : \A h \in Candidates(d) : ~Stricter(h, g)}

(***************************************************************************)
(* _gated_buy, _gated_sell: the gate decides whether and how large, the warm-up mask of *)
(* buy() may still swallow the order.  A full-equity intent is the all-in  *)
(* buy(); a gated fraction stays a fraction.                               *)
(***************************************************************************)
InWarmup(b) == cls.start # None /\ Time(b) < cls.start

SizeUnder(g) ==
    CASE g.action = "BLOCK_NEW_ENTRIES" -> 0
      [] g.action = "REDUCE_POSITION_SIZE" -> IF g.mult > 100 THEN 100 ELSE g.mult
      [] OTHER -> 100

Place(b, side, size, sl) ==
    order' = IF size > 0 /\ ~InWarmup(b)
             THEN [kind |-> "entry", side |-> side, size |-> size, at |-> b, sl |-> sl]
             ELSE Nothing

ApplyEventGate(b, side, sl) ==
    \/ /\ ~cls.gate.enabled \/ AppliedGates(DateOf(Time(b))) = {}
       /\ Place(b, side, 100, sl)
       /\ UNCHANGED <<blocked, reduced>>
    \/ /\ cls.gate.enabled
       /\ \E g \in AppliedGates(DateOf(Time(b))) :
            /\ Place(b, side, SizeUnder(g), sl)
            /\ blocked' = blocked \cup
                 (IF g.action = "BLOCK_NEW_ENTRIES" THEN {<<b, g>>} ELSE {})
            /\ reduced' = reduced \cup
                 (IF g.action = "REDUCE_POSITION_SIZE" THEN {<<b, g>>} ELSE {})

GatedBuy(b, sl) == ApplyEventGate(b, "buy", sl)
GatedSell(b) == ApplyEventGate(b, "sell", FALSE)

Wait == order' = Nothing /\ UNCHANGED <<blocked, reduced>>
Close == order' = [kind |-> "close"] /\ UNCHANGED <<blocked, reduced>>

(***************************************************************************)
(* next() of the templates, on the position the broker left.  seen is what *)
(* the indicators of the bar say: "enter", "leave" and, for Bollinger,     *)
(* "mean" when the price comes back to the middle band.                    *)
(***************************************************************************)
Cross(b, held, seen) ==
    /\ seen \in {{}, {"enter"}, {"leave"}}
    /\ CASE "enter" \in seen /\ ~held -> GatedBuy(b, FALSE)
         [] "leave" \in seen /\ held -> Close
         [] OTHER -> Wait
    /\ UNCHANGED entry

SMACrossoverNext(b, held, seen) ==
    cfg.template = "SMACrossover" /\ Cross(b, held, seen)

MACDSignalCrossNext(b, held, seen) ==
    cfg.template = "MACDSignalCross" /\ Cross(b, held, seen)

RSIMeanReversionNext(b, held, seen) ==
    cfg.template = "RSIMeanReversion" /\ Cross(b, held, seen)

DynamicStrategyNext(b, held, seen) ==
    cfg.template = "DynamicStrategy" /\ Cross(b, held, seen)

\* A template that routes the TradeSignal of the bar: LONG, SHORT or FLAT.
RouteSignal(b, held, seen) ==
    /\ cfg.template = "SignalRouter"
    /\ seen \in {{}, {"enter"}, {"leave"}, {"mean"}}
    /\ CASE seen = {"enter"} /\ ~(held /\ position'.side = "buy") -> GatedBuy(b, FALSE)
         [] seen = {"leave"} /\ ~(held /\ position'.side = "sell") -> GatedSell(b)
         [] seen = {"mean"} /\ held -> Close
         [] OTHER -> Wait
    /\ UNCHANGED entry

BollingerNext(b, held, seen) ==
    /\ cfg.template = "BollingerBreakout"
    /\ seen \in {{}, {"enter"}, {"leave"}, {"mean"}, {"leave", "mean"}}
    /\ CASE "enter" \in seen /\ ~held -> GatedBuy(b, cfg.stop)
         [] "leave" \in seen /\ held -> Close
         [] seen = {"mean"} /\ held /\ cfg.exitOnMean -> Close
         [] OTHER -> Wait
    /\ UNCHANGED entry

MultiNext(b, held, seen) ==
    /\ cfg.template = "MultiIndicator"
    /\ seen \in SUBSET {"enter", "leave"}
    /\ CASE ~held /\ "enter" \in seen -> GatedBuy(b, FALSE)
         [] held /\ "leave" \in seen -> Close
         [] OTHER -> Wait
    /\ UNCHANGED entry

\* Mutant: the entry bar is noted only where no gate applied.
ReboundNextUngated(b, held, seen) ==
    /\ cfg.template = "SentimentAwareRebound"
    /\ seen \in SUBSET {"enter", "leave"}
    /\ IF held
       THEN IF "leave" \in seen \/ b - entry >= MaxHolding
            THEN Close /\ entry' = None
            ELSE Wait /\ UNCHANGED entry
       ELSE IF "enter" \in seen
            THEN /\ GatedBuy(b, FALSE)
                 /\ entry' = IF blocked' = blocked /\ reduced' = reduced THEN b ELSE entry
            ELSE Wait /\ UNCHANGED entry

ReboundNext(b, held, seen) ==
    /\ cfg.template = "SentimentAwareRebound"
    /\ seen \in SUBSET {"enter", "leave"}
    /\ IF held
       THEN IF "leave" \in seen \/ b - entry >= MaxHolding
            THEN Close /\ entry' = None
            ELSE Wait /\ UNCHANGED entry
       ELSE IF "enter" \in seen
            THEN GatedBuy(b, FALSE) /\ entry' = b
            ELSE Wait /\ UNCHANGED entry

(***************************************************************************)
(* The broker's turn at the head of a bar (external).  Orders are          *)
(* exclusive: a new entry closes what is open, even if it is refused.      *)
(***************************************************************************)
Leaves(was) == closed' = IF was.size > 0 THEN closed + 1 ELSE closed

Broker(margin, stopped) ==
    CASE order.kind = "entry" ->
            /\ Leaves(position)
            /\ position' = IF margin
                           THEN [size |-> order.size, side |-> order.side,
                                 at |-> order.at, sl |-> order.sl]
                           ELSE Flat
            /\ filled' = IF margin THEN filled + 1 ELSE filled
      [] order.kind = "close" \/ (order.kind = "none" /\ position.sl /\ stopped) ->
            /\ Leaves(position) /\ position' = Flat /\ UNCHANGED filled
      [] OTHER -> UNCHANGED <<position, filled, closed>>

Bar(margin, stopped, seen) ==
    /\ Running /\ bar < cfg.bars - 1
    /\ bar' = bar + 1
    /\ Broker(margin, stopped)
    /\ LET held == position'.size > 0
       IN  \/ SMACrossoverNext(bar + 1, held, seen)
           \/ MACDSignalCrossNext(bar + 1, held, seen)
           \/ RSIMeanReversionNext(bar + 1, held, seen)
           \/ DynamicStrategyNext(bar + 1, held, seen)
           \/ RouteSignal(bar + 1, held, seen)
           \/ BollingerNext(bar + 1, held, seen)
           \/ MultiNext(bar + 1, held, seen)
           \/ ReboundNext(bar + 1, held, seen)
    /\ UNCHANGED <<cls, cfg, result, outcome, session, saved, runs>>

(***************************************************************************)
(* run_backtest up to the call of the library: the arguments are checked,  *)
(* RUN_STARTED is flushed, NaN prices that no fill repairs end the run,    *)
(* then the class attributes are written, every one of them on every run.  *)
(***************************************************************************)
Valid(c) == c.cash > 0 /\ c.commission >= 0 /\ c.commission < 100 /\ c.bars >= 2

\* A run of the same class may follow when the last one is over.
MayRun(c) == ~Running /\ runs < MaxRuns /\ c.template = cfg.template

Refuse(c) ==
    /\ MayRun(c) /\ ~Valid(c)
    /\ outcome' = "rejected" /\ runs' = runs + 1
    /\ UNCHANGED <<cls, cfg, bar, order, position, entry, blocked, reduced,
                   filled, closed, result, session, saved>>

Started(c) == IF c.registry THEN {<<"RUN_STARTED">>, <<>>} ELSE {<<>>}

Begin(c) ==
    /\ MayRun(c) /\ Valid(c) /\ ~c.unfixable
    /\ cls' = Attach(c)
    /\ cfg' = c /\ runs' = runs + 1 /\ outcome' = "running"
    /\ session' \in Started(c) /\ saved' = <<>>
    /\ bar' = 0 /\ order' = Nothing /\ position' = Flat /\ entry' = None
    /\ blocked' = {} /\ reduced' = {} /\ filled' = 0 /\ closed' = 0
    /\ result' = NoResult

BadPrices(c) ==
    /\ MayRun(c) /\ Valid(c) /\ c.unfixable
    /\ cfg' = c /\ runs' = runs + 1 /\ outcome' = "failed"
    /\ session' \in Started(c) /\ saved' = <<>>
    /\ bar' = 0 /\ order' = Nothing /\ position' = Flat /\ entry' = None
    /\ blocked' = {} /\ reduced' = {} /\ filled' = 0 /\ closed' = 0
    /\ result' = NoResult /\ UNCHANGED cls

(***************************************************************************)
(* The end of the run.  finalize_trades closes what is open, so that every *)
(* trade counts; RUN_COMPLETED is committed, and only then may a run       *)
(* without trades be refused.  A failure to write an event is swallowed.   *)
(***************************************************************************)
Record(type, written) ==
    IF session # <<>> /\ written
    THEN session' = <<>> /\ saved' = session \o <<type>>
    ELSE UNCHANGED <<session, saved>>

(***************************************************************************)
(* The result of a run: its trades, the sizes of its logs, and the bars    *)
(* that its return and the buy-and-hold benchmark are measured over.  Both *)
(* skip the warm-up prefix; a window of at most two bars is not resliced.  *)
(***************************************************************************)
Resliced == IF cfg.bars > cfg.warmup + 2 THEN cfg.warmup ELSE 0
Benchmarked == cfg.warmup

Result(trades) ==
    [trades |-> trades, from |-> Resliced, benchmark |-> Benchmarked,
     blocked |-> Cardinality(blocked), reduced |-> Cardinality(reduced)]

\* Mutant: finalize_trades left at its default.
FinishOpen(written) ==
    /\ Running /\ bar = cfg.bars - 1
    /\ position' = Flat /\ order' = Nothing
    /\ outcome' = IF cfg.raiseOnNone /\ closed = 0 THEN "no_trades" ELSE "completed"
    /\ result' = Result(closed)
    /\ Record("RUN_COMPLETED", written)
    /\ UNCHANGED <<cls, cfg, bar, entry, blocked, reduced, filled, closed, runs>>

Finish(written) ==
    /\ Running /\ bar = cfg.bars - 1
    /\ closed' = IF position.size > 0 THEN closed + 1 ELSE closed
    /\ position' = Flat /\ order' = Nothing
    /\ outcome' = IF cfg.raiseOnNone /\ closed' = 0 THEN "no_trades" ELSE "completed"
    /\ result' = IF outcome' = "completed" THEN Result(closed') ELSE result
    /\ Record("RUN_COMPLETED", written)
    /\ UNCHANGED <<cls, cfg, bar, entry, blocked, reduced, filled, runs>>

Raise(written) ==
    /\ Running
    /\ outcome' = "failed"
    /\ Record("RUN_FAILED_INFRA", written)
    /\ UNCHANGED <<cls, cfg, bar, order, position, entry, blocked, reduced,
                   filled, closed, result, runs>>

Init ==
    /\ cls = Unattached /\ cfg \in Configs /\ bar = 0 /\ order = Nothing
    /\ position = Flat /\ entry = None /\ blocked = {} /\ reduced = {}
    /\ filled = 0 /\ closed = 0 /\ outcome = "idle" /\ result = NoResult
    /\ session = <<>> /\ saved = <<>> /\ runs = 0

Next ==
    \/ \E c \in Configs : Refuse(c) \/ Begin(c) \/ BadPrices(c)
    \/ \E margin, stopped \in BOOLEAN, seen \in SUBSET {"enter", "leave", "mean"} :
            Bar(margin, stopped, seen)
    \/ \E written \in BOOLEAN : Finish(written) \/ Raise(written)

Spec == Init /\ [][Next]_vars
-----------------------------------------------------------------------------
(***************************************************************************)
(* The decisions that bind a bar, said without the frame the runner loads: *)
(* the bar's date lies in the decision's own window, the event was known   *)
(* by then, and the run's configuration honours it.                        *)
(***************************************************************************)
Binding(b) ==
    {g \in Decisions :
        /\ cfg.gate.enabled /\ cfg.preload
        /\ DateOf(Time(b)) \in (g.event - g.before)..(g.event + g.after)
        /\ DateOf(Time(b)) >= (IF g.known = None THEN g.event ELSE DateOf(g.known))
        /\ g.action \in cfg.gate.allowed
        /\ g.severity >= cfg.gate.minSeverity
        /\ g.importance >= cfg.gate.minImportance}

Reducing(b) == {g \in Binding(b) : g.action = "REDUCE_POSITION_SIZE"}

Due(b) ==
    IF \E g \in Binding(b) : g.action = "BLOCK_NEW_ENTRIES" THEN {0}
    ELSE IF Reducing(b) # {}
         THEN {IF g.mult > 100 THEN 100 ELSE g.mult :
                g \in {h \in Reducing(b) : \A k \in Reducing(b) : k.severity <= h.severity}}
         ELSE {100}

(***************************************************************************)
(* Every order and every position has the size the gates in force on the   *)
(* day of the decision leave it, whatever ran on the class before; none is *)
(* opened where they block, and none on the warm-up prefix the indicators  *)
(* only converge on (_gated_buy, apply_gate_at_decision, run_backtest).    *)
(***************************************************************************)
Follows(e) == e.size \in Due(e.at) /\ e.at >= cfg.warmup

EntriesFollowTheGate ==
    Running => /\ order.kind = "entry" => Follows(order)
               /\ position.size > 0 => Follows(position)

(***************************************************************************)
(* The audit logs of a run name decisions that bound that very bar, blocks *)
(* in one and reductions in the other: nothing of an earlier run on the    *)
(* class, and nothing a gate-less run was never told (_ensure_gate_logs).  *)
(***************************************************************************)
LogsNameBindingGates ==
    /\ \A e \in blocked : e[2] \in Binding(e[1]) /\ e[2].action = "BLOCK_NEW_ENTRIES"
    /\ \A e \in reduced : e[2] \in Reducing(e[1])

(***************************************************************************)
(* The gates in force decide what is entered, and what is written down of  *)
(* them is what decided it.                                                *)
(***************************************************************************)
GatesAreKept == EntriesFollowTheGate /\ LogsNameBindingGates

(***************************************************************************)
(* Whenever next() of the rebound template finds a position, it knows the  *)
(* bar that position was entered on (the assert of its exit branch) and    *)
(* has held it no longer than max_holding_bars, although a gate, the mask  *)
(* or the broker may have swallowed earlier orders it noted a bar for.     *)
(***************************************************************************)
ReboundKeepsItsWord ==
    [][cfg.template = "SentimentAwareRebound" /\ bar' = bar + 1 /\ position'.size > 0 =>
          entry = position'.at /\ bar' - entry <= MaxHolding]_vars

(***************************************************************************)
(* A run that ends counts a trade for every entry the broker carried out:  *)
(* what is still open on the last bar is closed and counted, so a run that *)
(* was invested is never refused for having made no trades (H7); and its   *)
(* return is compared with buying and holding over the same bars (C1),     *)
(* unless the window behind the prefix has at most two of them.            *)
(***************************************************************************)
ResultAddsUp ==
    /\ outcome = "completed" =>
          /\ result.trades = filled
          /\ result.from = result.benchmark \/ cfg.bars <= cfg.warmup + 2
    /\ outcome = "no_trades" => filled = 0

(***************************************************************************)
(* apply_gate_at_decision: "if the market did not yet know about the       *)
(* event, we cannot gate trades ahead of it".  The dates it compares are   *)
(* calendar days, so with several bars a day it can.                       *)
(***************************************************************************)
NoGateBeforeTheNews ==
    \A e \in blocked \cup reduced : e[2].known # None => Time(e[1]) >= e[2].known

(***************************************************************************)
(* The range of the variables.                                             *)
(***************************************************************************)
Side == {"buy", "sell"}

Entries ==
    [kind : {"entry"}, side : Side, size : 1..100, at : Nat, sl : BOOLEAN]

TypeOK ==
    /\ cfg \in Configs /\ bar \in Nat /\ runs \in 0..MaxRuns
    /\ order \in {Nothing, [kind |-> "close"]} \cup Entries
    /\ position \in [size : 0..100, side : Side, at : Nat \cup {None}, sl : BOOLEAN]
    /\ entry \in Nat \cup {None} /\ filled \in Nat /\ closed \in Nat
    /\ outcome \in {"idle", "running", "rejected", "failed", "completed", "no_trades"}
=============================================================================
