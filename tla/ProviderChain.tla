--------------------------- MODULE ProviderChain ---------------------------
(***************************************************************************)
(* The market data providers of marketdata/provider.py, and how a chain of *)
(* them is put together.  A provider is a function from a request and the  *)
(* state of the world to the set of answers it may give: an error, nothing,*)
(* or bars.  Bars are the days they span, the hour of their stamps, their  *)
(* spacing, and the basis of their prices: "total" return, "split"         *)
(* adjusted, or "raw".                                                     *)
(***************************************************************************)
EXTENDS Integers, Sequences, SequencesExt

CONSTANTS
    Year,      \* days in the default window of CoinGecko and Finnhub (365)
    ShortHistory, \* days Yahoo gives for a request without bounds (60)
    FirstFixed    \* the day Polygon starts at by default (2020-01-01)

ASSUME DefaultsAssumption == Year \in Nat /\ ShortHistory \in Nat /\ FirstFixed \in Nat

NoDay == 0     \* start or end left out

\* A request: start and end are included, or left out; what else an answer depends on.
Requests(days) ==
    [start : days \cup {NoDay}, end : days \cup {NoDay},
     interval : {"minute", "day", "week"}, crypto : BOOLEAN]

\* Where the stamp of a daily bar lies, seen from midnight UTC of its day.  A service that
\* names the date means midnight; one that gives the instant means midnight of the exchange,
\* w.zone: later in New York (04:00 or 05:00), earlier in Frankfurt (22:00 or 23:00).
Midnight == 0
Hour == {-1, Midnight, 1}

Error == [kind |-> "error"]
Empty == [kind |-> "empty"]

\* The bars of the days from lo to hi that exist; none of them, and the frame is empty.
Bars(lo, hi, hour, spacing, basis) ==
    IF lo > hi THEN Empty
    ELSE [kind |-> "bars", lo |-> lo, hi |-> hi, hour |-> hour,
          spacing |-> spacing, basis |-> basis]

\* The window asked for, with a provider's default where a bound is left out.
From(r, default) == IF r.start = NoDay THEN default ELSE r.start
To(r, today) == IF r.end = NoDay \/ r.end > today THEN today ELSE r.end
LastYear(today) == IF today > Year THEN today - Year ELSE 1

\* Every remote service may fail, and may know nothing of the symbol.
Remote(bars) == {Error, Empty, bars}

\* FrozenSnapshotProvider: the file is there or not, and holds the symbol or not; it strips
\* the zone off the stamps, which leaves the date.
FrozenAnswers(r, w) ==
    IF ~w.snapshot THEN {Error}
    ELSE {Empty, Bars(From(r, 1), To(r, w.frozenTo), Midnight, r.interval, "frozen")}

\* YahooProvider: delegates in determinism mode; a request without bounds asks for a period;
\* end + 1 because history() excludes its end.
YahooAnswers(r, w) ==
    IF w.deterministic THEN FrozenAnswers(r, w)
    ELSE LET unbounded == r.start = NoDay /\ r.end = NoDay
             period == IF r.interval = "day" THEN 1
                       ELSE IF w.today > ShortHistory THEN w.today - ShortHistory ELSE 1
         IN  Remote(Bars(From(r, IF unbounded THEN period ELSE 1), To(r, w.today),
                         w.zone, r.interval, "total"))

\* AlphaVantageProvider: the adjusted endpoints are scaled by _av_adjust, the intraday one is raw.
AlphaVantageAnswers(r, w) ==
    Remote(Bars(From(r, 1), To(r, w.today), Midnight, r.interval,
                IF r.interval = "minute" THEN "raw" ELSE "total"))

PolygonAnswers(r, w) ==
    Remote(Bars(From(r, FirstFixed), To(r, w.today), w.zone, r.interval, "split"))
TwelveDataAnswers(r, w) ==
    Remote(Bars(From(r, 1), To(r, w.today), Midnight, r.interval, "raw"))

\* Finnhub and CoinGecko call start.timestamp(), which a date does not have.
FinnhubAnswers(r, w) ==
    IF w.dates /\ (r.start # NoDay \/ r.end # NoDay) THEN {Error}
    ELSE Remote(Bars(From(r, LastYear(w.today)), To(r, w.today), Midnight, r.interval, "raw"))

\* market_chart/range has no interval: the service chooses the spacing of its points.
CoinGeckoAnswers(r, w) ==
    IF w.dates /\ (r.start # NoDay \/ r.end # NoDay) THEN {Error}
    ELSE IF ~r.crypto THEN {Error, Empty}
    ELSE Remote(Bars(From(r, LastYear(w.today)), To(r, w.today), Midnight, "points", "raw"))

\* Weekly bars are in no map of Tiingo and Alpaca: both fall back to daily ones.
Daily(r) == IF r.interval = "week" THEN "day" ELSE r.interval
TiingoAnswers(r, w) ==
    Remote(Bars(From(r, 1), To(r, w.today), Midnight, Daily(r),
                IF r.interval = "day" THEN "total" ELSE "raw"))

\* Alpaca has American shares only, and compares the stamps itself: the bar of a day comes
\* after the midnight that ends a window.
AlpacaAnswers(r, w) ==
    IF w.zone # 1 THEN {Error, Empty}
    ELSE Remote(Bars(From(r, 1),
                     IF r.end \in 1 .. w.today THEN r.end - 1 ELSE To(r, w.today),
                     w.zone, Daily(r), "raw"))

Keyed == {"alpha_vantage", "polygon", "twelve_data", "finnhub", "tiingo"}
Network == Keyed \cup {"yahoo", "coingecko", "alpaca"}
Providers == Network \cup {"frozen"}

\* A keyed provider that was built without a key raises before it asks anybody.
Answers(p, r, w) ==
    IF p \in Keyed /\ w.key[p] = "none" THEN {Error}
    ELSE CASE p = "yahoo"         -> YahooAnswers(r, w)
           [] p = "coingecko"     -> CoinGeckoAnswers(r, w)
           [] p = "alpha_vantage" -> AlphaVantageAnswers(r, w)
           [] p = "polygon"       -> PolygonAnswers(r, w)
           [] p = "twelve_data"   -> TwelveDataAnswers(r, w)
           [] p = "finnhub"       -> FinnhubAnswers(r, w)
           [] p = "tiingo"        -> TiingoAnswers(r, w)
           [] p = "alpaca"        -> AlpacaAnswers(r, w)
           [] p = "frozen"        -> FrozenAnswers(r, w)

\* resolve_data_provider_key: the user's own active row, then .env, then none.
ResolveKey(p, user, row, env) ==
    IF user /\ row[p] = "active" THEN "db" ELSE IF env[p] THEN "env" ELSE "none"
ResolveKeys(user, row, env) == [p \in Keyed |-> ResolveKey(p, user, row, env)]

\* create_aggregated_provider: the sources in order of trust.
WithKey(p, w) == IF w.key[p] # "none" THEN <<p>> ELSE <<>>
Chain(w, alpaca) ==
    IF w.deterministic THEN <<"frozen">>
    ELSE <<"yahoo", "coingecko">>
         \o WithKey("alpha_vantage", w) \o WithKey("polygon", w) \o WithKey("twelve_data", w)
         \o WithKey("finnhub", w) \o WithKey("tiingo", w)
         \o (IF alpaca THEN <<"alpaca">> ELSE <<>>)

\* create_provider: a source by its name, also in determinism mode.
Named(name) ==
    CASE name = "yahoo" -> <<"yahoo">>
      [] name = "alphavantage" -> <<"alpha_vantage">>
      [] name = "frozen" -> <<"frozen">>
=============================================================================
