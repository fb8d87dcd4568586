------------------------- MODULE PriceCache_proofs -------------------------
(***************************************************************************)
(* What the cache hands out is sound and the table loses no day, for every *)
(* set of callers, configuration, window and bound of PriceCache: by mutual*)
(* exclusion, by what a call knows of the rows its answer spans, and since *)
(* the stamps of one symbol have two hours at most.                        *)
(***************************************************************************)
EXTENDS PriceCache, SequenceTheorems, WellFoundedInduction, TLAPS

\* Nobody runs beside an open call, so what it has read stays true.
Shape ==
    /\ call = [c \in Caller |-> call[c]]
    /\ rows = [s \in Source |-> rows[s]]
Exclusive == \A c \in Replacing : MayRun(c)
Fresh == \A c \in Caller :
            call[c].pc = "inserting" => call[c].existing = DOMAIN rows["yahoo"]

CacheInv == Shape /\ Exclusive /\ Fresh

LEMMA InitCache == Init => CacheInv
BY DEF Init, CacheInv, Shape, Exclusive, Fresh, Replacing, Idle, NoBars, Source

\* Whoever may run is alone.
LEMMA AloneInside ==
    ASSUME NEW c \in Caller, MayRun(c)
    PROVE  Replacing \subseteq {c}
BY DEF MayRun, Free, Suspended, Replacing

\* Steps of a call that is not open and does not open, and leaves the table alone.
Quiet(c) ==
    /\ MayRun(c) /\ c \notin Replacing
    /\ \E r : Goto(c, r) /\ r.pc \notin {"cleared", "inserting"}
    /\ UNCHANGED <<rows, stored, torn>>

LEMMA QuietStep ==
    ASSUME CacheInv, NEW c \in Caller, Quiet(c)
    PROVE  CacheInv'
<1>1. PICK r : call' = [call EXCEPT ![c] = r] /\ r.pc \notin {"cleared", "inserting"}
  BY DEF Quiet, Goto
<1>2. Replacing = {}
  BY AloneInside DEF Quiet
<1>3. /\ call' = [d \in Caller |-> call'[d]] /\ call'[c] = r
      /\ \A d \in Caller \ {c} : call'[d] = call[d]
  BY <1>1 DEF CacheInv, Shape
<1>4. Replacing' = {}
  BY <1>1, <1>2, <1>3 DEF Replacing
<1>5. \A d \in Caller : call'[d].pc # "inserting"
  BY <1>4 DEF Replacing
<1> QED
  BY <1>2, <1>3, <1>4, <1>5 DEF Quiet, CacheInv, Shape, Exclusive, Fresh

LEMMA ServesQuietly ==
    ASSUME NEW c \in Caller,
           Load(c) \/ Ask(c) \/ Reload(c) \/ DownloadYahoo(c) \/ DownloadAlphaVantage(c)
             \/ Compare(c)
    PROVE  Quiet(c)
<1>1. CASE Load(c)
  <2>1. MayRun(c) /\ c \notin Replacing /\ UNCHANGED <<rows, stored, torn>>
    BY <1>1 DEF Load, Free, Replacing
  <2>2. PICK win \in Windows, now \in Clock :
          \/ Goto(c, [pc |-> "raised", why |-> "date"])
          \/ Goto(c, [pc |-> "asking", win |-> win, bars |-> LoadCache(win), left |-> Sources])
          \/ Serve(c, win, LoadCache(win), "cache")
    BY <1>1 DEF Load
  <2> QED
    BY <2>1, <2>2 DEF Quiet, Serve
<1>2. CASE Ask(c)
  <2>1. MayRun(c) /\ c \notin Replacing /\ UNCHANGED <<rows, stored, torn>>
    BY <1>2 DEF Ask, Replacing
  <2> DEFINE fetched(a) == [pc |-> "fetched", win |-> call[c].win, lo |-> a.lo, hi |-> a.hi,
                            hour |-> a.hour, tag |-> Tag(a), asOf |-> today]
             next == [pc |-> "asking", win |-> call[c].win, bars |-> call[c].bars,
                      left |-> Tail(call[c].left)]
             raised == [pc |-> "raised", why |-> "provider"]
             served == [pc |-> "served", win |-> call[c].win, bars |-> call[c].bars,
                        how |-> "silence", asOf |-> today]
  <2>2. PICK a : Goto(c, fetched(a)) \/ Goto(c, next) \/ Goto(c, raised) \/ Goto(c, served)
    BY <1>2 DEF Ask, Serve
  <2>3. \A r \in {fetched(a), next, raised, served} : r.pc \notin {"cleared", "inserting"}
    OBVIOUS
  <2> HIDE DEF fetched, next, raised, served
  <2> QED
    BY <2>1, <2>2, <2>3 DEF Quiet
<1>3. CASE Reload(c)
  BY <1>3 DEF Reload, Quiet, Replacing
<1>4. CASE DownloadYahoo(c) \/ DownloadAlphaVantage(c)
  BY <1>4 DEF DownloadYahoo, DownloadAlphaVantage, Downloads, Quiet, Replacing, Free
<1>5. CASE Compare(c)
  BY <1>5 DEF Compare, Quiet, Replacing
<1> QED
  BY <1>1, <1>2, <1>3, <1>4, <1>5

LEMMA ClearStep ==
    ASSUME CacheInv, NEW c \in Caller, Clear(c)
    PROVE  CacheInv' /\ Replacing = {} /\ Replacing' = {c}
<1>1. /\ MayRun(c) /\ call[c].pc = "fetched"
      /\ rows' = [rows EXCEPT !["yahoo"] = Restrict(@, DOMAIN @ \ Reach(c))]
      /\ call' = [call EXCEPT ![c] = [call[c] EXCEPT !.pc = "cleared"]]
  BY DEF Clear, Goto
<1>2. Replacing = {}
  BY <1>1, AloneInside DEF Replacing
<1>3. Shape'
  BY <1>1 DEF CacheInv, Shape, Source
<1>4. /\ call'[c] = [call[c] EXCEPT !.pc = "cleared"]
      /\ \A d \in Caller \ {c} : call'[d] = call[d]
  BY <1>1 DEF CacheInv, Shape
<1>5. call'[c].pc = "cleared"
  BY <1>4
<1>6. Replacing' = {c}
  BY <1>2, <1>4, <1>5 DEF Replacing
<1>7. Exclusive'
  BY <1>1, <1>4, <1>6 DEF Exclusive, MayRun, Free, Suspended
<1>8. Fresh'
  BY <1>5, <1>6 DEF Fresh, Replacing
<1> QED
  BY <1>2, <1>3, <1>6, <1>7, <1>8 DEF CacheInv

LEMMA ReadExistingStep ==
    ASSUME CacheInv, NEW c \in Caller, ReadExisting(c)
    PROVE  CacheInv' /\ Replacing = {c} /\ Replacing' = {c}
<1> DEFINE r == [pc |-> "inserting", win |-> call[c].win, lo |-> call[c].lo,
                 hi |-> call[c].hi, hour |-> call[c].hour, tag |-> call[c].tag,
                 asOf |-> call[c].asOf, existing |-> DOMAIN rows["yahoo"]]
<1>1. /\ MayRun(c) /\ call[c].pc = "cleared" /\ call' = [call EXCEPT ![c] = r]
      /\ UNCHANGED rows
  BY DEF ReadExisting, Goto
<1>2. r.pc = "inserting" /\ r.existing = DOMAIN rows["yahoo"]
  OBVIOUS
<1> HIDE DEF r
<1>3. Replacing = {c}
  BY <1>1, AloneInside DEF Replacing
<1>4. Shape' /\ call'[c] = r /\ \A d \in Caller \ {c} : call'[d] = call[d]
  BY <1>1 DEF CacheInv, Shape
<1>5. Replacing' = {c}
  BY <1>2, <1>3, <1>4 DEF Replacing
<1>6. Exclusive'
  BY <1>1, <1>4, <1>5 DEF Exclusive, MayRun, Free, Suspended
<1>7. Fresh'
  BY <1>1, <1>2, <1>4, <1>5 DEF Fresh, Replacing
<1> QED
  BY <1>3, <1>4, <1>5, <1>6, <1>7 DEF CacheInv

\* The insert: nothing has come into the table meanwhile, so it cannot fail.
LEMMA InsertStep ==
    ASSUME CacheInv, NEW c \in Caller, Insert(c)
    PROVE  CacheInv' /\ Replacing = {c} /\ Replacing' = {}
<1> DEFINE new == Span(c) \ call[c].existing
<1>1. /\ MayRun(c) /\ call[c].pc = "inserting"
      /\ Inserts(c, "yahoo", new, call[c].tag, [call[c] EXCEPT !.pc = "stored"])
  BY DEF Insert
<1>2. new \cap DOMAIN rows["yahoo"] = {}
  BY <1>1 DEF CacheInv, Fresh
<1>3. /\ rows' = [rows EXCEPT !["yahoo"] =
                    [s \in DOMAIN @ \cup new |-> IF s \in new THEN call[c].tag ELSE @[s]]]
      /\ call' = [call EXCEPT ![c] = [call[c] EXCEPT !.pc = "stored"]]
  BY <1>1, <1>2 DEF Inserts, Goto
<1>4. Shape'
  BY <1>3 DEF CacheInv, Shape, Source
<1>5. Replacing = {c}
  BY <1>1, AloneInside DEF Replacing
<1>6. /\ call'[c] = [call[c] EXCEPT !.pc = "stored"]
      /\ \A d \in Caller \ {c} : call'[d] = call[d]
  BY <1>3 DEF CacheInv, Shape
<1>7. call'[c].pc = "stored"
  BY <1>6
<1>8. Replacing' = {}
  BY <1>5, <1>6, <1>7 DEF Replacing
<1>9. Exclusive' /\ Fresh'
  BY <1>8 DEF Exclusive, Fresh, Replacing
<1> QED
  BY <1>4, <1>5, <1>8, <1>9 DEF CacheInv

\* fetch_and_cache and invalidate cannot run beside an open call.
LEMMA BesideStep ==
    ASSUME CacheInv, NEW c \in Caller, InsertMissing(c) \/ Invalidate(c)
    PROVE  CacheInv' /\ Replacing = {} /\ Replacing' = {}
<1>1. MayRun(c) /\ call[c].pc \notin {"cleared", "inserting"}
  BY DEF InsertMissing, Invalidate, Free
<1>2. Replacing = {}
  BY <1>1, AloneInside DEF Replacing
<1>3. PICK r : call' = [call EXCEPT ![c] = r] /\ r.pc \in {"raised", "idle"}
  <2> DEFINE raised == [pc |-> "raised", why |-> "unique"]
  <2>1. Goto(c, raised) \/ Goto(c, Idle)
    BY DEF InsertMissing, Inserts, Invalidate
  <2>2. raised.pc = "raised" /\ Idle.pc = "idle"
    BY DEF Idle
  <2> HIDE DEF raised
  <2> QED
    BY <2>1, <2>2 DEF Goto
<1>4. /\ call' = [d \in Caller |-> call'[d]] /\ call'[c] = r
      /\ \A d \in Caller \ {c} : call'[d] = call[d]
  BY <1>3 DEF CacheInv, Shape
<1>5. Replacing' = {}
  BY <1>2, <1>3, <1>4 DEF Replacing
<1>6. Exclusive' /\ Fresh'
  BY <1>5 DEF Exclusive, Fresh, Replacing
<1>7. rows' = [s \in Source |-> rows'[s]]
  <2>1. PICK t, f : rows' = [rows EXCEPT ![t] = f] \/ rows' = rows
    BY DEF InsertMissing, Inserts, Invalidate
  <2> QED
    BY <2>1 DEF CacheInv, Shape
<1> QED
  BY <1>2, <1>4, <1>5, <1>6, <1>7 DEF CacheInv, Shape

LEMMA CrashStep ==
    ASSUME CacheInv, Crash
    PROVE  CacheInv' /\ Replacing' = {}
<1>1. call' = [d \in Caller |-> Idle] /\ UNCHANGED rows
  BY DEF Crash
<1>2. \A d \in Caller : call'[d].pc = "idle"
  BY <1>1 DEF Idle
<1>3. Replacing' = {} /\ Exclusive' /\ Fresh'
  BY <1>2 DEF Replacing, Exclusive, Fresh
<1> QED
  BY <1>1, <1>3 DEF CacheInv, Shape

LEMMA CacheStep == CacheInv /\ [Next]_vars => CacheInv'
<1> SUFFICES ASSUME CacheInv, [Next]_vars PROVE CacheInv'
  OBVIOUS
<1>1. ASSUME NEW c \in Caller, Serves(c) \/ Invalidate(c) PROVE CacheInv'
  BY <1>1, ServesQuietly, QuietStep, ClearStep, ReadExistingStep, InsertStep,
     BesideStep DEF Serves
<1>2. CASE NewDay \/ Rebase \/ UNCHANGED vars
  <2>1. UNCHANGED <<rows, call>>
    BY <1>2 DEF NewDay, Rebase, vars
  <2> QED
    BY <2>1 DEF CacheInv, Shape, Exclusive, Fresh, Replacing, MayRun, Free, Suspended
<1>3. CASE Crash
  BY <1>3, CrashStep
<1> QED
  BY <1>1, <1>2, <1>3 DEF Next
-----------------------------------------------------------------------------
(* What is handed out *)

\* The stamps up to the present of a symbol whose exchange has that zone: there are two
\* hours only, so a day has its own stamps and they are in the order of the days.
Past(now, zone) ==
    {At(d, hour) : d \in {e \in Int : e <= now}, hour \in {Midnight, zone}}

\* What a call took from its source: bars up to the last day asked for, or up to the
\* day of the question, or whatever the frozen snapshot has.
Fetched(k, now, zone) ==
    /\ k.win \in Windows /\ k.lo \in Int /\ k.hi \in Int /\ k.lo <= k.hi /\ k.hi <= now
    /\ k.hour \in {Midnight, zone} /\ k.asOf \in Day
    /\ \/ k.tag[1] = "frozen"
       \/ k.hi = k.asOf
       \/ k.win[2] \in Nat \ {NoDay} /\ k.hi \in {k.win[2] - 1, k.win[2]}

Bar(k) == {At(d, k.hour) : d \in k.lo .. k.hi}
Between(k) == At(k.lo, k.hour) .. At(k.hi, k.hour)

\* An answer that was handed out; the two parts of AnswersAreSound.
WholeRefresh(k) ==
    k.how = "fetch" =>
        /\ Bar(k) \cap Covered(k.win) \subseteq DOMAIN k.bars
        /\ \A s \in DOMAIN k.bars \cap Between(k) : s \in Bar(k) /\ k.bars[s] = k.tag
AsRecent(k) ==
    k.how # "silence" =>
        \A d \in Day \cap Recent(k.asOf) : TakesIn(k.win, d) =>
            \/ DaysOf(DOMAIN k.bars) \cap Recent(k.asOf) # {}
            \/ k.how = "fetch" /\ (k.tag[1] = "frozen" \/ k.lo > d)

\* What a call may rely on while nobody runs beside it: bars are the stored ones of
\* "yahoo", now is the last day there is.
Known(k, bars, now, zone) ==
    /\ k.pc = "asking" => k.win \in Windows /\ k.left \in Seq(Providers) /\ k.left # <<>>
    /\ k.pc \in {"fetched", "cleared", "inserting", "stored"} => Fetched(k, now, zone)
    /\ k.pc \in {"cleared", "inserting"} => Between(k) \cap DOMAIN bars = {}
    /\ k.pc = "stored" =>
          /\ Bar(k) \subseteq DOMAIN bars
          /\ \A s \in DOMAIN bars \cap Between(k) : s \in Bar(k) /\ bars[s] = k.tag
    /\ k.pc = "downloaded" =>
          k.lo \in Int /\ k.hi \in Int /\ k.hi <= now /\ k.hour \in {Midnight, zone}
    /\ k.pc = "compared" => k.new \subseteq Past(now, zone)
    /\ k.pc = "served" => WholeRefresh(k) /\ AsRecent(k)

RunsAlone == \A c \in Caller : ~Free(c) /\ ~Suspended(c) => MayRun(c)
NoFuture == env \in Settings /\ today \in Day /\ DOMAIN rows["yahoo"] \subseteq Past(today, env.zone)
AllKnown == \A c \in Caller : Known(call[c], rows["yahoo"], today, env.zone)

AnswersInv == Shape /\ Fresh /\ RunsAlone /\ NoFuture /\ AllKnown

LEMMA SpanIsBar ==
    ASSUME NEW c \in Caller
    PROVE  Span(c) = Bar(call[c]) /\ Reach(c) = Between(call[c])
BY DEF Span, Bar, Reach, Between

LEMMA ZoneFact == env \in Settings => env.zone \in Hour
BY SettingsAssumption

\* A stamp belongs to one day.
LEMMA OneDay ==
    ASSUME NEW d \in Int, NEW e \in Int, NEW g \in Hour, NEW h \in Hour, At(d, g) = At(e, h)
    PROVE  d = e /\ g = h
BY DEF At, ADay, Hour, Midnight

\* A nonempty set of stamps has a last one.
LEMMA LastStamp ==
    ASSUME NEW T, T \subseteq Stamp, T # {}
    PROVE  \E s \in T : \A t \in T : s >= t
<1>. DEFINE m == At(MaxDay, 1)
            back == {m - s : s \in T}
<1>1. m \in Int /\ Stamp \subseteq {s \in Int : s <= m}
  <2>1. MaxDay \in Int /\ m = 3 * MaxDay + 1
    BY DaysAssumption DEF At, ADay
  <2>. HIDE DEF m
  <2>2. \A d \in 1 .. MaxDay, hour \in {-1, 0, 1} : 3 * d + hour \in Int /\ 3 * d + hour <= m
    BY <2>1
  <2>3. ASSUME NEW s \in Stamp PROVE s \in Int /\ s <= m
    <3>1. PICK d \in 1 .. MaxDay, hour \in {-1, 0, 1} : s = 3 * d + hour
      BY DEF Stamp, At, ADay, Hour, Midnight, Day
    <3>. QED BY <2>2, <3>1
  <2>. QED BY <2>1, <2>3
<1>. HIDE DEF m
<1>2. back \subseteq Nat /\ back # {}
  <2>1. \A s \in T : m - s \in Nat
    BY <1>1
  <2>. QED BY <2>1
<1>3. PICK b \in back : \A n \in back : ~(n < b)
  <2>1. PICK b \in back : \A n \in back : ~(<<n, b>> \in OpToRel(<, Nat))
    BY <1>2, NatLessThanWellFounded, WFMin
  <2>. QED BY <1>2, <2>1 DEF OpToRel
<1>4. PICK s \in T : b = m - s
  OBVIOUS
<1>5. ASSUME NEW t \in T PROVE s >= t
  <2>1. ~(m - t < m - s)
    BY <1>3, <1>4
  <2>. QED BY <1>1, <2>1
<1>. QED BY <1>4, <1>5

\* Every provider answers up to the last day asked for, or the one before it, or with the
\* frozen snapshot; and stamps its bars in one of the two ways.
LEMMA AnswerFacts ==
    ASSUME NEW p \in Providers, NEW r, r.start \in Nat, r.end \in Nat,
           NEW w, w.today \in Nat, w.frozenTo \in Nat,
           NEW a \in Answers(p, r, w), a.kind = "bars"
    PROVE  /\ a.lo \in Int /\ a.hi \in Int /\ a.lo <= a.hi /\ a.hour \in {Midnight, w.zone}
           /\ \/ a.basis = "frozen" /\ a.hi <= w.frozenTo
              \/ a.hi = To(r, w.today)
              \/ r.end \in 1 .. w.today /\ a.hi = r.end - 1
<1>1. ASSUME NEW default \in Nat, NEW hi \in Int, NEW hour, NEW spacing, NEW basis,
             a \in {Error, Empty, Bars(From(r, default), hi, hour, spacing, basis)}
      PROVE  /\ a.lo \in Int /\ a.hi \in Int /\ a.lo <= a.hi /\ a.hi = hi
             /\ a.hour = hour /\ a.basis = basis
  <2>1. From(r, default) \in Nat
    BY <1>1 DEF From
  <2>. QED BY <1>1, <2>1 DEF Bars, Error, Empty
<1>2. /\ To(r, w.today) \in Int
      /\ To(r, w.frozenTo) \in Int /\ To(r, w.frozenTo) <= w.frozenTo
  BY DEF To
<1>3. /\ LastYear(w.today) \in Nat /\ FirstFixed \in Nat
      /\ (w.today > ShortHistory => w.today - ShortHistory \in Nat)
  BY DefaultsAssumption DEF LastYear
<1>4. ASSUME a \in FrozenAnswers(r, w)
      PROVE  /\ a.lo \in Int /\ a.hi \in Int /\ a.lo <= a.hi
             /\ a.hour = Midnight /\ a.basis = "frozen" /\ a.hi <= w.frozenTo
  <2>1. a \in {Error, Empty,
               Bars(From(r, 1), To(r, w.frozenTo), Midnight, r.interval, "frozen")}
    BY <1>4 DEF FrozenAnswers
  <2>. QED BY <1>1, <1>2, <2>1
<1>5. CASE a \in {Error}
  BY <1>5 DEF Error
<1>6. CASE a \in YahooAnswers(r, w)
  <2>1. CASE w.deterministic
    BY <1>4, <1>6, <2>1 DEF YahooAnswers
  <2>2. CASE ~w.deterministic
    <3>1. PICK default \in Nat :
             a \in {Error, Empty,
                    Bars(From(r, default), To(r, w.today), w.zone, r.interval, "total")}
      BY <1>3, <1>6, <2>2 DEF YahooAnswers, Remote
    <3>. QED BY <1>1, <1>2, <3>1
  <2>. QED BY <2>1, <2>2
<1>7. CASE a \in CoinGeckoAnswers(r, w) \cup FinnhubAnswers(r, w)
  <2>1. PICK spacing :
           a \in {Error, Empty,
                  Bars(From(r, LastYear(w.today)), To(r, w.today), Midnight, spacing, "raw")}
    BY <1>7 DEF CoinGeckoAnswers, FinnhubAnswers, Remote
  <2>. QED BY <1>1, <1>2, <1>3, <2>1
<1>8. CASE a \in PolygonAnswers(r, w)
  BY <1>1, <1>2, <1>3, <1>8 DEF PolygonAnswers, Remote
<1>9. CASE a \in AlphaVantageAnswers(r, w) \cup TwelveDataAnswers(r, w)
                   \cup TiingoAnswers(r, w)
  <2>1. PICK spacing, basis :
           a \in {Error, Empty, Bars(From(r, 1), To(r, w.today), Midnight, spacing, basis)}
    BY <1>9 DEF AlphaVantageAnswers, TwelveDataAnswers, TiingoAnswers, Remote
  <2>. QED BY <1>1, <1>2, <2>1
<1>10. CASE a \in AlpacaAnswers(r, w)
  <2>. DEFINE hi == IF r.end \in 1 .. w.today THEN r.end - 1 ELSE To(r, w.today)
  <2>1. a \in {Error, Empty, Bars(From(r, 1), hi, w.zone, Daily(r), "raw")}
    BY <1>10 DEF AlpacaAnswers, Remote
  <2>2. hi \in Int /\ (hi = To(r, w.today) \/ (r.end \in 1 .. w.today /\ hi = r.end - 1))
    BY <1>2
  <2>. HIDE DEF hi
  <2>. QED BY <1>1, <2>1, <2>2
<1>11. CASE a \in FrozenAnswers(r, w)
  BY <1>4, <1>11
<1>. QED
  BY <1>5, <1>6, <1>7, <1>8, <1>9, <1>10, <1>11 DEF Answers, Providers, Network, Keyed

\* The sources of a call are providers there are, and at least one.
LEMMA SourcesFacts ==
    ASSUME env \in Settings
    PROVE  Sources \in Seq(Providers) /\ Sources # <<>>
<1>1. \A p \in Providers : <<p>> \in Seq(Providers) /\ <<p>> # <<>>
  OBVIOUS
<1>2. ASSUME NEW p \in Providers PROVE WithKey(p, World) \in Seq(Providers)
  BY <1>1 DEF WithKey
<1>3. Keyed \subseteq Providers /\ {"yahoo", "coingecko", "alpaca", "frozen"} \subseteq Providers
  BY DEF Providers, Network
<1>4. CASE env.aggregated
  <2>1. ASSUME NEW s \in Seq(Providers), s # <<>>, NEW t \in Seq(Providers)
        PROVE  s \o t \in Seq(Providers) /\ s \o t # <<>>
    <3>1. Len(s \o t) = Len(s) + Len(t) /\ s \o t \in Seq(Providers)
      BY <2>1, ConcatProperties
    <3>2. Len(s) > 0 /\ Len(t) >= 0
      BY <2>1, EmptySeq, LenProperties
    <3>3. Len(s \o t) # 0
      BY <3>1, <3>2, LenProperties
    <3>. QED BY <3>1, <3>3, EmptySeq
  <2>2. <<"yahoo", "coingecko">> \in Seq(Providers) /\ <<"yahoo", "coingecko">> # <<>>
    BY <1>3
  <2>3. (IF env.alpaca THEN <<"alpaca">> ELSE <<>>) \in Seq(Providers)
    BY <1>1, <1>3, EmptySeq
  <2>4. {"alpha_vantage", "polygon", "twelve_data", "finnhub", "tiingo"} \subseteq Providers
    BY <1>3 DEF Keyed
  <2>. HIDE DEF Providers
  <2>. QED
    BY <1>1, <1>2, <1>3, <1>4, <2>1, <2>2, <2>3, <2>4 DEF Sources, Chain
<1>5. CASE ~env.aggregated
  BY <1>1, <1>3, <1>5, SettingsAssumption DEF Sources, Named, Keyed
<1>. QED BY <1>4, <1>5

\* What was known stays known as the days go by.
LEMMA KnownLater ==
    ASSUME NEW k, NEW bars, NEW zone, NEW now \in Int, NEW later \in Int, now <= later,
           Known(k, bars, now, zone)
    PROVE  Known(k, bars, later, zone)
<1>1. Past(now, zone) \subseteq Past(later, zone)
  BY DEF Past
<1>2. Fetched(k, now, zone) => Fetched(k, later, zone)
  BY DEF Fetched
<1>3. k.hi \in Int /\ k.hi <= now => k.hi <= later
  OBVIOUS
<1>. QED BY <1>1, <1>2, <1>3 DEF Known

\* And a call that is not running relies on nothing in the table.
LEMMA KnownBeside ==
    ASSUME NEW k, NEW bars, NEW others, NEW now, NEW zone,
           k.pc \in {"idle", "served", "raised", "downloaded", "compared"},
           Known(k, bars, now, zone)
    PROVE  Known(k, others, now, zone)
BY DEF Known

\* A step of one call: it runs alone, so only its own knowledge is at stake.
LEMMA OneCall ==
    ASSUME AnswersInv, NEW c \in Caller, MayRun(c), NEW k, Goto(c, k),
           Known(k, rows'["yahoo"], today, env.zone), UNCHANGED world,
           DOMAIN rows'["yahoo"] \subseteq Past(today, env.zone)
    PROVE  RunsAlone' /\ NoFuture' /\ AllKnown'
<1>1. call'[c] = k /\ \A d \in Caller \ {c} : call'[d] = call[d]
  BY DEF Goto, AnswersInv, Shape
<1>2. \A d \in Caller \ {c} : Free(d) \/ Suspended(d)
  BY DEF MayRun
<1>3. RunsAlone'
  BY <1>1, <1>2 DEF RunsAlone, MayRun, Free, Suspended
<1>4. NoFuture'
  BY DEF AnswersInv, NoFuture, world
<1>5. ASSUME NEW d \in Caller PROVE Known(call[d], rows["yahoo"], today, env.zone)'
  <2>1. CASE d = c
    BY <1>1, <2>1 DEF world
  <2>2. CASE d # c
    <3>1. call[d].pc \in {"idle", "served", "raised", "downloaded", "compared"}
      BY <1>2, <2>2 DEF Free, Suspended
    <3>2. Known(call[d], rows["yahoo"], today, env.zone)
      BY DEF AnswersInv, AllKnown
    <3>3. Known(call[d], rows'["yahoo"], today, env.zone)
      BY <3>1, <3>2, KnownBeside
    <3>. QED BY <1>1, <2>2, <3>3 DEF world
  <2>. QED BY <2>1, <2>2
<1>. QED BY <1>3, <1>4, <1>5 DEF AllKnown

\* A call that is over or idle knows what its answer was.
LEMMA LoadKnown ==
    ASSUME AnswersInv, NEW c \in Caller, Load(c)
    PROVE  RunsAlone' /\ NoFuture' /\ AllKnown'
<1>1. MayRun(c) /\ UNCHANGED world /\ rows' = rows /\ env \in Settings
      /\ DOMAIN rows["yahoo"] \subseteq Past(today, env.zone) /\ today \in Day
  BY DEF Load, AnswersInv, NoFuture
<1>2. PICK win \in Windows, now \in Clock :
         \/ Goto(c, [pc |-> "raised", why |-> "date"])
         \/ Goto(c, [pc |-> "asking", win |-> win, bars |-> LoadCache(win), left |-> Sources])
         \/ ~NeedFetch(win, LoadCache(win), now) /\ Serve(c, win, LoadCache(win), "cache")
  BY DEF Load
<1>. DEFINE k1 == [pc |-> "raised", why |-> "date"]
            k2 == [pc |-> "asking", win |-> win, bars |-> LoadCache(win), left |-> Sources]
            k3 == [pc |-> "served", win |-> win, bars |-> LoadCache(win), how |-> "cache",
                   asOf |-> today]
<1>3. Known(k1, rows["yahoo"], today, env.zone)
  BY DEF Known
<1>4. Known(k2, rows["yahoo"], today, env.zone)
  <2>1. k2.pc = "asking" /\ k2.win = win /\ k2.left = Sources
    OBVIOUS
  <2>. HIDE DEF k2
  <2>. QED BY <1>1, <2>1, SourcesFacts DEF Known
<1>5. ASSUME ~NeedFetch(win, LoadCache(win), now) PROVE Known(k3, rows["yahoo"], today, env.zone)
  <2>1. /\ k3.pc = "served" /\ k3.win = win /\ k3.how = "cache" /\ k3.asOf = today
        /\ k3.bars = LoadCache(win)
    OBVIOUS
  <2>. HIDE DEF k3
  <2>2. DOMAIN LoadCache(win) = DOMAIN rows["yahoo"] \cap Covered(win)
    BY DEF LoadCache, Restrict
  <2>3. DOMAIN LoadCache(win) # {} /\ DOMAIN LoadCache(win) \subseteq Stamp
    BY <1>5, <2>2 DEF NeedFetch, Covered
  <2>4. Latest(LoadCache(win)) \in DOMAIN LoadCache(win)
    BY <2>3, LastStamp DEF Latest
  <2>. DEFINE last == Latest(LoadCache(win))
  <2>5. PICK d \in Day, hour \in Hour : last = At(d, hour)
    BY <2>3, <2>4 DEF Stamp
  <2>6. PICK e \in Int, h \in Hour : e <= today /\ last = At(e, h)
    <3>1. last \in Past(today, env.zone) /\ env.zone \in Hour
      BY <1>1, <2>2, <2>4, ZoneFact
    <3>. HIDE DEF last
    <3>. QED BY <3>1 DEF Past, Hour
  <2>7. now \in Int /\ now >= At(today, 1) /\ ~(now - last >= 2 * ADay)
    <3>1. now \in Int /\ now >= At(today, 1)
      BY <1>1 DEF Clock, At, ADay, Midnight, Day
    <3>. QED BY <1>5, <3>1 DEF NeedFetch
  <2>. HIDE DEF last
  <2>8. d \in Recent(today)
    <3>1. d \in Int /\ today \in Int
      BY <1>1 DEF Day
    <3>2. d <= today
      BY <2>5, <2>6, <3>1, OneDay
    <3>3. 3 * today + 1 - (3 * d + hour) < 6 /\ hour \in {-1, 0, 1}
      BY <2>5, <2>7, <3>1 DEF At, ADay, Hour, Midnight
    <3>. QED BY <3>1, <3>2, <3>3 DEF Recent
  <2>9. d \in DaysOf(DOMAIN k3.bars)
    BY <2>1, <2>4, <2>5 DEF DaysOf, last
  <2>. QED BY <2>1, <2>8, <2>9 DEF Known, WholeRefresh, AsRecent
<1>. HIDE DEF k1, k2, k3
<1>6. Goto(c, k1) \/ Goto(c, k2) \/ (~NeedFetch(win, LoadCache(win), now) /\ Goto(c, k3))
  BY <1>2 DEF k1, k2, k3, Serve
<1>. QED BY <1>1, <1>3, <1>4, <1>5, <1>6, OneCall

LEMMA AskKnown ==
    ASSUME AnswersInv, NEW c \in Caller, Ask(c)
    PROVE  RunsAlone' /\ NoFuture' /\ AllKnown'
<1>1. MayRun(c) /\ UNCHANGED world /\ rows' = rows /\ env \in Settings
      /\ DOMAIN rows["yahoo"] \subseteq Past(today, env.zone) /\ today \in Day
      /\ call[c].pc = "asking" /\ Known(call[c], rows["yahoo"], today, env.zone)
  BY DEF Ask, AnswersInv, NoFuture, AllKnown
<1>2. call[c].win \in Windows /\ call[c].left \in Seq(Providers) /\ call[c].left # <<>>
  BY <1>1 DEF Known
<1>. DEFINE r == Request(call[c].win)
            k1(a) == [pc |-> "fetched", win |-> call[c].win, lo |-> a.lo, hi |-> a.hi,
                      hour |-> a.hour, tag |-> Tag(a), asOf |-> today]
            k2 == [pc |-> "asking", win |-> call[c].win, bars |-> call[c].bars,
                   left |-> Tail(call[c].left)]
            k3 == [pc |-> "raised", why |-> "provider"]
            k4 == [pc |-> "served", win |-> call[c].win, bars |-> call[c].bars,
                   how |-> "silence", asOf |-> today]
<1>3. PICK a \in Answers(Head(call[c].left), r, World) :
         \/ a.kind = "bars" /\ Goto(c, k1(a))
         \/ Len(call[c].left) > 1 /\ Goto(c, k2)
         \/ Goto(c, k3)
         \/ Goto(c, k4)
  BY DEF Ask, Serve
<1>4. ASSUME a.kind = "bars" PROVE Known(k1(a), rows["yahoo"], today, env.zone)
  <2>1. Head(call[c].left) \in Providers
    BY <1>2, HeadTailProperties
  <2>2. /\ r.start = call[c].win[1] /\ r.end = call[c].win[2]
        /\ call[c].win[1] \in Nat /\ call[c].win[2] \in Nat
    BY <1>2, DaysAssumption DEF Request
  <2>3. /\ World.today = today /\ World.frozenTo = env.frozenTo /\ World.zone = env.zone
        /\ today \in Nat /\ today >= 1 /\ env.frozenTo \in Nat /\ env.frozenTo <= 1
    BY <1>1, SettingsAssumption DEF World, Day
  <2>4. /\ a.lo \in Int /\ a.hi \in Int /\ a.lo <= a.hi /\ a.hour \in {Midnight, env.zone}
        /\ \/ a.basis = "frozen" /\ a.hi <= 1
           \/ a.hi = To(r, today)
           \/ call[c].win[2] \in 1 .. today /\ a.hi = call[c].win[2] - 1
    <3>. HIDE DEF r
    <3>1. /\ a.lo \in Int /\ a.hi \in Int /\ a.lo <= a.hi /\ a.hour \in {Midnight, World.zone}
          /\ \/ a.basis = "frozen" /\ a.hi <= World.frozenTo
             \/ a.hi = To(r, World.today)
             \/ r.end \in 1 .. World.today /\ a.hi = r.end - 1
      BY <1>4, <2>1, <2>2, <2>3, AnswerFacts
    <3>. QED BY <2>2, <2>3, <3>1
  <2>5. a.hi <= today
    BY <2>2, <2>3, <2>4 DEF To
  <2>6. \/ a.basis = "frozen" \/ a.hi = today
        \/ call[c].win[2] \in Nat \ {NoDay} /\ a.hi \in {call[c].win[2] - 1, call[c].win[2]}
    BY <2>2, <2>3, <2>4 DEF To, NoDay
  <2>7. Tag(a)[1] = a.basis
    BY DEF Tag
  <2>8. /\ k1(a).pc = "fetched" /\ k1(a).win = call[c].win /\ k1(a).lo = a.lo
        /\ k1(a).hi = a.hi /\ k1(a).hour = a.hour /\ k1(a).tag = Tag(a)
        /\ k1(a).asOf = today
    OBVIOUS
  <2>. HIDE DEF k1, r
  <2>9. Fetched(k1(a), today, env.zone)
    BY <1>1, <1>2, <2>4, <2>5, <2>6, <2>7, <2>8 DEF Fetched
  <2>. QED BY <2>8, <2>9 DEF Known
<1>5. ASSUME Len(call[c].left) > 1 PROVE Known(k2, rows["yahoo"], today, env.zone)
  <2>1. Tail(call[c].left) \in Seq(Providers) /\ Len(Tail(call[c].left)) = Len(call[c].left) - 1
    BY <1>2, HeadTailProperties
  <2>2. Tail(call[c].left) # <<>>
    <3>1. Len(call[c].left) \in Nat
      BY <1>2, LenProperties
    <3>2. \A s \in Seq(Providers) : Len(s) = Len(call[c].left) - 1 => s # <<>>
      BY <1>5, <3>1
    <3>. QED BY <2>1, <3>2
  <2>3. k2.pc = "asking" /\ k2.win = call[c].win /\ k2.left = Tail(call[c].left)
    OBVIOUS
  <2>. HIDE DEF k2
  <2>. QED BY <1>2, <2>1, <2>2, <2>3 DEF Known
<1>6. Known(k3, rows["yahoo"], today, env.zone)
  BY DEF Known
<1>7. Known(k4, rows["yahoo"], today, env.zone)
  BY DEF Known, WholeRefresh, AsRecent
<1>. HIDE DEF k1, k2, k3, k4, r
<1>. QED BY <1>1, <1>3, <1>4, <1>5, <1>6, <1>7, OneCall

\* A record that differs in its pc only stands for the same answer.
SameAnswer(k, l) ==
    /\ k.lo = l.lo /\ k.hi = l.hi /\ k.hour = l.hour
    /\ k.win = l.win /\ k.asOf = l.asOf /\ k.tag = l.tag

LEMMA SameFacts ==
    ASSUME NEW k, NEW l, SameAnswer(k, l), NEW now, NEW zone
    PROVE  /\ Bar(k) = Bar(l) /\ Between(k) = Between(l)
           /\ Fetched(k, now, zone) = Fetched(l, now, zone)
<1>1. Bar(k) = Bar(l) /\ Between(k) = Between(l)
  BY DEF SameAnswer, Bar, Between
<1>2. Fetched(k, now, zone) <=> Fetched(l, now, zone)
  BY DEF SameAnswer, Fetched
<1>3. Fetched(k, now, zone) \in BOOLEAN /\ Fetched(l, now, zone) \in BOOLEAN
  BY DEF Fetched
<1>. QED BY <1>1, <1>2, <1>3

\* The bars of an answer are stamps up to the present, between its first and its last.
LEMMA BarFacts ==
    ASSUME env \in Settings, today \in Int, NEW k, Fetched(k, today, env.zone)
    PROVE  /\ Bar(k) \subseteq Past(today, env.zone) \cap Between(k)
           /\ k.hour \in Hour
<1>1. k.hour \in Hour
  BY ZoneFact DEF Fetched, Hour
<1>2. ASSUME NEW d \in k.lo .. k.hi
      PROVE  At(d, k.hour) \in Past(today, env.zone) /\ At(d, k.hour) \in Between(k)
  <2>1. d \in Int /\ d <= today /\ k.lo \in Int /\ k.hi \in Int /\ k.lo <= d /\ d <= k.hi
    BY <1>2 DEF Fetched
  <2>2. At(d, k.hour) \in Past(today, env.zone)
    BY <2>1 DEF Past, Fetched
  <2>3. k.hour \in Int
    BY <1>1 DEF Hour, Midnight
  <2>. QED BY <2>1, <2>2, <2>3 DEF Between, At, ADay
<1>. QED BY <1>1, <1>2 DEF Bar

\* From the delete to the insert there is nothing between the bounds of the answer,
\* afterwards the answer and nothing else.
LEMMA ReplaceKnown ==
    ASSUME AnswersInv, NEW c \in Caller, Clear(c) \/ ReadExisting(c) \/ Insert(c)
    PROVE  RunsAlone' /\ NoFuture' /\ AllKnown'
<1>1. MayRun(c) /\ UNCHANGED world /\ DOMAIN rows["yahoo"] \subseteq Past(today, env.zone)
      /\ Known(call[c], rows["yahoo"], today, env.zone) /\ env \in Settings /\ today \in Int
  BY DEF Clear, ReadExisting, Insert, AnswersInv, NoFuture, AllKnown, Day
<1>2. CASE Clear(c)
  <2>. DEFINE k == [call[c] EXCEPT !.pc = "cleared"]
  <2>1. Goto(c, k) /\ call[c].pc = "fetched"
        /\ rows' = [rows EXCEPT !["yahoo"] = Restrict(@, DOMAIN @ \ Reach(c))]
    BY <1>2 DEF Clear
  <2>2. DOMAIN rows'["yahoo"] = DOMAIN rows["yahoo"] \ Between(call[c])
    BY <2>1, SpanIsBar DEF AnswersInv, Shape, Source, Restrict
  <2>3. Fetched(call[c], today, env.zone)
    BY <1>1, <2>1 DEF Known
  <2>4. k.pc = "cleared"
    OBVIOUS
  <2>5. SameAnswer(k, call[c])
    BY DEF SameAnswer
  <2>. HIDE DEF k
  <2>6. Known(k, rows'["yahoo"], today, env.zone)
    BY <2>2, <2>3, <2>4, <2>5, SameFacts DEF Known
  <2>. QED BY <1>1, <2>1, <2>2, <2>6, OneCall
<1>3. CASE ReadExisting(c)
  <2>. DEFINE k == [pc |-> "inserting", win |-> call[c].win, lo |-> call[c].lo,
                    hi |-> call[c].hi, hour |-> call[c].hour, tag |-> call[c].tag,
                    asOf |-> call[c].asOf, existing |-> DOMAIN rows["yahoo"]]
  <2>1. Goto(c, k) /\ call[c].pc = "cleared" /\ rows' = rows
    BY <1>3 DEF ReadExisting
  <2>2. /\ Fetched(call[c], today, env.zone)
        /\ Between(call[c]) \cap DOMAIN rows["yahoo"] = {}
    BY <1>1, <2>1 DEF Known
  <2>3. k.pc = "inserting" /\ SameAnswer(k, call[c])
    BY DEF SameAnswer
  <2>. HIDE DEF k
  <2>4. Known(k, rows'["yahoo"], today, env.zone)
    BY <2>1, <2>2, <2>3, SameFacts DEF Known
  <2>. QED BY <1>1, <2>1, <2>4, OneCall
<1>4. CASE Insert(c)
  <2>. DEFINE k == [call[c] EXCEPT !.pc = "stored"]
              new == Span(c) \ call[c].existing
  <2>1. call[c].pc = "inserting" /\ Inserts(c, "yahoo", new, call[c].tag, k)
    BY <1>4 DEF Insert
  <2>2. /\ Fetched(call[c], today, env.zone)
        /\ Between(call[c]) \cap DOMAIN rows["yahoo"] = {}
        /\ call[c].existing = DOMAIN rows["yahoo"]
    BY <1>1, <2>1 DEF Known, AnswersInv, Fresh
  <2>3. Span(c) = Bar(call[c]) /\ Bar(call[c]) \subseteq Past(today, env.zone) \cap Between(call[c])
    BY <1>1, <2>2, SpanIsBar, BarFacts
  <2>4. new = Bar(call[c]) /\ new \cap DOMAIN rows["yahoo"] = {}
    BY <2>2, <2>3
  <2>. HIDE DEF new
  <2>5. Goto(c, k) /\ rows' = [rows EXCEPT !["yahoo"] =
           [s \in DOMAIN @ \cup new |-> IF s \in new THEN call[c].tag ELSE @[s]]]
    BY <2>1, <2>4 DEF Inserts
  <2>6. /\ DOMAIN rows'["yahoo"] = DOMAIN rows["yahoo"] \cup Bar(call[c])
        /\ \A s \in Bar(call[c]) : rows'["yahoo"][s] = call[c].tag
    BY <2>4, <2>5 DEF AnswersInv, Shape, Source
  <2>7. \A s \in DOMAIN rows'["yahoo"] \cap Between(call[c]) : s \in Bar(call[c])
    BY <2>2, <2>6
  <2>8. k.pc = "stored"
    OBVIOUS
  <2>9. SameAnswer(k, call[c])
    BY DEF SameAnswer
  <2>. HIDE DEF k
  <2>10. Known(k, rows'["yahoo"], today, env.zone)
    <3>1. /\ Bar(k) = Bar(call[c]) /\ Between(k) = Between(call[c]) /\ k.tag = call[c].tag
          /\ Fetched(k, today, env.zone)
      BY <2>2, <2>9, SameFacts DEF SameAnswer
    <3>. QED BY <2>6, <2>7, <2>8, <3>1 DEF Known
  <2>11. DOMAIN rows'["yahoo"] \subseteq Past(today, env.zone)
    BY <1>1, <2>3, <2>6
  <2>. QED BY <1>1, <2>5, <2>10, <2>11, OneCall
<1>. QED BY <1>2, <1>3, <1>4

\* A recent day that lies in the window is in the answer, if the source has given it.
LEMMA ReloadKnown ==
    ASSUME AnswersInv, NEW c \in Caller, Reload(c)
    PROVE  RunsAlone' /\ NoFuture' /\ AllKnown'
<1>. DEFINE k == [pc |-> "served", win |-> call[c].win, bars |-> LoadCache(call[c].win),
                  how |-> "fetch", asOf |-> call[c].asOf,
                  lo |-> call[c].lo, hi |-> call[c].hi, hour |-> call[c].hour,
                  tag |-> call[c].tag]
            win == call[c].win
<1>1. MayRun(c) /\ UNCHANGED world /\ DOMAIN rows["yahoo"] \subseteq Past(today, env.zone)
      /\ Known(call[c], rows["yahoo"], today, env.zone) /\ call[c].pc = "stored" /\ rows' = rows
      /\ Goto(c, k) /\ env \in Settings /\ today \in Int
  BY DEF Reload, AnswersInv, NoFuture, AllKnown, Day
<1>2. /\ Fetched(call[c], today, env.zone)
      /\ Bar(call[c]) \subseteq DOMAIN rows["yahoo"]
      /\ \A s \in DOMAIN rows["yahoo"] \cap Between(call[c]) :
            s \in Bar(call[c]) /\ rows["yahoo"][s] = call[c].tag
  BY <1>1 DEF Known
<1>3. /\ DOMAIN LoadCache(win) = DOMAIN rows["yahoo"] \cap Covered(win)
      /\ \A s \in DOMAIN LoadCache(win) : LoadCache(win)[s] = rows["yahoo"][s]
  BY DEF LoadCache, Restrict
<1>4. k.pc = "served" /\ k.bars = LoadCache(win) /\ k.how = "fetch" /\ SameAnswer(k, call[c])
  BY DEF SameAnswer
<1>. HIDE DEF k
<1>5. WholeRefresh(k)
  <2>1. /\ Bar(k) = Bar(call[c]) /\ Between(k) = Between(call[c]) /\ k.tag = call[c].tag
        /\ k.win = win
    BY <1>4, SameFacts DEF SameAnswer
  <2>. QED BY <1>2, <1>3, <1>4, <2>1 DEF WholeRefresh
<1>6. ASSUME NEW d \in Day \cap Recent(call[c].asOf), TakesIn(win, d),
             call[c].tag[1] # "frozen", ~(call[c].lo > d)
      PROVE  d \in DaysOf(DOMAIN LoadCache(win))
  <2>1. /\ win \in Windows /\ call[c].lo \in Int /\ call[c].hi \in Int /\ call[c].asOf \in Int
        /\ \/ call[c].hi = call[c].asOf
           \/ win[2] \in Nat \ {NoDay} /\ call[c].hi \in {win[2] - 1, win[2]}
    BY <1>2, <1>6 DEF Fetched, Day
  <2>2. d \in Int /\ d <= call[c].asOf /\ call[c].lo <= d
    BY <1>6, <2>1 DEF Day, Recent
  <2>3. win[2] \in Nat \ {NoDay} => d <= win[2] - 1
    <3>1. win[2] # NoDay => At(d, 1) <= At(win[2], Midnight)
      BY <1>6 DEF TakesIn, Covered, Hour
    <3>. QED BY <2>2, <3>1 DEF At, ADay, Midnight
  <2>4. d \in call[c].lo .. call[c].hi
    BY <2>1, <2>2, <2>3
  <2>5. At(d, call[c].hour) \in DOMAIN rows["yahoo"]
    BY <1>2, <2>4 DEF Bar
  <2>6. call[c].hour \in Hour
    BY <1>1, <1>2, BarFacts
  <2>7. At(d, call[c].hour) \in Covered(win)
    BY <1>6, <2>6 DEF TakesIn
  <2>. QED BY <1>3, <1>6, <2>5, <2>6, <2>7 DEF DaysOf
<1>7. AsRecent(k)
  BY <1>4, <1>6 DEF AsRecent, SameAnswer
<1>8. Known(k, rows'["yahoo"], today, env.zone)
  BY <1>4, <1>5, <1>7 DEF Known
<1>. QED BY <1>1, <1>8, OneCall

\* The older writers and invalidate.
LEMMA LegacyKnown ==
    ASSUME AnswersInv, NEW c \in Caller,
           DownloadYahoo(c) \/ DownloadAlphaVantage(c) \/ Compare(c) \/ InsertMissing(c)
             \/ Invalidate(c)
    PROVE  RunsAlone' /\ NoFuture' /\ AllKnown'
<1>1. MayRun(c) /\ UNCHANGED world /\ DOMAIN rows["yahoo"] \subseteq Past(today, env.zone)
      /\ Known(call[c], rows["yahoo"], today, env.zone) /\ today \in Int /\ today >= 1
      /\ env \in Settings
  BY DEF DownloadYahoo, DownloadAlphaVantage, Downloads, Compare, InsertMissing, Invalidate,
         AnswersInv, NoFuture, AllKnown, Day, world
<1>2. CASE DownloadYahoo(c) \/ DownloadAlphaVantage(c)
  <2>1. ASSUME NEW source, NEW first \in Int, NEW hour \in {Midnight, env.zone}, NEW basis,
               Downloads(c, source, first, hour, basis)
        PROVE  RunsAlone' /\ NoFuture' /\ AllKnown'
    <3>. DEFINE k == [pc |-> "downloaded", source |-> source, lo |-> first, hi |-> today,
                      hour |-> hour, tag |-> <<basis, revision>>]
    <3>1. Goto(c, k) /\ rows' = rows
      BY <2>1 DEF Downloads
    <3>2. k.pc = "downloaded" /\ k.lo = first /\ k.hi = today /\ k.hour = hour
      OBVIOUS
    <3>. HIDE DEF k
    <3>3. Known(k, rows'["yahoo"], today, env.zone)
      BY <1>1, <2>1, <3>2 DEF Known
    <3>. QED BY <1>1, <3>1, <3>3, OneCall
  <2>2. CASE DownloadYahoo(c)
    <3>1. Downloads(c, "yahoo", 1, env.zone, "total")
      BY <2>2 DEF DownloadYahoo
    <3>. QED BY <2>1, <3>1
  <2>3. CASE DownloadAlphaVantage(c)
    <3>. DEFINE first == IF today > Compact THEN today - Compact + 1 ELSE 1
    <3>1. first \in Int
      BY <1>1, DaysAssumption
    <3>2. Downloads(c, "alphavantage", first, Midnight, "raw")
      BY <2>3 DEF DownloadAlphaVantage
    <3>. HIDE DEF first
    <3>. QED BY <2>1, <3>1, <3>2
  <2>. QED BY <1>2, <2>2, <2>3
<1>3. CASE Compare(c)
  <2>. DEFINE k == [pc |-> "compared", source |-> call[c].source, tag |-> call[c].tag,
                    new |-> Span(c) \ DOMAIN rows[call[c].source]]
  <2>1. Goto(c, k) /\ rows' = rows /\ call[c].pc = "downloaded"
    BY <1>3 DEF Compare
  <2>2. /\ call[c].lo \in Int /\ call[c].hi \in Int /\ call[c].hi <= today
        /\ call[c].hour \in {Midnight, env.zone}
    BY <1>1, <2>1 DEF Known
  <2>3. Span(c) \subseteq Past(today, env.zone)
    BY <1>1, <2>2 DEF Span, Past
  <2>4. k.pc = "compared" /\ k.new \subseteq Past(today, env.zone)
    BY <2>3
  <2>. HIDE DEF k
  <2>5. Known(k, rows'["yahoo"], today, env.zone)
    BY <2>4 DEF Known
  <2>. QED BY <1>1, <2>1, <2>5, OneCall
<1>4. CASE InsertMissing(c)
  <2>. DEFINE k == [pc |-> "raised", why |-> "unique"]
              src == call[c].source
              new == call[c].new
  <2>1. call[c].pc = "compared" /\ Inserts(c, src, new, call[c].tag, Idle)
    BY <1>4 DEF InsertMissing
  <2>2. new \subseteq Past(today, env.zone)
    BY <1>1, <2>1 DEF Known
  <2>3. CASE Goto(c, k) /\ rows' = rows
    <3>1. Known(k, rows'["yahoo"], today, env.zone)
      BY DEF Known
    <3>. QED BY <1>1, <2>3, <3>1, OneCall
  <2>4. CASE /\ Goto(c, Idle)
             /\ rows' = [rows EXCEPT ![src] =
                   [s \in DOMAIN @ \cup new |-> IF s \in new THEN call[c].tag ELSE @[s]]]
    <3>1. DOMAIN rows'["yahoo"] \subseteq DOMAIN rows["yahoo"] \cup new
      BY <2>4 DEF AnswersInv, Shape, Source
    <3>2. Known(Idle, rows'["yahoo"], today, env.zone)
      BY DEF Known, Idle
    <3>. QED BY <1>1, <2>2, <2>4, <3>1, <3>2, OneCall
  <2>. QED BY <2>1, <2>3, <2>4 DEF Inserts
<1>5. CASE Invalidate(c)
  <2>1. PICK old :
           rows' = [rows EXCEPT !["yahoo"] = Restrict(@, {s \in DOMAIN @ : s >= old})]
    BY <1>5 DEF Invalidate
  <2>2. DOMAIN rows'["yahoo"] \subseteq DOMAIN rows["yahoo"]
    BY <2>1 DEF AnswersInv, Shape, Source, Restrict
  <2>3. Goto(c, Idle)
    BY <1>5 DEF Invalidate
  <2>4. Known(Idle, rows'["yahoo"], today, env.zone)
    BY DEF Known, Idle
  <2>. QED BY <1>1, <2>2, <2>3, <2>4, OneCall
<1>. QED BY <1>2, <1>3, <1>4, <1>5

LEMMA AnswersStep == CacheInv /\ AnswersInv /\ [Next]_vars => AnswersInv'
<1>. SUFFICES ASSUME CacheInv, AnswersInv, [Next]_vars PROVE AnswersInv'
  OBVIOUS
<1>1. Shape' /\ Fresh'
  BY CacheStep DEF CacheInv
<1>2. ASSUME NEW c \in Caller, Serves(c) \/ Invalidate(c)
      PROVE  RunsAlone' /\ NoFuture' /\ AllKnown'
  BY <1>2, LoadKnown, AskKnown, ReplaceKnown, ReloadKnown, LegacyKnown DEF Serves
<1>3. CASE NewDay \/ Rebase \/ UNCHANGED vars
  <2>1. UNCHANGED <<rows, call, env>> /\ today' \in Day /\ today <= today'
        /\ today \in Int /\ today' \in Int
    BY <1>3, DaysAssumption DEF NewDay, Rebase, vars, AnswersInv, NoFuture, Day
  <2>2. RunsAlone'
    BY <2>1 DEF AnswersInv, RunsAlone, MayRun, Free, Suspended
  <2>3. NoFuture'
    BY <2>1 DEF AnswersInv, NoFuture, Past
  <2>4. ASSUME NEW c \in Caller PROVE Known(call[c], rows["yahoo"], today', env.zone)
    BY <2>1, KnownLater DEF AnswersInv, AllKnown
  <2>. QED BY <1>1, <2>1, <2>2, <2>3, <2>4 DEF AllKnown, AnswersInv
<1>4. CASE Crash
  <2>1. call' = [d \in Caller |-> Idle] /\ UNCHANGED <<world, rows>>
    BY <1>4 DEF Crash
  <2>2. \A bars, now, zone : Known(Idle, bars, now, zone)
    BY DEF Known, Idle
  <2>3. RunsAlone' /\ AllKnown'
    BY <2>1, <2>2 DEF RunsAlone, AllKnown, Free, Idle
  <2>4. NoFuture'
    BY <2>1 DEF AnswersInv, NoFuture, world
  <2>. QED BY <1>1, <2>3, <2>4 DEF AnswersInv
<1>. QED BY <1>1, <1>2, <1>3, <1>4 DEF Next, AnswersInv

LEMMA InitAnswers == Init => AnswersInv
<1>. SUFFICES ASSUME Init PROVE AnswersInv
  OBVIOUS
<1>1. Shape /\ Fresh
  BY InitCache DEF CacheInv
<1>2. RunsAlone /\ AllKnown
  BY DEF Init, RunsAlone, AllKnown, Free, Known, Idle
<1>3. NoFuture
  BY DaysAssumption DEF Init, NoFuture, Day, NoBars, Source
<1>. QED BY <1>1, <1>2, <1>3 DEF AnswersInv

\* What was fetched comes back as far as its stamps lie in the window, on one basis and
\* with nothing else between, and an answer that should reach the present does, unless
\* its source was silent, frozen or began later: whatever was cached, rebased or appended
\* before, for any windows, providers, zones and crashes (CacheManager.get_or_fetch).
THEOREM TheAnswersAreSound == Spec => []AnswersAreSound
<1>1. AnswersInv => AnswersAreSound
  <2>. SUFFICES ASSUME AnswersInv, NEW c \in Caller, call[c].pc = "served"
                PROVE  WholeRefresh(call[c]) /\ AsRecent(call[c])
    BY SpanIsBar DEF AnswersAreSound, RefreshIsOneSnapshot, StaleOnlyIfSourceIsSilent,
       WholeRefresh, AsRecent
  <2>. QED BY DEF AnswersInv, AllKnown, Known
<1>. QED BY <1>1, InitCache, InitAnswers, CacheStep, AnswersStep, PTL DEF Spec
-----------------------------------------------------------------------------
(* What the table keeps *)

\* What is missing while a replace is open are days of the answer it will insert.
Kept == \A d \in stored :
           \/ d \in DaysOf(DOMAIN rows["yahoo"]) \cup torn
           \/ \E c \in Replacing : d \in call[c].lo .. call[c].hi
StoredDays == stored \subseteq Day

LEMMA DaysOfUnion ==
    ASSUME NEW S, NEW T
    PROVE  DaysOf(S \cup T) = DaysOf(S) \cup DaysOf(T)
BY DEF DaysOf

\* The delete: a stamp between the bounds of an answer is one of its days.
LEMMA ClearKeeps ==
    ASSUME CacheInv, AnswersInv, Kept, StoredDays, NEW c \in Caller, Clear(c)
    PROVE  Kept' /\ StoredDays'
<1>1. /\ call[c].pc = "fetched" /\ UNCHANGED <<stored, torn>>
      /\ rows' = [rows EXCEPT !["yahoo"] = Restrict(@, DOMAIN @ \ Reach(c))]
      /\ call' = [call EXCEPT ![c] = [call[c] EXCEPT !.pc = "cleared"]]
  BY DEF Clear, Goto
<1>2. Replacing = {} /\ Replacing' = {c}
  BY ClearStep
<1>3. DOMAIN rows'["yahoo"] = DOMAIN rows["yahoo"] \ Between(call[c])
  BY <1>1, SpanIsBar DEF CacheInv, Shape, Source, Restrict
<1>4. call'[c] = [call[c] EXCEPT !.pc = "cleared"]
  BY <1>1 DEF CacheInv, Shape
<1>5. call'[c].lo = call[c].lo /\ call'[c].hi = call[c].hi
  BY <1>4
<1>6. Fetched(call[c], today, env.zone) /\ env \in Settings /\ today \in Int
  BY <1>1 DEF AnswersInv, AllKnown, NoFuture, Known, Day
<1>7. call[c].lo \in Int /\ call[c].hi \in Int /\ call[c].hour \in {-1, 0, 1}
  BY <1>6, BarFacts DEF Fetched, Hour, Midnight
<1>8. ASSUME NEW d \in stored, d \notin torn, d \notin call[c].lo .. call[c].hi
      PROVE  d \in DaysOf(DOMAIN rows'["yahoo"])
  <2>1. d \in DaysOf(DOMAIN rows["yahoo"]) /\ d \in Day /\ d \in Int
    <3>1. d \in DaysOf(DOMAIN rows["yahoo"])
      BY <1>2, <1>8, Zenon DEF Kept
    <3>2. d \in 1 .. MaxDay
      BY DEF StoredDays, Day
    <3>. QED BY <3>1, <3>2 DEF Day
  <2>2. PICK hour \in Hour : At(d, hour) \in DOMAIN rows["yahoo"]
    BY <2>1 DEF DaysOf
  <2>3. PICK e \in Int, h \in {Midnight, env.zone} : At(d, hour) = At(e, h)
    BY <2>2 DEF AnswersInv, NoFuture, Past
  <2>4. hour \in {Midnight, env.zone}
    <3>1. h \in Hour
      BY <1>6, ZoneFact DEF Hour
    <3>. QED BY <2>1, <2>3, <3>1, OneDay
  <2>5. At(d, hour) \notin Between(call[c])
    <3>1. call[c].hour \in {Midnight, env.zone} /\ env.zone \in {-1, 0, 1}
      BY <1>6, ZoneFact DEF Fetched, Hour, Midnight
    <3>2. hour \in {-1, 0, 1} /\ hour - call[c].hour \in {-1, 0, 1}
      BY <2>4, <3>1 DEF Midnight
    <3>3. d < call[c].lo \/ d > call[c].hi
      BY <1>7, <1>8, <2>1
    <3>. QED BY <1>7, <2>1, <3>2, <3>3 DEF Between, At, ADay
  <2>. QED BY <1>3, <2>1, <2>2, <2>5 DEF DaysOf
<1>. QED BY <1>1, <1>2, <1>5, <1>8 DEF Kept, StoredDays

\* The insert: every day of the answer is there again.
LEMMA InsertKeeps ==
    ASSUME CacheInv, AnswersInv, Kept, StoredDays, NEW c \in Caller, Insert(c)
    PROVE  Kept' /\ StoredDays'
<1>. DEFINE new == Span(c) \ call[c].existing
<1>1. /\ call[c].pc = "inserting"
      /\ Inserts(c, "yahoo", new, call[c].tag, [call[c] EXCEPT !.pc = "stored"])
  BY DEF Insert
<1>2. new \cap DOMAIN rows["yahoo"] = {}
  BY <1>1 DEF CacheInv, Fresh
<1>3. Replacing = {c} /\ Replacing' = {}
  BY InsertStep
<1>4. DOMAIN rows["yahoo"] \cup new = DOMAIN rows["yahoo"] \cup Span(c)
  BY <1>1 DEF CacheInv, Fresh
<1>. HIDE DEF new
<1>5. /\ rows' = [rows EXCEPT !["yahoo"] =
                    [s \in DOMAIN @ \cup new |-> IF s \in new THEN call[c].tag ELSE @[s]]]
      /\ stored' = stored \cup DaysOf(new) /\ torn' = torn \ DaysOf(new)
  BY <1>1, <1>2 DEF Inserts
<1>6. DOMAIN rows'["yahoo"] = DOMAIN rows["yahoo"] \cup new
  BY <1>5 DEF CacheInv, Shape, Source
<1>7. /\ DaysOf(DOMAIN rows'["yahoo"]) = DaysOf(DOMAIN rows["yahoo"]) \cup DaysOf(new)
      /\ DaysOf(DOMAIN rows'["yahoo"]) = DaysOf(DOMAIN rows["yahoo"]) \cup DaysOf(Span(c))
  BY <1>4, <1>6, DaysOfUnion
<1>8. call[c].hour \in Hour
  BY <1>1, BarFacts DEF AnswersInv, AllKnown, NoFuture, Known, Day
<1>9. ASSUME NEW d \in Day, d \in call[c].lo .. call[c].hi PROVE d \in DaysOf(Span(c))
  BY <1>8, <1>9 DEF DaysOf, Span
<1>10. StoredDays'
  BY <1>5 DEF StoredDays, DaysOf
<1>. QED BY <1>3, <1>5, <1>7, <1>9, <1>10 DEF Kept, StoredDays

LEMMA InsertMissingKeeps ==
    ASSUME CacheInv, Kept, StoredDays, NEW c \in Caller, InsertMissing(c)
    PROVE  Kept' /\ StoredDays'
<1> DEFINE new == call[c].new
           src == call[c].source
<1>1. Inserts(c, src, new, call[c].tag, Idle)
  BY DEF InsertMissing
<1>2. Replacing = {} /\ Replacing' = {}
  BY BesideStep
<1>3. CASE UNCHANGED <<rows, stored, torn>>
  BY <1>2, <1>3 DEF Kept, StoredDays
<1>4. CASE ~UNCHANGED <<rows, stored, torn>>
  <2>1. /\ rows' = [rows EXCEPT ![src] =
                      [s \in DOMAIN @ \cup new |-> IF s \in new THEN call[c].tag ELSE @[s]]]
        /\ stored' = IF src = "yahoo" THEN stored \cup DaysOf(new) ELSE stored
        /\ torn' = IF src = "yahoo" THEN torn \ DaysOf(new) ELSE torn
    BY <1>1, <1>4 DEF Inserts
  <2>2. DOMAIN rows'["yahoo"] = IF src = "yahoo" THEN DOMAIN rows["yahoo"] \cup new
                                ELSE DOMAIN rows["yahoo"]
    BY <2>1 DEF CacheInv, Shape, Source
  <2>3. StoredDays'
    BY <2>1 DEF StoredDays, DaysOf
  <2>4. Kept'
    BY <1>2, <2>1, <2>2, DaysOfUnion DEF Kept
  <2> QED
    BY <2>3, <2>4
<1> QED
  BY <1>3, <1>4

\* A day stays promised only if none of its stamps falls before the moment.
LEMMA InvalidateKeeps ==
    ASSUME CacheInv, Kept, StoredDays, NEW c \in Caller, Invalidate(c)
    PROVE  Kept' /\ StoredDays'
<1>1. PICK old \in Stamp \cup {At(MaxDay + 1, 1)} :
        /\ rows' = [rows EXCEPT !["yahoo"] = Restrict(@, {s \in DOMAIN @ : s >= old})]
        /\ stored' = {d \in stored : At(d, -1) >= old}
        /\ torn' = {d \in torn : At(d, -1) >= old}
  BY DEF Invalidate
<1>2. Replacing = {} /\ Replacing' = {}
  BY BesideStep
<1>3. DOMAIN rows'["yahoo"] = {s \in DOMAIN rows["yahoo"] : s >= old}
  BY <1>1 DEF CacheInv, Shape, Source, Restrict
<1>4. old \in Int
  BY <1>1, DaysAssumption DEF Stamp, At, ADay, Day, Hour, Midnight
<1>5. ASSUME NEW d \in stored', d \notin torn'
      PROVE  d \in DaysOf(DOMAIN rows'["yahoo"])
  <2>1. d \in stored /\ At(d, -1) >= old /\ d \notin torn /\ d \in Day /\ d \in Int
    BY <1>1, <1>5 DEF StoredDays, Day
  <2>2. PICK hour \in Hour : At(d, hour) \in DOMAIN rows["yahoo"]
    BY <1>2, <2>1 DEF Kept, DaysOf
  <2>3. At(d, hour) >= old
    BY <1>4, <2>1, <2>2 DEF At, ADay, Hour, Midnight
  <2>. QED BY <1>3, <2>1, <2>2, <2>3 DEF DaysOf
<1>. QED BY <1>1, <1>2, <1>5 DEF Kept, StoredDays

LEMMA CrashKeeps ==
    ASSUME CacheInv, Kept, StoredDays, Crash
    PROVE  Kept' /\ StoredDays'
<1>1. /\ torn' = torn \cup ((InReplace \cap stored) \ DaysOf(DOMAIN rows["yahoo"]))
      /\ UNCHANGED <<rows, stored>>
  BY DEF Crash
<1>2. Replacing' = {}
  BY CrashStep
<1>3. ASSUME NEW d \in stored, d \notin DaysOf(DOMAIN rows["yahoo"])
      PROVE  d \in torn'
  <2>1. CASE d \in torn
    BY <1>1, <2>1
  <2>2. CASE d \notin torn
    <3>1. PICK c \in Replacing : d \in call[c].lo .. call[c].hi
      BY <1>3, <2>2 DEF Kept
    <3>2. d \in InReplace
      BY <3>1 DEF InReplace
    <3> QED
      BY <1>1, <1>3, <3>2
  <2> QED
    BY <2>1, <2>2
<1> QED
  BY <1>1, <1>2, <1>3 DEF Kept, StoredDays

LEMMA KeptStep ==
    CacheInv /\ AnswersInv /\ Kept /\ StoredDays /\ [Next]_vars => Kept' /\ StoredDays'
<1> SUFFICES ASSUME CacheInv, AnswersInv, Kept, StoredDays, [Next]_vars
             PROVE  Kept' /\ StoredDays'
  OBVIOUS
<1>1. ASSUME NEW c \in Caller, Quiet(c) PROVE Kept' /\ StoredDays'
  <2>1. Replacing = {} /\ UNCHANGED <<rows, stored, torn>>
    BY <1>1, AloneInside DEF Quiet
  <2> QED
    BY <2>1 DEF Kept, StoredDays
<1>2. ASSUME NEW c \in Caller, ReadExisting(c) PROVE Kept' /\ StoredDays'
  <2>. DEFINE r == [pc |-> "inserting", win |-> call[c].win, lo |-> call[c].lo,
                    hi |-> call[c].hi, hour |-> call[c].hour, tag |-> call[c].tag,
                    asOf |-> call[c].asOf, existing |-> DOMAIN rows["yahoo"]]
  <2>1. call' = [call EXCEPT ![c] = r] /\ UNCHANGED <<rows, stored, torn>>
    BY <1>2 DEF ReadExisting, Goto
  <2>2. r.lo = call[c].lo /\ r.hi = call[c].hi
    OBVIOUS
  <2>. HIDE DEF r
  <2>3. call'[c] = r
    BY <2>1 DEF CacheInv, Shape
  <2>4. Replacing = {c} /\ Replacing' = {c}
    BY <1>2, ReadExistingStep
  <2> QED
    BY <2>1, <2>2, <2>3, <2>4 DEF Kept, StoredDays
<1>3. ASSUME NEW c \in Caller, Serves(c) \/ Invalidate(c) PROVE Kept' /\ StoredDays'
  BY <1>1, <1>2, <1>3, ServesQuietly, ClearKeeps, InsertKeeps, InsertMissingKeeps,
     InvalidateKeeps DEF Serves
<1>4. CASE NewDay \/ Rebase \/ UNCHANGED vars
  <2>1. UNCHANGED <<rows, call, stored, torn>>
    BY <1>4 DEF NewDay, Rebase, vars
  <2> QED
    BY <2>1 DEF Kept, StoredDays, Replacing
<1>5. CASE Crash
  BY <1>5, CrashKeeps
<1> QED
  BY <1>3, <1>4, <1>5 DEF Next

\* The table loses no day it has stored, but for what a crash between the two commits of
\* a replace has torn out: for any number of callers, any mix of the two kinds of writers
\* and of the hours of their stamps, and any source that answers them.
THEOREM TheTableLosesNothing == Spec => []ReplaceLosesNothing
<1>1. Kept => ReplaceLosesNothing
  BY DEF Kept, Replacing, ReplaceLosesNothing
<1>2. Init => Kept /\ StoredDays
  BY DEF Init, Kept, StoredDays
<1> QED
  BY <1>1, <1>2, InitCache, CacheStep, InitAnswers, AnswersStep, KeptStep, PTL DEF Spec
=============================================================================
