----------------------------- MODULE PriceCache -----------------------------
(***************************************************************************)
(* The price_cache table and its writers: CacheManager of                  *)
(* marketdata/cache.py, which refreshes a window by delete, commit, insert,*)
(* commit, and the older fetch_and_cache of marketdata/yahoo.py and        *)
(* alphavantage.py, which only adds what is missing.  One symbol, daily    *)
(* bars; a row is its stamp and the basis and revision of its prices.  The *)
(* stamp is the key of the row and all that the cache compares: the bound  *)
(* of a window is a midnight, a bar carries the hour its service gives it. *)
(*                                                                         *)
(* A CacheManager call never awaits, so on the server's one event loop it  *)
(* is not interleaved; its statements are steps because the process may die*)
(* between them.  fetch_and_cache awaits at each of its statements.        *)
(***************************************************************************)
EXTENDS ProviderChain, FiniteSets

CONSTANTS
    Caller,
    MaxDay, MaxRevision, MaxCalls, MaxCrashes,  \* bounds of an instance
    Windows,         \* the windows asked for: dates of start and end, or NoDay
    Settings,        \* how the process is configured, see World
    LegacyWriters,   \* do fetch_and_cache calls occur?  Nothing in src/ makes one
    Compact          \* bars of Alpha Vantage's compact answer (100)

\* The frozen snapshot was taken before the first day ends; the others know no future.
ASSUME DaysAssumption == MaxDay \in Nat \ {0} /\ Compact \in Nat /\ Windows \subseteq Nat \X Nat
ASSUME SettingsAssumption ==
    \A e \in Settings :
        /\ e.frozenTo \in 0 .. 1 /\ e.zone \in Hour
        /\ e.provider \in {"yahoo", "alphavantage", "frozen"}

Day == 1 .. MaxDay

\* Time in thirds of a day: the stamp of a day's bar is its midnight, or one third off it.
ADay == 3
At(d, hour) == ADay * d + hour
Stamp == {At(d, hour) : d \in Day, hour \in Hour}
DaysOf(stamps) == {d \in Day : \E hour \in Hour : At(d, hour) \in stamps}

VARIABLES
    env,       \* the configuration of the process; it never changes
    today, revision,  \* the provider's side: last day with a bar, rebasings so far
    rows,      \* price_cache: for each source, the stored stamps and their tags
    call,      \* what each caller is doing, with the values it has read
    calls,     \* calls so far
    crashes,
    stored,    \* history: days stored in the name of "yahoo" and not invalidated since
    torn       \* history: days a crash took between the two commits of a replace

vars == <<env, today, revision, rows, call, calls, crashes, stored, torn>>
world == <<env, today, revision>>

Source == {"yahoo", "alphavantage"}
NoBars == [s \in {} |-> <<>>]
Idle == [pc |-> "idle"]

Init ==
    /\ env \in Settings
    /\ today = 1
    /\ revision = 0
    /\ rows = [s \in Source |-> NoBars]
    /\ call = [c \in Caller |-> Idle]
    /\ calls = 0
    /\ crashes = 0
    /\ stored = {}
    /\ torn = {}

Free(c) == call[c].pc \in {"idle", "served", "raised"}
Suspended(c) == call[c].pc \in {"downloaded", "compared"}

\* Nobody else gets a turn while a CacheManager call runs.
MayRun(c) == \A d \in Caller \ {c} : Free(d) \/ Suspended(d)

Goto(c, record) == call' = [call EXCEPT ![c] = record]

(* What the call knows of the world *)
World == [deterministic |-> env.deterministic, snapshot |-> env.snapshot,
          frozenTo |-> env.frozenTo, dates |-> env.dates, key |-> env.key, zone |-> env.zone,
          today |-> today]
Sources == IF env.aggregated THEN Chain(World, env.alpaca) ELSE Named(env.provider)
Request(win) == [start |-> win[1], end |-> win[2], interval |-> "day", crypto |-> env.crypto]
Tag(a) == <<a.basis, IF a.basis = "frozen" THEN 0 ELSE revision>>

\* The rows between the bounds of the window: of its last day only a bar stamped at midnight
\* or before, of its first only one stamped at midnight or after.
Covered(win) == {s \in Stamp : /\ win[1] # NoDay => s >= At(win[1], Midnight)
                               /\ win[2] # NoDay => s <= At(win[2], Midnight)}
LoadCache(win) == Restrict(rows["yahoo"], DOMAIN rows["yahoo"] \cap Covered(win))
Earliest(bars) == CHOOSE s \in DOMAIN bars : \A t \in DOMAIN bars : s <= t
Latest(bars) == CHOOSE s \in DOMAIN bars : \A t \in DOMAIN bars : s >= t

\* It is some time from the session of today until the session of the next day.
Clock == At(today, 1) .. At(today + 1, Midnight)

\* Only the head and the age of the tail are looked at; now lies between two marks.
NeedFetch(win, bars, now) ==
    \/ DOMAIN bars = {}
    \/ win[1] # NoDay /\ Earliest(bars) > At(win[1], Midnight) + ADay
    \/ now - Latest(bars) >= 2 * ADay

(* get_or_fetch *)
Serve(c, win, bars, how) ==
    Goto(c, [pc |-> "served", win |-> win, bars |-> bars, how |-> how, asOf |-> today])

Load(c) ==
    /\ MayRun(c) /\ Free(c) /\ calls < MaxCalls
    /\ calls' = calls + 1
    /\ \E win \in Windows, now \in Clock :
         LET bars == LoadCache(win) IN
         IF env.dates /\ win[1] # NoDay /\ DOMAIN bars # {}
         THEN Goto(c, [pc |-> "raised", why |-> "date"])     \* start.tzinfo of a date
         ELSE IF NeedFetch(win, bars, now)
         THEN Goto(c, [pc |-> "asking", win |-> win, bars |-> bars, left |-> Sources])
         ELSE Serve(c, win, bars, "cache")
    /\ UNCHANGED <<world, rows, crashes, stored, torn>>

\* The next source answers.  A chain goes on at an error or at nothing and raises at its end;
\* a single provider's error is the caller's, and nothing new leaves what was cached.
Ask(c) ==
    /\ MayRun(c) /\ call[c].pc = "asking"
    /\ \E a \in Answers(Head(call[c].left), Request(call[c].win), World) :
         \/ /\ a.kind = "bars"
            /\ Goto(c, [pc |-> "fetched", win |-> call[c].win, lo |-> a.lo, hi |-> a.hi,
                        hour |-> a.hour, tag |-> Tag(a), asOf |-> today])
         \/ /\ a.kind # "bars" /\ env.aggregated /\ Len(call[c].left) > 1
            /\ Goto(c, [pc |-> "asking", win |-> call[c].win, bars |-> call[c].bars,
                        left |-> Tail(call[c].left)])
         \/ /\ IF env.aggregated THEN a.kind # "bars" /\ Len(call[c].left) = 1
               ELSE a.kind = "error"
            /\ Goto(c, [pc |-> "raised", why |-> "provider"])
         \/ /\ a.kind = "empty" /\ ~env.aggregated
            /\ Serve(c, call[c].win, call[c].bars, "silence")
    /\ UNCHANGED <<world, rows, calls, crashes, stored, torn>>

\* The stamps of the answer, and all that lies between its first and its last.
Span(c) == {At(d, call[c].hour) : d \in call[c].lo .. call[c].hi}
Reach(c) == At(call[c].lo, call[c].hour) .. At(call[c].hi, call[c].hour)

\* Mutant: nothing is deleted, what is new is appended (H21).
ClearNothing(c) ==
    /\ MayRun(c) /\ call[c].pc = "fetched"
    /\ Goto(c, [call[c] EXCEPT !.pc = "cleared"])
    /\ UNCHANGED <<world, rows, calls, crashes, stored, torn>>

\* Mutant: what exists is read before the delete.
ClearAfterRead(c) ==
    /\ MayRun(c) /\ call[c].pc = "fetched"
    /\ rows' = [rows EXCEPT !["yahoo"] = Restrict(@, DOMAIN @ \ Reach(c))]
    /\ Goto(c, [call[c] EXCEPT !.pc = "inserting"] @@ [existing |-> DOMAIN rows["yahoo"]])
    /\ UNCHANGED <<world, calls, crashes, stored, torn>>

\* _store_cache, replace: what lies in the range of the answer goes, and that is committed.
Clear(c) ==
    /\ MayRun(c) /\ call[c].pc = "fetched"
    /\ rows' = [rows EXCEPT !["yahoo"] = Restrict(@, DOMAIN @ \ Reach(c))]
    /\ Goto(c, [call[c] EXCEPT !.pc = "cleared"])
    /\ UNCHANGED <<world, calls, crashes, stored, torn>>

ReadExisting(c) ==
    /\ MayRun(c) /\ call[c].pc = "cleared"
    /\ Goto(c, [pc |-> "inserting", win |-> call[c].win, lo |-> call[c].lo, hi |-> call[c].hi,
                hour |-> call[c].hour, tag |-> call[c].tag, asOf |-> call[c].asOf,
                existing |-> DOMAIN rows["yahoo"]])
    /\ UNCHANGED <<world, rows, calls, crashes, stored, torn>>

\* The unique constraint on (symbol, timestamp, interval, source): one row that is there by now
\* fails the whole transaction.
Inserts(c, source, new, tag, then) ==
    IF new \cap DOMAIN rows[source] # {}
    THEN /\ Goto(c, [pc |-> "raised", why |-> "unique"])
         /\ UNCHANGED <<rows, stored, torn>>
    ELSE /\ rows' = [rows EXCEPT ![source] =
                       [s \in DOMAIN @ \cup new |-> IF s \in new THEN tag ELSE @[s]]]
         /\ stored' = IF source = "yahoo" THEN stored \cup DaysOf(new) ELSE stored
         /\ torn' = IF source = "yahoo" THEN torn \ DaysOf(new) ELSE torn
         /\ Goto(c, then)

Insert(c) ==
    /\ MayRun(c) /\ call[c].pc = "inserting"
    /\ Inserts(c, "yahoo", Span(c) \ call[c].existing, call[c].tag, [call[c] EXCEPT !.pc = "stored"])
    /\ UNCHANGED <<world, calls, crashes>>

Reload(c) ==
    /\ MayRun(c) /\ call[c].pc = "stored"
    /\ Goto(c, [pc |-> "served", win |-> call[c].win, bars |-> LoadCache(call[c].win),
                how |-> "fetch", asOf |-> call[c].asOf,
                lo |-> call[c].lo, hi |-> call[c].hi, hour |-> call[c].hour,
                tag |-> call[c].tag])
    /\ UNCHANGED <<world, rows, calls, crashes, stored, torn>>

\* invalidate: all bars, or those stamped before a moment some days ago, in one commit.
Invalidate(c) ==
    /\ MayRun(c) /\ Free(c) /\ calls < MaxCalls
    /\ calls' = calls + 1
    /\ \E old \in {s \in Stamp : s <= At(today, 1)} \cup {At(MaxDay + 1, 1)} :
         /\ rows' = [rows EXCEPT !["yahoo"] = Restrict(@, {s \in DOMAIN @ : s >= old})]
         /\ stored' = {d \in stored : At(d, -1) >= old}
         /\ torn' = {d \in torn : At(d, -1) >= old}
    /\ Goto(c, Idle)
    /\ UNCHANGED <<world, crashes>>

(* fetch_and_cache: download in a thread, compare, insert; an await at each *)
Downloads(c, source, first, hour, basis) ==
    /\ LegacyWriters /\ MayRun(c) /\ Free(c) /\ calls < MaxCalls
    /\ calls' = calls + 1
    /\ Goto(c, [pc |-> "downloaded", source |-> source, lo |-> first, hi |-> today,
                hour |-> hour, tag |-> <<basis, revision>>])
    /\ UNCHANGED <<world, rows, crashes, stored, torn>>

\* The longest period Yahoo has, whatever BACKTEST_DETERMINISM_MODE says.
DownloadYahoo(c) == Downloads(c, "yahoo", 1, env.zone, "total")

\* The last bars of the unadjusted series; without a key nothing is asked.
DownloadAlphaVantage(c) ==
    /\ env.key["alpha_vantage"] # "none"
    /\ Downloads(c, "alphavantage", IF today > Compact THEN today - Compact + 1 ELSE 1,
                 Midnight, "raw")

Compare(c) ==
    /\ MayRun(c) /\ call[c].pc = "downloaded"
    /\ Goto(c, [pc |-> "compared", source |-> call[c].source, tag |-> call[c].tag,
                new |-> Span(c) \ DOMAIN rows[call[c].source]])
    /\ UNCHANGED <<world, rows, calls, crashes, stored, torn>>

InsertMissing(c) ==
    /\ MayRun(c) /\ call[c].pc = "compared"
    /\ Inserts(c, call[c].source, call[c].new, call[c].tag, Idle)
    /\ UNCHANGED <<world, calls, crashes>>

(* The environment *)
NewDay ==
    /\ today < MaxDay
    /\ today' = today + 1
    /\ UNCHANGED <<env, revision, rows, call, calls, crashes, stored, torn>>

\* A split or a dividend: the provider now gives the whole history on another basis.
Rebase ==
    /\ revision < MaxRevision
    /\ revision' = revision + 1
    /\ UNCHANGED <<env, today, rows, call, calls, crashes, stored, torn>>

\* The calls between the two commits of a replace, and the days they are about to insert.
Replacing == {c \in Caller : call[c].pc \in {"cleared", "inserting"}}
InReplace == UNION {call[c].lo .. call[c].hi : c \in Replacing}

\* The process dies, and every call with it.
Crash ==
    /\ crashes < MaxCrashes
    /\ crashes' = crashes + 1
    /\ torn' = torn \cup ((InReplace \cap stored) \ DaysOf(DOMAIN rows["yahoo"]))
    /\ call' = [d \in Caller |-> Idle]
    /\ UNCHANGED <<world, rows, calls, stored>>

Serves(c) ==
    \/ Load(c) \/ Ask(c) \/ Clear(c) \/ ReadExisting(c) \/ Insert(c) \/ Reload(c)
    \/ DownloadYahoo(c) \/ DownloadAlphaVantage(c) \/ Compare(c) \/ InsertMissing(c)

Next ==
    \/ \E c \in Caller : Serves(c) \/ Invalidate(c)
    \/ NewDay \/ Rebase \/ Crash

Spec == Init /\ [][Next]_vars

----------------------------------------------------------------------------
\* The table loses no day it has stored: whatever was stored and not invalidated is
\* there, under the stamp of one source or another, whenever no replace is between its
\* commits, but for what a crash has torn out (cache.py:235, the delete is committed
\* before the insert).
ReplaceLosesNothing ==
    Replacing = {} => stored \subseteq DaysOf(DOMAIN rows["yahoo"]) \cup torn

\* H21 (cache.py:112): what a call has fetched comes back, as far as its stamps lie in the
\* window, and nothing stands between its first and last bar that was not fetched with it:
\* whatever was cached there, rebased or appended before, under whichever stamps.
RefreshIsOneSnapshot ==
    \A c \in Caller :
        call[c].pc = "served" /\ call[c].how = "fetch" =>
            /\ Span(c) \cap Covered(call[c].win) \subseteq DOMAIN call[c].bars
            /\ \A s \in DOMAIN call[c].bars \cap Reach(c) :
                  s \in Span(c) /\ call[c].bars[s] = call[c].tag

\* An answer that should reach the present does (a day old at most): if all of a recent
\* day lies in the window, whatever its hour, the answer has a recent bar, unless the
\* source had nothing to say, is the frozen snapshot, or began later (cache.py:103).
Recent(now) == {now - 1, now}
TakesIn(win, d) == \A hour \in Hour : At(d, hour) \in Covered(win)
StaleOnlyIfSourceIsSilent ==
    \A c \in Caller :
        call[c].pc = "served" /\ call[c].how # "silence" =>
            \A d \in Day \cap Recent(call[c].asOf) : TakesIn(call[c].win, d) =>
                \/ DaysOf(DOMAIN call[c].bars) \cap Recent(call[c].asOf) # {}
                \/ call[c].how = "fetch" /\ (call[c].tag[1] = "frozen" \/ call[c].lo > d)

\* What is handed out is sound where it was fetched, and no staler than need be.
AnswersAreSound == RefreshIsOneSnapshot /\ StaleOnlyIfSourceIsSilent

\* get_or_fetch returns data "using cache when available and fetching missing ranges"
\* (cache.py:77): an answer has every day between its first and its last.
AnswersAreWhole ==
    \A c \in Caller : call[c].pc = "served" =>
        \A d, e \in DaysOf(DOMAIN call[c].bars) : d .. e \subseteq DaysOf(DOMAIN call[c].bars)

\* "so the requested last bar is returned" (provider.py:204-206): every day that was asked
\* for and fetched is in the answer.
EndIsIncluded ==
    \A c \in Caller : call[c].pc = "served" /\ call[c].how = "fetch" =>
        \A d \in call[c].lo .. call[c].hi :
            (call[c].win[1] # NoDay => d >= call[c].win[1]) => d \in DaysOf(DOMAIN call[c].bars)

\* A refresh leaves "a single-basis snapshot" (cache.py:112): no day is in an answer twice.
OneBarADay ==
    \A c \in Caller : call[c].pc = "served" /\ call[c].how = "fetch" =>
        \A s, t \in DOMAIN call[c].bars : DaysOf({s}) = DaysOf({t}) => s = t
=============================================================================
