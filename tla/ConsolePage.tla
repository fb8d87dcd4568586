---------------------------- MODULE ConsolePage ----------------------------
(***************************************************************************)
(* The run page of the frontend against the API of RunViews: useRunState   *)
(* polls /state until it shows a terminal status, useRunEvents follows the *)
(* activity over the event stream and falls back to polling, and the       *)
(* Director dashboard polls /stats.  Requests overlap, answers arrive in   *)
(* any order, the stream may drop, the server may die and come back.       *)
(*                                                                         *)
(* Each time the status the page shows changes, React tears the effect of  *)
(* useRunEvents down and runs it again: the stream is aborted and a new    *)
(* one opened at sinceRef, the interval is cleared, but a poll under way   *)
(* is neither cancelled nor ignored.                                       *)
(***************************************************************************)
EXTENDS RunViews

CONSTANTS
    Browsers,      \* bound: what a browser has open, see below
    MaxCopies      \* bound: how often a row is counted as shown

\* At most so many requests of a hook are under way at a time; without polls the
\* activity hook is left out, stats stands for an open dashboard, pauses for a user who
\* presses pause and resume, runs is the max_runs of the run it looks at, and fates what
\* its trials come to.
ASSUME BrowsersAssumption ==
    Browsers \subseteq [states : Nat, polls : Nat, stats : BOOLEAN, pauses : BOOLEAN,
                        runs : 1..MaxTrials, fates : SUBSET Fates]
ASSUME MaxCopiesAssumption == MaxCopies \in Nat \ {0, 1}

VARIABLES
    page,      \* what useRunState shows
    asking,    \* requests for /state under way
    effect,    \* the effect of useRunEvents: the status it closed over, its interval
    stream,    \* the event stream: the server's cursor, the rows the page has taken
    since,     \* sinceRef, shared by every effect
    shown,     \* how often each event row was appended to the list
    polls,     \* requests for /events under way
    dash,      \* aggregate_stats between its read of the runs and of the trials
    browser    \* which of Browsers it is (never changes)

pageVars == <<page, asking, effect, stream, since, shown, polls, dash, browser>>
eventVars == <<effect, stream, since, shown, polls, browser>>
vars == <<serverVars, pageVars>>

MaxRows == 2 * MaxTrials + 1     \* a cut COMMIT may store the events of a run twice
Rows == 1..MaxRows

NoPage == [status |-> "none", candidates |-> 0, failures |-> 0]
NoStream == [open |-> FALSE, cursor |-> 0, got |-> 0, quiet |-> 0, ended |-> FALSE]

IsTerminal(status) == status \in Terminal

Init ==
    /\ ServerInit
    /\ page = NoPage
    /\ asking = {}
    /\ effect = [status |-> "none", polling |-> FALSE]
    /\ stream = NoStream
    /\ since = 0
    /\ shown = [r \in Rows |-> 0]
    /\ polls = {}
    /\ dash = "idle"
    /\ browser \in Browsers
    /\ maxRuns = browser.runs

-----------------------------------------------------------------------------
(* useRunState against get_run_state *)

Ready(status, counts) == [ready |-> TRUE, status |-> status, counts |-> counts]

\* Mutant: the status of the record beside the counts of the tables.
StateReadMixed ==
    IF SeesState(Owner, live) THEN Ready(live.status, Counts(db.trials))
    ELSE [ready |-> FALSE, status |-> db.status, counts |-> Counts(<<>>)]

\* From the record in one step; from the tables first the row, the counts later.
StateRead ==
    IF SeesState(Owner, live) THEN Ready(live.status, Counts(live.trials))
    ELSE [ready |-> FALSE, status |-> db.status, counts |-> Counts(<<>>)]

AskState ==
    /\ up /\ db.status # "none"
    /\ ~IsTerminal(page.status)
    /\ Cardinality(asking) < browser.states
    /\ asking' = asking \cup {StateRead}
    /\ UNCHANGED <<serverVars, page, eventVars, dash>>

CountRows(q) ==
    /\ up /\ ~q.ready
    /\ asking' = (asking \ {q}) \cup {Ready(q.status, Counts(db.trials))}
    /\ UNCHANGED <<serverVars, page, eventVars, dash>>

\* startPolling asks once at once, and then at every tick of the interval.
Unread == [read |-> FALSE, since |-> since, upto |-> 0]
StartPolling ==
    /\ effect' = [effect EXCEPT !.polling = TRUE]
    /\ polls' = polls \cup {Unread}
    /\ stream' = NoStream

\* Mutant: the new stream starts where the server had got to, not at sinceRef.
RunEffectAtTheCursor(status) ==
    /\ effect' = [status |-> status, polling |-> FALSE]
    /\ stream' = LET from == IF stream.cursor > since THEN stream.cursor ELSE since
                 IN  [NoStream EXCEPT !.open = TRUE, !.cursor = from, !.got = from]
    /\ UNCHANGED polls

\* The effect runs again with the new status: startSSE, or its catch block.
RunEffect(status) ==
    \/ /\ effect' = [status |-> status, polling |-> FALSE]
       /\ stream' = [NoStream EXCEPT !.open = TRUE, !.cursor = since, !.got = since]
       /\ UNCHANGED polls
    \/ /\ effect' = [status |-> status, polling |-> TRUE]
       /\ polls' = polls \cup {Unread}
       /\ stream' = NoStream

StateArrives(q) ==
    /\ q.ready
    /\ asking' = asking \ {q}
    /\ page' = [status |-> q.status, candidates |-> q.counts.candidates,
                failures |-> q.counts.failures]
    /\ IF q.status = page.status \/ browser.polls = 0
       THEN UNCHANGED <<effect, stream, polls>>
       ELSE RunEffect(q.status)
    /\ UNCHANGED <<serverVars, since, shown, dash, browser>>

-----------------------------------------------------------------------------
(* stream_run_events, and the reader in startSSE *)

RunIsOver == live = NoRun \/ IsTerminal(live.status)

\* One round: the rows past the cursor go out, then the status is looked at.
StreamRound ==
    /\ up /\ stream.open /\ ~stream.ended
    /\ LET fresh == Len(db.events) > stream.cursor
           quiet == IF RunIsOver /\ ~fresh THEN stream.quiet + 1 ELSE 0
       IN  stream' = [stream EXCEPT !.cursor = IF fresh THEN Len(db.events) ELSE @,
                                    !.quiet = quiet, !.ended = quiet = 2]
    /\ UNCHANGED <<serverVars, page, asking, effect, since, shown, polls, dash, browser>>

\* After 6000 rounds the generator returns, without an end frame.
StreamExpires ==
    /\ up /\ stream.open /\ ~stream.ended
    /\ stream' = [stream EXCEPT !.ended = TRUE]
    /\ UNCHANGED <<serverVars, page, asking, effect, since, shown, polls, dash, browser>>

Once(n) == IF n < MaxCopies THEN n + 1 ELSE n
Append1(from, upto) ==
    /\ shown' = [r \in Rows |-> IF r \in from + 1..upto THEN Once(shown[r]) ELSE shown[r]]
    /\ since' = IF upto > from THEN upto ELSE since

StreamFrame ==
    /\ stream.open /\ stream.got < stream.cursor
    /\ Append1(stream.got, stream.got + 1)
    /\ stream' = [stream EXCEPT !.got = @ + 1]
    /\ UNCHANGED <<serverVars, page, asking, effect, polls, dash, browser>>

\* Mutant: the page trusts that a stream only ends when there is nothing more.
StreamDoneForGood ==
    /\ stream.open /\ stream.ended /\ stream.got = stream.cursor
    /\ stream' = NoStream
    /\ UNCHANGED <<serverVars, page, asking, effect, since, shown, polls, dash, browser>>

\* The reader is done: with a run that is still live the page degrades to polling.
StreamDone ==
    /\ stream.open /\ stream.ended /\ stream.got = stream.cursor
    /\ IF IsTerminal(effect.status)
       THEN stream' = NoStream /\ UNCHANGED <<effect, polls>>
       ELSE StartPolling
    /\ UNCHANGED <<serverVars, page, asking, since, shown, dash, browser>>

\* read() throws: whatever was on the wire is gone.
StreamDrops ==
    /\ stream.open
    /\ StartPolling
    /\ UNCHANGED <<serverVars, page, asking, since, shown, dash, browser>>

-----------------------------------------------------------------------------
(* The polling fallback against get_run_events *)

PollTick ==
    /\ up /\ effect.polling /\ ~IsTerminal(effect.status)
    /\ Cardinality(polls) < browser.polls
    /\ polls' = polls \cup {Unread}
    /\ UNCHANGED <<serverVars, page, asking, effect, stream, since, shown, dash, browser>>

PollRead(p) ==
    /\ up /\ ~p.read
    /\ polls' = (polls \ {p}) \cup
                {[p EXCEPT !.read = TRUE,
                           !.upto = IF Len(db.events) > p.since THEN Len(db.events) ELSE p.since]}
    /\ UNCHANGED <<serverVars, page, asking, effect, stream, since, shown, dash, browser>>

PollArrives(p) ==
    /\ p.read
    /\ polls' = polls \ {p}
    /\ Append1(p.since, p.upto)
    /\ UNCHANGED <<serverVars, page, asking, effect, stream, dash, browser>>

-----------------------------------------------------------------------------
(* aggregate_stats: the runs first, after an await the trials *)

AskStats ==
    /\ up /\ browser.stats /\ dash = "idle" /\ db.status # "none"
    /\ dash' = db.status
    /\ UNCHANGED <<serverVars, page, asking, eventVars>>

StatsDone ==
    /\ up /\ dash # "idle"
    /\ dash' = "idle"
    /\ UNCHANGED <<serverVars, page, asking, eventVars>>

-----------------------------------------------------------------------------
\* A dying server takes the requests it had not answered with it, and the stream.
ServerDies ==
    /\ Crash
    /\ asking' = {q \in asking : q.ready}
    /\ polls' = {p \in polls : p.read}
    /\ effect' = [effect EXCEPT !.polling = @ \/ stream.open]
    /\ stream' = NoStream
    /\ dash' = "idle"
    /\ UNCHANGED <<page, since, shown, browser>>

StateStep == AskState \/ (\E q \in asking : CountRows(q) \/ StateArrives(q))
StreamStep == StreamRound \/ StreamFrame \/ StreamDone
PollStep == PollTick \/ (\E p \in polls : PollRead(p) \/ PollArrives(p))

Next ==
    \/ /\ RunStep \/ RunBreaks \/ Heartbeat \/ FlushStep \/ FlushFails \/ Restart
       /\ \A t \in made' : t.fate \in browser.fates
       /\ UNCHANGED pageVars
    \/ browser.pauses /\ UserStep /\ UNCHANGED pageVars
    \/ ServerDies
    \/ StateStep
    \/ StreamStep \/ StreamExpires \/ StreamDrops
    \/ PollStep
    \/ AskStats \/ StatsDone

\* A flush that has begun goes on, a dead container is restarted, the page's timers
\* fire and every request is answered.  The run itself may hang in a model call for
\* ever, and nothing obliges a stream to break.
Fairness ==
    /\ WF_vars(FlushStep /\ UNCHANGED pageVars)
    /\ WF_vars(Restart /\ UNCHANGED pageVars)
    /\ WF_vars(AskState)
    /\ WF_vars(\E q \in asking : CountRows(q))
    /\ WF_vars(\E q \in asking : StateArrives(q))
    /\ WF_vars(StreamRound) /\ WF_vars(StreamFrame) /\ WF_vars(StreamDone)
    /\ WF_vars(PollTick)
    /\ WF_vars(\E p \in polls : PollRead(p))
    /\ WF_vars(\E p \in polls : PollArrives(p))

Spec == Init /\ [][Next]_vars /\ Fairness

-----------------------------------------------------------------------------
(* Properties *)

\* However polls, streams and restarts overlap, the list of events has no gap: when
\* a row is shown every row stored before it is shown too (append, sinceRef).
NoRowIsSkipped ==
    \A r \in Rows : shown[r] > 0 => \A q \in 1..r : shown[q] > 0

\* The page stops polling at a terminal status, so the counts it then shows are the
\* last: they cover every trial of a run that ended, or all that a crash has left.
TerminalPageHidesNothing ==
    IsTerminal(page.status) =>
        page.candidates + page.failures
            >= Cardinality(IF page.status = "interrupted" THEN Stored ELSE made)

\* Statistics that count the run as ended count each of its trials: no flush comes
\* between the status that aggregate_stats has read and the trials it will count.
TerminalStatsAreFinal ==
    dash \in Terminal \ {"interrupted"} =>
        /\ Stats(db.trials).valid >= Cardinality({t \in made : t.fate \notin RegimeStatuses})
        /\ Stats(db.trials).passed + Stats(db.trials).failed <= Stats(db.trials).valid

\* What is shown as ended, on the page or in the statistics, will not change again.
TheEndIsFinal == TerminalPageHidesNothing /\ TerminalStatsAreFinal

\* A run that failed before on_start, and whose final flush failed too: its record
\* says so, but without a state get_run_state answers from the row, still alive.
MaskedByItsRow ==
    IsTerminal(live.status) /\ ~live.published /\ live.flushed /\ db.status \in Active

\* The server is back, the run is lost, and its row says paused: the start-up marks
\* only rows that say running (mark_orphaned_runs_interrupted).
LeftPaused == up /\ live = NoRun /\ db.status = "paused"

\* If the run is over, ended or lost with its server, the page comes to show an end and
\* keeps showing it: a late answer from before may undo it, but then the page polls
\* again.  In the two states above the server itself never says that the run is over.
PageLearnsTheEnd ==
    ( /\ browser.states > 0
      /\ [](~MaskedByItsRow /\ ~LeftPaused)
      /\ <>(RunIsOver /\ db.status # "none") )
        => <>[](IsTerminal(page.status))

\* The user does not press pause and resume for ever: each press that the page sees
\* tears the stream down and opens another.
UserLetsGo == (<>[](live.status # "running")) \/ (<>[](live.status # "paused"))

\* While the page shows a live run, the stored rows keep reaching it: over the stream,
\* or by polling once the stream ended, dropped or expired.
RowsReachThePage ==
    browser.polls > 0 /\ UserLetsGo =>
        []<>(IsTerminal(page.status) \/ \A r \in 1..Len(db.events) : shown[r] > 0)

\* docs/TESTING-CONCEPT.md:202: "SSE event stream drops -> hooks fall back to 2 s
\* polling; no lost/duplicated events on reconnect".
NothingIsShownTwice == \A r \in Rows : shown[r] < 2
=============================================================================
