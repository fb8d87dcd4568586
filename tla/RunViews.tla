------------------------------ MODULE RunViews ------------------------------
(***************************************************************************)
(* What the research API answers about one run.  While the server lives    *)
(* the read endpoints prefer the RunRecord in _runs, and fall back to the  *)
(* loaders over the research_* tables when there is none: after a restart, *)
(* and for the first moments of a run, whose state on_start has not yet    *)
(* published.  The tables are written by persist_snapshot (the heartbeat   *)
(* and the final flush); RunLifecycle has that protocol in full, here it   *)
(* is the background against which the answers are read.                   *)
(*                                                                         *)
(* A trial is what one attempt leaves behind: a death or a candidate, and  *)
(* for a candidate its OOS verdict or its regime status (_run_oos_lockbox  *)
(* and the hold-out run in the step that appends the candidate).  One      *)
(* event stands for those of an iteration, and a lineage tree is the       *)
(* number of its nodes: the root, and one for every proposal.              *)
(***************************************************************************)
EXTENDS Naturals, Sequences, FiniteSets

CONSTANTS
    Users, Owner,   \* the accounts that ask, and the one that started the run
    Fates,          \* what a trial may come to, in this instance
    MaxTrials,      \* bound: the largest max_runs
    TopIdeas        \* how many regime ideas /candidates shows (10 in the code)

Deaths == {"gate_failure", "critic_rejection", "execution_error"}
Verdicts == {"PENDING", "PASS", "FAIL", "UNEVALUATED"}
RegimeStatuses == {"unvalidated", "regime_validated", "regime_failed"}

ASSUME OwnerAssumption == Owner \in Users
ASSUME FatesAssumption == Fates \subseteq Deaths \cup Verdicts \cup RegimeStatuses
ASSUME BoundsAssumption == MaxTrials \in Nat \ {0} /\ TopIdeas \in Nat \ {0}

VARIABLES
    up,      \* is the server process alive?
    live,    \* the RunRecord in _runs, with the ResearchState it points to
    snap,    \* the persist_snapshot whose COMMIT is under way
    db,      \* the research_* rows of the run, committed
    made,    \* history: the trials the run has made, whatever became of them
    late,    \* history: has a COMMIT of the heartbeat outlived its cancel?
    maxRuns  \* the attempts the user has asked for

serverVars == <<up, live, snap, db, made, late, maxRuns>>

Active == {"running", "paused"}
Terminal == {"completed", "stopped", "failed", "interrupted"}

\* Where the loop is: at the check of rec.control, in the strategist, or past it.
Places == {"boundary", "proposing", "trying"}

NoCursors == [hyps |-> 0, trials |-> 0, events |-> 0, tree |-> 0]
NoRun == [status |-> "none", published |-> FALSE, at |-> "boundary", hyps |-> 0,
          trials |-> <<>>, events |-> 0, tree |-> 0, report |-> FALSE,
          saved |-> NoCursors, flushed |-> FALSE]
NoRow == [status |-> "none", hyps |-> <<>>, trials |-> <<>>, events |-> <<>>,
          tree |-> 0, report |-> FALSE]
NoSnap == [kind |-> "none", landed |-> FALSE, image |-> NoRow, cursors |-> NoCursors]

Trial == [id : 1..MaxTrials, fate : Fates]
SeqRange(s) == {s[i] : i \in DOMAIN s}

ServerInit ==
    /\ up = TRUE
    /\ live = NoRun
    /\ snap = NoSnap
    /\ db = NoRow
    /\ made = {}
    /\ late = FALSE
    /\ maxRuns \in 1..MaxTrials

-----------------------------------------------------------------------------
(* The run *)

StartRun ==
    /\ up /\ live = NoRun /\ db = NoRow
    /\ live' = [NoRun EXCEPT !.status = "running"]
    /\ db' = [NoRow EXCEPT !.status = "running"]
    /\ UNCHANGED <<up, snap, made, late, maxRuns>>

Working == up /\ live.status \in Active

\* on_start hands the ResearchState to the record.
Publish ==
    /\ Working /\ ~live.published
    /\ live' = [live EXCEPT !.published = TRUE]
    /\ UNCHANGED <<up, snap, db, made, late, maxRuns>>

\* The loop idles at its next boundary; an iteration under way goes on.
Pause ==
    /\ up /\ live.status = "running"
    /\ live' = [live EXCEPT !.status = "paused"]
    /\ UNCHANGED <<up, snap, db, made, late, maxRuns>>

Resume ==
    /\ up /\ live.status = "paused"
    /\ live' = [live EXCEPT !.status = "running"]
    /\ UNCHANGED <<up, snap, db, made, late, maxRuns>>

Nodes == live.hyps + 1

\* An iteration: the tree is published as it is, then the strategist is asked.
\* Bound: one iteration for every attempt asked for.
Begin ==
    /\ up /\ live.status = "running"
    /\ live.published /\ live.at = "boundary" /\ live.events < maxRuns
    /\ live' = [live EXCEPT !.at = "proposing", !.events = @ + 1, !.tree = Nodes]
    /\ UNCHANGED <<up, snap, db, made, late, maxRuns>>

Propose ==
    /\ Working /\ live.at = "proposing"
    /\ live' = [live EXCEPT !.at = "trying", !.hyps = @ + 1]
    /\ UNCHANGED <<up, snap, db, made, late, maxRuns>>

\* The strategist fails: the iteration is an error, there is no hypothesis.
ProposeFails ==
    /\ Working /\ live.at = "proposing"
    /\ live' = [live EXCEPT !.at = "boundary"]
    /\ UNCHANGED <<up, snap, db, made, late, maxRuns>>

\* The attempt dies or becomes a candidate; its verdict comes with it.
Judge(f) ==
    /\ Working /\ live.at = "trying"
    /\ LET t == [id |-> live.hyps, fate |-> f]
       IN  /\ live' = [live EXCEPT !.at = "boundary", !.trials = Append(@, t)]
           /\ made' = made \cup {t}
    /\ UNCHANGED <<up, snap, db, late, maxRuns>>

\* The budget guard, a known strategy or missing data: no trial is recorded.
Skip ==
    /\ Working /\ live.at = "trying"
    /\ live' = [live EXCEPT !.at = "boundary"]
    /\ UNCHANGED <<up, snap, db, made, late, maxRuns>>

\* Of a flush that is cut off a COMMIT already sent may land, its cursors never move.
CutFlush ==
    /\ snap' = NoSnap
    /\ db' \in {db} \cup {snap.image : k \in {snap.kind} \ {"none"}}

\* The heartbeat is cancelled.
HeartbeatCut == CutFlush /\ late' = (snap.kind # "none" /\ db' = snap.image)

\* The loop has stopped at a boundary, of itself or because the user asked for it, paused
\* or not, and the report is written.
Complete(status) ==
    /\ Working /\ live.published /\ live.at = "boundary"
    /\ live' = [live EXCEPT !.status = status, !.events = @ + 1,
                            !.tree = Nodes, !.report = TRUE]
    /\ HeartbeatCut
    /\ UNCHANGED <<up, made, maxRuns>>

\* An exception (failed) or a cancel (interrupted), at any await.
Abort(status) ==
    /\ Working
    /\ live' = [live EXCEPT !.status = status]
    /\ HeartbeatCut
    /\ UNCHANGED <<up, made, maxRuns>>

-----------------------------------------------------------------------------
(* persist_snapshot *)

From(s, n) == SubSeq(s, n + 1, Len(s))
Numbers(m, n) == [i \in 1..(n - m) |-> m + i]

\* The rows as they will be once this flush is committed: what lies past the cursors
\* is appended, a tree that has grown replaces the stored one.
Image ==
    IF ~live.published
    THEN [db EXCEPT !.status = live.status,
                    !.events = @ \o Numbers(live.saved.events, live.events)]
    ELSE [status |-> live.status,
          hyps |-> db.hyps \o Numbers(live.saved.hyps, live.hyps),
          trials |-> db.trials \o From(live.trials, live.saved.trials),
          events |-> db.events \o Numbers(live.saved.events, live.events),
          tree |-> IF live.tree # 0 /\ live.tree # live.saved.tree THEN live.tree ELSE db.tree,
          report |-> live.report \/ db.report]

Cursors == [hyps |-> live.hyps, trials |-> Len(live.trials), events |-> live.events,
            tree |-> live.tree]

Flush(kind) ==
    /\ snap' = [kind |-> kind, landed |-> FALSE, image |-> Image, cursors |-> Cursors]
    /\ UNCHANGED <<up, live, db, made, late, maxRuns>>

Heartbeat == Working /\ snap = NoSnap /\ Image # db /\ Flush("beat")

FinalFlush ==
    /\ up /\ live.status \in Terminal /\ ~live.flushed /\ snap = NoSnap
    /\ Flush("final")

CommitLands ==
    /\ up /\ snap.kind # "none" /\ ~snap.landed
    /\ db' = snap.image
    /\ snap' = [snap EXCEPT !.landed = TRUE]
    /\ UNCHANGED <<up, live, made, late, maxRuns>>

Flushed == live.flushed \/ snap.kind = "final"

\* Mutant: the cursor of the candidates and failures stays where it was.
AdvanceOtherCursors ==
    /\ up /\ snap.landed
    /\ live' = [live EXCEPT !.saved = [snap.cursors EXCEPT !.trials = live.saved.trials],
                            !.flushed = Flushed]
    /\ snap' = NoSnap
    /\ UNCHANGED <<up, db, made, late, maxRuns>>

AdvanceCursors ==
    /\ up /\ snap.landed
    /\ live' = [live EXCEPT !.saved = snap.cursors, !.flushed = Flushed]
    /\ snap' = NoSnap
    /\ UNCHANGED <<up, db, made, late, maxRuns>>

\* The exception is logged and swallowed; the final flush is not tried again.
FlushFails ==
    /\ up /\ snap.kind # "none" /\ ~snap.landed
    /\ live' = [live EXCEPT !.flushed = Flushed]
    /\ snap' = NoSnap
    /\ UNCHANGED <<up, db, made, late, maxRuns>>

-----------------------------------------------------------------------------
(* The server dies; the next one marks the orphan *)

Crash ==
    /\ up /\ live.status # "none"
    /\ up' = FALSE
    /\ live' = NoRun
    /\ CutFlush
    /\ UNCHANGED <<made, late, maxRuns>>

\* Mutant: nobody marks the orphan.
RestartAsIs ==
    /\ ~up
    /\ up' = TRUE
    /\ UNCHANGED <<live, snap, db, made, late, maxRuns>>

\* Only a row that says running is marked: one that says paused stays as it is.
Restart ==
    /\ ~up
    /\ up' = TRUE
    /\ db' = [db EXCEPT !.status = IF @ = "running" THEN "interrupted" ELSE @]
    /\ UNCHANGED <<live, snap, made, late, maxRuns>>

RunEnds == \E s \in {"completed", "stopped"} : Complete(s)
RunStep ==
    \/ StartRun \/ Publish
    \/ Begin \/ Propose \/ ProposeFails \/ (\E f \in Fates : Judge(f)) \/ Skip
    \/ RunEnds
UserStep == Pause \/ Resume
RunBreaks == \E s \in {"failed", "interrupted"} : Abort(s)
FlushStep == FinalFlush \/ CommitLands \/ AdvanceCursors
ServerNext ==
    RunStep \/ UserStep \/ RunBreaks \/ Heartbeat \/ FlushStep \/ FlushFails \/ Crash \/ Restart

-----------------------------------------------------------------------------
(* What a caller reads.  "rec" is the record the endpoint finds in _runs;  *)
(* with NoRun these are the answers of a server that has just restarted.   *)

OwnsRow(u) == db.status # "none" /\ u = Owner
OwnsRecord(u, rec) == rec.status # "none" /\ u = Owner
SeesState(u, rec) == OwnsRecord(u, rec) /\ rec.published

NotFound == <<"404">>
Found(x) == <<"200", x>>

Died(t) == t.fate \in Deaths
Survived(t) == ~Died(t)
Survivors(ts) == SelectSeq(ts, Survived)

\* The rows, in the order of their ids.  Every loader first checks OwnsRow.
Stored == SeqRange(db.trials)
StoredCandidates == Survivors(db.trials)
StoredFailures == SelectSeq(db.trials, Died)
StoredHypotheses == db.hyps
StoredTree == db.tree
StoredReport == [status |-> db.status, available |-> db.report]

\* _cap: every robustness candidate, but only the first TopIdeas regime ideas, the
\* validated ones before the others; finer ranks are not told apart.
Validated(t) == t.fate = "regime_validated"
NotValidated(t) == ~Validated(t)
Cap(cs) ==
    IF \A t \in SeqRange(cs) : t.fate \notin RegimeStatuses THEN cs
    ELSE LET ranked == SelectSeq(cs, Validated) \o SelectSeq(cs, NotValidated)
         IN  SubSeq(ranked, 1, IF Len(ranked) > TopIdeas THEN TopIdeas ELSE Len(ranked))

CandidatesAnswer(u, rec) ==
    IF SeesState(u, rec) THEN Found(Cap(Survivors(rec.trials)))
    ELSE IF OwnsRow(u) THEN Found(Cap(StoredCandidates))
    ELSE IF OwnsRecord(u, rec) THEN Found(<<>>)
    ELSE NotFound

HypothesisAnswer(u, rec) ==
    IF SeesState(u, rec) /\ rec.hyps > 0 THEN Found(rec.hyps)
    ELSE IF OwnsRow(u) /\ StoredHypotheses # <<>>
         THEN Found(StoredHypotheses[Len(StoredHypotheses)])
    ELSE NotFound

LineageAnswer(u, rec) ==
    IF SeesState(u, rec) /\ rec.tree # 0 THEN Found(rec.tree)
    ELSE IF OwnsRow(u) THEN Found(StoredTree)
    ELSE NotFound

\* The candidate of this hash: the first row, and all its rows are alike.
Candidate(ts, id) == {t \in SeqRange(ts) : Survived(t) /\ t.id = id}
StoredCandidate(id) == Candidate(db.trials, id)

\* Gates, critique, verdict and artifacts of a candidate are read off this.
Dossier(u, rec, id) ==
    LET mine == Candidate(rec.trials, id)
    IN  IF SeesState(u, rec) /\ mine # {} THEN Found(mine)
        ELSE IF OwnsRow(u) /\ StoredCandidate(id) # {} THEN Found(StoredCandidate(id))
        ELSE NotFound

Graveyard(failures) ==
    [total |-> Len(failures),
     by_cause |-> [c \in Deaths |-> Cardinality({i \in DOMAIN failures : failures[i].fate = c})],
     failures |-> failures]

GraveyardAnswer(u, rec) ==
    IF SeesState(u, rec) THEN Found(Graveyard(SelectSeq(rec.trials, Died)))
    ELSE IF OwnsRow(u) THEN Found(Graveyard(StoredFailures))
    ELSE NotFound

ReportAnswer(u, rec) ==
    IF OwnsRecord(u, rec) /\ rec.report
    THEN Found([status |-> rec.status, available |-> TRUE])
    ELSE IF OwnsRow(u) THEN Found(StoredReport)
    ELSE IF OwnsRecord(u, rec) THEN Found([status |-> rec.status, available |-> FALSE])
    ELSE NotFound

\* The answers that look one thing up, and those that list and count rows.
Details(u, rec) ==
    <<HypothesisAnswer(u, rec), LineageAnswer(u, rec),
      [id \in 1..MaxTrials |-> Dossier(u, rec, id)], ReportAnswer(u, rec)>>
Lists(u, rec) == <<CandidatesAnswer(u, rec), GraveyardAnswer(u, rec)>>

\* The counts of get_run_state and list_runs: rows of the tables, or list lengths.
HowMany(ts, fates) == Cardinality({i \in DOMAIN ts : ts[i].fate \in fates})
Counts(ts) == [candidates |-> HowMany(ts, Verdicts \cup RegimeStatuses),
               failures |-> HowMany(ts, Deaths)]

\* aggregate_stats over the run: regime ideas are no survivors, verdicts are
\* counted over all candidates, the cells of the coverage map once more over all.
Stats(ts) == [valid |-> HowMany(ts, Verdicts) + HowMany(ts, Deaths),
              passed |-> HowMany(ts, {"PASS"}),
              failed |-> HowMany(ts, {"FAIL"}),
              cells |-> HowMany(ts, Verdicts \cup Deaths)]

-----------------------------------------------------------------------------
(* Properties *)

\* Once the final flush has landed the record may go: a restart changes no answer
\* of the hypothesis, lineage, dossier and report endpoints, and none of the lists and
\* counts of /candidates and /graveyard either, unless a COMMIT of the heartbeat has
\* outlived its cancel.  Its rows are then stored twice, and listed and counted twice;
\* still no trial is missing and none is made up.
AnswersSurviveRestart ==
    live.status \in Terminal /\ db.status = live.status =>
        /\ \A u \in Users : Details(u, live) = Details(u, NoRun)
        /\ ~late => \A u \in Users : Lists(u, live) = Lists(u, NoRun)
        /\ Stored = SeqRange(live.trials)

\* persistence.py:97 "Idempotent on rows already written", so that a restart changes no
\* list and no count.  The code does not keep this: see README.md.
CountsSurviveRestart ==
    live.status \in Terminal /\ db.status = live.status =>
        \A u \in Users : Lists(u, live) = Lists(u, NoRun)
=============================================================================
