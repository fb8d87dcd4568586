---------------------------- MODULE RunLifecycle ----------------------------
(***************************************************************************)
(* One research run as the API server drives it: the in-memory RunRecord,  *)
(* the background task of _run_and_track, the heartbeat of _sync_loop,     *)
(* the endpoints that flip rec.control, persist_snapshot with its cursors, *)
(* a server that dies at any point, and the restart that marks orphans.    *)
(*                                                                         *)
(* Everything runs on one asyncio loop, so a step of this module is what a *)
(* coroutine does between two awaits.  The run is one with LLM agents:     *)
(* research_loop awaits inside every iteration (in rule_based mode it      *)
(* never does, and none of these interleavings exists).                    *)
(***************************************************************************)
EXTENDS Naturals

CONSTANTS
    MaxEvents,     \* bound: activity events, one per iteration and one at the end
    MaxCrashes,    \* bound: how often the server dies
    Requests,      \* the endpoints the user calls
    WritesFail     \* may a statement or a COMMIT on the main database fail?

ASSUME MaxEventsAssumption == MaxEvents \in Nat \ {0}
ASSUME MaxCrashesAssumption == MaxCrashes \in Nat
ASSUME RequestsAssumption ==
    Requests \subseteq {"pause", "resume", "stop", "stop_report", "cancel"}
ASSUME WritesFailAssumption == WritesFail \in BOOLEAN

VARIABLES
    up,          \* is the server process alive?
    rec,         \* the RunRecord in _runs
    task,        \* where the task of _run_and_track is suspended
    cancelling,  \* task.cancel() was called and not yet delivered
    beat,        \* where the heartbeat task is suspended
    flush,       \* the persist_snapshot in progress
    row,         \* the research_runs row and how often each event was written
    asked,       \* history: a stop request was accepted
    crashes

vars == <<up, rec, task, cancelling, beat, flush, row, asked, crashes>>

Event == 1..MaxEvents
Terminal == {"completed", "stopped", "failed", "interrupted"}
Live == {"running", "paused"}

NoRecord == [status |-> "none", control |-> "run", events |-> 0, saved |-> 0]
Record == [status : Live \cup Terminal \cup {"none"},
           control : {"run", "pause", "stop", "stop_report"},
           events : 0..MaxEvents,
           saved : 0..MaxEvents]

NoFlush == [phase |-> "idle", status |-> "none", after |-> 0, upto |-> 0]
Flush == [phase : {"idle", "waiting", "saving", "committing", "landed"},
          status : Live \cup Terminal \cup {"none"},
          after : 0..MaxEvents,
          upto : 0..MaxEvents]

NoRow == [status |-> "none", copies |-> [e \in Event |-> 0]]
Row == [status : Live \cup Terminal \cup {"none"}, copies : [Event -> 0..2]]

RecType == rec \in Record
StoreType == flush \in Flush /\ row \in Row
PlaceType ==
    /\ up \in BOOLEAN
    /\ task \in {"none", "creating", "refused", "paused", "working", "reporting",
                 "joining", "flushing", "done"}
    /\ cancelling \in BOOLEAN
    /\ beat \in {"none", "sleeping", "flushing", "done"}
    /\ asked \in BOOLEAN
    /\ crashes \in 0..MaxCrashes

TypeOK == RecType /\ StoreType /\ PlaceType

Init ==
    /\ up = TRUE
    /\ rec = NoRecord
    /\ task = "none"
    /\ cancelling = FALSE
    /\ beat = "none"
    /\ flush = NoFlush
    /\ row = NoRow
    /\ asked = FALSE
    /\ crashes = 0

-----------------------------------------------------------------------------
(* start_run *)

\* The record is registered before the row exists.
StartRun ==
    /\ up /\ task = "none" /\ row = NoRow
    /\ rec' = [NoRecord EXCEPT !.status = "running"]
    /\ task' = "creating"
    /\ UNCHANGED <<up, cancelling, beat, flush, row, asked, crashes>>

\* create_run_row raised: the request fails, no task is ever created.
RowRefused ==
    /\ up /\ task = "creating" /\ WritesFail
    /\ task' = "refused"
    /\ UNCHANGED <<up, rec, cancelling, beat, flush, row, asked, crashes>>

-----------------------------------------------------------------------------
(* _run_and_track, and the iteration boundary of research_loop *)

MustPause == rec.control = "pause"
MustStop == rec.control \in {"stop", "stop_report"}

\* The last event leaves room for loop_finished.
Iterate ==
    /\ ~MustPause /\ ~MustStop
    /\ rec.events + 1 < MaxEvents
    /\ rec' = [rec EXCEPT !.events = @ + 1]
    /\ task' = "working"

LeaveLoop ==
    /\ ~MustPause
    /\ rec' = [rec EXCEPT !.events = @ + 1]
    /\ task' = "reporting"

IdleWhilePaused ==
    /\ MustPause
    /\ task' = "paused"
    /\ UNCHANGED rec

IterationBoundary == Iterate \/ LeaveLoop \/ IdleWhilePaused

\* The row is committed; the task and its heartbeat are created.
RowCreated ==
    /\ up /\ task = "creating"
    /\ row' = [row EXCEPT !.status = "running"]
    /\ beat' = "sleeping"
    /\ IterationBoundary
    /\ UNCHANGED <<up, cancelling, flush, asked, crashes>>

AtBoundary ==
    /\ up /\ task \in {"working", "paused"} /\ ~cancelling
    /\ IterationBoundary
    /\ UNCHANGED <<up, cancelling, beat, flush, row, asked, crashes>>

\* The terminal status is set, the heartbeat is cancelled and awaited.
Finish(status) ==
    /\ rec' = [rec EXCEPT !.status = status]
    /\ task' = "joining"

FinalStatus == IF rec.control = "stop" THEN "stopped" ELSE "completed"

ReportDone ==
    /\ up /\ task = "reporting" /\ ~cancelling
    /\ Finish(FinalStatus)
    /\ UNCHANGED <<up, cancelling, beat, flush, row, asked, crashes>>

RunFails ==
    /\ up /\ task \in {"working", "reporting"} /\ ~cancelling
    /\ Finish("failed")
    /\ UNCHANGED <<up, cancelling, beat, flush, row, asked, crashes>>

RunCancelled ==
    /\ up /\ task \in {"paused", "working", "reporting"} /\ cancelling
    /\ Finish("interrupted")
    /\ cancelling' = FALSE
    /\ UNCHANGED <<up, beat, flush, row, asked, crashes>>

-----------------------------------------------------------------------------
(* persist_snapshot: the write lock lets one flush of a run in at a time *)

Flushing == beat = "flushing" \/ task = "flushing"
HeartbeatRuns == beat = "flushing" /\ task # "joining"
FlusherRuns == up /\ (HeartbeatRuns \/ (task = "flushing" /\ ~cancelling))

Snapshot == [phase |-> "saving", status |-> rec.status,
             after |-> rec.saved, upto |-> rec.events]

\* Mutant: the cursors advance before the commit (the defect H27 removed).
CaptureAdvancing ==
    /\ FlusherRuns /\ flush.phase = "waiting"
    /\ flush' = Snapshot
    /\ rec' = [rec EXCEPT !.saved = rec.events]
    /\ UNCHANGED <<up, task, cancelling, beat, row, asked, crashes>>

\* The row was selected; status and new events are copied without an await.
Capture ==
    /\ FlusherRuns /\ flush.phase = "waiting"
    /\ flush' = Snapshot
    /\ UNCHANGED <<up, rec, task, cancelling, beat, row, asked, crashes>>

\* The statements went through and COMMIT is queued on the database thread.
SendCommit ==
    /\ FlusherRuns /\ flush.phase = "saving"
    /\ flush' = [flush EXCEPT !.phase = "committing"]
    /\ UNCHANGED <<up, rec, task, cancelling, beat, row, asked, crashes>>

\* What the transaction does: the status, and a row per event past the cursor.
Written ==
    [status |-> flush.status,
     copies |-> [e \in Event |->
        IF flush.after < e /\ e <= flush.upto THEN row.copies[e] + 1 ELSE row.copies[e]]]

\* The database thread commits, whatever became of the coroutine that asked.
CommitLands ==
    /\ up /\ flush.phase = "committing"
    /\ row' = Written
    /\ flush' = [flush EXCEPT !.phase = "landed"]
    /\ UNCHANGED <<up, rec, task, cancelling, beat, asked, crashes>>

\* The flusher leaves persist_snapshot.
FlusherReturns ==
    /\ flush' = NoFlush
    /\ IF beat = "flushing"
         THEN beat' = "sleeping" /\ UNCHANGED task
         ELSE task' = "done" /\ UNCHANGED beat

\* commit() returned: only now do the cursors advance.
AdvanceCursors ==
    /\ FlusherRuns /\ flush.phase = "landed"
    /\ rec' = [rec EXCEPT !.saved = flush.upto]
    /\ FlusherReturns
    /\ UNCHANGED <<up, cancelling, row, asked, crashes>>

\* A statement or the COMMIT raised: rolled back, logged, swallowed.
FlushFails ==
    /\ WritesFail /\ FlusherRuns /\ flush.phase \in {"waiting", "saving", "committing"}
    /\ FlusherReturns
    /\ UNCHANGED <<up, rec, cancelling, row, asked, crashes>>

-----------------------------------------------------------------------------
(* _sync_loop and the join in the finally block *)

StartFlush == flush' = [NoFlush EXCEPT !.phase = "waiting"]

Heartbeat ==
    /\ up /\ beat = "sleeping" /\ task # "joining"
    /\ IF rec.status \in Live
         THEN beat' = "flushing" /\ StartFlush
         ELSE beat' = "done" /\ UNCHANGED flush
    /\ UNCHANGED <<up, rec, task, cancelling, row, asked, crashes>>

\* sync_task.cancel() is delivered at the heartbeat's await and the task goes on
\* to its own flush.  A COMMIT already queued lands first (CommitLands); the
\* cursors of the cancelled flush stay where they were.  A second cancel of the
\* run itself is swallowed by the same except clause.
JoinHeartbeat ==
    /\ up /\ task = "joining"
    /\ flush.phase # "committing"
    /\ beat' = "done"
    /\ task' = "flushing"
    /\ StartFlush
    /\ cancelling' = FALSE
    /\ UNCHANGED <<up, rec, row, asked, crashes>>

\* CancelledError inside the final flush: not an Exception, so it propagates.
FinalFlushCancelled ==
    /\ up /\ task = "flushing" /\ cancelling
    /\ flush.phase # "committing"
    /\ flush' = NoFlush
    /\ task' = "done"
    /\ cancelling' = FALSE
    /\ UNCHANGED <<up, rec, beat, row, asked, crashes>>

-----------------------------------------------------------------------------
(* The control endpoints; the goal id is known once the task exists. *)

Reachable == up /\ task \notin {"none", "creating", "refused"}

PauseRun ==
    /\ Reachable /\ "pause" \in Requests /\ rec.status = "running"
    /\ rec' = [rec EXCEPT !.control = "pause", !.status = "paused"]
    /\ UNCHANGED <<up, task, cancelling, beat, flush, row, asked, crashes>>

ResumeRun ==
    /\ Reachable /\ "resume" \in Requests /\ rec.status = "paused"
    /\ rec' = [rec EXCEPT !.control = "run", !.status = "running"]
    /\ UNCHANGED <<up, task, cancelling, beat, flush, row, asked, crashes>>

StopRun ==
    /\ Reachable /\ rec.status \in Live
    /\ \E c \in {"stop", "stop_report"} \cap Requests : rec' = [rec EXCEPT !.control = c]
    /\ asked' = TRUE
    /\ UNCHANGED <<up, task, cancelling, beat, flush, row, crashes>>

\* No status guard: a cancel may arrive at any moment of the run's end.
CancelRun ==
    /\ Reachable /\ "cancel" \in Requests
    /\ rec' = [rec EXCEPT !.control = "stop"]
    /\ cancelling' = (task # "done")
    /\ UNCHANGED <<up, task, beat, flush, row, asked, crashes>>

-----------------------------------------------------------------------------
(* The process dies and is restarted *)

Crash ==
    /\ up /\ crashes < MaxCrashes
    /\ up' = FALSE
    /\ crashes' = crashes + 1
    /\ rec' = NoRecord
    /\ task' = "none"
    /\ cancelling' = FALSE
    /\ beat' = "none"
    /\ flush' = NoFlush
    /\ UNCHANGED <<row, asked>>

\* Mutant: the UPDATE has no WHERE clause.
AdoptedAll == IF row.status = "none" THEN "none" ELSE "interrupted"

\* Mutant: orphans are not marked.
AdoptedAsIs == row.status

\* mark_orphaned_runs_interrupted
Adopted == IF row.status = "running" THEN "interrupted" ELSE row.status

Restart ==
    /\ ~up
    /\ up' = TRUE
    /\ row' = [row EXCEPT !.status = Adopted]
    /\ UNCHANGED <<rec, task, cancelling, beat, flush, asked, crashes>>

-----------------------------------------------------------------------------
RunTask ==
    \/ RowCreated \/ AtBoundary \/ ReportDone \/ RunFails \/ RunCancelled
    \/ JoinHeartbeat \/ FinalFlushCancelled
FlushStep == Capture \/ SendCommit \/ CommitLands \/ AdvanceCursors
User == StartRun \/ PauseRun \/ ResumeRun \/ StopRun \/ CancelRun
Environment == RowRefused \/ FlushFails \/ Crash

Next == RunTask \/ FlushStep \/ Heartbeat \/ User \/ Environment \/ Restart

Spec == Init /\ [][Next]_vars

\* The event loop schedules every runnable coroutine, the database thread serves
\* its queue, and docker-compose restarts the container (restart: unless-stopped).
\* Nothing is assumed of the user.
FairSpec ==
    /\ Spec
    /\ WF_vars(RunTask) /\ WF_vars(FlushStep) /\ WF_vars(Heartbeat) /\ WF_vars(Restart)

-----------------------------------------------------------------------------
(* Properties *)

\* "Append newly buffered events", H27: whatever commit fails and whenever the
\* server dies, the stored history is a prefix of the run's and contains all
\* that the cursors claim; no event is dropped between two flushes.
HistoryHasNoHoles ==
    /\ \A e \in 1..rec.saved : row.copies[e] > 0
    /\ \A e \in Event : row.copies[e] > 0 => \A d \in 1..e : row.copies[d] > 0

\* As long as the heartbeat has not been cancelled, retries included, no event
\* is stored twice (persist_snapshot: "Idempotent on rows already written").
LiveRunWritesOnce ==
    rec.status \in Live => \A e \in Event : row.copies[e] <= 1

\* The status column only moves the way RunStatus says: a heartbeat that was in
\* flight when the run ended cannot put "running" back over the final status.
Status == INSTANCE RunStatus WITH status <- row.status, Absent <- "none"
RowKeepsStatusPromise == Status!Spec

\* mark_orphaned_runs_interrupted: after a restart no row of a lost task says
\* "running" (REL-1).
NoZombieRunning == up /\ task = "none" => row.status # "running"

\* What is stored of a run is true of it: its history has no holes, holds nothing
\* twice while the heartbeat lives, and outlives a crash as that of an ended run.
RecordIsTrue == HistoryHasNoHoles /\ LiveRunWritesOnce /\ NoZombieRunning

\* The final flush of _run_and_track stores the terminal status and every event,
\* when no write fails and nobody cancels.
FinalFlushIsComplete ==
    task = "done" => /\ row.status = rec.status
                     /\ \A e \in 1..rec.events : row.copies[e] > 0

\* No run hangs: whatever fails, and whatever the user asks for but a pause, the
\* row says in the end that the run is over, or the task has at least ended (its
\* last flush failed or was cancelled).
RunComesToAnEnd ==
    row.status \in Live ~>
        \/ row.status \in Terminal \/ "paused" \in {row.status, rec.status}
        \/ task = "done"

-----------------------------------------------------------------------------
(* What the documentation says and the code does not do *)

\* persistence.py: persist_snapshot is "Idempotent on rows already written".
WrittenOnce == \A e \in Event : row.copies[e] <= 1

\* docs/TESTING-CONCEPT.md:92: on boot, "mark orphaned runs interrupted".
NoOrphanAlive == up /\ task = "none" => row.status \notin Live

\* stop_run: "The loop breaks at the next iteration boundary."
StopIsObeyed == [][asked => ~(AtBoundary /\ task' = "working")]_vars
=============================================================================
