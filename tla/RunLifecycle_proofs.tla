------------------------ MODULE RunLifecycle_proofs -------------------------
(***************************************************************************)
(* TLAPS proofs about RunLifecycle, for every number of events and crashes *)
(* and every set of user requests, with failing writes.                    *)
(*                                                                         *)
(* The invariant says, for each place where the task may be suspended,     *)
(* who owns the flush (FlushOwned), what the cursors know (CursorsBehind), *)
(* which rows are stored (RowsStored) and which status the row can carry   *)
(* (StatusesAgree).                                                        *)
(***************************************************************************)
EXTENDS RunLifecycle, TLAPS

InLoop == {"paused", "working", "reporting"}
Captured == {"saving", "committing", "landed"}

FlushOwned ==
    /\ ~up => task = "none"
    /\ flush.phase = "idle" <=> ~Flushing
    /\ beat \in {"sleeping", "flushing"} => task \in InLoop \cup {"joining"}
    /\ task \in {"none", "creating", "refused"} => beat = "none"

CursorsBehind ==
    /\ rec.saved <= rec.events
    /\ task \in {"creating", "paused", "working"} => rec.events < MaxEvents
    /\ flush.phase \in Captured =>
          flush.after = rec.saved /\ flush.after <= flush.upto /\ flush.upto <= rec.events

Exactly(n) == \A e \in Event : row.copies[e] = IF e <= n THEN 1 ELSE 0
AtMostOnce == \A e \in Event : row.copies[e] <= 1

RowsStored ==
    /\ task \in InLoop \cup {"joining"} =>
          Exactly(IF flush.phase = "landed" THEN flush.upto ELSE rec.saved)
    /\ task = "flushing" /\ flush.phase # "landed" => AtMostOnce
    /\ task = "flushing" /\ flush.phase = "landed" =>
          \A e \in 1..flush.upto : row.copies[e] > 0
    /\ HistoryHasNoHoles

StatusesAgree ==
    /\ task = "none" => rec = NoRecord
    /\ task \in {"creating", "refused"} => rec.status \in Live /\ row = NoRow
    /\ task \in InLoop => rec.status \in Live
    /\ task \in {"joining", "flushing", "done"} => rec.status \in Terminal
    /\ task \in InLoop \cup {"joining"} => row.status \in Live
    /\ beat = "flushing" /\ flush.phase \in Captured => flush.status \in Live
    /\ task = "flushing" /\ flush.phase \in Captured => flush.status = rec.status
    /\ task = "flushing" => row.status \in Live \cup {rec.status}
    /\ task = "flushing" /\ flush.phase # "landed" => row.status \in Live
    /\ row.status = "none" => row = NoRow
    /\ NoZombieRunning

IInv == TypeOK /\ FlushOwned /\ CursorsBehind /\ RowsStored /\ StatusesAgree
USE MaxEventsAssumption, MaxCrashesAssumption, RequestsAssumption, WritesFailAssumption
USE DEF vars, Event, Terminal, Live, NoRecord, Record, NoFlush, Flush, NoRow, Row, InLoop, Captured

LEMMA RecStep == IInv /\ [Next]_vars => RecType'
<1> SUFFICES ASSUME IInv, [Next]_vars PROVE RecType'
    OBVIOUS
<1>1. CASE StartRun
    BY <1>1 DEF IInv, TypeOK, RecType, StartRun
<1>2. CASE RowRefused
    BY <1>2 DEF IInv, TypeOK, RecType, RowRefused
<1>3. CASE RowCreated
    BY <1>3 DEF IInv, TypeOK, RecType, CursorsBehind, RowCreated, IterationBoundary, Iterate, LeaveLoop, IdleWhilePaused
<1>4. CASE AtBoundary
    BY <1>4 DEF IInv, TypeOK, RecType, CursorsBehind, AtBoundary, IterationBoundary, Iterate, LeaveLoop, IdleWhilePaused
<1>5. CASE ReportDone
    BY <1>5 DEF IInv, TypeOK, RecType, ReportDone, Finish, FinalStatus
<1>6. CASE RunFails
    BY <1>6 DEF IInv, TypeOK, RecType, RunFails, Finish
<1>7. CASE RunCancelled
    BY <1>7 DEF IInv, TypeOK, RecType, RunCancelled, Finish
<1>8. CASE Capture
    BY <1>8 DEF IInv, TypeOK, RecType, Capture, Snapshot, FlusherRuns, HeartbeatRuns
<1>9. CASE SendCommit
    BY <1>9 DEF IInv, TypeOK, RecType, SendCommit, FlusherRuns, HeartbeatRuns
<1>10. CASE CommitLands
    BY <1>10 DEF IInv, TypeOK, RecType, CommitLands, Written
<1>11. CASE AdvanceCursors
    BY <1>11 DEF IInv, TypeOK, RecType, StoreType, AdvanceCursors, FlusherRuns, HeartbeatRuns, FlusherReturns
<1>12. CASE FlushFails
    BY <1>12 DEF IInv, TypeOK, RecType, FlushFails, FlusherRuns, HeartbeatRuns, FlusherReturns
<1>13. CASE Heartbeat
    BY <1>13 DEF IInv, TypeOK, RecType, Heartbeat, StartFlush
<1>14. CASE JoinHeartbeat
    BY <1>14 DEF IInv, TypeOK, RecType, JoinHeartbeat, StartFlush
<1>15. CASE FinalFlushCancelled
    BY <1>15 DEF IInv, TypeOK, RecType, FinalFlushCancelled
<1>16. CASE PauseRun
    BY <1>16 DEF IInv, TypeOK, RecType, PauseRun, Reachable
<1>17. CASE ResumeRun
    BY <1>17 DEF IInv, TypeOK, RecType, ResumeRun, Reachable
<1>18. CASE StopRun
    BY <1>18 DEF IInv, TypeOK, RecType, StopRun, Reachable
<1>19. CASE CancelRun
    BY <1>19 DEF IInv, TypeOK, RecType, CancelRun, Reachable
<1>20. CASE Crash
    BY <1>20 DEF IInv, TypeOK, RecType, Crash
<1>21. CASE Restart
    BY <1>21 DEF IInv, TypeOK, RecType, Restart, Adopted
<1>22. CASE UNCHANGED vars
    BY <1>22 DEF IInv, TypeOK, RecType
<1> QED
    BY <1>1, <1>2, <1>3, <1>4, <1>5, <1>6, <1>7, <1>8, <1>9, <1>10, <1>11, <1>12, <1>13, <1>14, <1>15, <1>16, <1>17, <1>18, <1>19, <1>20, <1>21, <1>22 DEF Next, RunTask, FlushStep, User, Environment

LEMMA StoreStep == IInv /\ [Next]_vars => StoreType'
<1> SUFFICES ASSUME IInv, [Next]_vars PROVE StoreType'
    OBVIOUS
<1>1. CASE StartRun
    BY <1>1 DEF IInv, TypeOK, RecType, StoreType, StartRun
<1>2. CASE RowRefused
    BY <1>2 DEF IInv, TypeOK, RecType, StoreType, RowRefused
<1>3. CASE RowCreated
    BY <1>3 DEF IInv, TypeOK, RecType, StoreType, RowCreated, IterationBoundary, Iterate, LeaveLoop, IdleWhilePaused
<1>4. CASE AtBoundary
    BY <1>4 DEF IInv, TypeOK, RecType, StoreType, AtBoundary, IterationBoundary, Iterate, LeaveLoop, IdleWhilePaused
<1>5. CASE ReportDone
    BY <1>5 DEF IInv, TypeOK, RecType, StoreType, ReportDone, Finish, FinalStatus
<1>6. CASE RunFails
    BY <1>6 DEF IInv, TypeOK, RecType, StoreType, RunFails, Finish
<1>7. CASE RunCancelled
    BY <1>7 DEF IInv, TypeOK, RecType, StoreType, RunCancelled, Finish
<1>8. CASE Capture
    BY <1>8 DEF IInv, TypeOK, RecType, StoreType, Capture, Snapshot, FlusherRuns, HeartbeatRuns
<1>9. CASE SendCommit
    BY <1>9 DEF IInv, TypeOK, RecType, StoreType, SendCommit, FlusherRuns, HeartbeatRuns
<1>10. CASE CommitLands
    <2>1. flush' \in Flush
        BY <1>10 DEF IInv, TypeOK, StoreType, CommitLands
    <2>2. row'.status \in Live \cup Terminal \cup {"none"}
        BY <1>10 DEF IInv, TypeOK, StoreType, CommitLands, Written
    <2>3. \A e \in Event : row.copies[e] \in 0..1
        BY <1>10 DEF IInv, TypeOK, StoreType, PlaceType, CommitLands, FlushOwned, Flushing, RowsStored, Exactly, AtMostOnce
    <2>4. row' = Written /\ row'.copies \in [Event -> 0..2]
        BY <1>10, <2>3 DEF CommitLands, Written
    <2> QED
        BY <2>1, <2>2, <2>4 DEF StoreType, Written
<1>11. CASE AdvanceCursors
    BY <1>11 DEF IInv, TypeOK, RecType, StoreType, AdvanceCursors, FlusherRuns, HeartbeatRuns, FlusherReturns
<1>12. CASE FlushFails
    BY <1>12 DEF IInv, TypeOK, RecType, StoreType, FlushFails, FlusherRuns, HeartbeatRuns, FlusherReturns
<1>13. CASE Heartbeat
    BY <1>13 DEF IInv, TypeOK, RecType, StoreType, Heartbeat, StartFlush
<1>14. CASE JoinHeartbeat
    BY <1>14 DEF IInv, TypeOK, RecType, StoreType, JoinHeartbeat, StartFlush
<1>15. CASE FinalFlushCancelled
    BY <1>15 DEF IInv, TypeOK, RecType, StoreType, FinalFlushCancelled
<1>16. CASE PauseRun
    BY <1>16 DEF IInv, TypeOK, RecType, StoreType, PauseRun, Reachable
<1>17. CASE ResumeRun
    BY <1>17 DEF IInv, TypeOK, RecType, StoreType, ResumeRun, Reachable
<1>18. CASE StopRun
    BY <1>18 DEF IInv, TypeOK, RecType, StoreType, StopRun, Reachable
<1>19. CASE CancelRun
    BY <1>19 DEF IInv, TypeOK, RecType, StoreType, CancelRun, Reachable
<1>20. CASE Crash
    BY <1>20 DEF IInv, TypeOK, RecType, StoreType, Crash
<1>21. CASE Restart
    BY <1>21 DEF IInv, TypeOK, RecType, StoreType, Restart, Adopted
<1>22. CASE UNCHANGED vars
    BY <1>22 DEF IInv, TypeOK, RecType, StoreType
<1> QED
    BY <1>1, <1>2, <1>3, <1>4, <1>5, <1>6, <1>7, <1>8, <1>9, <1>10, <1>11, <1>12, <1>13, <1>14, <1>15, <1>16, <1>17, <1>18, <1>19, <1>20, <1>21, <1>22 DEF Next, RunTask, FlushStep, User, Environment

LEMMA PlaceStep == IInv /\ [Next]_vars => PlaceType'
<1> SUFFICES ASSUME IInv, [Next]_vars PROVE PlaceType'
    OBVIOUS
<1>1. CASE StartRun
    BY <1>1 DEF IInv, TypeOK, PlaceType, StartRun
<1>2. CASE RowRefused
    BY <1>2 DEF IInv, TypeOK, PlaceType, RowRefused
<1>3. CASE RowCreated
    BY <1>3 DEF IInv, TypeOK, PlaceType, RowCreated, IterationBoundary, Iterate, LeaveLoop, IdleWhilePaused
<1>4. CASE AtBoundary
    BY <1>4 DEF IInv, TypeOK, PlaceType, AtBoundary, IterationBoundary, Iterate, LeaveLoop, IdleWhilePaused
<1>5. CASE ReportDone
    BY <1>5 DEF IInv, TypeOK, PlaceType, ReportDone, Finish, FinalStatus
<1>6. CASE RunFails
    BY <1>6 DEF IInv, TypeOK, PlaceType, RunFails, Finish
<1>7. CASE RunCancelled
    BY <1>7 DEF IInv, TypeOK, PlaceType, RunCancelled, Finish
<1>8. CASE Capture
    BY <1>8 DEF IInv, TypeOK, PlaceType, Capture, Snapshot, FlusherRuns, HeartbeatRuns
<1>9. CASE SendCommit
    BY <1>9 DEF IInv, TypeOK, PlaceType, SendCommit, FlusherRuns, HeartbeatRuns
<1>10. CASE CommitLands
    BY <1>10 DEF IInv, TypeOK, PlaceType, CommitLands, Written
<1>11. CASE AdvanceCursors
    BY <1>11 DEF IInv, TypeOK, PlaceType, AdvanceCursors, FlusherRuns, HeartbeatRuns, FlusherReturns
<1>12. CASE FlushFails
    BY <1>12 DEF IInv, TypeOK, PlaceType, FlushFails, FlusherRuns, HeartbeatRuns, FlusherReturns
<1>13. CASE Heartbeat
    BY <1>13 DEF IInv, TypeOK, PlaceType, Heartbeat, StartFlush
<1>14. CASE JoinHeartbeat
    BY <1>14 DEF IInv, TypeOK, PlaceType, JoinHeartbeat, StartFlush
<1>15. CASE FinalFlushCancelled
    BY <1>15 DEF IInv, TypeOK, PlaceType, FinalFlushCancelled
<1>16. CASE PauseRun
    BY <1>16 DEF IInv, TypeOK, PlaceType, PauseRun, Reachable
<1>17. CASE ResumeRun
    BY <1>17 DEF IInv, TypeOK, PlaceType, ResumeRun, Reachable
<1>18. CASE StopRun
    BY <1>18 DEF IInv, TypeOK, PlaceType, StopRun, Reachable
<1>19. CASE CancelRun
    BY <1>19 DEF IInv, TypeOK, PlaceType, CancelRun, Reachable
<1>20. CASE Crash
    <2>1. /\ up' \in BOOLEAN /\ cancelling' \in BOOLEAN
          /\ task' = "none" /\ beat' = "none" /\ asked' = asked
        BY <1>20 DEF Crash
    <2>2. crashes' \in 0..MaxCrashes
        BY <1>20 DEF IInv, TypeOK, PlaceType, Crash
    <2> QED
        BY <2>1, <2>2 DEF IInv, TypeOK, PlaceType
<1>21. CASE Restart
    BY <1>21 DEF IInv, TypeOK, PlaceType, Restart, Adopted
<1>22. CASE UNCHANGED vars
    BY <1>22 DEF IInv, TypeOK, PlaceType
<1> QED
    BY <1>1, <1>2, <1>3, <1>4, <1>5, <1>6, <1>7, <1>8, <1>9, <1>10, <1>11, <1>12, <1>13, <1>14, <1>15, <1>16, <1>17, <1>18, <1>19, <1>20, <1>21, <1>22 DEF Next, RunTask, FlushStep, User, Environment

LEMMA OwnerStep == IInv /\ [Next]_vars => FlushOwned'
<1> SUFFICES ASSUME IInv, [Next]_vars PROVE FlushOwned'
    OBVIOUS
<1>1. CASE StartRun
    BY <1>1 DEF IInv, TypeOK, RecType, StoreType, PlaceType, FlushOwned, Flushing, StartRun
<1>2. CASE RowRefused
    BY <1>2 DEF IInv, TypeOK, RecType, StoreType, PlaceType, FlushOwned, Flushing, RowRefused
<1>3. CASE RowCreated
    BY <1>3 DEF IInv, TypeOK, RecType, StoreType, PlaceType, FlushOwned, Flushing, RowCreated, IterationBoundary, Iterate, LeaveLoop, IdleWhilePaused
<1>4. CASE AtBoundary
    BY <1>4 DEF IInv, TypeOK, RecType, StoreType, PlaceType, FlushOwned, Flushing, AtBoundary, IterationBoundary, Iterate, LeaveLoop, IdleWhilePaused
<1>5. CASE ReportDone
    BY <1>5 DEF IInv, TypeOK, RecType, StoreType, PlaceType, FlushOwned, Flushing, ReportDone, Finish, FinalStatus
<1>6. CASE RunFails
    BY <1>6 DEF IInv, TypeOK, RecType, StoreType, PlaceType, FlushOwned, Flushing, RunFails, Finish
<1>7. CASE RunCancelled
    BY <1>7 DEF IInv, TypeOK, RecType, StoreType, PlaceType, FlushOwned, Flushing, RunCancelled, Finish
<1>8. CASE Capture
    BY <1>8 DEF IInv, TypeOK, RecType, StoreType, PlaceType, FlushOwned, Flushing, Capture, Snapshot, FlusherRuns, HeartbeatRuns
<1>9. CASE SendCommit
    BY <1>9 DEF IInv, TypeOK, RecType, StoreType, PlaceType, FlushOwned, Flushing, SendCommit, FlusherRuns, HeartbeatRuns
<1>10. CASE CommitLands
    BY <1>10 DEF IInv, TypeOK, RecType, StoreType, PlaceType, FlushOwned, Flushing, CommitLands, Written
<1>11. CASE AdvanceCursors
    BY <1>11 DEF IInv, TypeOK, RecType, StoreType, PlaceType, FlushOwned, Flushing, AdvanceCursors, FlusherRuns, HeartbeatRuns, FlusherReturns
<1>12. CASE FlushFails
    BY <1>12 DEF IInv, TypeOK, RecType, StoreType, PlaceType, FlushOwned, Flushing, FlushFails, FlusherRuns, HeartbeatRuns, FlusherReturns
<1>13. CASE Heartbeat
    BY <1>13 DEF IInv, TypeOK, RecType, StoreType, PlaceType, FlushOwned, Flushing, Heartbeat, StartFlush
<1>14. CASE JoinHeartbeat
    BY <1>14 DEF IInv, TypeOK, RecType, StoreType, PlaceType, FlushOwned, Flushing, JoinHeartbeat, StartFlush
<1>15. CASE FinalFlushCancelled
    BY <1>15 DEF IInv, TypeOK, RecType, StoreType, PlaceType, FlushOwned, Flushing, FinalFlushCancelled
<1>16. CASE PauseRun
    BY <1>16 DEF IInv, TypeOK, RecType, StoreType, PlaceType, FlushOwned, Flushing, PauseRun, Reachable
<1>17. CASE ResumeRun
    BY <1>17 DEF IInv, TypeOK, RecType, StoreType, PlaceType, FlushOwned, Flushing, ResumeRun, Reachable
<1>18. CASE StopRun
    BY <1>18 DEF IInv, TypeOK, RecType, StoreType, PlaceType, FlushOwned, Flushing, StopRun, Reachable
<1>19. CASE CancelRun
    BY <1>19 DEF IInv, TypeOK, RecType, StoreType, PlaceType, FlushOwned, Flushing, CancelRun, Reachable
<1>20. CASE Crash
    BY <1>20 DEF IInv, TypeOK, RecType, StoreType, PlaceType, FlushOwned, Flushing, Crash
<1>21. CASE Restart
    BY <1>21 DEF IInv, TypeOK, RecType, StoreType, PlaceType, FlushOwned, Flushing, Restart, Adopted
<1>22. CASE UNCHANGED vars
    BY <1>22 DEF IInv, TypeOK, RecType, StoreType, PlaceType, FlushOwned, Flushing
<1> QED
    BY <1>1, <1>2, <1>3, <1>4, <1>5, <1>6, <1>7, <1>8, <1>9, <1>10, <1>11, <1>12, <1>13, <1>14, <1>15, <1>16, <1>17, <1>18, <1>19, <1>20, <1>21, <1>22 DEF Next, RunTask, FlushStep, User, Environment

LEMMA CursorStep == IInv /\ [Next]_vars => CursorsBehind'
<1> SUFFICES ASSUME IInv, [Next]_vars PROVE CursorsBehind'
    OBVIOUS
<1>1. CASE StartRun
    BY <1>1 DEF IInv, TypeOK, RecType, StoreType, PlaceType, FlushOwned, CursorsBehind, StatusesAgree, StartRun
<1>2. CASE RowRefused
    BY <1>2 DEF IInv, TypeOK, RecType, StoreType, PlaceType, FlushOwned, CursorsBehind, StatusesAgree, RowRefused
<1>3. CASE RowCreated
    BY <1>3 DEF IInv, TypeOK, RecType, StoreType, PlaceType, FlushOwned, CursorsBehind, StatusesAgree, RowCreated, IterationBoundary, Iterate, LeaveLoop, IdleWhilePaused
<1>4. CASE AtBoundary
    BY <1>4 DEF IInv, TypeOK, RecType, StoreType, PlaceType, FlushOwned, CursorsBehind, StatusesAgree, AtBoundary, IterationBoundary, Iterate, LeaveLoop, IdleWhilePaused
<1>5. CASE ReportDone
    BY <1>5 DEF IInv, TypeOK, RecType, StoreType, PlaceType, FlushOwned, CursorsBehind, StatusesAgree, ReportDone, Finish, FinalStatus
<1>6. CASE RunFails
    BY <1>6 DEF IInv, TypeOK, RecType, StoreType, PlaceType, FlushOwned, CursorsBehind, StatusesAgree, RunFails, Finish
<1>7. CASE RunCancelled
    BY <1>7 DEF IInv, TypeOK, RecType, StoreType, PlaceType, FlushOwned, CursorsBehind, StatusesAgree, RunCancelled, Finish
<1>8. CASE Capture
    BY <1>8 DEF IInv, TypeOK, RecType, StoreType, PlaceType, FlushOwned, CursorsBehind, StatusesAgree, Capture, Snapshot, FlusherRuns, HeartbeatRuns
<1>9. CASE SendCommit
    BY <1>9 DEF IInv, TypeOK, RecType, StoreType, PlaceType, FlushOwned, CursorsBehind, StatusesAgree, SendCommit, FlusherRuns, HeartbeatRuns
<1>10. CASE CommitLands
    BY <1>10 DEF IInv, TypeOK, RecType, StoreType, PlaceType, FlushOwned, CursorsBehind, StatusesAgree, CommitLands, Written
<1>11. CASE AdvanceCursors
    BY <1>11 DEF IInv, TypeOK, RecType, StoreType, PlaceType, FlushOwned, CursorsBehind, StatusesAgree, AdvanceCursors, FlusherRuns, HeartbeatRuns, FlusherReturns
<1>12. CASE FlushFails
    BY <1>12 DEF IInv, TypeOK, RecType, StoreType, PlaceType, FlushOwned, CursorsBehind, StatusesAgree, FlushFails, FlusherRuns, HeartbeatRuns, FlusherReturns
<1>13. CASE Heartbeat
    BY <1>13 DEF IInv, TypeOK, RecType, StoreType, PlaceType, FlushOwned, CursorsBehind, StatusesAgree, Heartbeat, StartFlush
<1>14. CASE JoinHeartbeat
    BY <1>14 DEF IInv, TypeOK, RecType, StoreType, PlaceType, FlushOwned, CursorsBehind, StatusesAgree, JoinHeartbeat, StartFlush
<1>15. CASE FinalFlushCancelled
    BY <1>15 DEF IInv, TypeOK, RecType, StoreType, PlaceType, FlushOwned, CursorsBehind, StatusesAgree, FinalFlushCancelled
<1>16. CASE PauseRun
    BY <1>16 DEF IInv, TypeOK, RecType, StoreType, PlaceType, FlushOwned, CursorsBehind, StatusesAgree, PauseRun, Reachable
<1>17. CASE ResumeRun
    BY <1>17 DEF IInv, TypeOK, RecType, StoreType, PlaceType, FlushOwned, CursorsBehind, StatusesAgree, ResumeRun, Reachable
<1>18. CASE StopRun
    BY <1>18 DEF IInv, TypeOK, RecType, StoreType, PlaceType, FlushOwned, CursorsBehind, StatusesAgree, StopRun, Reachable
<1>19. CASE CancelRun
    BY <1>19 DEF IInv, TypeOK, RecType, StoreType, PlaceType, FlushOwned, CursorsBehind, StatusesAgree, CancelRun, Reachable
<1>20. CASE Crash
    BY <1>20 DEF IInv, TypeOK, RecType, StoreType, PlaceType, FlushOwned, CursorsBehind, StatusesAgree, Crash
<1>21. CASE Restart
    BY <1>21 DEF IInv, TypeOK, RecType, StoreType, PlaceType, FlushOwned, CursorsBehind, StatusesAgree, Restart, Adopted
<1>22. CASE UNCHANGED vars
    BY <1>22 DEF IInv, TypeOK, RecType, StoreType, PlaceType, FlushOwned, CursorsBehind, StatusesAgree
<1> QED
    BY <1>1, <1>2, <1>3, <1>4, <1>5, <1>6, <1>7, <1>8, <1>9, <1>10, <1>11, <1>12, <1>13, <1>14, <1>15, <1>16, <1>17, <1>18, <1>19, <1>20, <1>21, <1>22 DEF Next, RunTask, FlushStep, User, Environment

LEMMA RowsStep == IInv /\ [Next]_vars => RowsStored'
<1> SUFFICES ASSUME IInv, [Next]_vars PROVE RowsStored'
    OBVIOUS
<1>1. CASE StartRun
    BY <1>1 DEF IInv, TypeOK, RecType, StoreType, PlaceType, FlushOwned, CursorsBehind, RowsStored, StatusesAgree, Exactly, AtMostOnce, HistoryHasNoHoles, Flushing, StartRun
<1>2. CASE RowRefused
    BY <1>2 DEF IInv, TypeOK, RecType, StoreType, PlaceType, FlushOwned, CursorsBehind, RowsStored, StatusesAgree, Exactly, AtMostOnce, HistoryHasNoHoles, Flushing, RowRefused
<1>3. CASE RowCreated
    <2>1. rec' = [rec EXCEPT !.events = @ + 1] \/ rec' = rec
        BY <1>3 DEF RowCreated, IterationBoundary, Iterate, LeaveLoop, IdleWhilePaused
    <2>2. rec'.saved = rec.saved
        BY <2>1 DEF IInv, TypeOK, RecType
    <2>3. task' \in InLoop /\ flush' = flush /\ flush.phase = "idle"
        BY <1>3 DEF IInv, TypeOK, PlaceType, FlushOwned, Flushing, RowCreated, IterationBoundary, Iterate, LeaveLoop, IdleWhilePaused
    <2>4. row = NoRow /\ row'.copies = row.copies
        BY <1>3 DEF IInv, StatusesAgree, RowCreated
    <2>5. rec.saved = 0
        BY <1>3 DEF IInv, TypeOK, RecType, StatusesAgree, RowsStored, HistoryHasNoHoles, CursorsBehind, RowCreated
    <2> QED
        BY <2>2, <2>3, <2>4, <2>5 DEF RowsStored, HistoryHasNoHoles, Exactly
<1>4. CASE AtBoundary
    BY <1>4 DEF IInv, TypeOK, RecType, StoreType, PlaceType, FlushOwned, CursorsBehind, RowsStored, StatusesAgree, Exactly, AtMostOnce, HistoryHasNoHoles, Flushing, AtBoundary, IterationBoundary, Iterate, LeaveLoop, IdleWhilePaused
<1>5. CASE ReportDone
    BY <1>5 DEF IInv, TypeOK, RecType, StoreType, PlaceType, FlushOwned, CursorsBehind, RowsStored, StatusesAgree, Exactly, AtMostOnce, HistoryHasNoHoles, Flushing, ReportDone, Finish, FinalStatus
<1>6. CASE RunFails
    BY <1>6 DEF IInv, TypeOK, RecType, StoreType, PlaceType, FlushOwned, CursorsBehind, RowsStored, StatusesAgree, Exactly, AtMostOnce, HistoryHasNoHoles, Flushing, RunFails, Finish
<1>7. CASE RunCancelled
    BY <1>7 DEF IInv, TypeOK, RecType, StoreType, PlaceType, FlushOwned, CursorsBehind, RowsStored, StatusesAgree, Exactly, AtMostOnce, HistoryHasNoHoles, Flushing, RunCancelled, Finish
<1>8. CASE Capture
    BY <1>8 DEF IInv, TypeOK, RecType, StoreType, PlaceType, FlushOwned, CursorsBehind, RowsStored, StatusesAgree, Exactly, AtMostOnce, HistoryHasNoHoles, Flushing, Capture, Snapshot, FlusherRuns, HeartbeatRuns
<1>9. CASE SendCommit
    BY <1>9 DEF IInv, TypeOK, RecType, StoreType, PlaceType, FlushOwned, CursorsBehind, RowsStored, StatusesAgree, Exactly, AtMostOnce, HistoryHasNoHoles, Flushing, SendCommit, FlusherRuns, HeartbeatRuns
<1>10. CASE CommitLands
    <2> USE DEF IInv, TypeOK, RecType, StoreType, PlaceType
    <2>1. /\ flush.phase = "committing" /\ flush'.phase = "landed" /\ flush'.upto = flush.upto
          /\ task' = task /\ rec' = rec
          /\ flush.after = rec.saved /\ flush.after \in Nat /\ flush.upto \in Event \cup {0}
          /\ flush.after <= flush.upto
        BY <1>10 DEF CommitLands, CursorsBehind
    <2>2. \A e \in Event : /\ row.copies[e] \in 0..2
                             /\ row'.copies[e] = IF flush.after < e /\ e <= flush.upto
                                                    THEN row.copies[e] + 1 ELSE row.copies[e]
        BY <1>10 DEF CommitLands, Written
    <2>3. \A e \in Event : e <= flush.after => row.copies[e] > 0
        BY <2>1 DEF RowsStored, HistoryHasNoHoles
    <2>4. \A e \in Event : e <= flush.upto => row'.copies[e] > 0
        BY <2>1, <2>2, <2>3
    <2>5. \A e \in Event : e > flush.upto => row'.copies[e] = row.copies[e]
        BY <2>1, <2>2
    <2>6. HistoryHasNoHoles'
        <3>1. \A e \in 1..rec'.saved : row'.copies[e] > 0
            BY <2>1, <2>4
        <3>2. ASSUME NEW e \in Event, row'.copies[e] > 0, NEW d \in 1..e
              PROVE  row'.copies[d] > 0
            <4>1. CASE d <= flush.upto
                BY <4>1, <2>4
            <4>2. CASE d > flush.upto
                <5>1. e > flush.upto /\ d \in Event
                    BY <4>2, <3>2, <2>1, MaxEventsAssumption DEF Event
                <5>2. row.copies[e] > 0
                    BY <5>1, <3>2, <2>5
                <5>3. row.copies[d] > 0
                    BY <5>2 DEF RowsStored, HistoryHasNoHoles
                <5> QED
                    BY <4>2, <5>1, <5>3, <2>5
            <4>3. d \in Nat /\ flush.upto \in Nat
                BY <2>1, MaxEventsAssumption DEF Event
            <4> QED
                BY <4>1, <4>2, <4>3
        <3> QED
            BY <3>1, <3>2 DEF HistoryHasNoHoles
    <2>7. task \in InLoop \cup {"joining"} => Exactly(flush.upto)'
        BY <2>1, <2>2 DEF RowsStored, Exactly
    <2> QED
        BY <2>1, <2>4, <2>6, <2>7 DEF RowsStored, Exactly
<1>11. CASE AdvanceCursors
    BY <1>11 DEF IInv, TypeOK, RecType, StoreType, PlaceType, FlushOwned, CursorsBehind, RowsStored, StatusesAgree, Exactly, AtMostOnce, HistoryHasNoHoles, Flushing, AdvanceCursors, FlusherRuns, HeartbeatRuns, FlusherReturns
<1>12. CASE FlushFails
    BY <1>12 DEF IInv, TypeOK, RecType, StoreType, PlaceType, FlushOwned, CursorsBehind, RowsStored, StatusesAgree, Exactly, AtMostOnce, HistoryHasNoHoles, Flushing, FlushFails, FlusherRuns, HeartbeatRuns, FlusherReturns
<1>13. CASE Heartbeat
    BY <1>13 DEF IInv, TypeOK, RecType, StoreType, PlaceType, FlushOwned, CursorsBehind, RowsStored, StatusesAgree, Exactly, AtMostOnce, HistoryHasNoHoles, Flushing, Heartbeat, StartFlush
<1>14. CASE JoinHeartbeat
    BY <1>14 DEF IInv, TypeOK, RecType, StoreType, PlaceType, FlushOwned, CursorsBehind, RowsStored, StatusesAgree, Exactly, AtMostOnce, HistoryHasNoHoles, Flushing, JoinHeartbeat, StartFlush
<1>15. CASE FinalFlushCancelled
    BY <1>15 DEF IInv, TypeOK, RecType, StoreType, PlaceType, FlushOwned, CursorsBehind, RowsStored, StatusesAgree, Exactly, AtMostOnce, HistoryHasNoHoles, Flushing, FinalFlushCancelled
<1>16. CASE PauseRun
    BY <1>16 DEF IInv, TypeOK, RecType, StoreType, PlaceType, FlushOwned, CursorsBehind, RowsStored, StatusesAgree, Exactly, AtMostOnce, HistoryHasNoHoles, Flushing, PauseRun, Reachable
<1>17. CASE ResumeRun
    BY <1>17 DEF IInv, TypeOK, RecType, StoreType, PlaceType, FlushOwned, CursorsBehind, RowsStored, StatusesAgree, Exactly, AtMostOnce, HistoryHasNoHoles, Flushing, ResumeRun, Reachable
<1>18. CASE StopRun
    BY <1>18 DEF IInv, TypeOK, RecType, StoreType, PlaceType, FlushOwned, CursorsBehind, RowsStored, StatusesAgree, Exactly, AtMostOnce, HistoryHasNoHoles, Flushing, StopRun, Reachable
<1>19. CASE CancelRun
    BY <1>19 DEF IInv, TypeOK, RecType, StoreType, PlaceType, FlushOwned, CursorsBehind, RowsStored, StatusesAgree, Exactly, AtMostOnce, HistoryHasNoHoles, Flushing, CancelRun, Reachable
<1>20. CASE Crash
    BY <1>20 DEF IInv, TypeOK, RecType, StoreType, PlaceType, FlushOwned, CursorsBehind, RowsStored, StatusesAgree, Exactly, AtMostOnce, HistoryHasNoHoles, Flushing, Crash
<1>21. CASE Restart
    BY <1>21 DEF IInv, TypeOK, RecType, StoreType, PlaceType, FlushOwned, CursorsBehind, RowsStored, StatusesAgree, Exactly, AtMostOnce, HistoryHasNoHoles, Flushing, Restart, Adopted
<1>22. CASE UNCHANGED vars
    BY <1>22 DEF IInv, TypeOK, RecType, StoreType, PlaceType, FlushOwned, CursorsBehind, RowsStored, StatusesAgree, Exactly, AtMostOnce, HistoryHasNoHoles, Flushing
<1> QED
    BY <1>1, <1>2, <1>3, <1>4, <1>5, <1>6, <1>7, <1>8, <1>9, <1>10, <1>11, <1>12, <1>13, <1>14, <1>15, <1>16, <1>17, <1>18, <1>19, <1>20, <1>21, <1>22 DEF Next, RunTask, FlushStep, User, Environment

LEMMA StatusStep == IInv /\ [Next]_vars => StatusesAgree'
<1> SUFFICES ASSUME IInv, [Next]_vars PROVE StatusesAgree'
    OBVIOUS
<1>1. CASE StartRun
    BY <1>1 DEF IInv, TypeOK, RecType, StoreType, PlaceType, FlushOwned, StatusesAgree, NoZombieRunning, Flushing, StartRun
<1>2. CASE RowRefused
    BY <1>2 DEF IInv, TypeOK, RecType, StoreType, PlaceType, FlushOwned, StatusesAgree, NoZombieRunning, Flushing, RowRefused
<1>3. CASE RowCreated
    BY <1>3 DEF IInv, TypeOK, RecType, StoreType, PlaceType, FlushOwned, StatusesAgree, NoZombieRunning, Flushing, RowCreated, IterationBoundary, Iterate, LeaveLoop, IdleWhilePaused
<1>4. CASE AtBoundary
    BY <1>4 DEF IInv, TypeOK, RecType, StoreType, PlaceType, FlushOwned, StatusesAgree, NoZombieRunning, Flushing, AtBoundary, IterationBoundary, Iterate, LeaveLoop, IdleWhilePaused
<1>5. CASE ReportDone
    BY <1>5 DEF IInv, TypeOK, RecType, StoreType, PlaceType, FlushOwned, StatusesAgree, NoZombieRunning, Flushing, ReportDone, Finish, FinalStatus
<1>6. CASE RunFails
    BY <1>6 DEF IInv, TypeOK, RecType, StoreType, PlaceType, FlushOwned, StatusesAgree, NoZombieRunning, Flushing, RunFails, Finish
<1>7. CASE RunCancelled
    BY <1>7 DEF IInv, TypeOK, RecType, StoreType, PlaceType, FlushOwned, StatusesAgree, NoZombieRunning, Flushing, RunCancelled, Finish
<1>8. CASE Capture
    BY <1>8 DEF IInv, TypeOK, RecType, StoreType, PlaceType, FlushOwned, StatusesAgree, NoZombieRunning, Flushing, Capture, Snapshot, FlusherRuns, HeartbeatRuns
<1>9. CASE SendCommit
    BY <1>9 DEF IInv, TypeOK, RecType, StoreType, PlaceType, FlushOwned, StatusesAgree, NoZombieRunning, Flushing, SendCommit, FlusherRuns, HeartbeatRuns
<1>10. CASE CommitLands
    BY <1>10 DEF IInv, TypeOK, RecType, StoreType, PlaceType, FlushOwned, StatusesAgree, NoZombieRunning, Flushing, CommitLands, Written
<1>11. CASE AdvanceCursors
    BY <1>11 DEF IInv, TypeOK, RecType, StoreType, PlaceType, FlushOwned, StatusesAgree, NoZombieRunning, Flushing, AdvanceCursors, FlusherRuns, HeartbeatRuns, FlusherReturns
<1>12. CASE FlushFails
    BY <1>12 DEF IInv, TypeOK, RecType, StoreType, PlaceType, FlushOwned, StatusesAgree, NoZombieRunning, Flushing, FlushFails, FlusherRuns, HeartbeatRuns, FlusherReturns
<1>13. CASE Heartbeat
    BY <1>13 DEF IInv, TypeOK, RecType, StoreType, PlaceType, FlushOwned, StatusesAgree, NoZombieRunning, Flushing, Heartbeat, StartFlush
<1>14. CASE JoinHeartbeat
    BY <1>14 DEF IInv, TypeOK, RecType, StoreType, PlaceType, FlushOwned, StatusesAgree, NoZombieRunning, Flushing, JoinHeartbeat, StartFlush
<1>15. CASE FinalFlushCancelled
    BY <1>15 DEF IInv, TypeOK, RecType, StoreType, PlaceType, FlushOwned, StatusesAgree, NoZombieRunning, Flushing, FinalFlushCancelled
<1>16. CASE PauseRun
    BY <1>16 DEF IInv, TypeOK, RecType, StoreType, PlaceType, FlushOwned, StatusesAgree, NoZombieRunning, Flushing, PauseRun, Reachable
<1>17. CASE ResumeRun
    BY <1>17 DEF IInv, TypeOK, RecType, StoreType, PlaceType, FlushOwned, StatusesAgree, NoZombieRunning, Flushing, ResumeRun, Reachable
<1>18. CASE StopRun
    BY <1>18 DEF IInv, TypeOK, RecType, StoreType, PlaceType, FlushOwned, StatusesAgree, NoZombieRunning, Flushing, StopRun, Reachable
<1>19. CASE CancelRun
    BY <1>19 DEF IInv, TypeOK, RecType, StoreType, PlaceType, FlushOwned, StatusesAgree, NoZombieRunning, Flushing, CancelRun, Reachable
<1>20. CASE Crash
    BY <1>20 DEF IInv, TypeOK, RecType, StoreType, PlaceType, FlushOwned, StatusesAgree, NoZombieRunning, Flushing, Crash
<1>21. CASE Restart
    BY <1>21 DEF IInv, TypeOK, RecType, StoreType, PlaceType, FlushOwned, StatusesAgree, NoZombieRunning, Flushing, Restart, Adopted
<1>22. CASE UNCHANGED vars
    BY <1>22 DEF IInv, TypeOK, RecType, StoreType, PlaceType, FlushOwned, StatusesAgree, NoZombieRunning, Flushing
<1> QED
    BY <1>1, <1>2, <1>3, <1>4, <1>5, <1>6, <1>7, <1>8, <1>9, <1>10, <1>11, <1>12, <1>13, <1>14, <1>15, <1>16, <1>17, <1>18, <1>19, <1>20, <1>21, <1>22 DEF Next, RunTask, FlushStep, User, Environment

LEMMA InitInv == Init => IInv
<1> SUFFICES ASSUME Init PROVE IInv
    OBVIOUS
<1>1. /\ up = TRUE /\ cancelling = FALSE /\ asked = FALSE /\ crashes = 0
      /\ task = "none" /\ beat = "none"
      /\ rec = NoRecord /\ flush = NoFlush /\ row = NoRow
    BY DEF Init
<1>2. TypeOK
    <2>1. RecType /\ StoreType
        BY <1>1 DEF RecType, StoreType
    <2>2. crashes \in 0..MaxCrashes
        BY <1>1
    <2>3. PlaceType
        BY <1>1, <2>2, Zenon DEF PlaceType
    <2> QED
        BY <2>1, <2>3 DEF TypeOK
<1>3. FlushOwned /\ CursorsBehind
    BY <1>1 DEF FlushOwned, Flushing, CursorsBehind
<1>4. RowsStored
    BY <1>1 DEF RowsStored, HistoryHasNoHoles
<1>5. StatusesAgree
    BY <1>1 DEF StatusesAgree, NoZombieRunning
<1> QED
    BY <1>2, <1>3, <1>4, <1>5 DEF IInv

LEMMA StepInv == IInv /\ [Next]_vars => IInv'
    BY RecStep, StoreStep, PlaceStep, OwnerStep, CursorStep, RowsStep, StatusStep DEF IInv, TypeOK

LEMMA Inductive == Spec => []IInv
    BY InitInv, StepInv, PTL DEF Spec

(* The variables stay in their types: in particular a row is written at most
   twice, by a heartbeat that was cancelled and by the final flush. *)
THEOREM TypeCorrect == Spec => []TypeOK
<1>1. IInv => TypeOK
    BY DEF IInv
<1> QED
    BY <1>1, Inductive, PTL

(* No event is ever skipped: persist_snapshot's cursors (H27) with failing
   writes, cancellations and crashes. *)
THEOREM HistoryIsKept == Spec => []HistoryHasNoHoles
<1>1. IInv => HistoryHasNoHoles
    BY DEF IInv, RowsStored
<1> QED
    BY <1>1, Inductive, PTL

(* The heartbeat alone never stores an event twice. *)
THEOREM HeartbeatsWriteOnce == Spec => []LiveRunWritesOnce
<1>1. IInv => LiveRunWritesOnce
    BY DEF IInv, TypeOK, RecType, StoreType, PlaceType, RowsStored, Exactly, StatusesAgree, LiveRunWritesOnce
<1> QED
    BY <1>1, Inductive, PTL

(* After a restart no row of a lost task says "running". *)
THEOREM OrphansAreMarked == Spec => []NoZombieRunning
<1>1. IInv => NoZombieRunning
    BY DEF IInv, StatusesAgree
<1> QED
    BY <1>1, Inductive, PTL

(* What is stored of a run is true of it, through failing writes, cancellations
   and crashes. *)
THEOREM RecordsAreTrue == Spec => []RecordIsTrue
    BY HistoryIsKept, HeartbeatsWriteOnce, OrphansAreMarked, PTL DEF RecordIsTrue

(* When writes succeed and nobody cancels, the final flush carries everything
   the run has made, and nothing is added after it. *)
Undisturbed == WritesFail = FALSE /\ "cancel" \notin Requests
AllStored == row.status = rec.status /\ \A e \in 1..rec.events : row.copies[e] > 0
FlushInv ==
    /\ cancelling = FALSE
    /\ task = "flushing" /\ flush.phase \in Captured => flush.upto = rec.events
    /\ task = "flushing" /\ flush.phase = "landed" => AllStored
    /\ task = "done" => AllStored

LEMMA FinalStep ==
    ASSUME Undisturbed, IInv, FlushInv, [Next]_vars
    PROVE  FlushInv'
<1> USE DEF Undisturbed, FlushInv, AllStored
<1>1. CASE CommitLands
    <2>1. CASE task = "flushing"
        <3>1. flush.upto = rec.events /\ flush.status = rec.status /\ flush.after = rec.saved
            BY <1>1, <2>1 DEF IInv, CursorsBehind, StatusesAgree, CommitLands
        <3>2. row' = Written /\ UNCHANGED <<rec, task, cancelling>>
            BY <1>1 DEF CommitLands
        <3>3. rec.saved \in Nat /\ rec.events \in 0..MaxEvents
            BY DEF IInv, TypeOK, RecType
        <3>4. row'.status = rec.status
            BY <3>1, <3>2 DEF Written
        <3>5. ASSUME NEW e \in 1..rec.events PROVE row'.copies[e] > 0
            <4>1. e \in Event /\ row.copies[e] \in Nat
                BY <3>3 DEF IInv, TypeOK, StoreType
            <4>2. row'.copies[e] = IF rec.saved < e THEN row.copies[e] + 1 ELSE row.copies[e]
                BY <3>1, <3>2, <4>1 DEF Written
            <4>3. e <= rec.saved => row.copies[e] > 0
                BY <3>3 DEF IInv, RowsStored, HistoryHasNoHoles
            <4> QED
                BY <3>3, <4>1, <4>2, <4>3
        <3> QED
            BY <1>1, <2>1, <3>2, <3>4, <3>5 DEF CommitLands
    <2>2. CASE task # "flushing"
        <3>1. task # "done"
            BY <1>1 DEF IInv, FlushOwned, Flushing, TypeOK, PlaceType, CommitLands
        <3> QED
            BY <1>1, <2>2, <3>1 DEF CommitLands
    <2> QED
        BY <2>1, <2>2
<1>2. CASE Capture
    BY <1>2 DEF Capture, Snapshot
<1>3. CASE SendCommit
    BY <1>3 DEF IInv, TypeOK, StoreType, SendCommit
<1>4. CASE AdvanceCursors
    <2>1. task \in {"flushing", "done"} => task = "flushing" /\ flush.phase = "landed"
        BY <1>4 DEF IInv, TypeOK, PlaceType, FlushOwned, AdvanceCursors, FlusherRuns, HeartbeatRuns
    <2>2. /\ rec'.status = rec.status /\ rec'.events = rec.events
          /\ UNCHANGED <<row, cancelling>>
          /\ flush' = NoFlush /\ task' \in {task, "done"}
          /\ task' = "done" => task \in {"flushing", "done"}
        BY <1>4 DEF IInv, TypeOK, RecType, AdvanceCursors, FlusherReturns, FlusherRuns, HeartbeatRuns
    <2> QED
        BY <2>1, <2>2
<1>5. CASE JoinHeartbeat
    BY <1>5 DEF JoinHeartbeat, StartFlush
<1>6. CASE Heartbeat
    BY <1>6 DEF IInv, FlushOwned, Heartbeat, StartFlush
<1>7. CASE FlushFails \/ FinalFlushCancelled \/ RunCancelled \/ CancelRun
    BY <1>7 DEF FlushFails, FinalFlushCancelled, RunCancelled, CancelRun
<1>8. CASE StartRun \/ RowRefused \/ RowCreated \/ AtBoundary \/ ReportDone \/ RunFails
    BY <1>8 DEF StartRun, RowRefused, RowCreated, AtBoundary, IterationBoundary, Iterate,
        LeaveLoop, IdleWhilePaused, ReportDone, RunFails, Finish
<1>9. CASE PauseRun \/ ResumeRun \/ StopRun
    BY <1>9 DEF IInv, StatusesAgree, PauseRun, ResumeRun, StopRun
<1>10. CASE Crash \/ Restart
    BY <1>10 DEF IInv, FlushOwned, Crash, Restart
<1>11. CASE UNCHANGED vars
    BY <1>11
<1> QED
    BY <1>1, <1>2, <1>3, <1>4, <1>5, <1>6, <1>7, <1>8, <1>9, <1>10, <1>11
    DEF Next, RunTask, FlushStep, User, Environment

(* The final flush stores the terminal status and every event of the run, when
   no write fails and nobody cancels: a heartbeat that was in flight, a pause or
   a stop in the last moment cannot take anything from it. *)
THEOREM FinalFlushStoresAll ==
    ASSUME Undisturbed
    PROVE  Spec => []FinalFlushIsComplete
<1>1. Init => FlushInv
    BY DEF Init, FlushInv
<1>2. IInv /\ FlushInv /\ [Next]_vars => FlushInv'
    BY FinalStep
<1>3. FlushInv => FinalFlushIsComplete
    BY DEF FlushInv, AllStored, FinalFlushIsComplete
<1> QED
    BY <1>1, <1>2, <1>3, Inductive, PTL DEF Spec

LEMMA RowStep == IInv /\ [Next]_vars => [Status!Next]_(row.status)
<1> SUFFICES ASSUME IInv, [Next]_vars
             PROVE  \/ row.status = "none" /\ row'.status = "running"
                    \/ row.status \in Live /\ row'.status \in Live
                    \/ row.status \in Live /\ row'.status \in Terminal
                    \/ row'.status = row.status
    BY DEF Status!Next, Status!Create, Status!Switch, Status!End
<1>1. CASE RowCreated
    BY <1>1 DEF IInv, TypeOK, StoreType, StatusesAgree, RowCreated
<1>2. CASE CommitLands
    BY <1>2 DEF IInv, TypeOK, StoreType, PlaceType, FlushOwned, Flushing, StatusesAgree, CommitLands, Written
<1>3. CASE Restart
    BY <1>3 DEF IInv, TypeOK, StoreType, Restart, Adopted
<1>4. CASE UNCHANGED row
    BY <1>4
<1> QED
    BY <1>1, <1>2, <1>3, <1>4 DEF Next, RunTask, FlushStep, User, Environment, AtBoundary, ReportDone,
        RunFails, RunCancelled, JoinHeartbeat, FinalFlushCancelled, Capture, SendCommit, AdvanceCursors,
        Heartbeat, StartRun, PauseRun, ResumeRun, StopRun, CancelRun, RowRefused, FlushFails, Crash

(* The status column of the row implements RunStatus: a run ends once. *)
THEOREM RowImplementsStatus == Spec => RowKeepsStatusPromise
<1>1. Init => Status!Init
    BY DEF Init, Status!Init
<1> QED
    BY <1>1, RowStep, Inductive, PTL DEF Spec, Status!Spec, RowKeepsStatusPromise

=============================================================================
