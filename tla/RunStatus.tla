----------------------------- MODULE RunStatus ------------------------------
(***************************************************************************)
(* What the status column of a research run promises whoever reads it: a   *)
(* run is created running, may go to and fro between running and paused,   *)
(* and ends once.  RunLifecycle implements it with its research_runs row,  *)
(* across heartbeats, cancellations, crashes and restarts.                 *)
(***************************************************************************)
CONSTANTS Live, Terminal, Absent

VARIABLE status

Init == status = Absent

Create == status = Absent /\ status' = "running"

Switch == status \in Live /\ status' \in Live

End == status \in Live /\ status' \in Terminal

Next == Create \/ Switch \/ End

Spec == Init /\ [][Next]_status
=============================================================================
