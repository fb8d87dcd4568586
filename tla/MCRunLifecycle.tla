--------------------------- MODULE MCRunLifecycle ---------------------------
(* TLC instances of RunLifecycle: what the user may ask for in each run.   *)
EXTENDS RunLifecycle

Everything == {"pause", "resume", "stop", "stop_report", "cancel"}
=============================================================================
