--------------------------- MODULE MCConsolePage ---------------------------
EXTENDS ConsolePage

MCUsers == {"u1", "u2"}
MCOwner == "u1"

\* Robustness runs have deaths and verdicts, regime runs ideas: both at once here,
\* so that the answers and the statistics tell the kinds apart.
MCFates == {"gate_failure", "PASS", "regime_validated"}

\* The run page without its activity list, for a user who pauses a run of one trial and
\* for a run of two; the page with the list; and the dashboard.
MCBrowsers ==
    {[states |-> 2, polls |-> 0, stats |-> FALSE, pauses |-> TRUE, runs |-> 1,
      fates |-> {"gate_failure"}],
     [states |-> 1, polls |-> 0, stats |-> FALSE, pauses |-> FALSE, runs |-> 2,
      fates |-> {"PASS"}],
     [states |-> 1, polls |-> 1, stats |-> FALSE, pauses |-> FALSE, runs |-> 1,
      fates |-> {"PASS"}],
     [states |-> 0, polls |-> 0, stats |-> TRUE, pauses |-> FALSE, runs |-> 2,
      fates |-> MCFates]}
=============================================================================
