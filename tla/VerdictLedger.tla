--------------------------- MODULE VerdictLedger ----------------------------
(***************************************************************************)
(* What the out-of-sample lockbox promises: a strategy is judged once, and *)
(* as long as one event loop makes all the calls, a lineage and a campaign *)
(* buy no more judgements than their allowances.                           *)
(***************************************************************************)
EXTENDS FiniteSets, Naturals

CONSTANTS Hash, Lineage, Scope, Outcome, LineageBudget, CampaignBudget, NoVerdict

VARIABLES
    verdict,    \* Hash -> NoVerdict or who bought which outcome
    oneLoop     \* is there one event loop?  It never changes

Judged == {h \in Hash : verdict[h] # NoVerdict}
BoughtBy(l) == {h \in Judged : verdict[h].lineage = l}
SpentIn(s) == {h \in Judged : verdict[h].scope = s}

Init == oneLoop \in BOOLEAN /\ verdict = [h \in Hash |-> NoVerdict]

Judge(h, o, l, s) ==
    /\ verdict[h] = NoVerdict
    /\ oneLoop => /\ Cardinality(BoughtBy(l)) < LineageBudget
                  /\ Cardinality(SpentIn(s)) < CampaignBudget
    /\ verdict' = [verdict EXCEPT ![h] = [outcome |-> o, lineage |-> l, scope |-> s]]
    /\ UNCHANGED oneLoop

Next == \E h \in Hash, o \in Outcome, l \in Lineage, s \in Scope : Judge(h, o, l, s)

Spec == Init /\ [][Next]_<<verdict, oneLoop>>
=============================================================================
