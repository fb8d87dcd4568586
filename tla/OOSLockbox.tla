----------------------------- MODULE OOSLockbox -----------------------------
(***************************************************************************)
(* The out-of-sample lockbox of backtesting/lockbox/service.py, one SQLite *)
(* file with three tables, and the runs that call it (_run_oos_lockbox):   *)
(* look for an earlier verdict, open the lineage's budget row, evaluate.   *)
(*                                                                         *)
(* evaluate reads its rows, runs the hold-out backtest, and commits the    *)
(* values it computed from what it read.  Runs of one server share an      *)
(* event loop and evaluate never awaits, so a call is not interleaved      *)
(* (oneLoop); otherwise every caller is a process of its own on the file.  *)
(***************************************************************************)
EXTENDS FiniteSets, Naturals

CONSTANTS
    Caller,          \* research runs
    Hash, Lineage, Scope,
    LineageBudget,   \* ensure_budget(total = 3)
    CampaignBudget,  \* CAMPAIGN_OOS_BUDGET = 50
    NoVerdict

ASSUME CallerAssumption == IsFiniteSet(Caller)
ASSUME HashAssumption == IsFiniteSet(Hash)
ASSUME BudgetAssumption == LineageBudget \in Nat /\ CampaignBudget \in Nat
ASSUME NoVerdictAssumption ==
    NoVerdict \notin [outcome : {"PASS", "FAIL"}, lineage : Lineage, scope : Scope]

VARIABLES
    oneLoop,   \* do all callers live in one process?  It never changes
    opened,    \* lineages with a row in oos_budget
    used,      \* budget_used of that row
    ledgers,   \* scopes with a row in oos_campaign_ledger
    spent,     \* tests_terminal of that row
    verdict,   \* oos_results; the scope is kept for the properties only
    call,      \* what each caller is doing, with the values it has read
    answers    \* history: terminal outcomes handed to callers

lockboxVars == <<oneLoop, opened, used, ledgers, spent, verdict, call, answers>>

Outcome == {"PASS", "FAIL"}
Verdict == [outcome : Outcome, lineage : Lineage, scope : Scope]

Idle == [pc |-> "idle"]
Asked == [pc : {"asked"}, hash : Hash, lineage : Lineage, scope : Scope]
Testing == [pc : {"testing"}, hash : Hash, lineage : Lineage, scope : Scope,
            used : Nat, spent : Nat, new : BOOLEAN]

TableType ==
    /\ opened \in SUBSET Lineage
    /\ used \in [Lineage -> Nat]
    /\ ledgers \in SUBSET Scope
    /\ spent \in [Scope -> Nat]
    /\ verdict \in [Hash -> Verdict \cup {NoVerdict}]
    /\ call \in [Caller -> {Idle} \cup Asked \cup Testing]
    /\ answers \in SUBSET (Hash \X Outcome)

LockboxType == oneLoop \in BOOLEAN /\ TableType

LockboxInit ==
    /\ oneLoop \in BOOLEAN
    /\ opened = {}
    /\ used = [l \in Lineage |-> 0]
    /\ ledgers = {}
    /\ spent = [s \in Scope |-> 0]
    /\ verdict = [h \in Hash |-> NoVerdict]
    /\ call = [c \in Caller |-> Idle]
    /\ answers = {}

Judged == {h \in Hash : verdict[h] # NoVerdict}

\* Between two awaits nobody else on the loop gets a turn.
MayRun(c) == oneLoop => \A d \in Caller \ {c} : call[d] = Idle

Return(c) == call' = [call EXCEPT ![c] = Idle]

\* get_result found a terminal row: the verdict is recovered, not bought again.
Recover(c, h) ==
    /\ MayRun(c) /\ call[c] = Idle
    /\ h \in Judged
    /\ answers' = answers \cup {<<h, verdict[h].outcome>>}
    /\ UNCHANGED <<opened, used, ledgers, spent, verdict, call>>

\* get_result found nothing; ensure_budget creates the lineage's row if missing.
Ask(c, h, l, s) ==
    /\ MayRun(c) /\ call[c] = Idle
    /\ h \notin Judged
    /\ opened' = opened \cup {l}
    /\ call' = [call EXCEPT ![c] = [pc |-> "asked", hash |-> h, lineage |-> l, scope |-> s]]
    /\ UNCHANGED <<used, ledgers, spent, verdict, answers>>

Asking(c) == MayRun(c) /\ call[c].pc = "asked"

\* Mutant: the campaign cap is checked one test too late.
RefusableLate(h, l, s) ==
    \/ h \in Judged
    \/ l \notin opened \/ used[l] >= LineageBudget
    \/ spent[s] > CampaignBudget

\* AlreadyEvaluatedError, or BudgetExhaustedError of the lineage or the campaign.
Refusable(h, l, s) ==
    \/ h \in Judged
    \/ l \notin opened \/ used[l] >= LineageBudget
    \/ spent[s] >= CampaignBudget

Refuse(c) ==
    /\ Asking(c)
    /\ Refusable(call[c].hash, call[c].lineage, call[c].scope)
    /\ Return(c)
    /\ UNCHANGED <<opened, used, ledgers, spent, verdict, answers>>

\* All checks passed; the rows read here are written back after the backtest.
BeginTest(c) ==
    LET q == call[c] IN
    /\ Asking(c)
    /\ ~Refusable(q.hash, q.lineage, q.scope)
    /\ call' = [call EXCEPT ![c] =
                  [pc |-> "testing", hash |-> q.hash, lineage |-> q.lineage, scope |-> q.scope,
                   used |-> used[q.lineage], spent |-> spent[q.scope],
                   new |-> q.scope \notin ledgers]]
    /\ UNCHANGED <<opened, used, ledgers, spent, verdict, answers>>

InTest(c) == MayRun(c) /\ call[c].pc = "testing"

\* The callable raised or returned UNEVALUATED: no row, no charge, retryable.
Unevaluated(c) ==
    /\ InTest(c)
    /\ Return(c)
    /\ UNCHANGED <<opened, used, ledgers, spent, verdict, answers>>

\* Mutant: INSERT OR REPLACE.
CollidesNever(q) == FALSE

\* The primary keys: a result row, or a campaign row, that another process
\* inserted meanwhile makes the transaction fail as a whole.
Collides(q) == q.hash \in Judged \/ (q.new /\ q.scope \in ledgers)

Collision(c) ==
    /\ InTest(c)
    /\ Collides(call[c])
    /\ Return(c)
    /\ UNCHANGED <<opened, used, ledgers, spent, verdict, answers>>

\* Mutant: the charge is forgotten when the outcome is FAIL.
CommitPassOnly(c, o) ==
    LET q == call[c] IN
    /\ InTest(c)
    /\ ~Collides(q)
    /\ used' = [used EXCEPT ![q.lineage] = IF o = "PASS" THEN q.used + 1 ELSE q.used]
    /\ spent' = [spent EXCEPT ![q.scope] = q.spent + 1]
    /\ ledgers' = ledgers \cup {q.scope}
    /\ verdict' = [verdict EXCEPT ![q.hash] =
                     [outcome |-> o, lineage |-> q.lineage, scope |-> q.scope]]
    /\ answers' = answers \cup {<<q.hash, o>>}
    /\ Return(c)
    /\ UNCHANGED opened

\* A terminal outcome: both charges and the result row in one transaction.
Commit(c, o) ==
    LET q == call[c] IN
    /\ InTest(c)
    /\ ~Collides(q)
    /\ used' = [used EXCEPT ![q.lineage] = q.used + 1]
    /\ spent' = [spent EXCEPT ![q.scope] = q.spent + 1]
    /\ ledgers' = ledgers \cup {q.scope}
    /\ verdict' = [verdict EXCEPT ![q.hash] =
                     [outcome |-> o, lineage |-> q.lineage, scope |-> q.scope]]
    /\ answers' = answers \cup {<<q.hash, o>>}
    /\ Return(c)
    /\ UNCHANGED opened

\* A process dies: its open transaction is gone (on one loop, everybody's).
ProcessDies(c) ==
    /\ call[c] # Idle
    /\ call' = [d \in Caller |-> IF oneLoop \/ d = c THEN Idle ELSE call[d]]
    /\ UNCHANGED <<opened, used, ledgers, spent, verdict, answers>>

LockboxNext ==
    /\ UNCHANGED oneLoop
    /\ \E c \in Caller :
        \/ \E h \in Hash : Recover(c, h)
        \/ \E h \in Hash, l \in Lineage, s \in Scope : Ask(c, h, l, s)
        \/ Refuse(c) \/ BeginTest(c) \/ Unevaluated(c) \/ Collision(c)
        \/ \E o \in Outcome : Commit(c, o)
        \/ ProcessDies(c)

LockboxSpec == LockboxInit /\ [][LockboxNext]_lockboxVars

-----------------------------------------------------------------------------
(* Properties *)

BoughtBy(l) == {h \in Judged : verdict[h].lineage = l}
SpentIn(s) == {h \in Judged : verdict[h].scope = s}

\* On one event loop both counters say exactly how many verdicts the lineage and
\* the campaign have bought: "consume budget (lineage + FB4 campaign) and record
\* the result atomically", through crashes and UNEVALUATED outcomes.
LedgersCountVerdicts ==
    oneLoop => /\ \A l \in Lineage : used[l] = Cardinality(BoughtBy(l))
               /\ \A s \in Scope : spent[s] = Cardinality(SpentIn(s))

\* Even with several processes on the file a counter never says more than was
\* bought: nobody is refused because of a verdict that does not exist.
NobodyIsOvercharged ==
    /\ \A l \in Lineage : used[l] <= Cardinality(BoughtBy(l))
    /\ \A s \in Scope : spent[s] <= Cardinality(SpentIn(s))

\* The allowances are charged for what was bought and for nothing else.
LedgersHold == LedgersCountVerdicts /\ NobodyIsOvercharged

\* "Terminal outcome cannot be overwritten": whoever was ever told PASS or FAIL
\* for a strategy was told what is stored, and is told so for ever.
AnswersStand ==
    \A a \in answers : a[1] \in Judged /\ verdict[a[1]].outcome = a[2]

\* The lockbox implements VerdictLedger: each strategy is judged once, and on one
\* event loop within the allowances ("more volume can never buy more lottery tickets").
Ledger == INSTANCE VerdictLedger
KeepsLedgerPromise == Ledger!Spec
=============================================================================
