--------------------------- MODULE CoverageMemory ---------------------------
(***************************************************************************)
(* The cross-run coverage memory of ai/research/coverage.py and the        *)
(* strategist that samples from it (ai/research/strategist.py), for one    *)
(* user, one asset and the default window.                                 *)
(*                                                                         *)
(* A parameter point lies in one cell of its template's grid.  A run loads *)
(* the visited cells, proposes the unvisited feasible cell farthest from   *)
(* them, marks it, and adds what it opened to the table when it returns.   *)
(* Runs share an event loop: they interleave where they await, in LLM      *)
(* calls and in the database.                                              *)
(*                                                                         *)
(* Abstracted: the calibrated resolutions and the distance formula, which  *)
(* are the constants CellOf and Distance; when an attempt is stored, which *)
(* RunLifecycle models.                                                    *)
(***************************************************************************)
EXTENDS Naturals, FiniteSets

CONSTANTS
    Run, Template, Cell, Point, Nobody,
    TemplateOf,    \* of a cell
    CellOf,        \* bin_params of a point; every cell is the cell of a point
    Feasible,      \* cells whose centre is not repaired into another cell
    Centre,        \* cell_center, repaired
    Middle,        \* per template the feasible cell nearest to the box centre
    Distance,      \* between two cells
    MaxIdeas       \* bound: the LLM proposes until the run has opened that many cells

ASSUME RunAssumption == IsFiniteSet(Run) /\ Nobody \notin Run

ASSUME GridAssumption ==
    /\ IsFiniteSet(Cell)
    /\ TemplateOf \in [Cell -> Template]
    /\ CellOf \in [Point -> Cell]
    /\ Feasible \subseteq Cell
    /\ Centre \in [Feasible -> Point]
    /\ \A c \in Feasible : CellOf[Centre[c]] = c
    /\ Middle \in [Template -> Feasible]
    /\ \A t \in Template : TemplateOf[Middle[t]] = t
    /\ Distance \in [Cell -> [Cell -> Nat]]
    /\ \A c, d \in Cell : Distance[c][d] = Distance[d][c] /\ (c # d => Distance[c][d] > 0)

VARIABLES
    table,      \* research_coverage: visit_count per cell, 0 without a row
    exemplars,  \* the points whose hash is some row's exemplar_hash
    attempts,   \* points with a row in research_candidates or research_failures
    lock,       \* holder of persistence._write_lock
    read,       \* the rows the holder has selected
    phase,      \* of each run
    visited, newly, tried,    \* CoverageMap.visited, newly_visited, _tried_hashes
    picks,      \* history: cells the space-filling path chose
    radius,     \* history: per template, how far out the last of them was
    added,      \* history: cells a run's flush has added to the table
    before,     \* history: runs whose flush came before this one's load
    restored    \* history: cells whose row backfill created

store    == <<table, exemplars, attempts, lock, read>>
map      == <<visited, newly, tried>>
history  == <<picks, radius, added, before, restored>>
vars     == <<store, phase, map, history>>

StoreType ==
    /\ table \in [Cell -> Nat]
    /\ exemplars \in SUBSET Point
    /\ attempts \in SUBSET Point
    /\ lock \in Run \cup {Nobody}
    /\ read \in [Cell -> Nat]
RunType ==
    /\ phase \in [Run -> {"new", "searching", "flushing", "done"}]
    /\ visited \in [Run -> SUBSET Cell]
    /\ newly \in [Run -> SUBSET Cell]
    /\ tried \in [Run -> SUBSET Point]
HistoryType ==
    /\ picks \in [Run -> SUBSET Cell]
    /\ radius \in [Run -> [Template -> Nat]]
    /\ added \in [Run -> SUBSET Cell]
    /\ before \in [Run -> SUBSET Run]
    /\ restored \in SUBSET Cell

TypeOK == StoreType /\ RunType /\ HistoryType

Init ==
    /\ table = [c \in Cell |-> 0]
    /\ exemplars = {}
    /\ attempts = {}
    /\ lock = Nobody
    /\ read = [c \in Cell |-> 0]
    /\ phase = [r \in Run |-> "new"]
    /\ visited = [r \in Run |-> {}]
    /\ newly = [r \in Run |-> {}]
    /\ tried = [r \in Run |-> {}]
    /\ picks = [r \in Run |-> {}]
    /\ radius = [r \in Run |-> [t \in Template |-> 0]]
    /\ added = [r \in Run |-> {}]
    /\ before = [r \in Run |-> {}]
    /\ restored = {}

Live(r) == phase[r] \in {"searching", "flushing"}

-----------------------------------------------------------------------------
(* load_coverage *)

Stored == {c \in Cell : table[c] > 0}

\* Mutant: the default grid version of the rows is never matched.
LoadableNone == {}

\* The rows of this scope, window and grid version.
Loadable == Stored

Load(r) ==
    /\ phase[r] = "new"
    /\ phase' = [phase EXCEPT ![r] = "searching"]
    /\ visited' = [visited EXCEPT ![r] = Loadable]
    /\ tried' = [tried EXCEPT ![r] = exemplars]
    /\ before' = [before EXCEPT ![r] = {a \in Run : added[a] # {}}]
    /\ UNCHANGED <<store, newly, picks, radius, added, restored>>

-----------------------------------------------------------------------------
(* propose *)

Proposing(r) == phase[r] = "searching"

\* CoverageMap.mark, and the exact-hash dedup set.  The attempt is then tested and
\* stored as a candidate or a failure, or it leaves no row: the trial budget
\* refuses it, its data cannot be prepared, the server dies before the heartbeat.
Mark(r, p) ==
    /\ visited' = [visited EXCEPT ![r] = @ \cup {CellOf[p]}]
    /\ newly' = [newly EXCEPT ![r] = @ \cup ({CellOf[p]} \ visited[r])]
    /\ tried' = [tried EXCEPT ![r] = @ \cup {p}]
    /\ attempts' \in {attempts, attempts \cup {p}}
    /\ UNCHANGED <<table, exemplars, lock, read, phase>>

In(t, S) == {c \in S : TemplateOf[c] = t}
Seen(r, t) == In(t, visited[r])

Unvisited(r, t) == In(t, Feasible) \ visited[r]

\* pct_covered: the visited share of the template's reachable cells.
NoMoreCovered(r, t, u) ==
    Cardinality(Seen(r, t)) * Cardinality(In(u, Cell))
        <= Cardinality(Seen(r, u)) * Cardinality(In(t, Cell))

\* _choose_spacefilling takes the least covered template that is not saturated.
LeastCovered(r, t) ==
    /\ Unvisited(r, t) # {}
    /\ \A u \in Template : Unvisited(r, u) # {} => NoMoreCovered(r, t, u)

Within(c, S, d) == \E v \in S : Distance[c][v] <= d

\* No visited cell is nearer to c than n.
Nearest(r, t, c, n) ==
    \A v \in Seen(r, t) : Distance[c][n] <= Distance[c][v]

\* Mutant: the nearest candidate instead of the farthest.
FarthestMin(r, t, d) ==
    \A c \in Unvisited(r, t), v \in Seen(r, t) : d <= Distance[c][v]

\* Maximin: no candidate is farther than d from everything visited.
Farthest(r, t, d) == \A c \in Unvisited(r, t) : Within(c, Seen(r, t), d)

\* pick_cell starts in the middle of its box ...
FirstPick(r, t) ==
    /\ Proposing(r) /\ Seen(r, t) = {}
    /\ Mark(r, Centre[Middle[t]])
    /\ picks' = [picks EXCEPT ![r] = @ \cup {Middle[t]}]
    /\ UNCHANGED <<radius, added, before, restored>>

\* ... and goes on with any of the farthest cells; its centre is the proposal.
NextPick(r, t, c, n) ==
    /\ Proposing(r)
    /\ Nearest(r, t, c, n) /\ Farthest(r, t, Distance[c][n])
    /\ Mark(r, Centre[c])
    /\ picks' = [picks EXCEPT ![r] = @ \cup {c}]
    /\ radius' = [radius EXCEPT ![r][t] = Distance[c][n]]
    /\ UNCHANGED <<added, before, restored>>

\* Every template is saturated: a random point, after ten tries even a known one.
Fallback(r, p) ==
    /\ Proposing(r)
    /\ \A t \in Template : Unvisited(r, t) = {}
    /\ Mark(r, p)
    /\ UNCHANGED history

\* LLMStrategist: any point whose hash is not in the tried set; a known one is
\* handed to the rule-based strategist above.
ProposeLLM(r, p) ==
    /\ Proposing(r)
    /\ p \notin tried[r]
    /\ Cardinality(newly[r]) < MaxIdeas
    /\ Mark(r, p)
    /\ UNCHANGED history

-----------------------------------------------------------------------------
(* persist_coverage, when research_loop returned normally *)

\* Mutant: the flush does not take the write lock.
LockFreeAlways == TRUE

LockFree == lock = Nobody

BeginFlush(r) ==
    /\ phase[r] = "searching"
    /\ LockFree
    /\ lock' = r
    /\ read' = table
    /\ phase' = [phase EXCEPT ![r] = "flushing"]
    /\ UNCHANGED <<table, exemplars, attempts, map, history>>

\* The runs S are over, and their CoverageMaps are gone.
Over(S) ==
    /\ phase' = [r \in Run |-> IF r \in S THEN "done" ELSE phase[r]]
    /\ visited' = [r \in Run |-> IF r \in S THEN {} ELSE visited[r]]
    /\ newly' = [r \in Run |-> IF r \in S THEN {} ELSE newly[r]]
    /\ tried' = [r \in Run |-> IF r \in S THEN {} ELSE tried[r]]
    /\ picks' = [r \in Run |-> IF r \in S THEN {} ELSE picks[r]]
    /\ radius' = [r \in Run |-> IF r \in S THEN [t \in Template |-> 0] ELSE radius[r]]

Release == lock' = Nobody /\ read' = [c \in Cell |-> 0]

\* One more visit of every cell the run opened.
Counted(r) == [c \in Cell |-> IF c \in newly[r] THEN read[c] + 1 ELSE table[c]]

CommitFlush(r) ==
    /\ phase[r] = "flushing"
    /\ table' = Counted(r)
    /\ Over({r}) /\ Release
    /\ added' = [added EXCEPT ![r] = newly[r]]
    /\ UNCHANGED <<exemplars, attempts, before, restored>>

\* Logged and forgotten: "a lost flush is backfillable".
FlushFails(r) ==
    /\ phase[r] = "flushing"
    /\ Over({r}) /\ Release
    /\ UNCHANGED <<table, exemplars, attempts, added, before, restored>>

\* The run raised or was cancelled: its coverage is not flushed.
Abandon(r) ==
    /\ phase[r] = "searching"
    /\ Over({r})
    /\ UNCHANGED <<store, added, before, restored>>

\* The server dies with every run it has.
Crash ==
    /\ \E r \in Run : Live(r)
    /\ Over({r \in Run : Live(r)}) /\ Release
    /\ UNCHANGED <<table, exemplars, attempts, added, before, restored>>

\* backfill_coverage: a row for each stored attempt whose cell has none.
Missing == {CellOf[p] : p \in attempts} \ Stored

Backfill ==
    /\ lock = Nobody /\ Missing # {}
    /\ table' = [c \in Cell |-> IF c \in Missing THEN table[c] + 1 ELSE table[c]]
    /\ \E f \in [Missing -> attempts] :
         /\ \A c \in Missing : CellOf[f[c]] = c
         /\ exemplars' = exemplars \cup {f[c] : c \in Missing}
    /\ restored' = restored \cup Missing
    /\ UNCHANGED <<attempts, lock, read, phase, map, picks, radius, added, before>>

-----------------------------------------------------------------------------

Propose(r) ==
    \/ \E t \in Template :
         /\ LeastCovered(r, t)
         /\ FirstPick(r, t) \/ \E c \in Unvisited(r, t), n \in Seen(r, t) : NextPick(r, t, c, n)
    \/ \E p \in Point : Fallback(r, p) \/ ProposeLLM(r, p)

Next ==
    \/ \E r \in Run :
         \/ Load(r) \/ Propose(r)
         \/ BeginFlush(r) \/ CommitFlush(r) \/ FlushFails(r) \/ Abandon(r)
    \/ Crash \/ Backfill

Spec == Init /\ [][Next]_vars

-----------------------------------------------------------------------------
(* Properties *)

Openers(c) == {r \in Run : c \in added[r]}

\* "Upsert the cells newly visited this run (visit_count++)": concurrent flushes,
\* crashes and backfills lose and invent no visit.
VisitsAreCounted ==
    \A c \in Cell : table[c] = Cardinality(Openers(c)) + (IF c \in restored THEN 1 ELSE 0)

\* AT-4: a run that starts after another one was flushed looks for no cell that
\* one has opened, and its deflated-Sharpe hurdle counts them all.
RunsDigElsewhere ==
    \A r \in Run : Live(r) => \A a \in before[r] :
        /\ added[a] \subseteq visited[r]
        /\ picks[r] \cap added[a] = {}

\* Greedy farthest-point sampling: with d the distance of a run's last pick from
\* what it had seen, every cell it may still draw lies within d of a visited one,
\* and the cells it has picked lie at least d apart.  What the LLM proposes in
\* between, and what earlier runs visited, does not spoil it.
EvenSpread ==
    \A r \in Run, t \in Template :
        radius[r][t] > 0 =>
            /\ \A c \in Unvisited(r, t) : Within(c, Seen(r, t), radius[r][t])
            /\ \A c, d \in In(t, picks[r]) : c # d => radius[r][t] <= Distance[c][d]

\* "Reconstruct coverage cells from candidates + failures (idempotent)": backfill
\* leaves existing rows alone, and then no stored attempt is without a cell.
BackfillOnlyFills ==
    [][restored' # restored =>
         /\ \A c \in Stored : table'[c] = table[c]
         /\ \A p \in attempts : table'[CellOf[p]] > 0]_vars
=============================================================================
