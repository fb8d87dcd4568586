------------------------ MODULE SharedStores_proofs -------------------------
(***************************************************************************)
(* TLAPS proofs about the two stores every run writes to: the coverage     *)
(* memory, for any grid and any finite number of runs, and the OOS         *)
(* lockbox, for any finite sets of callers and strategies, any lineages    *)
(* and campaigns and any allowances.                                       *)
(***************************************************************************)
EXTENDS CoverageMemory, OOSLockbox, FiniteSetTheorems, TLAPS

(***************************************************************************)
(* The coverage memory                                                     *)
(***************************************************************************)
-----------------------------------------------------------------------------
(* The inductive invariant *)

\* Only the holder of the write lock flushes, and what it read is the table.
LockHeld == \A r \in Run : phase[r] = "flushing" => lock = r /\ read = table

\* A run adds to the table once, when it ends.
AddedIsOver == \A r \in Run : added[r] # {} => phase[r] = "done"

\* What a run found in the table when it started is there for good.
BeforeIsOver == \A r \in Run : \A a \in before[r] : phase[a] = "done"

\* A run that has not started has picked nothing.
NewIsBlank ==
    \A r \in Run : phase[r] = "new" => picks[r] = {} /\ radius[r] = [t \in Template |-> 0]

PicksAreVisited == \A r \in Run : picks[r] \subseteq visited[r]

\* Before the second pick of a template there is at most one.
OnePick ==
    \A r \in Run, t \in Template :
        radius[r][t] = 0 => \A c, d \in In(t, picks[r]) : c = d

\* A proposal by the space-filling rule, and any other one.
First(r, t) == LeastCovered(r, t) /\ FirstPick(r, t)

Pick(r, t, c, n) ==
    /\ c \in Unvisited(r, t) /\ n \in Seen(r, t)
    /\ NextPick(r, t, c, n)

Idea(r, p) == Fallback(r, p) \/ ProposeLLM(r, p)

\* An ending of the runs S that stores nothing.
Ending(S) ==
    /\ Over(S)
    /\ (lock' = lock /\ read' = read) \/ Release
    /\ UNCHANGED <<table, exemplars, attempts, added, before, restored>>

Lost ==
    \/ \E r \in Run : phase[r] = "flushing" /\ Release /\ Ending({r})
    \/ \E r \in Run : phase[r] = "searching" /\ lock' = lock /\ read' = read /\ Ending({r})
    \/ Release /\ Ending({r \in Run : Live(r)})

-----------------------------------------------------------------------------
(* The steps of the system, one by one. *)
LEMMA Cases ==
    ASSUME TypeOK, Next
    PROVE  \/ \E r \in Run :
                \/ Load(r) \/ BeginFlush(r) \/ CommitFlush(r)
                \/ \E t \in Template : First(r, t) \/ \E c, n \in Cell : Pick(r, t, c, n)
                \/ \E p \in Point : Idea(r, p)
           \/ Lost \/ Backfill
<1>1. ASSUME NEW r \in Run, Propose(r)
      PROVE  \/ \E t \in Template : First(r, t) \/ \E c, n \in Cell : Pick(r, t, c, n)
             \/ \E p \in Point : Idea(r, p)
  <2>1. CASE \E p \in Point : Fallback(r, p) \/ ProposeLLM(r, p)
    BY <2>1 DEF Idea
  <2>2. ASSUME NEW t \in Template, LeastCovered(r, t), FirstPick(r, t)
        PROVE  First(r, t)
    BY <2>2 DEF First
  <2>3. ASSUME NEW t \in Template, NEW c \in Unvisited(r, t), NEW n \in Seen(r, t),
               NextPick(r, t, c, n)
        PROVE  c \in Cell /\ n \in Cell /\ Pick(r, t, c, n)
    BY <2>3, GridAssumption DEF Pick, Unvisited, Seen, In, TypeOK, RunType
  <2>. QED BY <1>1, <2>1, <2>2, <2>3 DEF Propose
<1>2. ASSUME NEW r \in Run, FlushFails(r)
      PROVE  Lost
  BY <1>2 DEF FlushFails, Lost, Ending
<1>3. ASSUME NEW r \in Run, Abandon(r)
      PROVE  Lost
  BY <1>3 DEF Abandon, Lost, Ending, store
<1>4. ASSUME Crash
      PROVE  Lost
  BY <1>4 DEF Crash, Lost, Ending
<1>. QED BY <1>1, <1>2, <1>3, <1>4 DEF Next

(* What marking a point does to the run's memory. *)
LEMMA Marking ==
    ASSUME TypeOK, NEW r \in Run, NEW p \in Point, Mark(r, p)
    PROVE  /\ CellOf[p] \in Cell
           /\ visited' \in [Run -> SUBSET Cell]
           /\ newly' \in [Run -> SUBSET Cell]
           /\ tried' \in [Run -> SUBSET Point]
           /\ attempts' \in SUBSET Point
           /\ visited'[r] = visited[r] \cup {CellOf[p]}
           /\ \A s \in Run \ {r} : visited'[s] = visited[s]
           /\ UNCHANGED <<table, exemplars, lock, read, phase>>
<1>1. CellOf[p] \in Cell
  BY GridAssumption
<1>. QED BY <1>1 DEF Mark, TypeOK, StoreType, RunType

(* What the end of some runs does to it. *)
LEMMA Ends ==
    ASSUME TypeOK, NEW S \in SUBSET Run, Over(S)
    PROVE  /\ RunType'
           /\ picks' \in [Run -> SUBSET Cell]
           /\ radius' \in [Run -> [Template -> Nat]]
           /\ \A r \in S : /\ phase'[r] = "done" /\ visited'[r] = {} /\ picks'[r] = {}
                           /\ radius'[r] = [t \in Template |-> 0]
           /\ \A r \in Run \ S : /\ phase'[r] = phase[r] /\ visited'[r] = visited[r]
                                 /\ picks'[r] = picks[r] /\ radius'[r] = radius[r]
<1>1. /\ phase' \in [Run -> {"new", "searching", "flushing", "done"}]
      /\ visited' \in [Run -> SUBSET Cell]
      /\ newly' \in [Run -> SUBSET Cell]
      /\ tried' \in [Run -> SUBSET Point]
  BY DEF Over, TypeOK, RunType
<1>2. picks' \in [Run -> SUBSET Cell] /\ radius' \in [Run -> [Template -> Nat]]
  BY DEF Over, TypeOK, HistoryType
<1>3. \A r \in S : /\ phase'[r] = "done" /\ visited'[r] = {} /\ picks'[r] = {}
                   /\ radius'[r] = [t \in Template |-> 0]
  BY DEF Over
<1>4. \A r \in Run \ S : /\ phase'[r] = phase[r] /\ visited'[r] = visited[r]
                         /\ picks'[r] = picks[r] /\ radius'[r] = radius[r]
  BY DEF Over
<1>. QED BY <1>1, <1>2, <1>3, <1>4 DEF RunType

(* A lost run or a crash ends a set of live runs. *)
LEMMA LostEnds ==
    ASSUME Lost
    PROVE  \E S \in SUBSET Run : Ending(S) /\ \A r \in S : Live(r)
<1>1. CASE \E r \in Run : phase[r] = "flushing" /\ Release /\ Ending({r})
  BY <1>1 DEF Live
<1>2. CASE \E r \in Run : phase[r] = "searching" /\ lock' = lock /\ read' = read /\ Ending({r})
  BY <1>2 DEF Live
<1>3. CASE Release /\ Ending({r \in Run : Live(r)})
  <2>. DEFINE S == {r \in Run : Live(r)}
  <2>1. Ending(S)
    BY <1>3
  <2>2. S \in SUBSET Run /\ \A r \in S : Live(r)
    OBVIOUS
  <2>. HIDE DEF S
  <2>. QED BY <2>1, <2>2
<1>. QED BY <1>1, <1>2, <1>3 DEF Lost

(* Every point lies in a cell. *)
LEMMA CellOfType == \A p \in Point : CellOf[p] \in Cell
BY GridAssumption

(* The cell of a template's first pick is one of its cells. *)
LEMMA MiddleFacts ==
    ASSUME NEW t \in Template
    PROVE  /\ Middle[t] \in Cell /\ Centre[Middle[t]] \in Point
           /\ CellOf[Centre[Middle[t]]] = Middle[t] /\ TemplateOf[Middle[t]] = t
BY GridAssumption

(* The centre of a cell that may be drawn lies in it. *)
LEMMA CentreFacts ==
    ASSUME NEW r, NEW t, NEW c \in Unvisited(r, t)
    PROVE  /\ c \in Cell /\ c \in Feasible /\ Centre[c] \in Point
           /\ CellOf[Centre[c]] = c /\ TemplateOf[c] = t /\ c \notin visited[r]
BY GridAssumption DEF Unvisited, In

-----------------------------------------------------------------------------
(* Type correctness *)

LEMMA InitType == Init => TypeOK
<1>. SUFFICES ASSUME Init PROVE TypeOK
  OBVIOUS
<1>1. StoreType
  BY DEF Init, StoreType
<1>2. RunType
  BY DEF Init, RunType
<1>3. HistoryType
  BY DEF Init, HistoryType
<1>. QED BY <1>1, <1>2, <1>3 DEF TypeOK

LEMMA NextType ==
    ASSUME TypeOK, [Next]_vars
    PROVE  TypeOK'
<1>. USE DEF TypeOK
<1>1. ASSUME NEW r \in Run, Load(r)
      PROVE  TypeOK'
  <2>1. StoreType'
    BY <1>1 DEF Load, store, StoreType
  <2>2. exemplars \in SUBSET Point /\ Loadable \in SUBSET Cell /\ {a \in Run : added[a] # {}} \in SUBSET Run
    BY DEF StoreType, Loadable, Stored
  <2>3. RunType'
    BY <1>1, <2>2 DEF Load, RunType
  <2>4. HistoryType'
    BY <1>1, <2>2 DEF Load, HistoryType
  <2>. QED BY <2>1, <2>3, <2>4
<1>2. ASSUME NEW r \in Run, NEW p \in Point, Mark(r, p)
      PROVE  StoreType' /\ RunType'
  BY <1>2, Marking DEF StoreType, RunType
<1>3. ASSUME NEW r \in Run, NEW t \in Template, First(r, t)
      PROVE  TypeOK'
  <2>1. Mark(r, Centre[Middle[t]]) /\ Centre[Middle[t]] \in Point /\ Middle[t] \in Cell
    BY <1>3, MiddleFacts DEF First, FirstPick
  <2>2. HistoryType'
    BY <1>3, <2>1 DEF First, FirstPick, HistoryType
  <2>. QED BY <2>1, <2>2, <1>2
<1>4. ASSUME NEW r \in Run, NEW t \in Template, NEW c \in Cell, NEW n \in Cell, Pick(r, t, c, n)
      PROVE  TypeOK'
  <2>1. Mark(r, Centre[c]) /\ Centre[c] \in Point
    BY <1>4, CentreFacts DEF Pick, NextPick
  <2>2. Distance[c][n] \in Nat
    BY GridAssumption
  <2>3. picks' \in [Run -> SUBSET Cell]
    BY <1>4 DEF Pick, NextPick, HistoryType
  <2>4. radius' \in [Run -> [Template -> Nat]]
    BY <1>4, <2>2 DEF Pick, NextPick, HistoryType
  <2>5. HistoryType'
    BY <1>4, <2>3, <2>4 DEF Pick, NextPick, HistoryType
  <2>. QED BY <2>1, <2>5, <1>2
<1>5. ASSUME NEW r \in Run, NEW p \in Point, Idea(r, p)
      PROVE  TypeOK'
  <2>1. Mark(r, p) /\ UNCHANGED history
    BY <1>5 DEF Idea, Fallback, ProposeLLM
  <2>2. HistoryType'
    BY <2>1 DEF history, HistoryType
  <2>. QED BY <2>1, <2>2, <1>2
<1>6. ASSUME NEW r \in Run, BeginFlush(r)
      PROVE  TypeOK'
  <2>1. StoreType'
    BY <1>6 DEF BeginFlush, StoreType
  <2>2. RunType'
    BY <1>6 DEF BeginFlush, RunType, map
  <2>3. HistoryType'
    BY <1>6 DEF BeginFlush, HistoryType, history
  <2>. QED BY <2>1, <2>2, <2>3
<1>7. ASSUME NEW r \in Run, CommitFlush(r)
      PROVE  TypeOK'
  <2>1. Counted(r) \in [Cell -> Nat]
    BY DEF Counted, StoreType
  <2>2. StoreType'
    BY <1>7, <2>1 DEF CommitFlush, Release, StoreType
  <2>3. RunType' /\ picks' \in [Run -> SUBSET Cell] /\ radius' \in [Run -> [Template -> Nat]]
    BY <1>7, Ends DEF CommitFlush
  <2>4. added' \in [Run -> SUBSET Cell]
    BY <1>7 DEF CommitFlush, HistoryType, RunType
  <2>5. HistoryType'
    BY <1>7, <2>3, <2>4 DEF CommitFlush, HistoryType
  <2>. QED BY <2>2, <2>3, <2>5
<1>8. ASSUME NEW S \in SUBSET Run, Ending(S)
      PROVE  TypeOK'
  <2>1. StoreType'
    BY <1>8 DEF Ending, Release, StoreType
  <2>2. RunType' /\ picks' \in [Run -> SUBSET Cell] /\ radius' \in [Run -> [Template -> Nat]]
    BY <1>8, Ends DEF Ending
  <2>3. HistoryType'
    BY <1>8, <2>2 DEF Ending, HistoryType
  <2>. QED BY <2>1, <2>2, <2>3
<1>9. CASE Backfill
  <2>1. Missing \subseteq Cell
    BY CellOfType DEF Missing, StoreType
  <2>2. table' \in [Cell -> Nat]
    BY <1>9 DEF Backfill, StoreType
  <2>3. PICK f \in [Missing -> attempts] : exemplars' = exemplars \cup {f[c] : c \in Missing}
    BY <1>9 DEF Backfill
  <2>4. exemplars' \in SUBSET Point
    BY <2>3 DEF StoreType
  <2>5. StoreType'
    BY <1>9, <2>2, <2>4 DEF Backfill, StoreType
  <2>6. RunType'
    BY <1>9 DEF Backfill, RunType, map
  <2>7. HistoryType'
    BY <1>9, <2>1 DEF Backfill, HistoryType
  <2>. QED BY <2>5, <2>6, <2>7
<1>10. CASE UNCHANGED vars
  <2>1. StoreType' /\ RunType' /\ HistoryType'
    BY <1>10 DEF vars, store, map, history, StoreType, RunType, HistoryType
  <2>. QED BY <2>1
<1>11. CASE Lost
  BY <1>8, <1>11, LostEnds
<1>. QED BY <1>1, <1>3, <1>4, <1>5, <1>6, <1>7, <1>9, <1>10, <1>11, Cases

\* The coverage table, the runs' maps and their histories always have their types.
THEOREM TypeCorrect == Spec => []TypeOK
BY InitType, NextType, PTL DEF Spec

-----------------------------------------------------------------------------
(* The write lock, and the order of a run's phases *)

Order == LockHeld /\ AddedIsOver /\ BeforeIsOver /\ NewIsBlank /\ PicksAreVisited

LEMMA InitOrder == Init => Order
BY DEF Init, Order, LockHeld, AddedIsOver, BeforeIsOver, NewIsBlank, PicksAreVisited

(* A step that ends no run and changes neither the phases nor the table. *)
LEMMA MarkingKeepsOrder ==
    ASSUME TypeOK, Order, NEW r \in Run, NEW p \in Point, Mark(r, p),
           phase[r] = "searching", added' = added, before' = before,
           \A s \in Run \ {r} : picks'[s] = picks[s] /\ radius'[s] = radius[s],
           picks'[r] \subseteq picks[r] \cup {CellOf[p]}
    PROVE  Order'
<1>1. /\ visited'[r] = visited[r] \cup {CellOf[p]}
      /\ \A s \in Run \ {r} : visited'[s] = visited[s]
      /\ UNCHANGED <<table, lock, read, phase>>
  BY Marking
<1>2. LockHeld'
  BY <1>1 DEF Order, LockHeld
<1>3. AddedIsOver' /\ BeforeIsOver'
  BY <1>1 DEF Order, AddedIsOver, BeforeIsOver
<1>4. NewIsBlank'
  <2>1. SUFFICES ASSUME NEW s \in Run, phase'[s] = "new"
                 PROVE  picks'[s] = {} /\ radius'[s] = [t \in Template |-> 0]
    BY DEF NewIsBlank
  <2>2. s # r /\ phase[s] = "new"
    BY <1>1, <2>1
  <2>. QED BY <2>2 DEF Order, NewIsBlank
<1>5. PicksAreVisited'
  <2>1. SUFFICES ASSUME NEW s \in Run PROVE picks'[s] \subseteq visited'[s]
    BY DEF PicksAreVisited
  <2>2. picks[s] \subseteq visited[s]
    BY DEF Order, PicksAreVisited
  <2>3. CASE s = r
    BY <1>1, <2>2, <2>3
  <2>4. CASE s # r
    BY <1>1, <2>2, <2>4
  <2>. QED BY <2>3, <2>4
<1>. QED BY <1>2, <1>3, <1>4, <1>5 DEF Order

(* A run that is over has no picks and holds no lock. *)
LEMMA EndsKeepOrder ==
    ASSUME TypeOK, Order, NEW S \in SUBSET Run, Over(S), before' = before,
           \A r \in S : Live(r),
           \A r \in Run \ S : added'[r] = added[r]
    PROVE  AddedIsOver' /\ BeforeIsOver' /\ NewIsBlank' /\ PicksAreVisited'
<1>1. /\ \A r \in S : /\ phase'[r] = "done" /\ visited'[r] = {} /\ picks'[r] = {}
                      /\ radius'[r] = [t \in Template |-> 0]
      /\ \A r \in Run \ S : /\ phase'[r] = phase[r] /\ visited'[r] = visited[r]
                            /\ picks'[r] = picks[r] /\ radius'[r] = radius[r]
  BY Ends
<1>2. AddedIsOver'
  BY <1>1 DEF Order, AddedIsOver
<1>3. BeforeIsOver'
  BY <1>1 DEF Order, BeforeIsOver, TypeOK, HistoryType
<1>4. NewIsBlank'
  <2>1. SUFFICES ASSUME NEW s \in Run, phase'[s] = "new"
                 PROVE  picks'[s] = {} /\ radius'[s] = [t \in Template |-> 0]
    BY DEF NewIsBlank
  <2>2. s \notin S /\ phase[s] = "new"
    BY <1>1, <2>1
  <2>. QED BY <1>1, <2>2 DEF Order, NewIsBlank
<1>5. PicksAreVisited'
  BY <1>1 DEF Order, PicksAreVisited
<1>. QED BY <1>2, <1>3, <1>4, <1>5

LEMMA NextOrder ==
    ASSUME TypeOK, Order, [Next]_vars
    PROVE  Order'
<1>1. ASSUME NEW r \in Run, Load(r)
      PROVE  Order'
  <2>1. LockHeld'
    BY <1>1 DEF Order, LockHeld, Load, store, TypeOK, RunType
  <2>2. AddedIsOver'
    BY <1>1 DEF Order, AddedIsOver, Load, TypeOK, RunType
  <2>3. \A a \in before'[r] : a \in Run /\ added[a] # {}
    BY <1>1 DEF Load, TypeOK, HistoryType
  <2>4. \A a \in before'[r] : a # r /\ phase[a] = "done"
    BY <1>1, <2>3 DEF Order, AddedIsOver, Load
  <2>5. BeforeIsOver'
    BY <1>1, <2>4 DEF Order, BeforeIsOver, Load, TypeOK, RunType, HistoryType
  <2>6. NewIsBlank'
    BY <1>1 DEF Order, NewIsBlank, Load, TypeOK, RunType
  <2>7. PicksAreVisited'
    <3>1. SUFFICES ASSUME NEW s \in Run PROVE picks'[s] \subseteq visited'[s]
      BY DEF PicksAreVisited
    <3>2. CASE s = r
      BY <1>1, <3>2 DEF Order, NewIsBlank, Load
    <3>3. CASE s # r
      BY <1>1, <3>3 DEF Order, PicksAreVisited, Load, TypeOK, RunType
    <3>. QED BY <3>2, <3>3
  <2>. QED BY <2>1, <2>2, <2>5, <2>6, <2>7 DEF Order
<1>2. ASSUME NEW r \in Run, NEW t \in Template, First(r, t)
      PROVE  Order'
  <2>1. /\ Mark(r, Centre[Middle[t]]) /\ Centre[Middle[t]] \in Point
        /\ CellOf[Centre[Middle[t]]] = Middle[t]
    BY <1>2, MiddleFacts DEF First, FirstPick
  <2>2. phase[r] = "searching" /\ added' = added /\ before' = before /\ radius' = radius
    BY <1>2 DEF First, FirstPick, Proposing
  <2>3. picks'[r] = picks[r] \cup {Middle[t]} /\ \A s \in Run \ {r} : picks'[s] = picks[s]
    BY <1>2 DEF First, FirstPick, TypeOK, HistoryType
  <2>. QED BY <2>1, <2>2, <2>3, MarkingKeepsOrder
<1>3. ASSUME NEW r \in Run, NEW t \in Template, NEW c \in Cell, NEW n \in Cell, Pick(r, t, c, n)
      PROVE  Order'
  <2>1. Mark(r, Centre[c]) /\ Centre[c] \in Point /\ CellOf[Centre[c]] = c
    BY <1>3, CentreFacts DEF Pick, NextPick
  <2>2. phase[r] = "searching" /\ added' = added /\ before' = before
    BY <1>3 DEF Pick, NextPick, Proposing
  <2>3. picks'[r] = picks[r] \cup {c} /\ \A s \in Run \ {r} : picks'[s] = picks[s]
    BY <1>3 DEF Pick, NextPick, TypeOK, HistoryType
  <2>4. \A s \in Run \ {r} : radius'[s] = radius[s]
    BY <1>3 DEF Pick, NextPick, TypeOK, HistoryType
  <2>. QED BY <2>1, <2>2, <2>3, <2>4, MarkingKeepsOrder
<1>4. ASSUME NEW r \in Run, NEW p \in Point, Idea(r, p)
      PROVE  Order'
  <2>1. Mark(r, p) /\ phase[r] = "searching" /\ UNCHANGED history
    BY <1>4 DEF Idea, Fallback, ProposeLLM, Proposing
  <2>2. added' = added /\ before' = before /\ picks' = picks /\ radius' = radius
    BY <2>1 DEF history
  <2>. QED BY <2>1, <2>2, MarkingKeepsOrder
<1>5. ASSUME NEW r \in Run, BeginFlush(r)
      PROVE  Order'
  <2>1. \A s \in Run : phase[s] # "flushing"
    BY <1>5, RunAssumption DEF BeginFlush, LockFree, Order, LockHeld
  <2>2. LockHeld'
    BY <1>5, <2>1 DEF BeginFlush, LockHeld, TypeOK, RunType
  <2>3. AddedIsOver' /\ BeforeIsOver'
    BY <1>5 DEF BeginFlush, history, Order, AddedIsOver, BeforeIsOver, TypeOK, RunType, HistoryType
  <2>4. NewIsBlank' /\ PicksAreVisited'
    BY <1>5 DEF BeginFlush, history, map, Order, NewIsBlank, PicksAreVisited, TypeOK, RunType
  <2>. QED BY <2>2, <2>3, <2>4 DEF Order
<1>6. ASSUME NEW r \in Run, CommitFlush(r)
      PROVE  Order'
  <2>1. \A s \in Run : phase[s] = "flushing" => s = r
    BY <1>6 DEF CommitFlush, Order, LockHeld
  <2>2. /\ Over({r}) /\ before' = before
        /\ \A s \in {r} : Live(s)
        /\ \A s \in Run \ {r} : added'[s] = added[s]
    BY <1>6 DEF CommitFlush, Live, TypeOK, HistoryType
  <2>3. AddedIsOver' /\ BeforeIsOver' /\ NewIsBlank' /\ PicksAreVisited'
    BY <2>2, EndsKeepOrder
  <2>4. LockHeld'
    BY <2>1, <2>2, Ends DEF LockHeld
  <2>. QED BY <2>3, <2>4 DEF Order
<1>7. CASE Lost
  <2>1. PICK S \in SUBSET Run : Ending(S) /\ \A r \in S : Live(r)
    BY <1>7, LostEnds
  <2>2. Over(S) /\ before' = before /\ added' = added /\ table' = table
    BY <2>1 DEF Ending
  <2>3. AddedIsOver' /\ BeforeIsOver' /\ NewIsBlank' /\ PicksAreVisited'
    BY <2>1, <2>2, EndsKeepOrder
  <2>4. LockHeld'
    <3>1. ASSUME NEW r \in Run, phase[r] = "flushing", Over({r})
          PROVE  LockHeld'
      BY <3>1, Ends DEF LockHeld, Order
    <3>2. ASSUME NEW r \in Run, lock' = lock, read' = read, Over({r}), phase[r] = "searching"
          PROVE  LockHeld'
      BY <2>2, <3>2, Ends DEF LockHeld, Order
    <3>3. ASSUME Over({r \in Run : Live(r)})
          PROVE  LockHeld'
      <4>1. \A s \in Run : phase'[s] # "flushing"
        BY <3>3 DEF Over, Live, TypeOK, RunType
      <4>. QED BY <4>1 DEF LockHeld
    <3>. QED BY <1>7, <3>1, <3>2, <3>3 DEF Lost, Ending
  <2>. QED BY <2>3, <2>4 DEF Order
<1>8. CASE Backfill
  <2>1. \A s \in Run : phase[s] # "flushing"
    BY <1>8, RunAssumption DEF Backfill, Order, LockHeld
  <2>2. LockHeld'
    BY <1>8, <2>1 DEF Backfill, LockHeld
  <2>3. AddedIsOver' /\ BeforeIsOver' /\ NewIsBlank' /\ PicksAreVisited'
    BY <1>8 DEF Backfill, map, Order, AddedIsOver, BeforeIsOver, NewIsBlank, PicksAreVisited
  <2>. QED BY <2>2, <2>3 DEF Order
<1>9. CASE UNCHANGED vars
  BY <1>9 DEF vars, store, map, history, Order, LockHeld, AddedIsOver, BeforeIsOver, NewIsBlank,
              PicksAreVisited
<1>. QED BY <1>1, <1>2, <1>3, <1>4, <1>5, <1>6, <1>7, <1>8, <1>9, Cases

-----------------------------------------------------------------------------
(* No visit is lost or invented *)

LEMMA OpenersFinite == \A c : IsFiniteSet(Openers(c)) /\ Cardinality(Openers(c)) \in Nat
<1>. SUFFICES ASSUME NEW c
              PROVE  IsFiniteSet(Openers(c)) /\ Cardinality(Openers(c)) \in Nat
  OBVIOUS
<1>1. Openers(c) \subseteq Run
  BY DEF Openers
<1>. QED BY <1>1, RunAssumption, FS_Subset, FS_CardinalityType

LEMMA InitCounted == Init => VisitsAreCounted
<1>. SUFFICES ASSUME Init, NEW c \in Cell
              PROVE  table[c] = Cardinality(Openers(c)) + (IF c \in restored THEN 1 ELSE 0)
  BY DEF VisitsAreCounted
<1>1. Openers(c) = {}
  BY DEF Init, Openers
<1>2. Cardinality(Openers(c)) = 0
  BY <1>1, FS_EmptySet
<1>. QED BY <1>2 DEF Init

(* Only a flush and backfill touch the counts. *)
LEMMA CountsStand ==
    ASSUME VisitsAreCounted, table' = table, added' = added, restored' = restored
    PROVE  VisitsAreCounted'
BY DEF VisitsAreCounted, Openers

LEMMA CommitCounts ==
    ASSUME TypeOK, Order, VisitsAreCounted, NEW r \in Run, CommitFlush(r)
    PROVE  VisitsAreCounted'
<1>. SUFFICES ASSUME NEW c \in Cell
              PROVE  table'[c] = Cardinality(Openers(c)') + (IF c \in restored' THEN 1 ELSE 0)
  BY DEF VisitsAreCounted
<1>1. read = table /\ added[r] = {} /\ restored' = restored
  BY DEF CommitFlush, Order, LockHeld, AddedIsOver
<1>2. table[c] = Cardinality(Openers(c)) + (IF c \in restored THEN 1 ELSE 0) /\ table[c] \in Nat
  BY DEF VisitsAreCounted, TypeOK, StoreType
<1>3. added'[r] = newly[r] /\ \A s \in Run \ {r} : added'[s] = added[s]
  BY DEF CommitFlush, TypeOK, HistoryType
<1>4. CASE c \in newly[r]
  <2>1. table'[c] = table[c] + 1
    BY <1>1, <1>4 DEF CommitFlush, Counted
  <2>2. Openers(c)' = Openers(c) \cup {r} /\ r \notin Openers(c)
    BY <1>1, <1>3, <1>4 DEF Openers
  <2>3. Cardinality(Openers(c) \cup {r}) = Cardinality(Openers(c)) + 1
    BY <2>2, OpenersFinite, FS_AddElement
  <2>. QED BY <1>1, <1>2, <2>1, <2>2, <2>3, OpenersFinite
<1>5. CASE c \notin newly[r]
  <2>1. table'[c] = table[c]
    BY <1>5 DEF CommitFlush, Counted
  <2>2. Openers(c)' = Openers(c)
    BY <1>1, <1>3, <1>5 DEF Openers
  <2>. QED BY <1>1, <1>2, <2>1, <2>2
<1>. QED BY <1>4, <1>5

LEMMA BackfillCounts ==
    ASSUME TypeOK, VisitsAreCounted, Backfill
    PROVE  VisitsAreCounted'
<1>. SUFFICES ASSUME NEW c \in Cell
              PROVE  table'[c] = Cardinality(Openers(c)') + (IF c \in restored' THEN 1 ELSE 0)
  BY DEF VisitsAreCounted
<1>1. Openers(c)' = Openers(c) /\ restored' = restored \cup Missing
  BY DEF Backfill, Openers
<1>2. table[c] = Cardinality(Openers(c)) + (IF c \in restored THEN 1 ELSE 0) /\ table[c] \in Nat
  BY DEF VisitsAreCounted, TypeOK, StoreType
<1>3. CASE c \in Missing
  <2>1. table[c] = 0 /\ table'[c] = table[c] + 1
    BY <1>2, <1>3 DEF Backfill, Missing, Stored
  <2>2. Cardinality(Openers(c)) = 0
    BY <1>2, <2>1, OpenersFinite
  <2>. QED BY <1>1, <1>3, <2>1, <2>2
<1>4. CASE c \notin Missing
  <2>1. table'[c] = table[c]
    BY <1>4 DEF Backfill
  <2>. QED BY <1>1, <1>2, <1>4, <2>1
<1>. QED BY <1>3, <1>4

LEMMA NextCounted ==
    ASSUME TypeOK, Order, VisitsAreCounted, [Next]_vars
    PROVE  VisitsAreCounted'
<1>1. ASSUME NEW r \in Run, Load(r)
      PROVE  VisitsAreCounted'
  BY <1>1, CountsStand DEF Load, store
<1>2. ASSUME NEW r \in Run, NEW t \in Template, First(r, t)
      PROVE  VisitsAreCounted'
  BY <1>2, CountsStand DEF First, FirstPick, Mark
<1>3. ASSUME NEW r \in Run, NEW t \in Template, NEW c \in Cell, NEW n \in Cell, Pick(r, t, c, n)
      PROVE  VisitsAreCounted'
  BY <1>3, CountsStand DEF Pick, NextPick, Mark
<1>4. ASSUME NEW r \in Run, NEW p \in Point, Idea(r, p)
      PROVE  VisitsAreCounted'
  BY <1>4, CountsStand DEF Idea, Fallback, ProposeLLM, Mark, history
<1>5. ASSUME NEW r \in Run, BeginFlush(r)
      PROVE  VisitsAreCounted'
  BY <1>5, CountsStand DEF BeginFlush, history
<1>6. CASE Lost
  BY <1>6, LostEnds, CountsStand DEF Ending
<1>7. CASE UNCHANGED vars
  BY <1>7, CountsStand DEF vars, store, history
<1>. QED BY <1>1, <1>2, <1>3, <1>4, <1>5, <1>6, <1>7, CommitCounts, BackfillCounts, Cases

\* Every row's visit_count is the number of flushes that opened its cell, plus one
\* if backfill created it, whatever runs, flushes, crashes and backfills interleave.
THEOREM NoVisitIsLost == Spec => []VisitsAreCounted
<1>1. Init => TypeOK /\ Order /\ VisitsAreCounted
  BY InitType, InitOrder, InitCounted
<1>2. TypeOK /\ Order /\ VisitsAreCounted /\ [Next]_vars => (TypeOK /\ Order /\ VisitsAreCounted)'
  BY NextType, NextOrder, NextCounted
<1>. QED BY <1>1, <1>2, PTL DEF Spec

-----------------------------------------------------------------------------
(* A later run searches elsewhere *)

(* A cell that some flush has added has a row. *)
LEMMA AddedIsStored ==
    ASSUME TypeOK, VisitsAreCounted, NEW a \in Run
    PROVE  added[a] \subseteq Stored
<1>. SUFFICES ASSUME NEW c \in added[a] PROVE c \in Stored
  OBVIOUS
<1>1. c \in Cell /\ a \in Openers(c)
  BY DEF TypeOK, HistoryType, Openers
<1>2. Cardinality(Openers(c)) # 0
  BY <1>1, OpenersFinite, FS_EmptySet
<1>3. table[c] = Cardinality(Openers(c)) + (IF c \in restored THEN 1 ELSE 0)
  BY <1>1 DEF VisitsAreCounted
<1>4. table[c] > 0
  BY <1>2, <1>3, OpenersFinite
<1>. QED BY <1>1, <1>4 DEF Stored

(* A proposal in an unvisited cell, and one that is no pick at all. *)
LEMMA MarkingDigsElsewhere ==
    ASSUME TypeOK, RunsDigElsewhere, NEW r \in Run, NEW p \in Point, Mark(r, p),
           phase[r] = "searching", added' = added, before' = before,
           \A s \in Run \ {r} : picks'[s] = picks[s],
           \/ picks'[r] = picks[r]
           \/ picks'[r] = picks[r] \cup {CellOf[p]} /\ CellOf[p] \notin visited[r]
    PROVE  RunsDigElsewhere'
<1>1. /\ visited'[r] = visited[r] \cup {CellOf[p]}
      /\ \A s \in Run \ {r} : visited'[s] = visited[s]
      /\ phase' = phase
  BY Marking
<1>. SUFFICES ASSUME NEW s \in Run, Live(s)', NEW a \in before[s]
              PROVE  added[a] \subseteq visited'[s] /\ picks'[s] \cap added[a] = {}
  BY DEF RunsDigElsewhere
<1>2. added[a] \subseteq visited[s] /\ picks[s] \cap added[a] = {}
  BY <1>1 DEF RunsDigElsewhere, Live
<1>3. CASE s = r
  BY <1>1, <1>2, <1>3
<1>4. CASE s # r
  BY <1>1, <1>2, <1>4
<1>. QED BY <1>3, <1>4

LEMMA NextDigsElsewhere ==
    ASSUME TypeOK, Order, VisitsAreCounted, RunsDigElsewhere, [Next]_vars
    PROVE  RunsDigElsewhere'
<1>1. ASSUME NEW r \in Run, Load(r)
      PROVE  RunsDigElsewhere'
  <2>. SUFFICES ASSUME NEW s \in Run, Live(s)', NEW a \in before'[s]
                PROVE  added[a] \subseteq visited'[s] /\ picks[s] \cap added[a] = {}
    BY <1>1 DEF Load, RunsDigElsewhere
  <2>1. CASE s = r
    <3>1. picks[s] = {} /\ visited'[s] = Stored /\ a \in Run
      BY <1>1, <2>1 DEF Load, Loadable, Order, NewIsBlank, TypeOK, RunType, HistoryType
    <3>. QED BY <3>1, AddedIsStored
  <2>2. CASE s # r
    <3>1. a \in before[s] /\ visited'[s] = visited[s] /\ Live(s)
      BY <1>1, <2>2 DEF Load, Live, TypeOK, RunType, HistoryType
    <3>. QED BY <3>1 DEF RunsDigElsewhere
  <2>. QED BY <2>1, <2>2
<1>2. ASSUME NEW r \in Run, NEW t \in Template, First(r, t)
      PROVE  RunsDigElsewhere'
  <2>1. /\ Mark(r, Centre[Middle[t]]) /\ Centre[Middle[t]] \in Point
        /\ CellOf[Centre[Middle[t]]] = Middle[t] /\ Middle[t] \notin visited[r]
    BY <1>2, MiddleFacts DEF First, FirstPick, Seen, In
  <2>2. phase[r] = "searching" /\ added' = added /\ before' = before
    BY <1>2 DEF First, FirstPick, Proposing
  <2>3. picks'[r] = picks[r] \cup {Middle[t]} /\ \A s \in Run \ {r} : picks'[s] = picks[s]
    BY <1>2 DEF First, FirstPick, TypeOK, HistoryType
  <2>. QED BY <2>1, <2>2, <2>3, MarkingDigsElsewhere
<1>3. ASSUME NEW r \in Run, NEW t \in Template, NEW c \in Cell, NEW n \in Cell, Pick(r, t, c, n)
      PROVE  RunsDigElsewhere'
  <2>1. Mark(r, Centre[c]) /\ Centre[c] \in Point /\ CellOf[Centre[c]] = c /\ c \notin visited[r]
    BY <1>3, CentreFacts DEF Pick, NextPick
  <2>2. phase[r] = "searching" /\ added' = added /\ before' = before
    BY <1>3 DEF Pick, NextPick, Proposing
  <2>3. picks'[r] = picks[r] \cup {c} /\ \A s \in Run \ {r} : picks'[s] = picks[s]
    BY <1>3 DEF Pick, NextPick, TypeOK, HistoryType
  <2>. QED BY <2>1, <2>2, <2>3, MarkingDigsElsewhere
<1>4. ASSUME NEW r \in Run, NEW p \in Point, Idea(r, p)
      PROVE  RunsDigElsewhere'
  <2>1. Mark(r, p) /\ phase[r] = "searching" /\ UNCHANGED history
    BY <1>4 DEF Idea, Fallback, ProposeLLM, Proposing
  <2>2. added' = added /\ before' = before /\ picks' = picks
    BY <2>1 DEF history
  <2>. QED BY <2>1, <2>2, MarkingDigsElsewhere
<1>5. ASSUME NEW r \in Run, BeginFlush(r)
      PROVE  RunsDigElsewhere'
  <2>1. \A s \in Run : Live(s)' => Live(s)
    BY <1>5 DEF BeginFlush, Live, TypeOK, RunType
  <2>. QED BY <1>5, <2>1 DEF BeginFlush, map, history, RunsDigElsewhere
<1>6. ASSUME NEW S \in SUBSET Run, Over(S), before' = before,
             \A a \in Run : phase[a] = "done" => added'[a] = added[a]
      PROVE  RunsDigElsewhere'
  <2>. SUFFICES ASSUME NEW s \in Run, Live(s)', NEW a \in before[s]
                PROVE  added'[a] \subseteq visited'[s] /\ picks'[s] \cap added'[a] = {}
    BY <1>6 DEF RunsDigElsewhere
  <2>1. s \notin S
    BY <1>6, Ends DEF Live
  <2>2. Live(s) /\ visited'[s] = visited[s] /\ picks'[s] = picks[s]
    BY <1>6, <2>1, Ends DEF Live
  <2>3. a \in Run /\ added'[a] = added[a]
    BY <1>6 DEF Order, BeforeIsOver, TypeOK, HistoryType
  <2>. QED BY <2>2, <2>3 DEF RunsDigElsewhere
<1>7. ASSUME NEW r \in Run, CommitFlush(r)
      PROVE  RunsDigElsewhere'
  <2>1. Over({r}) /\ before' = before
    BY <1>7 DEF CommitFlush
  <2>2. \A a \in Run : phase[a] = "done" => added'[a] = added[a]
    BY <1>7 DEF CommitFlush, TypeOK, HistoryType
  <2>. QED BY <1>6, <2>1, <2>2
<1>8. CASE Lost
  BY <1>6, <1>8, LostEnds DEF Ending
<1>9. CASE Backfill
  BY <1>9 DEF Backfill, map, RunsDigElsewhere, Live
<1>10. CASE UNCHANGED vars
  BY <1>10 DEF vars, map, history, RunsDigElsewhere, Live
<1>. QED BY <1>1, <1>2, <1>3, <1>4, <1>5, <1>7, <1>8, <1>9, <1>10, Cases

\* Cross-run memory: what a flushed run has opened, later runs know and do not pick.
THEOREM LaterRunsDigElsewhere == Spec => []RunsDigElsewhere
<1>1. Init => TypeOK /\ Order /\ VisitsAreCounted /\ RunsDigElsewhere
  BY InitType, InitOrder, InitCounted DEF Init, RunsDigElsewhere
<1>2. TypeOK /\ Order /\ VisitsAreCounted /\ RunsDigElsewhere /\ [Next]_vars
        => (TypeOK /\ Order /\ VisitsAreCounted /\ RunsDigElsewhere)'
  BY NextType, NextOrder, NextCounted, NextDigsElsewhere
<1>. QED BY <1>1, <1>2, PTL DEF Spec

-----------------------------------------------------------------------------
(* Even spread *)

Spread == EvenSpread /\ OnePick

(* More visited cells leave fewer to cover, and cover more. *)
LEMMA CoverGrows ==
    ASSUME NEW r, NEW t, NEW d,
           visited[r] \subseteq visited'[r],
           \A c \in Unvisited(r, t) : Within(c, Seen(r, t), d)
    PROVE  \A c \in Unvisited(r, t)' : Within(c, Seen(r, t)', d)
<1>1. Seen(r, t) \subseteq Seen(r, t)' /\ Unvisited(r, t)' \subseteq Unvisited(r, t)
  BY DEF Seen, Unvisited, In
<1>. QED BY <1>1 DEF Within

(* The runs and templates that do not pick keep their spread. *)
LEMMA SpreadStands ==
    ASSUME Spread, NEW s \in Run, NEW u \in Template,
           visited[s] \subseteq visited'[s],
           radius'[s][u] = radius[s][u],
           In(u, picks'[s]) = In(u, picks[s])
    PROVE  /\ radius'[s][u] > 0 =>
                /\ \A c \in Unvisited(s, u)' : Within(c, Seen(s, u)', radius'[s][u])
                /\ \A c, d \in In(u, picks'[s]) : c # d => radius'[s][u] <= Distance[c][d]
           /\ radius'[s][u] = 0 => \A c, d \in In(u, picks'[s]) : c = d
<1>1. CASE radius[s][u] > 0
  <2>1. \A c \in Unvisited(s, u) : Within(c, Seen(s, u), radius[s][u])
    BY <1>1 DEF Spread, EvenSpread
  <2>2. \A c \in Unvisited(s, u)' : Within(c, Seen(s, u)', radius[s][u])
    BY <2>1, CoverGrows
  <2>3. \A c, d \in In(u, picks[s]) : c # d => radius[s][u] <= Distance[c][d]
    BY <1>1 DEF Spread, EvenSpread
  <2>. QED BY <1>1, <2>2, <2>3
<1>2. CASE ~(radius[s][u] > 0)
  BY <1>2 DEF Spread, OnePick
<1>. QED BY <1>1, <1>2

LEMMA FirstSpreads ==
    ASSUME TypeOK, Order, Spread, NEW r \in Run, NEW t \in Template, First(r, t)
    PROVE  Spread'
<1>. DEFINE m == Middle[t]
<1>1. /\ visited'[r] = visited[r] \cup {m}
      /\ \A s \in Run \ {r} : visited'[s] = visited[s]
      /\ TemplateOf[m] = t
  BY Marking, MiddleFacts DEF First, FirstPick
<1>2. radius' = radius /\ picks'[r] = picks[r] \cup {m} /\ \A s \in Run \ {r} : picks'[s] = picks[s]
  BY DEF First, FirstPick, TypeOK, HistoryType
<1>3. Seen(r, t) = {} /\ Unvisited(r, t) # {}
  BY DEF First, FirstPick, LeastCovered
<1>4. In(t, picks[r]) = {}
  BY <1>3 DEF Order, PicksAreVisited, Seen, In
<1>5. In(t, picks'[r]) = {m}
  BY <1>1, <1>2, <1>4 DEF In
<1>6. ~(radius[r][t] > 0)
  BY <1>3 DEF Spread, EvenSpread, Within
<1>7. ASSUME NEW s \in Run, NEW u \in Template, s # r \/ u # t
      PROVE  In(u, picks'[s]) = In(u, picks[s])
  <2>1. CASE s # r
    BY <1>2, <2>1
  <2>2. CASE s = r /\ u # t
    <3>1. In(u, picks[r] \cup {m}) = In(u, picks[r])
      BY <1>1, <2>2 DEF In
    <3>. QED BY <1>2, <2>2, <3>1
  <2>. QED BY <1>7, <2>1, <2>2
<1>8. \A s \in Run : visited[s] \subseteq visited'[s]
  BY <1>1
<1>. SUFFICES ASSUME NEW s \in Run, NEW u \in Template
              PROVE  /\ radius'[s][u] > 0 =>
                          /\ \A c \in Unvisited(s, u)' : Within(c, Seen(s, u)', radius'[s][u])
                          /\ \A c, d \in In(u, picks'[s]) : c # d => radius'[s][u] <= Distance[c][d]
                     /\ radius'[s][u] = 0 => \A c, d \in In(u, picks'[s]) : c = d
  BY DEF Spread, EvenSpread, OnePick
<1>9. CASE s = r /\ u = t
  BY <1>2, <1>5, <1>6, <1>9
<1>10. CASE s # r \/ u # t
  BY <1>2, <1>7, <1>8, <1>10, SpreadStands
<1>. QED BY <1>9, <1>10

(* The farthest candidate is no farther out than the last pick was. *)
LEMMA PickSpreads ==
    ASSUME TypeOK, Order, Spread, NEW r \in Run, NEW t \in Template,
           NEW c \in Cell, NEW n \in Cell, Pick(r, t, c, n)
    PROVE  Spread'
<1>. DEFINE D == Distance[c][n]
<1>1. /\ visited'[r] = visited[r] \cup {c}
      /\ \A s \in Run \ {r} : visited'[s] = visited[s]
      /\ TemplateOf[c] = t /\ c \notin visited[r]
  BY Marking, CentreFacts DEF Pick, NextPick
<1>2. picks'[r] = picks[r] \cup {c} /\ \A s \in Run \ {r} : picks'[s] = picks[s]
  BY DEF Pick, NextPick, TypeOK, HistoryType
<1>3. radius'[r][t] = D
  BY DEF Pick, NextPick, TypeOK, HistoryType
<1>4. \A s \in Run, u \in Template : s # r \/ u # t => radius'[s][u] = radius[s][u]
  BY DEF Pick, NextPick, TypeOK, HistoryType
<1>5. c \in Unvisited(r, t) /\ n \in Seen(r, t) /\ Nearest(r, t, c, n) /\ Farthest(r, t, D)
  BY DEF Pick, NextPick
<1>6. \A e, f \in Cell : /\ Distance[e][f] \in Nat /\ Distance[e][f] = Distance[f][e]
                         /\ e # f => Distance[e][f] > 0
  BY GridAssumption
<1>7. D \in Nat /\ D > 0
  BY <1>1, <1>5, <1>6 DEF Seen, In
<1>8. \A s \in Run : visited[s] \subseteq visited'[s]
  BY <1>1
<1>9. \A e \in Unvisited(r, t)' : Within(e, Seen(r, t)', D)
  BY <1>5, <1>8, CoverGrows DEF Farthest
<1>10. \A v \in Seen(r, t) : v \in Cell /\ D <= Distance[c][v]
  BY <1>5 DEF Nearest, Seen, In, TypeOK, RunType
<1>11. \A e, f \in In(t, picks'[r]) : e # f => D <= Distance[e][f]
  <2>1. In(t, picks[r]) \subseteq Seen(r, t)
    BY DEF Order, PicksAreVisited, Seen, In
  <2>2. In(t, picks'[r]) \subseteq In(t, picks[r]) \cup {c}
    BY <1>2 DEF In
  <2>3. ASSUME NEW e \in In(t, picks[r]), NEW f \in In(t, picks[r]), e # f
        PROVE  D <= Distance[e][f]
    <3>1. radius[r][t] \in Nat
      BY DEF TypeOK, HistoryType
    <3>2. radius[r][t] > 0
      BY <2>3, <3>1 DEF Spread, OnePick
    <3>3. radius[r][t] <= Distance[e][f] /\ Within(c, Seen(r, t), radius[r][t])
      BY <1>5, <2>3, <3>2 DEF Spread, EvenSpread
    <3>4. PICK v \in Seen(r, t) : Distance[c][v] <= radius[r][t]
      BY <3>3 DEF Within
    <3>5. D <= Distance[c][v] /\ Distance[c][v] \in Nat
      BY <1>6, <1>10
    <3>6. e \in Cell /\ f \in Cell
      BY <1>10, <2>1
    <3>7. Distance[e][f] \in Nat
      BY <1>6, <3>6
    <3>. QED BY <1>7, <3>1, <3>3, <3>4, <3>5, <3>7
  <2>4. \A e \in In(t, picks[r]) : D <= Distance[c][e] /\ D <= Distance[e][c]
    BY <1>6, <1>10, <2>1
  <2>. QED BY <2>2, <2>3, <2>4
<1>12. ASSUME NEW s \in Run, NEW u \in Template, s # r \/ u # t
       PROVE  In(u, picks'[s]) = In(u, picks[s])
  <2>1. CASE s # r
    BY <1>2, <2>1
  <2>2. CASE s = r /\ u # t
    <3>1. In(u, picks[r] \cup {c}) = In(u, picks[r])
      BY <1>1, <2>2 DEF In
    <3>. QED BY <1>2, <2>2, <3>1
  <2>. QED BY <1>12, <2>1, <2>2
<1>. SUFFICES ASSUME NEW s \in Run, NEW u \in Template
              PROVE  /\ radius'[s][u] > 0 =>
                          /\ \A e \in Unvisited(s, u)' : Within(e, Seen(s, u)', radius'[s][u])
                          /\ \A e, f \in In(u, picks'[s]) : e # f => radius'[s][u] <= Distance[e][f]
                     /\ radius'[s][u] = 0 => \A e, f \in In(u, picks'[s]) : e = f
  BY DEF Spread, EvenSpread, OnePick
<1>13. CASE s = r /\ u = t
  BY <1>3, <1>7, <1>9, <1>11, <1>13
<1>14. CASE s # r \/ u # t
  BY <1>4, <1>8, <1>12, <1>14, SpreadStands
<1>. QED BY <1>13, <1>14

(* Nothing else picks; only visited cells may be added, or the run may end. *)
LEMMA OthersSpread ==
    ASSUME Spread,
           \A s \in Run : \/ /\ visited[s] \subseteq visited'[s]
                             /\ radius'[s] = radius[s] /\ picks'[s] = picks[s]
                          \/ /\ radius'[s] = [t \in Template |-> 0] /\ picks'[s] = {}
    PROVE  Spread'
<1>. SUFFICES ASSUME NEW s \in Run, NEW u \in Template
              PROVE  /\ radius'[s][u] > 0 =>
                          /\ \A c \in Unvisited(s, u)' : Within(c, Seen(s, u)', radius'[s][u])
                          /\ \A c, d \in In(u, picks'[s]) : c # d => radius'[s][u] <= Distance[c][d]
                     /\ radius'[s][u] = 0 => \A c, d \in In(u, picks'[s]) : c = d
  BY DEF Spread, EvenSpread, OnePick
<1>1. CASE visited[s] \subseteq visited'[s] /\ radius'[s] = radius[s] /\ picks'[s] = picks[s]
  BY <1>1, SpreadStands
<1>2. CASE radius'[s] = [t \in Template |-> 0] /\ picks'[s] = {}
  <2>1. radius'[s][u] = 0 /\ In(u, picks'[s]) = {}
    BY <1>2 DEF In
  <2>. QED BY <2>1
<1>. QED BY <1>1, <1>2

LEMMA NextSpread ==
    ASSUME TypeOK, Order, Spread, [Next]_vars
    PROVE  Spread'
<1>1. ASSUME NEW r \in Run, Load(r)
      PROVE  Spread'
  <2>1. radius'[r] = [t \in Template |-> 0] /\ picks'[r] = {}
    BY <1>1 DEF Load, Order, NewIsBlank
  <2>2. \A s \in Run \ {r} : visited'[s] = visited[s] /\ radius'[s] = radius[s] /\ picks'[s] = picks[s]
    BY <1>1 DEF Load, TypeOK, RunType
  <2>. QED BY <2>1, <2>2, OthersSpread
<1>2. ASSUME NEW r \in Run, NEW p \in Point, Idea(r, p)
      PROVE  Spread'
  <2>1. Mark(r, p) /\ picks' = picks /\ radius' = radius
    BY <1>2 DEF Idea, Fallback, ProposeLLM, history
  <2>2. \A s \in Run : visited[s] \subseteq visited'[s]
    BY <2>1, Marking
  <2>. QED BY <2>1, <2>2, OthersSpread
<1>3. ASSUME NEW r \in Run, BeginFlush(r)
      PROVE  Spread'
  BY <1>3, OthersSpread DEF BeginFlush, map, history
<1>4. ASSUME NEW S \in SUBSET Run, Over(S)
      PROVE  Spread'
  BY <1>4, Ends, OthersSpread
<1>5. ASSUME NEW r \in Run, CommitFlush(r)
      PROVE  Spread'
  BY <1>4, <1>5 DEF CommitFlush
<1>6. CASE Lost
  BY <1>4, <1>6, LostEnds DEF Ending
<1>7. CASE Backfill
  BY <1>7, OthersSpread DEF Backfill, map
<1>8. CASE UNCHANGED vars
  BY <1>8, OthersSpread DEF vars, map, history
<1>. QED BY <1>1, <1>2, <1>3, <1>5, <1>6, <1>7, <1>8, FirstSpreads, PickSpreads, Cases

\* The picks of a run cover what is left within the distance of the last one and
\* lie at least that far apart, on any grid and with any symmetric distance.
THEOREM PicksAreSpread == Spec => []EvenSpread
<1>1. Init => TypeOK /\ Order /\ Spread
  BY InitType, InitOrder DEF Init, Spread, EvenSpread, OnePick, In
<1>2. TypeOK /\ Order /\ Spread /\ [Next]_vars => (TypeOK /\ Order /\ Spread)'
  BY NextType, NextOrder, NextSpread
<1>3. Spread => EvenSpread
  BY DEF Spread
<1>. QED BY <1>1, <1>2, <1>3, PTL DEF Spec

-----------------------------------------------------------------------------
(* Backfill *)

LEMMA BackfillFills ==
    ASSUME TypeOK, Backfill
    PROVE  /\ \A c \in Stored : table'[c] = table[c]
           /\ \A p \in attempts : table'[CellOf[p]] > 0
<1>1. \A c \in Cell : table[c] \in Nat /\ table'[c] = IF c \in Missing THEN table[c] + 1 ELSE table[c]
  BY DEF Backfill, TypeOK, StoreType
<1>2. \A c \in Stored : table'[c] = table[c]
  BY <1>1 DEF Stored, Missing
<1>3. ASSUME NEW p \in attempts
      PROVE  table'[CellOf[p]] > 0
  <2>1. CellOf[p] \in Cell
    BY CellOfType DEF TypeOK, StoreType
  <2>2. CASE CellOf[p] \in Missing
    BY <1>1, <2>1, <2>2
  <2>3. CASE CellOf[p] \notin Missing
    <3>1. CellOf[p] \in Stored
      BY <2>3 DEF Missing
    <3>. QED BY <1>1, <2>1, <2>3, <3>1 DEF Stored
  <2>. QED BY <2>2, <2>3
<1>. QED BY <1>2, <1>3

LEMMA OnlyBackfillRestores ==
    ASSUME TypeOK, [Next]_vars, restored' # restored
    PROVE  Backfill
<1>1. ASSUME NEW r \in Run, NEW t \in Template, First(r, t) PROVE FALSE
  BY <1>1 DEF First, FirstPick
<1>2. ASSUME NEW r \in Run, NEW t \in Template, NEW c \in Cell, NEW n \in Cell, Pick(r, t, c, n)
      PROVE  FALSE
  BY <1>2 DEF Pick, NextPick
<1>3. ASSUME NEW r \in Run, NEW p \in Point, Idea(r, p) PROVE FALSE
  BY <1>3 DEF Idea, Fallback, ProposeLLM, history
<1>4. ASSUME NEW r \in Run, Load(r) \/ BeginFlush(r) \/ CommitFlush(r) PROVE FALSE
  BY <1>4 DEF Load, BeginFlush, CommitFlush, history
<1>5. ~Lost
  BY LostEnds DEF Ending
<1>6. ~UNCHANGED vars
  BY DEF vars, history
<1>. QED BY <1>1, <1>2, <1>3, <1>4, <1>5, <1>6, Cases

\* Backfill gives every stored attempt a cell and leaves the existing rows alone.
THEOREM BackfillIsIdempotent == Spec => BackfillOnlyFills
<1>1. TypeOK /\ [Next]_vars =>
        [restored' # restored =>
           /\ \A c \in Stored : table'[c] = table[c]
           /\ \A p \in attempts : table'[CellOf[p]] > 0]_vars
  BY BackfillFills, OnlyBackfillRestores
<1>. QED BY <1>1, TypeCorrect, PTL DEF Spec, BackfillOnlyFills

(***************************************************************************)
(* The OOS lockbox                                                         *)
(***************************************************************************)
(* Nobody writes between the reads and the commit of a caller on one loop. *)
Alone ==
    oneLoop => \A c, d \in Caller : c # d => call[c] = Idle \/ call[d] = Idle

(* What a caller has read bounds what was bought; on one loop it is current. *)
Fresh(q) ==
    /\ q.used <= Cardinality(BoughtBy(q.lineage))
    /\ q.spent <= Cardinality(SpentIn(q.scope))
    /\ oneLoop => /\ q.used = used[q.lineage] /\ q.used < LineageBudget
                  /\ q.spent = spent[q.scope] /\ q.spent < CampaignBudget

ReadsHold == \A c \in Caller : call[c].pc = "testing" => Fresh(call[c])

IInv ==
    /\ LockboxType
    /\ Alone
    /\ ReadsHold
    /\ NobodyIsOvercharged
    /\ LedgersCountVerdicts
    /\ AnswersStand

USE CallerAssumption, HashAssumption, BudgetAssumption, NoVerdictAssumption
USE DEF lockboxVars, Outcome, Verdict, Idle, Asked, Testing

-----------------------------------------------------------------------------
(* Counting *)

LEMMA Countable ==
    ASSUME LockboxType
    PROVE  /\ \A l : IsFiniteSet(BoughtBy(l)) /\ Cardinality(BoughtBy(l)) \in Nat
           /\ \A s : IsFiniteSet(SpentIn(s)) /\ Cardinality(SpentIn(s)) \in Nat
<1>1. \A l : BoughtBy(l) \subseteq Hash /\ SpentIn(l) \subseteq Hash
    BY DEF BoughtBy, SpentIn, Judged
<1> QED
    BY <1>1, FS_Subset, FS_CardinalityType

(* Without a new row nothing is counted differently. *)
LEMMA CountsStay ==
    ASSUME UNCHANGED verdict
    PROVE  /\ Judged' = Judged
           /\ \A l : BoughtBy(l)' = BoughtBy(l)
           /\ \A s : SpentIn(s)' = SpentIn(s)
BY DEF Judged, BoughtBy, SpentIn

(* One new row adds one to its lineage and to its campaign. *)
LEMMA Purchase ==
    ASSUME LockboxType, NEW h \in Hash, h \notin Judged, NEW v \in Verdict,
           verdict' = [verdict EXCEPT ![h] = v]
    PROVE  /\ Judged' = Judged \cup {h}
           /\ \A l : Cardinality(BoughtBy(l))' =
                       Cardinality(BoughtBy(l)) + (IF l = v.lineage THEN 1 ELSE 0)
           /\ \A s : Cardinality(SpentIn(s))' =
                       Cardinality(SpentIn(s)) + (IF s = v.scope THEN 1 ELSE 0)
<1>1. v # NoVerdict /\ verdict[h] = NoVerdict
    BY DEF Judged
<1>2. \A g \in Hash : verdict'[g] = IF g = h THEN v ELSE verdict[g]
    BY DEF LockboxType, TableType
<1>3. Judged' = Judged \cup {h}
    BY <1>1, <1>2 DEF Judged
<1>4. \A l : BoughtBy(l)' = IF l = v.lineage THEN BoughtBy(l) \cup {h} ELSE BoughtBy(l)
    BY <1>1, <1>2, <1>3 DEF BoughtBy, Judged
<1>5. \A s : SpentIn(s)' = IF s = v.scope THEN SpentIn(s) \cup {h} ELSE SpentIn(s)
    BY <1>1, <1>2, <1>3 DEF SpentIn, Judged
<1>6. \A l : h \notin BoughtBy(l) /\ h \notin SpentIn(l)
    BY DEF BoughtBy, SpentIn
<1>7. ASSUME NEW S, S \subseteq Hash, h \notin S
      PROVE  Cardinality(S \cup {h}) = Cardinality(S) + 1 /\ Cardinality(S) \in Nat
    BY <1>7, FS_Subset, FS_AddElement, FS_CardinalityType
<1>8. \A l : BoughtBy(l) \subseteq Hash /\ SpentIn(l) \subseteq Hash
    BY DEF BoughtBy, SpentIn, Judged
<1>9. ASSUME NEW l
      PROVE  Cardinality(BoughtBy(l)') = Cardinality(BoughtBy(l)) + (IF l = v.lineage THEN 1 ELSE 0)
    <2>1. BoughtBy(l) \subseteq Hash /\ h \notin BoughtBy(l)
        BY <1>6, <1>8
    <2>2. /\ Cardinality(BoughtBy(l) \cup {h}) = Cardinality(BoughtBy(l)) + 1
          /\ Cardinality(BoughtBy(l)) \in Nat
        BY <1>7, <2>1
    <2>3. CASE l = v.lineage
        BY <1>4, <2>2, <2>3
    <2>4. CASE l # v.lineage
        BY <1>4, <2>2, <2>4
    <2> QED
        BY <2>3, <2>4
<1>10. ASSUME NEW s
       PROVE  Cardinality(SpentIn(s)') = Cardinality(SpentIn(s)) + (IF s = v.scope THEN 1 ELSE 0)
    <2>1. SpentIn(s) \subseteq Hash /\ h \notin SpentIn(s)
        BY <1>6, <1>8
    <2>2. /\ Cardinality(SpentIn(s) \cup {h}) = Cardinality(SpentIn(s)) + 1
          /\ Cardinality(SpentIn(s)) \in Nat
        BY <1>7, <2>1
    <2>3. CASE s = v.scope
        BY <1>5, <2>2, <2>3
    <2>4. CASE s # v.scope
        BY <1>5, <2>2, <2>4
    <2> QED
        BY <2>3, <2>4
<1> QED
    BY <1>3, <1>9, <1>10

-----------------------------------------------------------------------------
(* What a caller's place says *)

LEMMA Places ==
    ASSUME LockboxType, NEW c \in Caller
    PROVE  /\ call[c].pc = "asked" => call[c] \in Asked
           /\ call[c].pc = "testing" => call[c] \in Testing
           /\ call[c] = Idle => call[c].pc = "idle"
BY DEF LockboxType, TableType

LEMMA NobodyElse ==
    ASSUME LockboxType, Alone, oneLoop, NEW c \in Caller, MayRun(c), NEW d \in Caller, d # c
    PROVE  call[d] = Idle
BY DEF MayRun

(* All steps but a commit leave the tables alone. *)
Quiet == UNCHANGED <<oneLoop, used, ledgers, spent, verdict>>

LEMMA QuietKeepsCounts ==
    ASSUME IInv, Quiet
    PROVE  NobodyIsOvercharged' /\ LedgersCountVerdicts'
<1>1. UNCHANGED <<oneLoop, used, spent>>
    BY DEF Quiet
<1>2. /\ \A l : Cardinality(BoughtBy(l))' = Cardinality(BoughtBy(l))
      /\ \A s : Cardinality(SpentIn(s))' = Cardinality(SpentIn(s))
    BY CountsStay DEF Quiet
<1> QED
    BY <1>1, <1>2 DEF IInv, NobodyIsOvercharged, LedgersCountVerdicts

(* A caller that returns, or never was in a test, reads nothing. *)
LEMMA QuietKeepsReads ==
    ASSUME IInv, Quiet, \A c \in Caller : call'[c] = call[c] \/ call'[c].pc # "testing"
    PROVE  ReadsHold'
<1>1. UNCHANGED <<oneLoop, used, spent>>
    BY DEF Quiet
<1>2. /\ \A l : BoughtBy(l)' = BoughtBy(l)
      /\ \A s : SpentIn(s)' = SpentIn(s)
    BY CountsStay DEF Quiet
<1>3. SUFFICES ASSUME NEW c \in Caller, call'[c].pc = "testing"
               PROVE  Fresh(call[c])'
    BY DEF ReadsHold
<1>4. call'[c] = call[c] /\ Fresh(call[c])
    BY <1>3 DEF IInv, ReadsHold
<1> QED
    BY <1>1, <1>2, <1>4 DEF Fresh

-----------------------------------------------------------------------------
(* Types *)

LEMMA InitInv == LockboxInit => IInv
<1> SUFFICES ASSUME LockboxInit PROVE IInv
    OBVIOUS
<1>1. LockboxType
    BY DEF LockboxInit, LockboxType, TableType
<1>2. Judged = {} /\ \A l : BoughtBy(l) = {} /\ SpentIn(l) = {}
    BY DEF LockboxInit, Judged, BoughtBy, SpentIn
<1>3. NobodyIsOvercharged /\ LedgersCountVerdicts
    <2>1. Cardinality({}) = 0
        BY FS_EmptySet
    <2>2. /\ \A l \in Lineage : used[l] = 0 /\ Cardinality(BoughtBy(l)) = 0
          /\ \A s \in Scope : spent[s] = 0 /\ Cardinality(SpentIn(s)) = 0
        BY <1>2, <2>1 DEF LockboxInit
    <2> QED
        BY <2>2 DEF NobodyIsOvercharged, LedgersCountVerdicts
<1>4. Alone /\ ReadsHold /\ AnswersStand
    BY DEF LockboxInit, Alone, ReadsHold, AnswersStand
<1> QED
    BY <1>1, <1>3, <1>4 DEF IInv

LEMMA TypeStep ==
    ASSUME IInv, [LockboxNext]_lockboxVars
    PROVE  LockboxType'
<1> SUFFICES TableType'
    <2>1. oneLoop' = oneLoop
        BY DEF LockboxNext
    <2> QED
        BY <2>1, Zenon DEF IInv, LockboxType
<1>0. TableType
    BY DEF IInv, LockboxType
<1>1. CASE \E c \in Caller, h \in Hash : Recover(c, h)
    BY <1>0, <1>1 DEF TableType, Recover, Judged
<1>2. ASSUME NEW c \in Caller, NEW h \in Hash, NEW l \in Lineage, NEW s \in Scope, Ask(c, h, l, s)
      PROVE  TableType'
    BY <1>0, <1>2 DEF TableType, Ask
<1>3. ASSUME NEW c \in Caller, Refuse(c) \/ Unevaluated(c) \/ Collision(c)
      PROVE  TableType'
    BY <1>0, <1>3 DEF TableType, Refuse, Unevaluated, Collision, Return
<1>4. ASSUME NEW c \in Caller, BeginTest(c)
      PROVE  TableType'
    <2>1. call[c] \in Asked
        BY <1>0, <1>4, Places DEF IInv, BeginTest, Asking
    <2>2. call'[c] \in Testing /\ call' = [call EXCEPT ![c] = call'[c]]
        BY <1>0, <1>4, <2>1 DEF TableType, BeginTest
    <2> QED
        BY <1>0, <1>4, <2>2 DEF TableType, BeginTest
<1>5. ASSUME NEW c \in Caller, NEW o \in Outcome, Commit(c, o)
      PROVE  TableType'
    <2>1. call[c] \in Testing
        BY <1>0, <1>5, Places DEF IInv, Commit, InTest
    <2> QED
        BY <1>0, <1>5, <2>1 DEF TableType, Commit, Return
<1>6. CASE \E c \in Caller : ProcessDies(c)
    BY <1>0, <1>6 DEF TableType, ProcessDies
<1>7. CASE UNCHANGED lockboxVars
    BY <1>0, <1>7 DEF TableType
<1> QED
    BY <1>1, <1>2, <1>3, <1>4, <1>5, <1>6, <1>7 DEF LockboxNext

LEMMA AloneStep ==
    ASSUME IInv, [LockboxNext]_lockboxVars
    PROVE  Alone'
<1> SUFFICES ASSUME oneLoop, NEW c \in Caller, NEW d \in Caller, c # d
             PROVE  call'[c] = Idle \/ call'[d] = Idle
    <2>1. oneLoop' = oneLoop
        BY DEF LockboxNext
    <2> QED
        BY <2>1 DEF Alone
<1>1. call[c] = Idle \/ call[d] = Idle
    BY DEF IInv, Alone
<1>2. ASSUME NEW e \in Caller, MayRun(e), \A f \in Caller \ {e} : call'[f] = call[f]
      PROVE  call'[c] = Idle \/ call'[d] = Idle
    BY <1>2 DEF MayRun
<1>3. CASE UNCHANGED call
    BY <1>1, <1>3
<1>4. CASE \E e \in Caller : ProcessDies(e)
    BY <1>4 DEF ProcessDies
<1>5. ASSUME NEW e \in Caller,
             \/ \E h \in Hash, l \in Lineage, s \in Scope : Ask(e, h, l, s)
             \/ Refuse(e) \/ BeginTest(e) \/ Unevaluated(e) \/ Collision(e)
             \/ \E o \in Outcome : Commit(e, o)
      PROVE  call'[c] = Idle \/ call'[d] = Idle
    <2>1. MayRun(e)
        BY <1>5 DEF Ask, Refuse, BeginTest, Unevaluated, Collision, Commit, Asking, InTest
    <2>2. \A f \in Caller \ {e} : call'[f] = call[f]
        BY <1>5 DEF IInv, LockboxType, TableType, Ask, Refuse, BeginTest, Unevaluated, Collision, Commit, Return
    <2> QED
        BY <1>2, <2>1, <2>2
<1> QED
    BY <1>3, <1>4, <1>5 DEF LockboxNext, Recover

(* A step that is no commit, Quiet, keeps the rest of the invariant. *)
LEMMA QuietStep ==
    ASSUME IInv, Quiet, answers' \subseteq answers \cup {<<h, verdict[h].outcome>> : h \in Judged},
           \A c \in Caller : call'[c] = call[c] \/ call'[c].pc # "testing"
    PROVE  ReadsHold' /\ NobodyIsOvercharged' /\ LedgersCountVerdicts' /\ AnswersStand'
<1>1. AnswersStand'
    BY CountsStay DEF IInv, AnswersStand, Quiet
<1> QED
    BY <1>1, QuietKeepsCounts, QuietKeepsReads

(* A test begins with what the tables say. *)
LEMMA BeginStep ==
    ASSUME IInv, UNCHANGED oneLoop, NEW c \in Caller, BeginTest(c)
    PROVE  ReadsHold' /\ NobodyIsOvercharged' /\ LedgersCountVerdicts' /\ AnswersStand'
<1>1. Quiet /\ answers' = answers
    BY DEF BeginTest, Quiet
<1>2. NobodyIsOvercharged' /\ LedgersCountVerdicts'
    BY <1>1, QuietKeepsCounts
<1>3. AnswersStand'
    BY <1>1, CountsStay DEF IInv, AnswersStand, Quiet
<1>4. call[c] \in Asked
    BY Places DEF IInv, BeginTest, Asking
<1>5. call'[c].used = used[call[c].lineage] /\ call'[c].spent = spent[call[c].scope]
      /\ call'[c].lineage = call[c].lineage /\ call'[c].scope = call[c].scope
    BY DEF IInv, LockboxType, TableType, BeginTest
<1>6. used[call[c].lineage] < LineageBudget /\ spent[call[c].scope] < CampaignBudget
    BY <1>4 DEF IInv, LockboxType, TableType, BeginTest, Refusable
<1>7. Fresh(call[c])'
    <2>1. /\ used[call[c].lineage] <= Cardinality(BoughtBy(call[c].lineage))
          /\ spent[call[c].scope] <= Cardinality(SpentIn(call[c].scope))
        BY <1>4 DEF IInv, NobodyIsOvercharged
    <2> QED
        BY <1>1, <1>5, <1>6, <2>1, CountsStay DEF Fresh, Quiet
<1>8. ASSUME NEW d \in Caller, d # c, call'[d].pc = "testing"
      PROVE  Fresh(call[d])'
    <2>1. call'[d] = call[d] /\ Fresh(call[d])
        BY <1>8 DEF IInv, LockboxType, TableType, BeginTest, ReadsHold
    <2> QED
        BY <1>1, <2>1, CountsStay DEF Fresh, Quiet
<1>9. ReadsHold'
    BY <1>7, <1>8 DEF ReadsHold
<1> QED
    BY <1>2, <1>3, <1>9

(* A commit charges what it bought. *)
LEMMA CommitStep ==
    ASSUME IInv, UNCHANGED oneLoop, NEW c \in Caller, NEW o \in Outcome, Commit(c, o)
    PROVE  ReadsHold' /\ NobodyIsOvercharged' /\ LedgersCountVerdicts' /\ AnswersStand'
<1> DEFINE q == call[c]
           v == [outcome |-> o, lineage |-> q.lineage, scope |-> q.scope]
<1>1. q \in Testing /\ q.pc = "testing" /\ Fresh(q)
    BY Places DEF IInv, ReadsHold, Commit, InTest
<1>2. q.hash \notin Judged /\ v \in Verdict /\ verdict' = [verdict EXCEPT ![q.hash] = v]
    BY <1>1 DEF Commit, Collides
<1>3. /\ Judged' = Judged \cup {q.hash}
      /\ \A l : Cardinality(BoughtBy(l))' =
                   Cardinality(BoughtBy(l)) + (IF l = q.lineage THEN 1 ELSE 0)
      /\ \A s : Cardinality(SpentIn(s))' =
                   Cardinality(SpentIn(s)) + (IF s = q.scope THEN 1 ELSE 0)
    <2>1. LockboxType /\ q.hash \in Hash
        BY <1>1 DEF IInv, Testing
    <2>2. v.lineage = q.lineage /\ v.scope = q.scope
        OBVIOUS
    <2> HIDE DEF q, v
    <2>3. /\ Judged' = Judged \cup {q.hash}
          /\ \A l : Cardinality(BoughtBy(l))' =
                       Cardinality(BoughtBy(l)) + (IF l = v.lineage THEN 1 ELSE 0)
          /\ \A s : Cardinality(SpentIn(s))' =
                       Cardinality(SpentIn(s)) + (IF s = v.scope THEN 1 ELSE 0)
        BY <1>2, <2>1, Purchase
    <2> QED
        BY <2>2, <2>3
<1>4. /\ \A l : Cardinality(BoughtBy(l)) \in Nat
      /\ \A s : Cardinality(SpentIn(s)) \in Nat
    BY Countable DEF IInv
<1>5. /\ \A l \in Lineage : used'[l] = IF l = q.lineage THEN q.used + 1 ELSE used[l]
      /\ \A s \in Scope : spent'[s] = IF s = q.scope THEN q.spent + 1 ELSE spent[s]
    BY <1>1 DEF IInv, LockboxType, TableType, Commit
<1>6. NobodyIsOvercharged'
    <2>1. ASSUME NEW l \in Lineage
          PROVE  used'[l] <= Cardinality(BoughtBy(l))'
        BY <1>1, <1>3, <1>4, <1>5 DEF IInv, LockboxType, TableType, NobodyIsOvercharged, Fresh
    <2>2. ASSUME NEW s \in Scope
          PROVE  spent'[s] <= Cardinality(SpentIn(s))'
        BY <1>1, <1>3, <1>4, <1>5 DEF IInv, LockboxType, TableType, NobodyIsOvercharged, Fresh
    <2> QED
        BY <2>1, <2>2 DEF NobodyIsOvercharged
<1>7. LedgersCountVerdicts'
    <2>1. ASSUME oneLoop, NEW l \in Lineage
          PROVE  used'[l] = Cardinality(BoughtBy(l))'
        BY <1>1, <1>3, <1>4, <1>5, <2>1 DEF IInv, LockboxType, TableType, LedgersCountVerdicts, Fresh
    <2>2. ASSUME oneLoop, NEW s \in Scope
          PROVE  spent'[s] = Cardinality(SpentIn(s))'
        BY <1>1, <1>3, <1>4, <1>5, <2>2 DEF IInv, LockboxType, TableType, LedgersCountVerdicts, Fresh
    <2> QED
        BY <2>1, <2>2 DEF LedgersCountVerdicts
<1>8. AnswersStand'
    <2>1. \A h \in Judged : verdict'[h] = verdict[h]
        BY <1>1, <1>2 DEF IInv, LockboxType, TableType, Judged
    <2>2. verdict'[q.hash].outcome = o /\ answers' = answers \cup {<<q.hash, o>>}
        BY <1>1, <1>2 DEF IInv, LockboxType, TableType, Commit
    <2> QED
        BY <1>1, <1>3, <2>1, <2>2 DEF IInv, AnswersStand
<1>9. ASSUME NEW d \in Caller, call'[d].pc = "testing"
      PROVE  Fresh(call[d])'
    <2>1. d # c /\ call'[d] = call[d] /\ Fresh(call[d]) /\ call[d] \in Testing
        BY <1>9, Places DEF IInv, LockboxType, TableType, Commit, Return, ReadsHold
    <2>2. ~oneLoop
        BY <2>1, NobodyElse DEF IInv, Commit, InTest
    <2> QED
        BY <1>3, <1>4, <2>1, <2>2 DEF Fresh
<1>10. ReadsHold'
    BY <1>9 DEF ReadsHold
<1> QED
    BY <1>6, <1>7, <1>8, <1>10

LEMMA StepInv == IInv /\ [LockboxNext]_lockboxVars => IInv'
<1> SUFFICES ASSUME IInv, [LockboxNext]_lockboxVars
             PROVE  ReadsHold' /\ NobodyIsOvercharged' /\ LedgersCountVerdicts' /\ AnswersStand'
    BY TypeStep, AloneStep DEF IInv
<1>0. UNCHANGED oneLoop
    BY DEF LockboxNext
<1>1. ASSUME NEW c \in Caller, NEW h \in Hash, Recover(c, h)
      PROVE  ReadsHold' /\ NobodyIsOvercharged' /\ LedgersCountVerdicts' /\ AnswersStand'
    BY <1>0, <1>1, QuietStep DEF Recover, Quiet
<1>2. ASSUME NEW c \in Caller, NEW h \in Hash, NEW l \in Lineage, NEW s \in Scope, Ask(c, h, l, s)
      PROVE  ReadsHold' /\ NobodyIsOvercharged' /\ LedgersCountVerdicts' /\ AnswersStand'
    BY <1>0, <1>2, QuietStep DEF IInv, LockboxType, TableType, Ask, Quiet
<1>3. ASSUME NEW c \in Caller, Refuse(c) \/ Unevaluated(c) \/ Collision(c)
      PROVE  ReadsHold' /\ NobodyIsOvercharged' /\ LedgersCountVerdicts' /\ AnswersStand'
    BY <1>0, <1>3, QuietStep DEF IInv, LockboxType, TableType, Refuse, Unevaluated, Collision, Return, Quiet
<1>4. ASSUME NEW c \in Caller, ProcessDies(c)
      PROVE  ReadsHold' /\ NobodyIsOvercharged' /\ LedgersCountVerdicts' /\ AnswersStand'
    BY <1>0, <1>4, QuietStep DEF ProcessDies, Quiet
<1>5. CASE UNCHANGED lockboxVars
    BY <1>0, <1>5, QuietStep DEF Quiet
<1> QED
    BY <1>0, <1>1, <1>2, <1>3, <1>4, <1>5, BeginStep, CommitStep DEF LockboxNext

LEMMA Inductive == LockboxSpec => []IInv
    BY InitInv, StepInv, PTL DEF LockboxSpec

-----------------------------------------------------------------------------
(* Theorems *)

(* Types: in particular only PASS and FAIL are ever stored (H17). *)
THEOREM LockboxTypeCorrect == LockboxSpec => []LockboxType
<1>1. IInv => LockboxType
    BY DEF IInv
<1> QED
    BY <1>1, Inductive, PTL

(* On one event loop the counters equal the verdicts bought. *)
THEOREM LedgersAreExact == LockboxSpec => []LedgersCountVerdicts
<1>1. IInv => LedgersCountVerdicts
    BY DEF IInv
<1> QED
    BY <1>1, Inductive, PTL

(* With any number of processes nobody is charged for a verdict that is not there. *)
THEOREM NeverOvercharged == LockboxSpec => []NobodyIsOvercharged
<1>1. IInv => NobodyIsOvercharged
    BY DEF IInv
<1> QED
    BY <1>1, Inductive, PTL

(* Both together: the allowances are charged for what was bought, no less on one
   event loop and never more. *)
THEOREM LedgersAreHonest == LockboxSpec => []LedgersHold
    BY LedgersAreExact, NeverOvercharged, PTL DEF LedgersHold

(* A terminal outcome that was handed out once stays the stored one. *)
THEOREM AnswersAreFinal == LockboxSpec => []AnswersStand
<1>1. IInv => AnswersStand
    BY DEF IInv
<1> QED
    BY <1>1, Inductive, PTL

LEMMA SameCount == \A S : Ledger!Cardinality(S) = Cardinality(S)
    BY DEF Ledger!Cardinality, Cardinality

LEMMA LedgerStep == IInv /\ [LockboxNext]_lockboxVars => [Ledger!Next]_<<verdict, oneLoop>>
<1> SUFFICES ASSUME IInv, [LockboxNext]_lockboxVars, verdict' # verdict
             PROVE  Ledger!Next
    BY DEF LockboxNext
<1>1. PICK c \in Caller, o \in Outcome : Commit(c, o)
    BY DEF LockboxNext, Recover, Ask, Refuse, BeginTest, Unevaluated, Collision, ProcessDies
<1> DEFINE q == call[c]
<1>2. q \in Testing /\ Fresh(q)
    BY <1>1, Places DEF IInv, ReadsHold, Commit, InTest
<1>3. oneLoop => /\ Cardinality(BoughtBy(q.lineage)) < LineageBudget
                 /\ Cardinality(SpentIn(q.scope)) < CampaignBudget
    BY <1>2 DEF IInv, LedgersCountVerdicts, Fresh
<1>4. Ledger!BoughtBy(q.lineage) = BoughtBy(q.lineage) /\ Ledger!SpentIn(q.scope) = SpentIn(q.scope)
    BY DEF Ledger!BoughtBy, Ledger!SpentIn, Ledger!Judged, BoughtBy, SpentIn, Judged
<1>5. Ledger!Judge(q.hash, o, q.lineage, q.scope)
    <2>1. verdict[q.hash] = NoVerdict
        BY <1>1, <1>2 DEF Commit, Collides, Judged
    <2>2. verdict' = [verdict EXCEPT ![q.hash] =
                        [outcome |-> o, lineage |-> q.lineage, scope |-> q.scope]]
        BY <1>1 DEF Commit
    <2>3. oneLoop =>
          /\ Ledger!Cardinality(Ledger!BoughtBy(q.lineage)) < LineageBudget
          /\ Ledger!Cardinality(Ledger!SpentIn(q.scope)) < CampaignBudget
        BY <1>3, <1>4, SameCount
    <2>4. UNCHANGED oneLoop
        BY DEF LockboxNext
    <2> QED
        BY <2>1, <2>2, <2>3, <2>4 DEF Ledger!Judge
<1> QED
    BY <1>1, <1>2, <1>5 DEF Ledger!Next

(* The lockbox implements the ledger of verdicts: judged once, and on one server
   within the allowances of lineage and campaign. *)
THEOREM LockboxImplementsLedger == LockboxSpec => KeepsLedgerPromise
<1>1. LockboxInit => Ledger!Init
    BY DEF LockboxInit, Ledger!Init
<1>2. IInv /\ [LockboxNext]_lockboxVars => [Ledger!Next]_<<verdict, oneLoop>>
    BY LedgerStep
<1> QED
    BY <1>1, <1>2, Inductive, PTL DEF LockboxSpec, Ledger!Spec, KeepsLedgerPromise
=============================================================================
