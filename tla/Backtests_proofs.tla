-------------------------- MODULE Backtests_proofs --------------------------
(***************************************************************************)
(* TLAPS proofs about the backtesting engine: one run of a strategy class  *)
(* (StrategyRun), for any configurations and any gate decisions, any       *)
(* number of runs on one class and any bars a day; and the pipeline of     *)
(* studies and walk-forward windows (Pipeline, Study, WalkForward), for    *)
(* any landscapes, number of workers, symbols, strategies and outcomes.    *)
(***************************************************************************)
EXTENDS StrategyRun, Pipeline, FiniteSetTheorems, WellFoundedInduction, TLAPS

-----------------------------------------------------------------------------
(* Finite sets of integers *)

LEMMA Beyond ==
    ASSUME NEW S \in SUBSET Int, NEW x \in S, NEW y \in S, y > x
    PROVE  /\ {z \in S : z > y} \subseteq {z \in S : z > x}
           /\ y \in {z \in S : z > x} /\ y \notin {z \in S : z > y}
<1>1. x \in Int /\ y \in Int /\ ~(y > y) /\ \A z \in S : z \in Int
    OBVIOUS
<1>2. ASSUME NEW z \in S, z > y PROVE z > x
    BY <1>1, <1>2
<1>. QED BY <1>1, <1>2, Zenon

LEMMA UpTo ==
    ASSUME NEW S \in SUBSET Int, NEW k \in S
    PROVE  /\ {j \in S : j <= k} = {j \in S : j < k} \cup {k}
           /\ k \notin {j \in S : j < k} /\ {j \in S : j < k} \in SUBSET Int
           /\ (\A j \in S : j <= k) => {j \in S : j <= k} = S
<1>1. k \in Int /\ ~(k < k) /\ k <= k /\ \A j \in S : j \in Int
    OBVIOUS
<1>2. ASSUME NEW j \in S PROVE j <= k <=> j < k \/ j = k
    BY <1>1
<1>3. {j \in S : j <= k} = {j \in S : j < k} \cup {k} /\ k \notin {j \in S : j < k}
    BY <1>1, <1>2, Zenon
<1>4. {j \in S : j < k} \in SUBSET Int
    BY <1>1, Zenon
<1>. QED BY <1>3, <1>4, Zenon

LEMMA Before ==
    ASSUME NEW S \in SUBSET Int, NEW k \in S, NEW m \in {j \in S : j < k},
           \A x \in {j \in S : j < k} : x <= m
    PROVE  m \in S /\ ~(k <= m) /\ {j \in S : j <= m} = {j \in S : j < k}
<1>1. m \in S /\ m < k
    BY Zenon
<1>2. k \in Int /\ m \in Int
    BY <1>1
<1>3. ASSUME NEW j \in S PROVE j <= m <=> j < k
    <2>1. j \in Int
        OBVIOUS
    <2>2. j < k => j <= m
        BY Zenon
    <2>. QED BY <1>1, <1>2, <2>1, <2>2
<1>4. ~(k <= m)
    BY <1>1, <1>2
<1>. QED BY <1>1, <1>3, <1>4, Zenon

LEMMA FiniteMax ==
    ASSUME NEW S \in SUBSET Int, S # {}, IsFiniteSet(S)
    PROVE  Max(S) \in S /\ \A x \in S : x <= Max(S)
<1> DEFINE Above(x) == {y \in S : y > x}
           counts == {Cardinality(Above(x)) : x \in S}
<1>1. ASSUME NEW x \in S PROVE IsFiniteSet(Above(x)) /\ Cardinality(Above(x)) \in Nat
    BY FS_Subset, FS_CardinalityType
<1>2. PICK n \in counts : \A m \in counts : ~(m < n)
    <2>1. counts \subseteq Nat /\ counts # {}
        BY <1>1
    <2>2. PICK n \in counts : \A m \in counts : ~(<<m, n>> \in OpToRel(<, Nat))
        BY <2>1, NatLessThanWellFounded, WFMin
    <2>. QED BY <2>1, <2>2 DEF OpToRel
<1>3. PICK x \in S : n = Cardinality(Above(x))
    OBVIOUS
<1>4. ASSUME NEW y \in S, y > x PROVE FALSE
    <2>1. Above(y) \subseteq Above(x) /\ y \in Above(x) /\ y \notin Above(y)
        BY <1>4, Beyond
    <2> HIDE DEF Above
    <2>2. Cardinality(Above(y)) <= Cardinality(Above(x))
          /\ Cardinality(Above(y)) # Cardinality(Above(x))
        BY <2>1, <1>1, FS_Subset
    <2>3. Cardinality(Above(y)) < n
        BY <2>2, <1>1, <1>3
    <2>. QED BY <2>3, <1>2
<1>5. \A y \in S : x >= y
    <2>1. x \in Int /\ \A y \in S : y \in Int
        OBVIOUS
    <2>. QED BY <2>1, <1>4
<1>. QED BY <1>5 DEF Max

LEMMA NatMin ==
    ASSUME NEW S, S \subseteq Nat, S # {}
    PROVE  Min(S) \in S /\ \A x \in S : Min(S) <= x
<1>1. PICK n \in S : \A m \in S : ~(<<m, n>> \in OpToRel(<, Nat))
    BY NatLessThanWellFounded, WFMin, Zenon
<1>2. ASSUME NEW m \in S PROVE n <= m
    <2>1. n \in Nat /\ m \in Nat
        OBVIOUS
    <2>2. ~(m < n)
        <3>1. ~(<<m, n>> \in {ss \in Nat \X Nat : ss[1] < ss[2]})
            BY <1>1 DEF OpToRel
        <3>. QED BY <2>1, <3>1
    <2>. QED BY <2>1, <2>2
<1>. QED BY <1>2 DEF Min

LEMMA PairMax ==
    ASSUME NEW a \in Int, NEW b \in Int
    PROVE  Max({a, b}) \in Int /\ a <= Max({a, b}) /\ b <= Max({a, b})
<1>1. \E x \in {a, b} : \A y \in {a, b} : x >= y
    OBVIOUS
<1>. QED BY <1>1 DEF Max

LEMMA PairMin ==
    ASSUME NEW a \in Int, NEW b \in Int
    PROVE  Min({a, b}) \in {a, b}
<1>1. \E x \in {a, b} : \A y \in {a, b} : x <= y
    OBVIOUS
<1>. QED BY <1>1 DEF Min

\* A finite set of naturals has one member of each rank.
LEMMA Ranked ==
    ASSUME NEW S \in SUBSET Nat, IsFiniteSet(S), NEW i \in 1..Cardinality(S)
    PROVE  \E k \in S : Cardinality({j \in S : j <= k}) = i
<1> DEFINE To(k) == {j \in S : j <= k}
           Under(k) == {j \in S : j < k}
           late == {k \in S : Cardinality(To(k)) >= i}
<1>0. S \in SUBSET Int
    OBVIOUS
<1>1. ASSUME NEW k \in S
      PROVE  /\ IsFiniteSet(To(k)) /\ Cardinality(To(k)) \in Nat
             /\ IsFiniteSet(Under(k)) /\ Cardinality(Under(k)) \in Nat
    BY FS_Subset, FS_CardinalityType
<1>2. Cardinality(S) \in Nat /\ S # {}
    BY FS_CardinalityType, FS_EmptySet
<1>3. late # {}
    <2>1. PICK m \in S : \A z \in S : z <= m
        BY <1>0, <1>2, FiniteMax
    <2>2. To(m) = S
        BY <1>0, <2>1, UpTo
    <2> HIDE DEF To
    <2>3. m \in late
        BY <2>2, <1>2
    <2>. QED BY <2>3
<1>4. PICK k \in S : Cardinality(To(k)) >= i /\ \A m \in late : k <= m
    <2> HIDE DEF To
    <2>1. late \in SUBSET Nat
        OBVIOUS
    <2>2. Min(late) \in late /\ \A m \in late : Min(late) <= m
        BY <2>1, <1>3, NatMin
    <2>. QED BY <2>2
<1>5. /\ To(k) = Under(k) \cup {k} /\ k \notin Under(k) /\ Under(k) \in SUBSET Int
      /\ \A m \in Under(k) : (\A x \in Under(k) : x <= m) =>
            m \in S /\ ~(k <= m) /\ To(m) = Under(k)
    BY <1>0, UpTo, Before
<1> HIDE DEF To, Under
<1>6. Cardinality(To(k)) = Cardinality(Under(k)) + 1
    BY <1>1, <1>5, FS_AddElement
<1>7. CASE Under(k) = {}
    <2>1. Cardinality(Under(k)) = 0
        BY <1>7, FS_EmptySet
    <2>2. Cardinality(To(k)) = i
        BY <1>4, <1>6, <2>1
    <2>. QED BY <2>2 DEF To
<1>8. CASE Under(k) # {}
    <2>1. PICK m \in Under(k) : \A x \in Under(k) : x <= m
        BY <1>1, <1>5, <1>8, FiniteMax
    <2>2. m \in S /\ m \notin late /\ To(m) = Under(k)
        BY <1>4, <1>5, <2>1
    <2>3. Cardinality(Under(k)) < i
        BY <2>2, <1>1
    <2>4. Cardinality(To(k)) = i
        BY <2>3, <1>1, <1>4, <1>6
    <2>. QED BY <2>4 DEF To
<1>. QED BY <1>7, <1>8

-----------------------------------------------------------------------------
(* One run of a strategy *)

(***************************************************************************)
(* What a run in progress keeps: the class has exactly what its own        *)
(* configuration asks for, an order is the last bar's, and every fill is   *)
(* open or counted.                                                        *)
(***************************************************************************)
InProgress ==
    Running =>
        /\ bar < cfg.bars
        /\ cls = Attach(cfg)
        /\ order.kind = "entry" => order.at = bar
        /\ position.size > 0 => position.at < bar
        /\ filled = closed + (IF position.size > 0 THEN 1 ELSE 0)

(***************************************************************************)
(* A rebound order is noted, and placed only without a position; a         *)
(* position that is not about to be closed has bars left.                  *)
(***************************************************************************)
ReboundKnowsItsBar ==
    Running /\ cfg.template = "SentimentAwareRebound" =>
        /\ order.kind = "entry" => entry = bar /\ position.size = 0
        /\ order.kind = "none" /\ position.size > 0 =>
              entry = position.at /\ bar - entry < MaxHolding

StrategyInv ==
    TypeOK /\ InProgress /\ ReboundKnowsItsBar /\ GatesAreKept /\ ResultAddsUp

-----------------------------------------------------------------------------
(* Days *)

LEMMA DayFacts ==
    \A s, t \in Int : DateOf(t) \in Int /\ (s <= t => DateOf(s) <= DateOf(t))
<1> TAKE s, t \in Int
<1>1. BarsPerDay \in Nat \ {0}
    BY PadAssumption
<1>2. DateOf(t) \in Int
    BY <1>1 DEF DateOf
<1>3. ASSUME s <= t PROVE DateOf(s) <= DateOf(t)
    BY <1>1, <1>3 DEF DateOf
<1>. QED BY <1>2, <1>3

(***************************************************************************)
(* The frame of the query loses no decision that binds a bar of the data,  *)
(* and what is applied on a bar is the strictest of those.                 *)
(***************************************************************************)
LEMMA CandidatesBind ==
    ASSUME NEW b \in Nat, cfg \in Configs, b < cfg.bars, cls = Attach(cfg),
           cfg.gate.enabled
    PROVE  Candidates(DateOf(Time(b))) = Binding(b)
<1> DEFINE first == DateOf(cfg.first)
           last  == DateOf(cfg.first + cfg.bars - 1)
           day   == DateOf(Time(b))
<1>1. cfg.first \in Nat /\ cfg.bars \in Nat /\ Time(b) \in Nat
      /\ cfg.first <= Time(b) /\ Time(b) <= cfg.first + cfg.bars - 1
    BY ConfigAssumption DEF Time
<1>2. first \in Int /\ last \in Int /\ day \in Int /\ first <= day /\ day <= last
    BY <1>1, DayFacts
<1>3. cls.gates = PreloadGatesBlocking(cfg) /\ cls.gate = cfg.gate
    BY DEF Attach
<1> HIDE DEF first, last, day
<1>4. ASSUME NEW g \in Decisions
      PROVE  /\ KnownDate(g) \in Int
             /\ LowerDate(g) <= day <=> KnownDate(g) <= day /\ g.event - g.before <= day
             /\ day \in (g.event - g.before)..(g.event + g.after) <=>
                   g.event - g.before <= day /\ day <= g.event + g.after
    <2>1. g.event \in Int /\ g.before \in Int /\ g.after \in Int
          /\ (g.known # None => g.known \in Nat)
        BY DecisionAssumption
    <2>2. KnownDate(g) \in Int
        BY <2>1, DayFacts DEF KnownDate
    <2>. QED BY <2>1, <2>2, <1>2 DEF LowerDate
<1>5. ASSUME NEW g \in Decisions, g.event - g.before <= day, day <= g.event + g.after
      PROVE  g.event >= first - Pad /\ g.event <= last + Pad
    <2>1. g.event \in Int /\ g.before \in Int /\ g.after \in Int
        BY DecisionAssumption
    <2>2. Pad \in Nat /\ g.before <= Pad /\ g.after <= Pad
        BY PadAssumption
    <2>. QED BY <2>1, <2>2, <1>2, <1>5
<1>6. Candidates(day) \subseteq Decisions
    BY <1>3 DEF Candidates, PreloadGatesBlocking, Preload
<1>7. ASSUME NEW g \in Candidates(day) PROVE g \in Binding(b)
    <2>1. g \in Decisions /\ cfg.preload
        BY <1>6, <1>3 DEF Candidates, PreloadGatesBlocking
    <2>2. KnownDate(g) <= day /\ g.event - g.before <= day /\ day <= g.event + g.after
        BY <2>1, <1>4 DEF Candidates
    <2>. QED BY <2>1, <2>2, <1>2, <1>3, <1>4 DEF Candidates, Binding, KnownDate, day
<1>8. ASSUME NEW g \in Binding(b) PROVE g \in Candidates(day)
    <2>1. g \in Decisions /\ cfg.preload
        BY DEF Binding
    <2>2. KnownDate(g) <= day /\ g.event - g.before <= day /\ day <= g.event + g.after
        BY <2>1, <1>2, <1>4 DEF Binding, KnownDate, day
    <2>3. g \in Preload(cfg)
        BY <2>1, <2>2, <1>5 DEF Preload, first, last
    <2>. QED BY <2>1, <2>2, <2>3, <1>3, <1>4 DEF Candidates, PreloadGatesBlocking, Binding
<1>. QED BY <1>7, <1>8 DEF day

-----------------------------------------------------------------------------
(* Orders *)

LEMMA SizeIsDue ==
    ASSUME NEW b \in Nat, cfg \in Configs, b < cfg.bars, cls = Attach(cfg),
           cfg.gate.enabled, NEW g \in AppliedGates(DateOf(Time(b)))
    PROVE  /\ g \in Binding(b)
           /\ SizeUnder(g) \in 0..100
           /\ SizeUnder(g) > 0 => SizeUnder(g) \in Due(b)
<1>1. Candidates(DateOf(Time(b))) = Binding(b)
    BY CandidatesBind
<1>2. g \in Binding(b) /\ \A h \in Binding(b) : ~Stricter(h, g)
    BY <1>1 DEF AppliedGates
<1>3. Binding(b) \subseteq Decisions
    BY DEF Binding
<1>4. \A h \in Binding(b) : h.severity \in Int /\ h.mult \in Nat
    BY <1>3, DecisionAssumption
<1>5. SizeUnder(g) \in 0..100
    BY <1>2, <1>4 DEF SizeUnder
<1>6. ASSUME NEW h \in Binding(b)
      PROVE  /\ Strictness(h.action) <= Strictness(g.action)
             /\ Strictness(h.action) = Strictness(g.action) => h.severity <= g.severity
    <2>1. Strictness(h.action) \in Int /\ Strictness(g.action) \in Int
        BY DEF Strictness
    <2>. QED BY <2>1, <1>2, <1>4 DEF Stricter
<1>7. ASSUME SizeUnder(g) > 0 PROVE SizeUnder(g) \in Due(b)
    <2>1. ~\E h \in Binding(b) : h.action = "BLOCK_NEW_ENTRIES"
        BY <1>6, <1>7 DEF Strictness, SizeUnder
    <2>2. CASE g.action = "REDUCE_POSITION_SIZE"
        <3>1. g \in Reducing(b)
            BY <1>2, <2>2 DEF Reducing
        <3>2. \A k \in Reducing(b) : k.severity <= g.severity
            BY <1>6, <2>2 DEF Reducing
        <3>3. SizeUnder(g) = IF g.mult > 100 THEN 100 ELSE g.mult
            BY <2>2 DEF SizeUnder
        <3>. QED BY <3>1, <3>2, <3>3, <2>1 DEF Due
    <2>3. CASE g.action # "REDUCE_POSITION_SIZE"
        <3>1. g.action # "BLOCK_NEW_ENTRIES"
            BY <1>2, <2>1
        <3>2. Reducing(b) = {}
            BY <1>6, <2>3, <3>1 DEF Reducing, Strictness
        <3>3. SizeUnder(g) = 100
            BY <2>3, <3>1 DEF SizeUnder
        <3>. QED BY <3>2, <3>3, <2>1 DEF Due
    <2>. QED BY <2>2, <2>3
<1>. QED BY <1>2, <1>5, <1>7

\* Where gates are active there is a strictest one: the table is finite.
LEMMA SomeGateApplies ==
    ASSUME NEW d, Candidates(d) \subseteq Decisions, Candidates(d) # {}
    PROVE  AppliedGates(d) # {}
<1> DEFINE Above(g) == {h \in Candidates(d) : Stricter(h, g)}
           counts == {Cardinality(Above(g)) : g \in Candidates(d)}
<1>1. ASSUME NEW g \in Candidates(d)
      PROVE  IsFiniteSet(Above(g)) /\ Cardinality(Above(g)) \in Nat
    <2>1. Above(g) \subseteq Decisions
        OBVIOUS
    <2>. QED BY <2>1, DecisionAssumption, FS_Subset, FS_CardinalityType
<1>2. PICK n \in counts : \A m \in counts : ~(m < n)
    <2>1. counts \subseteq Nat /\ counts # {}
        BY <1>1
    <2>2. PICK n \in counts : \A m \in counts : ~(<<m, n>> \in OpToRel(<, Nat))
        BY <2>1, NatLessThanWellFounded, WFMin
    <2>. QED BY <2>1, <2>2 DEF OpToRel
<1>3. PICK g \in Candidates(d) : n = Cardinality(Above(g))
    OBVIOUS
<1>4. ASSUME NEW h \in Candidates(d), Stricter(h, g) PROVE FALSE
    <2>1. \A k \in Candidates(d) :
             k.severity \in Int /\ k.event \in Int /\ Strictness(k.action) \in Int
        BY DecisionAssumption DEF Strictness
    <2>2. ~Stricter(h, h)
        BY <2>1 DEF Stricter
    <2>3. ASSUME NEW k \in Candidates(d), Stricter(k, h) PROVE Stricter(k, g)
        BY <2>1, <2>3, <1>4 DEF Stricter
    <2>4. Above(h) \subseteq Above(g) /\ h \in Above(g) /\ h \notin Above(h)
        BY <2>2, <2>3, <1>4
    <2> HIDE DEF Above
    <2>5. Cardinality(Above(h)) <= Cardinality(Above(g))
          /\ Cardinality(Above(h)) # Cardinality(Above(g))
        BY <2>4, <1>1, FS_Subset
    <2>6. Cardinality(Above(h)) < n
        BY <2>5, <1>1, <1>3
    <2>. QED BY <2>6, <1>2
<1>. QED BY <1>3, <1>4 DEF AppliedGates

LEMMA FreeBar ==
    ASSUME NEW b \in Nat, cfg \in Configs, b < cfg.bars, cls = Attach(cfg),
           ~cls.gate.enabled \/ AppliedGates(DateOf(Time(b))) = {}
    PROVE  Due(b) = {100}
<1>1. cfg.gate.enabled \in BOOLEAN
    BY ConfigAssumption
<1>2. Binding(b) = {}
    <2>1. CASE ~cfg.gate.enabled
        BY <2>1 DEF Binding
    <2>2. CASE cfg.gate.enabled
        <3>1. cls.gate = cfg.gate
            BY <2>2 DEF Attach
        <3>2. Candidates(DateOf(Time(b))) = Binding(b)
            BY <2>2, CandidatesBind
        <3>3. Binding(b) \subseteq Decisions
            BY DEF Binding
        <3>. QED BY <3>1, <3>2, <3>3, <2>2, SomeGateApplies
    <2>. QED BY <1>1, <2>1, <2>2
<1>. QED BY <1>2 DEF Due, Reducing

\* Once a run has placed something, it is this bar's, sized by the gates that bind
\* it, behind the prefix; and what it noted of them is true.
LEMMA GateStep ==
    ASSUME TypeOK, InProgress, Running, NEW b \in Nat, b < cfg.bars,
           NEW side \in Side, NEW sl \in BOOLEAN, ApplyEventGate(b, side, sl)
    PROVE  /\ order' \in {Nothing} \cup Entries
           /\ order'.kind = "entry" => order'.at = b /\ Follows(order')
           /\ \A e \in blocked' \ blocked :
                 e[2] \in Binding(e[1]) /\ e[2].action = "BLOCK_NEW_ENTRIES"
           /\ \A e \in reduced' \ reduced : e[2] \in Reducing(e[1])
<1>1. cfg \in Configs /\ cls = Attach(cfg)
    BY DEF TypeOK, InProgress
<1>2. cls.gate.enabled = cfg.gate.enabled /\ cfg.gate.enabled \in BOOLEAN
    BY <1>1, ConfigAssumption DEF Attach, NoGate
<1>3. ~InWarmup(b) => b >= cfg.warmup
    <2>1. cfg.first \in Nat /\ cfg.warmup \in Nat /\ cfg.bars \in Nat
          /\ (cfg.warmup = 0 \/ cfg.warmup < cfg.bars)
        BY <1>1, ConfigAssumption
    <2>2. CASE cfg.warmup = 0
        BY <2>2
    <2>3. CASE cfg.warmup > 0
        <3>1. cls.start = cfg.first + cfg.warmup
            BY <1>1, <2>1, <2>3 DEF Attach
        <3>. QED BY <3>1, <2>1 DEF InWarmup, Time, None
    <2>. QED BY <2>1, <2>2, <2>3
<1>4. ASSUME NEW size \in 0..100, Place(b, side, size, sl), size > 0 => size \in Due(b)
      PROVE  /\ order' \in {Nothing} \cup Entries
             /\ order'.kind = "entry" => order'.at = b /\ Follows(order')
    <2>1. CASE size > 0 /\ ~InWarmup(b)
        <3>1. order' = [kind |-> "entry", side |-> side, size |-> size, at |-> b, sl |-> sl]
            BY <1>4, <2>1 DEF Place
        <3>2. size \in 1..100
            BY <2>1
        <3>3. order'.size = size /\ order'.at = b
            BY <3>1
        <3>. QED BY <1>3, <1>4, <2>1, <3>1, <3>2, <3>3 DEF Entries, Follows
    <2>2. CASE ~(size > 0 /\ ~InWarmup(b))
        BY <1>4, <2>2 DEF Place, Nothing
    <2>. QED BY <2>1, <2>2
<1>5. CASE /\ ~cls.gate.enabled \/ AppliedGates(DateOf(Time(b))) = {}
           /\ Place(b, side, 100, sl)
           /\ UNCHANGED <<blocked, reduced>>
    BY <1>1, <1>4, <1>5, FreeBar
<1>6. CASE /\ cls.gate.enabled
           /\ \E g \in AppliedGates(DateOf(Time(b))) :
                /\ Place(b, side, SizeUnder(g), sl)
                /\ blocked' = blocked \cup
                     (IF g.action = "BLOCK_NEW_ENTRIES" THEN {<<b, g>>} ELSE {})
                /\ reduced' = reduced \cup
                     (IF g.action = "REDUCE_POSITION_SIZE" THEN {<<b, g>>} ELSE {})
    <2> SUFFICES ASSUME
            NEW g \in AppliedGates(DateOf(Time(b))),
            Place(b, side, SizeUnder(g), sl),
            blocked' = blocked \cup
                (IF g.action = "BLOCK_NEW_ENTRIES" THEN {<<b, g>>} ELSE {}),
            reduced' = reduced \cup
                (IF g.action = "REDUCE_POSITION_SIZE" THEN {<<b, g>>} ELSE {})
        PROVE  /\ order' \in {Nothing} \cup Entries
               /\ order'.kind = "entry" => order'.at = b /\ Follows(order')
               /\ \A e \in blocked' \ blocked :
                     e[2] \in Binding(e[1]) /\ e[2].action = "BLOCK_NEW_ENTRIES"
               /\ \A e \in reduced' \ reduced : e[2] \in Reducing(e[1])
        BY <1>6
    <2>1. /\ g \in Binding(b)
          /\ SizeUnder(g) \in 0..100
          /\ SizeUnder(g) > 0 => SizeUnder(g) \in Due(b)
        BY <1>1, <1>2, <1>6, SizeIsDue
    <2>2. /\ order' \in {Nothing} \cup Entries
          /\ order'.kind = "entry" => order'.at = b /\ Follows(order')
        BY <1>4, <2>1
    <2>. QED BY <2>1, <2>2 DEF Reducing
<1>. QED BY <1>5, <1>6 DEF ApplyEventGate

-----------------------------------------------------------------------------
(* One bar *)

PositionType == [size : 0..100, side : Side, at : Nat \cup {None}, sl : BOOLEAN]

LEMMA BrokerStep ==
    ASSUME TypeOK, InProgress, Running, NEW margin \in BOOLEAN, NEW stopped \in BOOLEAN,
           Broker(margin, stopped)
    PROVE  /\ position' \in PositionType
           /\ filled' \in Nat /\ closed' \in Nat
           /\ filled' = closed' + (IF position'.size > 0 THEN 1 ELSE 0)
           /\ position'.size > 0 =>
                 \/ /\ order.kind = "entry"
                    /\ position'.size = order.size /\ position'.at = order.at
                 \/ order.kind = "none" /\ position' = position
<1>1. /\ position \in PositionType /\ filled \in Nat /\ closed \in Nat
      /\ filled = closed + (IF position.size > 0 THEN 1 ELSE 0)
    BY DEF TypeOK, InProgress, PositionType
<1>2. position.size \in 0..100
    BY <1>1 DEF PositionType
<1>3. Flat \in PositionType /\ Flat.size = 0
    BY DEF Flat, PositionType, Side
<1>4. CASE order.kind = "entry"
    <2>1. order \in Entries
        BY <1>4 DEF TypeOK, Nothing
    <2>2. order.size \in 1..100 /\ order.at \in Nat /\ order.side \in Side /\ order.sl \in BOOLEAN
        BY <2>1 DEF Entries
    <2>3. /\ Leaves(position)
          /\ position' = IF margin
                         THEN [size |-> order.size, side |-> order.side,
                               at |-> order.at, sl |-> order.sl]
                         ELSE Flat
          /\ filled' = IF margin THEN filled + 1 ELSE filled
        BY <1>4 DEF Broker
    <2>4. closed' = closed + (IF position.size > 0 THEN 1 ELSE 0) /\ closed' = filled
        BY <1>1, <1>2, <2>3 DEF Leaves
    <2>5. CASE margin
        <3>1. position' = [size |-> order.size, side |-> order.side,
                           at |-> order.at, sl |-> order.sl]
            BY <2>3, <2>5
        <3>2. position' \in PositionType /\ position'.size = order.size
              /\ position'.at = order.at
            BY <3>1, <2>2 DEF PositionType
        <3>. QED BY <3>2, <2>2, <2>3, <2>4, <2>5, <1>1, <1>4
    <2>6. CASE ~margin
        BY <2>3, <2>4, <2>6, <1>1, <1>3
    <2>. QED BY <2>5, <2>6
<1>5. CASE order.kind # "entry" /\ UNCHANGED <<position, filled, closed>>
    <2>1. CASE order.kind = "close"
        <3>1. position' = Flat
            BY <1>5, <2>1 DEF Broker
        <3>. QED BY <3>1, <1>1, <1>3, <1>5
    <2>2. CASE order.kind = "none"
        BY <1>1, <1>5, <2>2
    <2>. QED BY <1>5, <2>1, <2>2 DEF TypeOK, Nothing, Entries
<1>6. CASE Leaves(position) /\ position' = Flat /\ UNCHANGED filled
    BY <1>1, <1>2, <1>3, <1>6 DEF Leaves
<1>. QED BY <1>4, <1>5, <1>6 DEF Broker

\* The order a template places is what its bar's gates make of it, or closes, or waits.
LEMMA TemplateStep ==
    ASSUME TypeOK, NEW b \in Nat, NEW held \in BOOLEAN,
           NEW seen \in SUBSET {"enter", "leave", "mean"},
           \/ SMACrossoverNext(b, held, seen) \/ MACDSignalCrossNext(b, held, seen)
           \/ RSIMeanReversionNext(b, held, seen) \/ DynamicStrategyNext(b, held, seen)
           \/ RouteSignal(b, held, seen) \/ BollingerNext(b, held, seen)
           \/ MultiNext(b, held, seen) \/ ReboundNext(b, held, seen)
    PROVE  /\ Wait \/ Close \/ \E side \in Side, sl \in BOOLEAN : ApplyEventGate(b, side, sl)
           /\ \/ cfg.template # "SentimentAwareRebound" /\ UNCHANGED entry
              \/ ReboundNext(b, held, seen)
<1>1. ASSUME NEW sl \in BOOLEAN, GatedBuy(b, sl) \/ GatedSell(b)
      PROVE  \E side \in Side, l \in BOOLEAN : ApplyEventGate(b, side, l)
    BY <1>1 DEF GatedBuy, GatedSell, Side
<1>2. cfg.stop \in BOOLEAN
    BY ConfigAssumption DEF TypeOK
<1>3. ASSUME Cross(b, held, seen)
      PROVE  /\ Wait \/ Close \/ GatedBuy(b, FALSE)
             /\ UNCHANGED entry
    BY <1>3 DEF Cross
<1>4. CASE \/ SMACrossoverNext(b, held, seen) \/ MACDSignalCrossNext(b, held, seen)
           \/ RSIMeanReversionNext(b, held, seen) \/ DynamicStrategyNext(b, held, seen)
    BY <1>1, <1>3, <1>4
        DEF SMACrossoverNext, MACDSignalCrossNext, RSIMeanReversionNext, DynamicStrategyNext
<1>5. CASE RouteSignal(b, held, seen)
    <2>1. /\ Wait \/ Close \/ GatedBuy(b, FALSE) \/ GatedSell(b)
          /\ UNCHANGED entry /\ cfg.template = "SignalRouter"
        BY <1>5 DEF RouteSignal
    <2>. QED BY <2>1, <1>1
<1>6. CASE BollingerNext(b, held, seen)
    <2>1. /\ Wait \/ Close \/ GatedBuy(b, cfg.stop)
          /\ UNCHANGED entry /\ cfg.template = "BollingerBreakout"
        BY <1>6 DEF BollingerNext
    <2>. QED BY <2>1, <1>1, <1>2
<1>7. CASE MultiNext(b, held, seen)
    <2>1. /\ Wait \/ Close \/ GatedBuy(b, FALSE)
          /\ UNCHANGED entry /\ cfg.template = "MultiIndicator"
        BY <1>7 DEF MultiNext
    <2>. QED BY <2>1, <1>1
<1>8. CASE ReboundNext(b, held, seen)
    <2>1. Wait \/ Close \/ GatedBuy(b, FALSE)
        BY <1>8 DEF ReboundNext
    <2>. QED BY <2>1, <1>1, <1>8
<1>. QED BY <1>4, <1>5, <1>6, <1>7, <1>8

(* What a rebound bar finds: the bar it entered on, and not too late. *)
LEMMA ReboundBar ==
    ASSUME StrategyInv, Running, cfg.template = "SentimentAwareRebound",
           NEW margin \in BOOLEAN, NEW stopped \in BOOLEAN, Broker(margin, stopped),
           position'.size > 0
    PROVE  entry = position'.at /\ entry \in Int /\ (bar + 1) - entry <= MaxHolding
<1>1. TypeOK /\ InProgress /\ ReboundKnowsItsBar
    BY DEF StrategyInv
<1>2. bar \in Nat /\ MaxHolding \in Nat \ {0}
    BY <1>1, PadAssumption DEF TypeOK
<1>3. CASE order.kind = "entry" /\ position'.at = order.at
    BY <1>1, <1>2, <1>3 DEF InProgress, ReboundKnowsItsBar
<1>4. CASE order.kind = "none" /\ position' = position
    <2>1. entry = position.at /\ bar - entry < MaxHolding /\ position.at < bar
        BY <1>1, <1>4 DEF ReboundKnowsItsBar, InProgress
    <2>2. entry \in Int
        BY <1>1 DEF TypeOK, None
    <2>. QED BY <1>2, <1>4, <2>1, <2>2
<1>. QED BY <1>1, <1>3, <1>4, BrokerStep

LEMMA BarStep ==
    ASSUME StrategyInv, NEW margin \in BOOLEAN, NEW stopped \in BOOLEAN,
           NEW seen \in SUBSET {"enter", "leave", "mean"}, Bar(margin, stopped, seen)
    PROVE  StrategyInv'
<1> DEFINE b == bar + 1
           held == position'.size > 0
<1>1. /\ TypeOK /\ InProgress /\ ReboundKnowsItsBar /\ GatesAreKept
      /\ Running /\ Running' /\ cfg \in Configs
    BY DEF StrategyInv, Bar, TypeOK, Running
<1>2. /\ bar' = b /\ bar < cfg.bars - 1 /\ Broker(margin, stopped)
      /\ \/ SMACrossoverNext(b, held, seen) \/ MACDSignalCrossNext(b, held, seen)
         \/ RSIMeanReversionNext(b, held, seen) \/ DynamicStrategyNext(b, held, seen)
         \/ RouteSignal(b, held, seen) \/ BollingerNext(b, held, seen)
         \/ MultiNext(b, held, seen) \/ ReboundNext(b, held, seen)
      /\ UNCHANGED <<cls, cfg, result, outcome, session, saved, runs>>
    BY DEF Bar
<1>3. bar \in Nat /\ cfg.bars \in Nat /\ b \in Nat /\ b < cfg.bars
    BY <1>1, <1>2, ConfigAssumption DEF TypeOK
<1>4. /\ position' \in PositionType
      /\ filled' \in Nat /\ closed' \in Nat
      /\ filled' = closed' + (IF position'.size > 0 THEN 1 ELSE 0)
      /\ position'.size > 0 =>
            \/ order.kind = "entry" /\ position'.size = order.size /\ position'.at = order.at
            \/ order.kind = "none" /\ position' = position
    BY <1>1, <1>2, BrokerStep
<1> HIDE DEF b, held
<1>5. /\ Wait \/ Close \/ \E side \in Side, sl \in BOOLEAN : ApplyEventGate(b, side, sl)
      /\ \/ cfg.template # "SentimentAwareRebound" /\ UNCHANGED entry
         \/ ReboundNext(b, held, seen)
    <2>1. held \in BOOLEAN
        BY DEF held
    <2>. QED BY <1>1, <1>2, <1>3, <2>1, TemplateStep
<1>6. /\ order' \in {Nothing, [kind |-> "close"]} \cup Entries
      /\ order'.kind = "entry" => order'.at = b /\ Follows(order')
      /\ \A e \in blocked' \ blocked :
            e[2] \in Binding(e[1]) /\ e[2].action = "BLOCK_NEW_ENTRIES"
      /\ \A e \in reduced' \ reduced : e[2] \in Reducing(e[1])
    <2>1. CASE Wait \/ Close
        BY <2>1 DEF Wait, Close, Nothing
    <2>2. ASSUME NEW side \in Side, NEW sl \in BOOLEAN, ApplyEventGate(b, side, sl)
          PROVE  /\ order' \in {Nothing} \cup Entries
                 /\ order'.kind = "entry" => order'.at = b /\ Follows(order')
                 /\ \A e \in blocked' \ blocked :
                       e[2] \in Binding(e[1]) /\ e[2].action = "BLOCK_NEW_ENTRIES"
                 /\ \A e \in reduced' \ reduced : e[2] \in Reducing(e[1])
        BY <1>1, <1>3, <2>2, GateStep
    <2>. QED BY <1>5, <2>1, <2>2
<1>7. \A d : Due(d)' = Due(d) /\ Binding(d)' = Binding(d) /\ Reducing(d)' = Reducing(d)
    BY <1>2 DEF Due, Binding, Reducing, Time, DateOf
<1>8. GatesAreKept'
    <2>1. LogsNameBindingGates'
        BY <1>1, <1>6, <1>7 DEF GatesAreKept, LogsNameBindingGates
    <2>2. order'.kind = "entry" => Follows(order)'
        BY <1>2, <1>6, <1>7 DEF Follows
    <2>3. position'.size > 0 => Follows(position)'
        BY <1>1, <1>2, <1>4, <1>7 DEF Follows, GatesAreKept, EntriesFollowTheGate
    <2>. QED BY <2>1, <2>2, <2>3 DEF GatesAreKept, EntriesFollowTheGate
<1>9. InProgress'
    <2>1. cls' = Attach(cfg)'
        BY <1>1, <1>2 DEF InProgress, Attach, PreloadGatesBlocking, Preload, DateOf
    <2>2. position'.size > 0 => position'.at < bar'
        BY <1>1, <1>2, <1>3, <1>4 DEF InProgress, TypeOK, PositionType, None, b
    <2>. QED BY <1>2, <1>3, <1>4, <1>6, <2>1, <2>2 DEF InProgress
<1>10. ReboundKnowsItsBar' /\ entry' \in Nat \cup {None}
    <2>1. entry \in Nat \cup {None}
        BY <1>1 DEF TypeOK
    <2>2. CASE cfg.template # "SentimentAwareRebound"
        BY <1>2, <1>5, <2>1, <2>2 DEF ReboundKnowsItsBar, ReboundNext
    <2>3. CASE cfg.template = "SentimentAwareRebound"
        <3>1. ReboundNext(b, held, seen)
            BY <1>5, <2>3
        <3>2. held => entry = position'.at /\ entry \in Int /\ b - entry <= MaxHolding
            <4>1. Broker(margin, stopped)
                BY <1>2
            <4>2. position'.size > 0 =>
                     entry = position'.at /\ entry \in Int /\ (bar + 1) - entry <= MaxHolding
                BY <1>1, <2>3, <4>1, ReboundBar
            <4>. QED BY <4>2 DEF b, held
        <3>3. CASE held
            BY <1>2, <1>3, <2>1, <3>1, <3>2, <3>3, PadAssumption
                DEF ReboundNext, ReboundKnowsItsBar, Close, Wait, Nothing, None
        <3>4. CASE ~held
            <4>1. position'.size = 0
                BY <1>4, <3>4 DEF held, PositionType
            <4>2. (order' = Nothing /\ UNCHANGED entry) \/ entry' = b
                BY <3>1, <3>4 DEF ReboundNext, Wait
            <4>. QED BY <1>2, <1>3, <2>1, <4>1, <4>2 DEF ReboundKnowsItsBar, Nothing
        <3>. QED BY <3>3, <3>4
    <2>. QED BY <2>2, <2>3
<1>11. TypeOK'
    BY <1>1, <1>2, <1>3, <1>4, <1>6, <1>10 DEF TypeOK, PositionType
<1>12. ResultAddsUp'
    BY <1>1, <1>2 DEF ResultAddsUp, Running
<1>. QED BY <1>8, <1>9, <1>10, <1>11, <1>12 DEF StrategyInv

-----------------------------------------------------------------------------
(* A run begins, ends or is refused *)

LEMMA StartStep ==
    ASSUME StrategyInv, NEW c \in Configs, Refuse(c) \/ Begin(c) \/ BadPrices(c)
    PROVE  StrategyInv'
<1>1. TypeOK /\ GatesAreKept
    BY DEF StrategyInv
<1>2. CASE Refuse(c)
    <2>1. ~Running' /\ cfg' = cfg /\ UNCHANGED <<bar, order, position, entry, filled, closed,
                                                  blocked, reduced>>
          /\ outcome' = "rejected" /\ runs' = runs + 1 /\ runs < MaxRuns
        BY <1>2 DEF Refuse, MayRun, Running
    <2>2. \A d : Binding(d)' = Binding(d) /\ Reducing(d)' = Reducing(d)
        BY <2>1 DEF Binding, Reducing, Time, DateOf
    <2>3. LogsNameBindingGates'
        BY <1>1, <2>1, <2>2 DEF GatesAreKept, LogsNameBindingGates
    <2>4. TypeOK'
        BY <1>1, <2>1, PadAssumption DEF TypeOK
    <2>. QED BY <2>1, <2>3, <2>4
         DEF StrategyInv, InProgress, ReboundKnowsItsBar, GatesAreKept, EntriesFollowTheGate,
             ResultAddsUp
<1>3. CASE Begin(c) \/ BadPrices(c)
    <2>1. /\ cfg' = c /\ runs' = runs + 1 /\ runs < MaxRuns
          /\ bar' = 0 /\ order' = Nothing /\ position' = Flat /\ entry' = None
          /\ blocked' = {} /\ reduced' = {} /\ filled' = 0 /\ closed' = 0
          /\ Valid(c)
          /\ \/ outcome' = "failed"
             \/ outcome' = "running" /\ cls' = Attach(c)
        BY <1>3 DEF Begin, BadPrices, MayRun
    <2>2. 0 < c.bars
        BY <2>1, ConfigAssumption DEF Valid
    <2>3. Flat \in PositionType /\ Flat.size = 0 /\ Nothing.kind = "none"
        BY DEF Flat, PositionType, Side, Nothing
    <2>4. TypeOK'
        BY <1>1, <2>1, <2>3, PadAssumption DEF TypeOK, PositionType
    <2>5. GatesAreKept'
        BY <2>1, <2>3 DEF GatesAreKept, EntriesFollowTheGate, LogsNameBindingGates
    <2>6. outcome' = "running" => cls' = Attach(cfg)'
        BY <2>1 DEF Attach, PreloadGatesBlocking, Preload, DateOf
    <2>. QED BY <2>1, <2>2, <2>3, <2>4, <2>5, <2>6
         DEF StrategyInv, InProgress, ReboundKnowsItsBar, ResultAddsUp, Running
<1>. QED BY <1>2, <1>3

LEMMA FinishStep ==
    ASSUME StrategyInv, NEW written \in BOOLEAN, Finish(written)
    PROVE  StrategyInv'
<1>1. /\ TypeOK /\ InProgress /\ GatesAreKept /\ Running
      /\ closed' = IF position.size > 0 THEN closed + 1 ELSE closed
      /\ position' = Flat /\ order' = Nothing
      /\ outcome' = IF cfg.raiseOnNone /\ closed' = 0 THEN "no_trades" ELSE "completed"
      /\ result' = IF outcome' = "completed" THEN Result(closed') ELSE result
      /\ UNCHANGED <<cls, cfg, bar, entry, blocked, reduced, filled, runs>>
    BY DEF StrategyInv, Finish
<1>2. ~Running' /\ outcome' \in {"no_trades", "completed"}
    BY <1>1 DEF Running
<1>3. closed' = filled /\ closed' \in Nat
    BY <1>1 DEF InProgress, TypeOK
<1>4. \A d : Binding(d)' = Binding(d) /\ Reducing(d)' = Reducing(d)
    BY <1>1 DEF Binding, Reducing, Time, DateOf
<1>5. LogsNameBindingGates'
    BY <1>1, <1>4 DEF GatesAreKept, LogsNameBindingGates
<1>6. TypeOK'
    <2>1. Flat \in PositionType
        BY DEF Flat, PositionType, Side
    <2>. QED BY <1>1, <1>2, <1>3, <2>1 DEF TypeOK, PositionType
<1>7. ResultAddsUp'
    <2>1. outcome' = "no_trades" => filled' = 0
        BY <1>1, <1>3
    <2>2. outcome' = "completed" => result' = Result(closed')
        BY <1>1
    <2>3. Result(closed').trades = closed'
          /\ (Result(closed').from = Result(closed').benchmark \/ cfg.bars <= cfg.warmup + 2)
        <3>1. cfg.bars \in Nat /\ cfg.warmup \in Nat
            BY <1>1, ConfigAssumption DEF TypeOK
        <3>. QED BY <3>1 DEF Result, Resliced, Benchmarked
    <2>. QED BY <1>1, <1>3, <2>1, <2>2, <2>3 DEF ResultAddsUp
<1>. QED BY <1>2, <1>5, <1>6, <1>7
     DEF StrategyInv, InProgress, ReboundKnowsItsBar, GatesAreKept, EntriesFollowTheGate

LEMMA RaiseStep ==
    ASSUME StrategyInv, NEW written \in BOOLEAN, Raise(written)
    PROVE  StrategyInv'
<1>1. /\ TypeOK /\ GatesAreKept /\ outcome' = "failed" /\ ~Running'
      /\ UNCHANGED <<cls, cfg, bar, order, position, entry, blocked, reduced,
                     filled, closed, result, runs>>
    BY DEF StrategyInv, Raise, Running
<1>2. \A d : Binding(d)' = Binding(d) /\ Reducing(d)' = Reducing(d)
    BY <1>1 DEF Binding, Reducing, Time, DateOf
<1>3. LogsNameBindingGates'
    BY <1>1, <1>2 DEF GatesAreKept, LogsNameBindingGates
<1>4. TypeOK'
    BY <1>1 DEF TypeOK
<1>. QED BY <1>1, <1>3, <1>4
     DEF StrategyInv, InProgress, ReboundKnowsItsBar, GatesAreKept, EntriesFollowTheGate,
         ResultAddsUp

-----------------------------------------------------------------------------
(* The theorems *)

LEMMA StrategyInit == Init => StrategyInv
<1> SUFFICES ASSUME Init PROVE StrategyInv
    OBVIOUS
<1>1. ~Running /\ outcome = "idle"
    BY DEF Init, Running
<1>2. Flat \in PositionType
    BY DEF Flat, PositionType, Side
<1>3. TypeOK
    BY <1>2, PadAssumption DEF Init, TypeOK, PositionType
<1>. QED BY <1>1, <1>3
     DEF Init, StrategyInv, InProgress, ReboundKnowsItsBar, GatesAreKept,
         EntriesFollowTheGate, LogsNameBindingGates, ResultAddsUp

LEMMA StrategyStep == StrategyInv /\ [Next]_vars => StrategyInv'
<1> SUFFICES ASSUME StrategyInv, [Next]_vars PROVE StrategyInv'
    OBVIOUS
<1>1. CASE \E c \in Configs : Refuse(c) \/ Begin(c) \/ BadPrices(c)
    BY <1>1, StartStep
<1>2. CASE \E margin, stopped \in BOOLEAN, seen \in SUBSET {"enter", "leave", "mean"} :
              Bar(margin, stopped, seen)
    BY <1>2, BarStep
<1>3. CASE \E written \in BOOLEAN : Finish(written) \/ Raise(written)
    BY <1>3, FinishStep, RaiseStep
<1>4. CASE UNCHANGED vars
    <2>1. \A d : Due(d)' = Due(d) /\ Binding(d)' = Binding(d) /\ Reducing(d)' = Reducing(d)
        BY <1>4 DEF vars, Due, Binding, Reducing, Time, DateOf
    <2>2. GatesAreKept'
        BY <1>4, <2>1 DEF vars, StrategyInv, GatesAreKept, EntriesFollowTheGate, Follows,
                          LogsNameBindingGates, Running
    <2>3. TypeOK' /\ ReboundKnowsItsBar' /\ ResultAddsUp'
        BY <1>4 DEF vars, StrategyInv, TypeOK, ReboundKnowsItsBar, ResultAddsUp, Running
    <2>4. InProgress'
        BY <1>4 DEF vars, StrategyInv, InProgress, Running, Attach, PreloadGatesBlocking,
                    Preload, DateOf
    <2>. QED BY <2>2, <2>3, <2>4 DEF StrategyInv
<1>. QED BY <1>1, <1>2, <1>3, <1>4 DEF Next

LEMMA StrategyInvariant == Spec => []StrategyInv
    BY StrategyInit, StrategyStep, PTL DEF Spec

\* For any decisions and any sequence of runs on one class: what is entered has the size
\* the gates in force on that day leave it, behind the prefix, and the audit logs name
\* decisions that bound the very bar (_gated_buy, apply_gate_at_decision).
THEOREM TheGatesAreKept == Spec => []GatesAreKept
<1>1. StrategyInv => GatesAreKept
    BY DEF StrategyInv
<1>. QED BY <1>1, StrategyInvariant, PTL

\* A result counts a trade for every entry that was filled, open ones included, and is
\* compared with the benchmark over the same bars (run_backtest, H7 and C1).
THEOREM TheResultAddsUp == Spec => []ResultAddsUp
<1>1. StrategyInv => ResultAddsUp
    BY DEF StrategyInv
<1>. QED BY <1>1, StrategyInvariant, PTL

\* The rebound template knows the bar of every position it finds and never holds one
\* past max_holding_bars, whatever the gate, the mask or the broker swallowed before.
THEOREM TheReboundKeepsItsWord == Spec => ReboundKeepsItsWord
<1> DEFINE Kept ==
        cfg.template = "SentimentAwareRebound" /\ bar' = bar + 1 /\ position'.size > 0 =>
            entry = position'.at /\ bar' - entry <= MaxHolding
<1>1. StrategyInv /\ [Next]_vars => [Kept]_vars
    <2> SUFFICES ASSUME StrategyInv, Next, cfg.template = "SentimentAwareRebound",
                        bar' = bar + 1, position'.size > 0
                 PROVE  entry = position'.at /\ bar' - entry <= MaxHolding
        OBVIOUS
    <2>1. bar \in Nat
        BY DEF StrategyInv, TypeOK
    <2>2. ASSUME NEW margin \in BOOLEAN, NEW stopped \in BOOLEAN,
                 NEW seen \in SUBSET {"enter", "leave", "mean"}, Bar(margin, stopped, seen)
          PROVE  entry = position'.at /\ bar' - entry <= MaxHolding
        <3>1. Running /\ Broker(margin, stopped)
            BY <2>2 DEF Bar
        <3>. QED BY <3>1, ReboundBar
    <2>3. ASSUME NEW c \in Configs, Refuse(c) \/ Begin(c) \/ BadPrices(c) PROVE FALSE
        BY <2>1, <2>3 DEF Refuse, Begin, BadPrices
    <2>4. ASSUME NEW written \in BOOLEAN, Finish(written) \/ Raise(written) PROVE FALSE
        BY <2>1, <2>4 DEF Finish, Raise
    <2>. QED BY <2>2, <2>3, <2>4 DEF Next
<1>. QED BY <1>1, StrategyInvariant, PTL DEF Spec, ReboundKeepsItsWord

-----------------------------------------------------------------------------
(* The inductive invariant: what a study st knows *)

TrialSet == [params : Params, state : {"RUNNING", "COMPLETE", "PRUNED"}, value : Int]

StudySet ==
    [on : BOOLEAN, land : Landscapes, trials : Seq(TrialSet), ended : Seq(Nat),
     told : SUBSET Nat, best : Int, stale : Nat,
     why : {"running", "patience", "timeout"}, result : SUBSET Params]

OpenOf(st) == DOMAIN st.trials \ st.told
RanOf(st) ==
    {i \in DOMAIN st.ended : /\ st.ended[i] \in DOMAIN st.trials /\ st.ended[i] \in st.told
                             /\ st.trials[st.ended[i]].state = "COMPLETE"}
ValuesOf(st) == [i \in RanOf(st) |-> st.trials[st.ended[i]].value]

\* A trial is in the order of completion once it is over, and tells what the
\* landscape says of its choice.
EndedAreOver(st) ==
    /\ \A i \in DOMAIN st.ended :
          st.ended[i] \in DOMAIN st.trials /\ st.trials[st.ended[i]].state # "RUNNING"
    /\ \A i, j \in DOMAIN st.ended : st.ended[i] = st.ended[j] => i = j
    /\ \A n \in DOMAIN st.trials :
          st.trials[n].state # "RUNNING" => \E i \in DOMAIN st.ended : st.ended[i] = n
    /\ \A n \in st.told : n \in DOMAIN st.trials /\ st.trials[n].state # "RUNNING"

TrialsAreTrue(st) ==
    \A n \in DOMAIN st.trials :
        LET t == st.trials[n]  y == st.land[t.params]
        IN  /\ t.state = "COMPLETE" => y.kind = "ok" /\ t.value = y.value
            /\ t.state = "PRUNED" => y.kind # "ok"

\* The choices tried that can be backtested, and the best of them.
Sound(st) ==
    {p \in Params : st.land[p].kind = "ok"
                    /\ \E n \in DOMAIN st.trials : st.trials[n].params = p}

BestIsSound(st) ==
    /\ st.on => st.result = {}
    /\ \A p \in st.result :
          p \in Sound(st) /\ \A q \in Sound(st) : st.land[q].value <= st.land[p].value

\* With one worker only the trial that ended last may still be to be told, and
\* none when the patience is over.
OneAtATime(st) ==
    /\ \A m, n \in OpenOf(st) : m = n
    /\ \A i \in DOMAIN st.ended : i < Len(st.ended) => st.ended[i] \in st.told
    /\ st.why = "patience" => OpenOf(st) = {}

\* The mark is the first of the best of the values v at the places R, and the
\* count is that of the places behind it.
Counted(R, v, best, stale) ==
    IF best = NoValue THEN R = {} /\ stale = 0
    ELSE \E m \in R :
            /\ v[m] = best
            /\ \A i \in R : v[i] <= best /\ (i < m => v[i] < best)
            /\ stale = Cardinality({j \in R : j > m})

CountIsRight(st, patience) ==
    /\ Counted(RanOf(st), ValuesOf(st), st.best, st.stale)
    /\ st.why = "patience" => st.best # NoValue /\ st.stale >= patience
    /\ st.why = "running" => st.stale < patience

StudyOK(st, c) ==
    /\ st \in StudySet /\ EndedAreOver(st) /\ TrialsAreTrue(st) /\ BestIsSound(st)
    /\ EffectiveJobs(c) = 1 => OneAtATime(st)
    /\ c.patience > 0 /\ EffectiveJobs(c) = 1 => CountIsRight(st, c.patience)

StudyInv == study # NoStudy => StudyOK(study, call)

-----------------------------------------------------------------------------
(* The count of the early-stop callback *)

LEMMA CountFirst ==
    ASSUME NEW k \in Int, NEW v, v[k] \in Int, v[k] # NoValue
    PROVE  Counted({k}, v, v[k], 0)
<1>1. {j \in {k} : j > k} = {}
    OBVIOUS
<1>2. Cardinality({j \in {k} : j > k}) = 0
    BY <1>1, FS_EmptySet
<1>3. \A i \in {k} : v[i] <= v[k] /\ (i < k => v[i] < v[k])
    OBVIOUS
<1>. QED BY <1>2, <1>3 DEF Counted

\* A later value that is no better makes the count one longer.
LEMMA CountWorse ==
    ASSUME NEW R \in SUBSET Int, IsFiniteSet(R), NEW k \in Int, \A i \in R : i < k,
           NEW v, NEW w, \A i \in R : w[i] = v[i] /\ v[i] \in Int,
           NEW best \in Int, best # NoValue, NEW stale \in Nat,
           Counted(R, v, best, stale), w[k] \in Int, w[k] <= best
    PROVE  Counted(R \cup {k}, w, best, stale + 1)
<1>1. PICK m \in R : /\ v[m] = best
                     /\ \A i \in R : v[i] <= best /\ (i < m => v[i] < best)
                     /\ stale = Cardinality({j \in R : j > m})
    BY DEF Counted
<1> DEFINE Behind == {j \in R : j > m}
<1>2. m \in Int /\ m < k /\ ~(k < m) /\ k > m /\ k \notin R
    OBVIOUS
<1>3. {j \in R \cup {k} : j > m} = Behind \cup {k} /\ k \notin Behind
    BY <1>2, Zenon
<1>4. Cardinality(Behind \cup {k}) = Cardinality(Behind) + 1
    BY <1>3, FS_Subset, FS_AddElement
<1>5. stale + 1 = Cardinality({j \in R \cup {k} : j > m})
    BY <1>1, <1>3, <1>4
<1>6. \A i \in R \cup {k} : w[i] <= best /\ (i < m => w[i] < best)
    BY <1>1, <1>2
<1>7. m \in R \cup {k} /\ w[m] = best
    BY <1>1
<1>. QED BY <1>5, <1>6, <1>7 DEF Counted

\* One that is better starts it anew.
LEMMA CountBetter ==
    ASSUME NEW R \in SUBSET Int, NEW k \in Int, \A i \in R : i < k,
           NEW v, NEW w, \A i \in R : w[i] = v[i] /\ v[i] \in Int,
           NEW best \in Int, best # NoValue, NEW stale \in Nat,
           Counted(R, v, best, stale), w[k] \in Int, w[k] > best, w[k] # NoValue
    PROVE  Counted(R \cup {k}, w, w[k], 0)
<1>1. \A i \in R : v[i] <= best
    BY DEF Counted
<1>2. {j \in R \cup {k} : j > k} = {}
    <2>1. ~(k > k) /\ \A j \in R : ~(j > k)
        OBVIOUS
    <2>. QED BY <2>1, Zenon
<1>3. Cardinality({j \in R \cup {k} : j > k}) = 0
    BY <1>2, FS_EmptySet
<1>4. \A i \in R \cup {k} : w[i] <= w[k] /\ (i < k => w[i] < w[k])
    BY <1>1
<1>. QED BY <1>3, <1>4 DEF Counted

LEMMA CountSame ==
    ASSUME NEW R, NEW v, NEW w, \A i \in R : w[i] = v[i], NEW best, NEW stale,
           Counted(R, v, best, stale)
    PROVE  Counted(R, w, best, stale)
<1>1. CASE best = NoValue
    BY <1>1 DEF Counted
<1>2. CASE best # NoValue
    <2>1. PICK m \in R : /\ v[m] = best
                         /\ \A i \in R : v[i] <= best /\ (i < m => v[i] < best)
                         /\ stale = Cardinality({j \in R : j > m})
        BY <1>2 DEF Counted
    <2>2. w[m] = best /\ \A i \in R : w[i] <= best /\ (i < m => w[i] < best)
        BY <2>1
    <2>. QED BY <1>2, <2>1, <2>2, Zenon DEF Counted
<1>. QED BY <1>1, <1>2

\* The count tells how long nothing better has come.
LEMMA CountTells ==
    ASSUME NEW R \in SUBSET Int, IsFiniteSet(R), NEW v, \A i \in R : v[i] \in Int,
           NEW best \in Int, NEW stale \in Nat, Counted(R, v, best, stale), NEW k \in Nat
    PROVE  LET stagnant == \E i \in R : /\ Cardinality({j \in R : j > i}) >= k
                                        /\ \A j \in R : j > i => v[j] <= v[i]
           IN  /\ best # NoValue /\ stale >= k => stagnant
               /\ stale < k => ~stagnant
<1>1. CASE best = NoValue
    BY <1>1 DEF Counted
<1>2. CASE best # NoValue
    <2>1. PICK m \in R : /\ v[m] = best
                         /\ \A i \in R : v[i] <= best /\ (i < m => v[i] < best)
                         /\ stale = Cardinality({j \in R : j > m})
        BY <1>2 DEF Counted
    <2>2. \A j \in R : v[j] <= v[m]
        BY <2>1
    <2>3. ASSUME NEW i \in R, Cardinality({j \in R : j > i}) >= k, stale < k,
                 \A j \in R : j > i => v[j] <= v[i]
          PROVE  FALSE
        <3>1. CASE i < m
            BY <2>1, <2>3, <3>1
        <3>2. CASE ~(i < m)
            <4>1. \A j \in R : j > i => j > m
                BY <3>2
            <4>2. {j \in R : j > i} \subseteq {j \in R : j > m}
                BY <4>1, Zenon
            <4>3. IsFiniteSet({j \in R : j > m})
                BY FS_Subset
            <4>4. /\ Cardinality({j \in R : j > i}) <= Cardinality({j \in R : j > m})
                  /\ Cardinality({j \in R : j > i}) \in Nat
                BY <4>2, <4>3, FS_Subset, FS_CardinalityType
            <4>. QED BY <2>1, <2>3, <4>4
        <3>. QED BY <3>1, <3>2
    <2>. QED BY <2>1, <2>2, <2>3
<1>. QED BY <1>1, <1>2

-----------------------------------------------------------------------------
(* The steps of a study *)

LEMMA StudyTypes ==
    ASSUME NEW st \in StudySet
    PROVE  /\ st.on \in BOOLEAN /\ st.land \in Landscapes /\ st.trials \in Seq(TrialSet)
           /\ st.ended \in Seq(Nat) /\ st.told \in SUBSET Nat /\ st.best \in Int
           /\ st.stale \in Nat /\ st.why \in {"running", "patience", "timeout"}
           /\ st.result \in SUBSET Params
           /\ DOMAIN st.trials \in SUBSET Nat /\ IsFiniteSet(DOMAIN st.trials)
           /\ DOMAIN st.ended = 1..Len(st.ended) /\ Len(st.ended) \in Nat
           /\ DOMAIN st.ended \in SUBSET Int /\ IsFiniteSet(DOMAIN st.ended)
           /\ \A n \in DOMAIN st.trials : st.trials[n] \in TrialSet
           /\ \A n \in DOMAIN st.trials : st.trials[n].value \in Int
                                          /\ st.trials[n].params \in Params
<1>1. /\ st.on \in BOOLEAN /\ st.land \in Landscapes /\ st.trials \in Seq(TrialSet)
      /\ st.ended \in Seq(Nat) /\ st.told \in SUBSET Nat /\ st.best \in Int
      /\ st.stale \in Nat /\ st.why \in {"running", "patience", "timeout"}
      /\ st.result \in SUBSET Params
    BY DEF StudySet
<1>2. /\ DOMAIN st.trials = 1..Len(st.trials) /\ Len(st.trials) \in Nat
      /\ DOMAIN st.ended = 1..Len(st.ended) /\ Len(st.ended) \in Nat
      /\ \A n \in DOMAIN st.trials : st.trials[n] \in TrialSet
    BY <1>1
<1>3. IsFiniteSet(DOMAIN st.trials) /\ IsFiniteSet(DOMAIN st.ended)
    <2>1. 1 \in Int /\ Len(st.trials) \in Int /\ Len(st.ended) \in Int
        BY <1>2
    <2>2. IsFiniteSet(1..Len(st.trials)) /\ IsFiniteSet(1..Len(st.ended))
        BY <2>1, FS_Interval, Zenon
    <2>. QED BY <1>2, <2>2, Zenon
<1>4. \A n \in DOMAIN st.trials : st.trials[n].value \in Int /\ st.trials[n].params \in Params
    BY <1>2 DEF TrialSet
<1>5. DOMAIN st.trials \in SUBSET Nat /\ DOMAIN st.ended \in SUBSET Int
    BY <1>2
<1>. QED BY <1>1, <1>2, <1>3, <1>4, <1>5

LEMMA RanTypes ==
    ASSUME NEW st \in StudySet
    PROVE  /\ RanOf(st) \in SUBSET Int /\ IsFiniteSet(RanOf(st))
           /\ \A i \in RanOf(st) : ValuesOf(st)[i] \in Int
<1>1. RanOf(st) \subseteq DOMAIN st.ended
    BY DEF RanOf
<1>2. RanOf(st) \in SUBSET Int /\ IsFiniteSet(RanOf(st))
    BY <1>1, StudyTypes, FS_Subset
<1>3. \A i \in RanOf(st) : ValuesOf(st)[i] = st.trials[st.ended[i]].value
    BY DEF ValuesOf
<1>4. \A i \in RanOf(st) : st.ended[i] \in DOMAIN st.trials
    BY DEF RanOf
<1>. QED BY <1>2, <1>3, <1>4, StudyTypes

LEMMA StudyBegins ==
    ASSUME NEW c, c.patience \in Nat, NEW land \in Landscapes
    PROVE  StudyOK(NewStudy(land), c) /\ NewStudy(land) # NoStudy /\ NewStudy(land).on = TRUE
<1> DEFINE st == NewStudy(land)
<1>1. /\ st.on = TRUE /\ st.land = land /\ st.trials = <<>> /\ st.ended = <<>> /\ st.told = {}
      /\ st.best = NoValue /\ st.stale = 0 /\ st.why = "running" /\ st.result = {}
    BY DEF NewStudy
<1>2. st \in StudySet
    BY DEF NewStudy, StudySet, NoValue
<1>3. st # NoStudy
    <2>1. NoStudy.on = FALSE
        BY DEF NoStudy
    <2>. QED BY <1>1, <2>1
<1> HIDE DEF st
<1>4. DOMAIN st.trials = {} /\ DOMAIN st.ended = {}
    BY <1>1
<1>5. EndedAreOver(st) /\ TrialsAreTrue(st) /\ BestIsSound(st)
    BY <1>1, <1>4 DEF EndedAreOver, TrialsAreTrue, BestIsSound
<1>6. OneAtATime(st)
    BY <1>1, <1>4 DEF OneAtATime, OpenOf
<1>7. ASSUME c.patience > 0 PROVE CountIsRight(st, c.patience)
    <2>1. RanOf(st) = {}
        BY <1>4 DEF RanOf
    <2>. QED BY <1>1, <1>7, <2>1 DEF CountIsRight, Counted
<1>8. StudyOK(st, c)
    BY <1>2, <1>5, <1>6, <1>7 DEF StudyOK
<1>. QED BY <1>1, <1>3, <1>8 DEF st

\* While what ran and its values stay, the count stays right.
SameCount(st, st2) ==
    /\ RanOf(st2) = RanOf(st) /\ \A i \in RanOf(st) : ValuesOf(st2)[i] = ValuesOf(st)[i]
    /\ st2.best = st.best /\ st2.stale = st.stale
    /\ st2.why = st.why \/ st2.why = "timeout"

LEMMA CountStays ==
    ASSUME NEW st \in StudySet, NEW st2, NEW k, CountIsRight(st, k), SameCount(st, st2)
    PROVE  CountIsRight(st2, k)
<1>1. Counted(RanOf(st2), ValuesOf(st2), st2.best, st2.stale)
    BY CountSame DEF CountIsRight, SameCount
<1>. QED BY <1>1 DEF CountIsRight, SameCount

LEMMA AskKeeps ==
    ASSUME NEW c, c.patience \in Nat, NEW st, StudyOK(st, c), st.result = {}, st.why = "running",
           Cardinality(OpenOf(st)) < EffectiveJobs(c), NEW p \in Params, NEW st2,
           st2 = [st EXCEPT !.trials =
                     Append(@, [params |-> p, state |-> "RUNNING", value |-> NoValue])]
    PROVE  StudyOK(st2, c) /\ st2.on = st.on
<1> DEFINE new == [params |-> p, state |-> "RUNNING", value |-> NoValue]
           n0 == Len(st.trials) + 1
<1>0. st \in StudySet
    BY DEF StudyOK
<1>1. /\ st2.on = st.on /\ st2.land = st.land /\ st2.ended = st.ended /\ st2.told = st.told
      /\ st2.best = st.best /\ st2.stale = st.stale /\ st2.why = st.why
      /\ st2.result = st.result /\ st2.trials = Append(st.trials, new)
    BY <1>0 DEF StudySet
<1>2. new \in TrialSet
    BY DEF TrialSet, NoValue
<1>3. st2 \in StudySet
    <2>1. st2.trials \in Seq(TrialSet)
        BY <1>1, <1>2, StudyTypes, <1>0
    <2>. QED BY <1>0, <2>1, <1>1 DEF StudySet
<1>4. new.state = "RUNNING" /\ new.params = p
    OBVIOUS
<1> HIDE DEF new
<1>5. /\ DOMAIN st2.trials = DOMAIN st.trials \cup {n0} /\ n0 \notin DOMAIN st.trials
      /\ st2.trials[n0] = new /\ \A n \in DOMAIN st.trials : st2.trials[n] = st.trials[n]
    BY <1>0, <1>1, StudyTypes
<1> HIDE DEF n0
<1>6. EndedAreOver(st) /\ TrialsAreTrue(st) /\ BestIsSound(st)
    BY DEF StudyOK
<1>7. EndedAreOver(st2)
    BY <1>1, <1>4, <1>5, <1>6 DEF EndedAreOver
<1>8. TrialsAreTrue(st2)
    BY <1>1, <1>4, <1>5, <1>6 DEF TrialsAreTrue
<1>9. BestIsSound(st2)
    BY <1>1, <1>6 DEF BestIsSound
<1>10. ASSUME EffectiveJobs(c) = 1 PROVE OneAtATime(st2)
    <2>1. OneAtATime(st)
        BY <1>10 DEF StudyOK
    <2>2. IsFiniteSet(OpenOf(st)) /\ Cardinality(OpenOf(st)) \in Nat
        BY <1>0, StudyTypes, FS_Subset, FS_CardinalityType DEF OpenOf
    <2>3. OpenOf(st) = {}
        BY <1>10, <2>2, FS_EmptySet
    <2>4. OpenOf(st2) \subseteq {n0}
        BY <2>3, <1>1, <1>5 DEF OpenOf
    <2>5. st2.why # "patience"
        BY <1>1
    <2>. QED BY <2>1, <2>4, <2>5, <1>1 DEF OneAtATime
<1>11. ASSUME c.patience > 0, EffectiveJobs(c) = 1 PROVE CountIsRight(st2, c.patience)
    <2>1. RanOf(st2) = RanOf(st)
        BY <1>1, <1>5, <1>6 DEF RanOf, EndedAreOver
    <2>2. \A i \in RanOf(st) : ValuesOf(st2)[i] = ValuesOf(st)[i]
        <3>1. \A i \in RanOf(st) : st2.trials[st2.ended[i]].value = st.trials[st.ended[i]].value
            BY <1>1, <1>5 DEF RanOf
        <3>. QED BY <2>1, <3>1 DEF ValuesOf
    <2>3. CountIsRight(st, c.patience)
        BY <1>11 DEF StudyOK
    <2>4. st2.best = st.best /\ st2.stale = st.stale /\ st2.why = st.why
        BY <1>1
    <2>5. SameCount(st, st2)
        BY <2>1, <2>2, <2>4 DEF SameCount
    <2>. QED BY <2>3, <2>5, <1>0, CountStays
<1>. QED BY <1>1, <1>3, <1>7, <1>8, <1>9, <1>10, <1>11 DEF StudyOK

LEMMA TimeOutKeeps ==
    ASSUME NEW c, c.patience \in Nat, NEW st, StudyOK(st, c), st.result = {}, NEW st2,
           st2 = [st EXCEPT !.why = "timeout"]
    PROVE  StudyOK(st2, c) /\ st2.on = st.on
<1>0. st \in StudySet /\ EndedAreOver(st) /\ TrialsAreTrue(st) /\ BestIsSound(st)
    BY DEF StudyOK
<1>1. /\ st2.on = st.on /\ st2.land = st.land /\ st2.ended = st.ended /\ st2.told = st.told
      /\ st2.best = st.best /\ st2.stale = st.stale /\ st2.why = "timeout"
      /\ st2.result = st.result /\ st2.trials = st.trials
    BY <1>0 DEF StudySet
<1>2. st2 \in StudySet
    BY <1>0 DEF StudySet
<1>3. EndedAreOver(st2) /\ TrialsAreTrue(st2) /\ BestIsSound(st2)
    <2>1. Sound(st2) = Sound(st)
        BY <1>1 DEF Sound
    <2>2. EndedAreOver(st2)
        BY <1>0, <1>1 DEF EndedAreOver
    <2>3. TrialsAreTrue(st2)
        BY <1>0, <1>1 DEF TrialsAreTrue
    <2>4. BestIsSound(st2)
        BY <1>0, <1>1, <2>1 DEF BestIsSound
    <2>. QED BY <2>2, <2>3, <2>4
<1>4. ASSUME OneAtATime(st) PROVE OneAtATime(st2)
    BY <1>1, <1>4 DEF OneAtATime, OpenOf
<1>5. RanOf(st2) = RanOf(st) /\ \A i \in RanOf(st) : ValuesOf(st2)[i] = ValuesOf(st)[i]
    <2>1. RanOf(st2) = RanOf(st)
        BY <1>1 DEF RanOf
    <2>. QED BY <2>1, <1>1 DEF ValuesOf
<1>6. ASSUME CountIsRight(st, c.patience) PROVE CountIsRight(st2, c.patience)
    <2>1. SameCount(st, st2)
        BY <1>1, <1>5 DEF SameCount
    <2>2. st \in StudySet /\ CountIsRight(st, c.patience)
        BY <1>0, <1>6
    <2>. QED BY <2>1, <2>2, CountStays
<1>. QED BY <1>1, <1>2, <1>3, <1>4, <1>6 DEF StudyOK

\* Telling the study the outcome of a trial.
LEMMA TellKeeps ==
    ASSUME NEW c, c.patience \in Nat, NEW st, StudyOK(st, c), st.result = {}, NEW n \in DOMAIN st.trials,
           st.trials[n].state = "RUNNING", NEW st2,
           st2 = [st EXCEPT !.trials[n] = Objective(st.trials[n].params,
                                                    st.land[st.trials[n].params]),
                            !.ended = Append(@, n)]
    PROVE  StudyOK(st2, c) /\ st2.on = st.on
<1> DEFINE p == st.trials[n].params
           y == st.land[p]
           over == Objective(p, y)
           last == Len(st.ended) + 1
<1>0. st \in StudySet /\ EndedAreOver(st) /\ TrialsAreTrue(st) /\ BestIsSound(st)
    BY DEF StudyOK
<1>1. p \in Params /\ n \in Nat
    BY <1>0, StudyTypes
<1>2. y.value \in Int
    BY <1>0, <1>1, StudyTypes, LandscapesAssumption
<1>3. /\ over \in TrialSet /\ over.params = p
      /\ (over.state = "COMPLETE" /\ y.kind = "ok" /\ over.value = y.value)
         \/ (over.state = "PRUNED" /\ y.kind # "ok")
    <2>1. CASE y.kind = "ok"
        <3>1. over = [params |-> p, state |-> "COMPLETE", value |-> y.value]
            BY <2>1 DEF Objective
        <3> HIDE DEF p, y, over
        <3>. QED BY <2>1, <3>1, <1>1, <1>2 DEF TrialSet
    <2>2. CASE y.kind # "ok"
        <3>1. over = [params |-> p, state |-> "PRUNED", value |-> NoValue]
            BY <2>2 DEF Objective
        <3> HIDE DEF p, y, over
        <3>. QED BY <2>2, <3>1, <1>1 DEF TrialSet, NoValue
    <2>. QED BY <2>1, <2>2
<1>4. /\ st2.on = st.on /\ st2.land = st.land /\ st2.told = st.told
      /\ st2.best = st.best /\ st2.stale = st.stale /\ st2.why = st.why
      /\ st2.result = st.result /\ st2.ended = Append(st.ended, n)
      /\ st2.trials = [st.trials EXCEPT ![n] = over]
    <2> HIDE DEF over
    <2>. QED BY <1>0 DEF StudySet, over, p, y
<1> HIDE DEF over, y
<1>5. st2 \in StudySet
    <2>1. st2.trials \in Seq(TrialSet) /\ st2.ended \in Seq(Nat)
        BY <1>0, <1>1, <1>3, <1>4, StudyTypes
    <2>2. st2 = [st EXCEPT !.trials = st2.trials, !.ended = st2.ended]
        BY <1>0, <1>4 DEF StudySet, over, y, p
    <2>. QED BY <1>0, <2>1, <2>2 DEF StudySet
<1>6. /\ DOMAIN st2.trials = DOMAIN st.trials /\ st2.trials[n] = over
      /\ \A k \in DOMAIN st.trials : k # n => st2.trials[k] = st.trials[k]
      /\ DOMAIN st2.ended = DOMAIN st.ended \cup {last} /\ st2.ended[last] = n
      /\ last \notin DOMAIN st.ended /\ Len(st2.ended) = last
      /\ \A i \in DOMAIN st.ended : st2.ended[i] = st.ended[i] /\ i < last
    <2> HIDE DEF p
    <2>. QED BY <1>0, <1>1, <1>4, StudyTypes
<1> HIDE DEF last
<1>7. /\ \A i \in DOMAIN st.ended : st.ended[i] # n
      /\ n \notin st.told
    BY <1>0 DEF EndedAreOver
<1>8. EndedAreOver(st2)
    <2>0. over.state # "RUNNING"
        BY <1>3
    <2>1. \A i \in DOMAIN st2.ended :
             st2.ended[i] \in DOMAIN st2.trials /\ st2.trials[st2.ended[i]].state # "RUNNING"
        BY <2>0, <1>0, <1>6 DEF EndedAreOver
    <2>2. \A i, j \in DOMAIN st2.ended : st2.ended[i] = st2.ended[j] => i = j
        BY <1>0, <1>6, <1>7 DEF EndedAreOver
    <2>3. \A k \in DOMAIN st2.trials :
             st2.trials[k].state # "RUNNING" => \E i \in DOMAIN st2.ended : st2.ended[i] = k
        BY <1>0, <1>6 DEF EndedAreOver
    <2>4. \A k \in st2.told : k \in DOMAIN st2.trials /\ st2.trials[k].state # "RUNNING"
        BY <1>0, <1>4, <1>6, <1>7 DEF EndedAreOver
    <2>. QED BY <2>1, <2>2, <2>3, <2>4 DEF EndedAreOver
<1>9. TrialsAreTrue(st2)
    <2> SUFFICES ASSUME NEW k \in DOMAIN st2.trials
                 PROVE  LET t == st2.trials[k]  z == st2.land[t.params]
                        IN  /\ t.state = "COMPLETE" => z.kind = "ok" /\ t.value = z.value
                            /\ t.state = "PRUNED" => z.kind # "ok"
        BY DEF TrialsAreTrue
    <2>1. CASE k = n
        <3>1. st2.trials[k] = over /\ st2.land[over.params] = y
            BY <2>1, <1>3, <1>4, <1>6 DEF y
        <3>. QED BY <3>1, <1>3
    <2>2. CASE k # n
        <3>1. k \in DOMAIN st.trials /\ st2.trials[k] = st.trials[k] /\ st2.land = st.land
            BY <2>2, <1>4, <1>6
        <3>. QED BY <3>1, <1>0 DEF TrialsAreTrue
    <2>. QED BY <2>1, <2>2
<1>10. BestIsSound(st2)
    BY <1>0, <1>4 DEF BestIsSound
<1>11. ASSUME OneAtATime(st) PROVE OneAtATime(st2)
    <2>1. OpenOf(st2) = OpenOf(st) /\ n \in OpenOf(st)
        BY <1>4, <1>6, <1>7 DEF OpenOf
    <2>2. \A i \in DOMAIN st.ended : st.ended[i] \in st.told
        BY <2>1, <1>0, <1>7, <1>11 DEF OneAtATime, OpenOf, EndedAreOver
    <2>. QED BY <2>1, <2>2, <1>4, <1>6, <1>11 DEF OneAtATime
<1>12. ASSUME CountIsRight(st, c.patience) PROVE CountIsRight(st2, c.patience)
    <2>1. \A i \in DOMAIN st.ended : i \in RanOf(st2) <=> i \in RanOf(st)
        BY <1>4, <1>6, <1>7 DEF RanOf
    <2>2. last \notin RanOf(st2)
        BY <1>4, <1>6, <1>7 DEF RanOf
    <2>3. RanOf(st2) \subseteq DOMAIN st.ended \cup {last} /\ RanOf(st) \subseteq DOMAIN st.ended
        BY <1>6 DEF RanOf
    <2>4. RanOf(st2) = RanOf(st)
        BY <2>1, <2>2, <2>3
    <2>5. \A i \in RanOf(st) : st2.trials[st2.ended[i]].value = st.trials[st.ended[i]].value
        BY <1>6, <1>7 DEF RanOf
    <2>6. \A i \in RanOf(st) : ValuesOf(st2)[i] = ValuesOf(st)[i]
        BY <2>4, <2>5 DEF ValuesOf
    <2>7. st2.best = st.best /\ st2.stale = st.stale /\ st2.why = st.why
        BY <1>4
    <2>8. SameCount(st, st2)
        BY <2>4, <2>6, <2>7 DEF SameCount
    <2>. QED BY <2>8, <1>0, <1>12, CountStays
<1>. QED BY <1>4, <1>5, <1>8, <1>9, <1>10, <1>11, <1>12 DEF StudyOK

LEMMA BestFacts ==
    ASSUME NEW c, StudyOK(study, c), Complete # {}
    PROVE  /\ BestValue \in Int /\ \A n \in Complete : ValueOf(n) <= BestValue
           /\ BestTrial \in Complete /\ ValueOf(BestTrial) = BestValue
<1> DEFINE values == {ValueOf(n) : n \in Complete}
           places == {i \in DOMAIN study.ended : /\ study.ended[i] \in Complete
                                                 /\ ValueOf(study.ended[i]) = BestValue}
<1>0. study \in StudySet /\ EndedAreOver(study)
    BY DEF StudyOK
<1>1. Complete \subseteq DOMAIN study.trials /\ IsFiniteSet(Complete)
    BY <1>0, StudyTypes, FS_Subset DEF Complete
<1>2. \A n \in Complete : ValueOf(n) \in Int
    BY <1>0, <1>1, StudyTypes DEF ValueOf
<1>3. values \in SUBSET Int /\ values # {} /\ IsFiniteSet(values)
    <2>1. [n \in Complete |-> ValueOf(n)] \in Surjection(Complete, values)
        BY DEF Surjection
    <2>2. IsFiniteSet(values)
        BY <2>1, <1>1, FS_Surjection
    <2>. QED BY <2>2, <1>2
<1>4. BestValue \in values /\ \A x \in values : x <= BestValue
    BY <1>3, FiniteMax DEF BestValue
<1>5. PICK n \in Complete : ValueOf(n) = BestValue
    BY <1>4
<1>6. PICK i \in DOMAIN study.ended : study.ended[i] = n
    BY <1>0, <1>5 DEF EndedAreOver, Complete
<1>7. places \subseteq Nat /\ i \in places
    BY <1>0, <1>5, <1>6, StudyTypes
<1>8. Min(places) \in places
    BY <1>7, NatMin
<1>9. BestTrial = study.ended[Min(places)]
    BY DEF BestTrial
<1>. QED BY <1>2, <1>4, <1>8, <1>9

\* What a callback leaves alone.
SameFields(st, st2, n) ==
    /\ st2.on = st.on /\ st2.land = st.land /\ st2.trials = st.trials
    /\ st2.ended = st.ended /\ st2.told = st.told \cup {n} /\ st2.result = st.result

LEMMA CallbackKeeps ==
    ASSUME NEW c, c.patience \in Nat, StudyOK(study, c), study.result = {},
           NEW n \in Open, study.trials[n].state # "RUNNING",
           NEW st2, st2 = EarlyStop(c, n)
    PROVE  StudyOK(st2, c) /\ st2.on = study.on
<1>0. /\ study \in StudySet /\ EndedAreOver(study) /\ TrialsAreTrue(study)
      /\ BestIsSound(study) /\ n \in DOMAIN study.trials /\ n \notin study.told
    BY DEF StudyOK, Open
<1> DEFINE value == study.trials[n].value
           completed == study.trials[n].state = "COMPLETE"
<1>1. value \in Int /\ n \in Nat
    BY <1>0, StudyTypes
<1>2. completed => value # NoValue
    <2>1. study.trials[n].params \in Params /\ study.land \in Landscapes
        BY <1>0, StudyTypes
    <2>. QED BY <2>1, <1>0, LandscapesAssumption DEF TrialsAreTrue
<1>3. (n \in Complete <=> completed) /\ ValueOf(n) = value
    BY <1>0 DEF Complete, ValueOf
<1>9. study.told \cup {n} \in SUBSET Nat /\ study.stale + 1 \in Nat
    BY <1>0, <1>1, StudyTypes
<1>4. /\ st2.on = study.on /\ st2.land = study.land /\ st2.trials = study.trials
      /\ st2.ended = study.ended /\ st2.told = study.told \cup {n} /\ st2.result = study.result
      /\ st2 \in StudySet
      /\ \/ /\ c.patience = 0 \/ ~completed
            /\ st2.best = study.best /\ st2.stale = study.stale /\ st2.why = study.why
         \/ /\ completed /\ study.best = NoValue
            /\ st2.best = value /\ st2.stale = study.stale /\ st2.why = study.why
         \/ /\ completed /\ study.best # NoValue /\ value = BestValue /\ value # study.best
            /\ st2.best = value /\ st2.stale = 0 /\ st2.why = study.why
         \/ /\ completed /\ study.best # NoValue /\ ~(value = BestValue /\ value # study.best)
            /\ st2.best = study.best /\ st2.stale = study.stale + 1
            /\ st2.why = IF study.why = "running" /\ study.stale + 1 >= c.patience
                         THEN "patience" ELSE study.why
    <2> HIDE DEF value, completed
    <2>1. CASE c.patience = 0 \/ ~completed
        <3>1. st2 = [study EXCEPT !.told = @ \cup {n}]
            BY <2>1, <1>3 DEF EarlyStop
        <3>2. /\ st2.best = study.best /\ st2.stale = study.stale /\ st2.why = study.why
              /\ SameFields(study, st2, n)
            BY <3>1, <1>0 DEF StudySet, SameFields
        <3>3. st2 \in StudySet
            BY <3>1, <1>0, <1>1, <1>9 DEF StudySet
        <3>. QED BY <2>1, <3>2, <3>3 DEF SameFields
    <2>2. CASE c.patience > 0 /\ completed /\ study.best = NoValue
        <3>1. st2 = [study EXCEPT !.told = @ \cup {n}, !.best = value]
            BY <2>2, <1>3 DEF EarlyStop
        <3>2. /\ st2.best = value /\ st2.stale = study.stale /\ st2.why = study.why
              /\ SameFields(study, st2, n)
            BY <3>1, <1>0 DEF StudySet, SameFields
        <3>3. st2 \in StudySet
            BY <3>1, <1>0, <1>1, <1>9 DEF StudySet
        <3>. QED BY <2>2, <3>2, <3>3 DEF SameFields
    <2>3. CASE /\ c.patience > 0 /\ completed /\ study.best # NoValue
               /\ value = BestValue /\ value # study.best
        <3>1. st2 = [study EXCEPT !.told = @ \cup {n}, !.best = value, !.stale = 0]
            BY <2>3, <1>3 DEF EarlyStop
        <3>2. /\ st2.best = value /\ st2.stale = 0 /\ st2.why = study.why
              /\ SameFields(study, st2, n)
            BY <3>1, <1>0 DEF StudySet, SameFields
        <3>3. st2 \in StudySet
            <4>1. ASSUME NEW zero \in Nat
                  PROVE  [study EXCEPT !.told = @ \cup {n}, !.best = value, !.stale = zero]
                            \in StudySet
                BY <1>0, <1>1, <1>9 DEF StudySet
            <4>. QED BY <3>1, <4>1
        <3>. QED BY <2>3, <3>2, <3>3 DEF SameFields
    <2>4. CASE /\ c.patience > 0 /\ completed /\ study.best # NoValue
               /\ ~(value = BestValue /\ value # study.best)
        <3>1. st2 = [study EXCEPT !.told = @ \cup {n}, !.stale = @ + 1,
                       !.why = IF @ = "running" /\ study.stale + 1 >= c.patience
                               THEN "patience" ELSE @]
            BY <2>4, <1>3 DEF EarlyStop
        <3>2. /\ st2.best = study.best /\ st2.stale = study.stale + 1
              /\ st2.why = IF study.why = "running" /\ study.stale + 1 >= c.patience
                           THEN "patience" ELSE study.why
              /\ SameFields(study, st2, n)
            BY <3>1, <1>0 DEF StudySet, SameFields
        <3>3. st2 \in StudySet
            BY <3>1, <1>0, <1>1, <1>9 DEF StudySet
        <3>. QED BY <2>4, <3>2, <3>3 DEF SameFields
    <2>. QED BY <2>1, <2>2, <2>3, <2>4
<1>5. EndedAreOver(st2)
    BY <1>0, <1>4 DEF EndedAreOver
<1>6. TrialsAreTrue(st2) /\ BestIsSound(st2)
    <2>1. /\ st2.on = study.on /\ st2.land = study.land /\ st2.trials = study.trials
          /\ st2.result = study.result
        BY <1>4
    <2>2. TrialsAreTrue(st2)
        BY <1>0, <2>1 DEF TrialsAreTrue
    <2>3. Sound(st2) = Sound(study)
        BY <2>1 DEF Sound
    <2>4. BestIsSound(st2)
        BY <1>0, <2>1, <2>3 DEF BestIsSound
    <2>. QED BY <2>2, <2>4
<1>7. ASSUME OneAtATime(study) PROVE OneAtATime(st2)
    <2>1. OpenOf(st2) = {}
        BY <1>0, <1>4, <1>7 DEF OneAtATime, OpenOf
    <2>. QED BY <2>1, <1>4, <1>7 DEF OneAtATime
<1>8. ASSUME c.patience > 0, OneAtATime(study), CountIsRight(study, c.patience)
      PROVE  CountIsRight(st2, c.patience)
    <2>1. PICK k \in DOMAIN study.ended : study.ended[k] = n
        BY <1>0 DEF EndedAreOver
    <2>2. CASE ~completed
        <3>1. RanOf(st2) = RanOf(study)
            BY <1>4, <2>2 DEF RanOf
        <3>2. \A i \in RanOf(study) : ValuesOf(st2)[i] = ValuesOf(study)[i]
            BY <3>1, <1>4 DEF ValuesOf
        <3>3. st2.best = study.best /\ st2.stale = study.stale /\ st2.why = study.why
            BY <1>4, <2>2
        <3>4. SameCount(study, st2)
            BY <3>1, <3>2, <3>3 DEF SameCount
        <3>. QED BY <3>4, <1>0, <1>8, CountStays
    <2>3. CASE completed
        <3> DEFINE R == RanOf(study)
                   v == ValuesOf(study)
                   w == ValuesOf(st2)
        <3>1. /\ k = Len(study.ended) /\ k \in Int /\ \A i \in DOMAIN study.ended : i # k => i < k
              /\ \A i \in DOMAIN study.ended : i # k => study.ended[i] \in study.told
            <4>1. study \in StudySet /\ n \notin study.told
                BY <1>0 DEF Open
            <4>2. \A i \in DOMAIN study.ended : i < Len(study.ended) => study.ended[i] \in study.told
                BY <1>8 DEF OneAtATime
            <4>3. DOMAIN study.ended = 1..Len(study.ended) /\ Len(study.ended) \in Nat
                BY <4>1, StudyTypes
            <4>4. ~(k < Len(study.ended))
                BY <2>1, <4>1, <4>2
            <4>5. k = Len(study.ended) /\ k \in Int /\ \A i \in DOMAIN study.ended : i # k => i < k
                BY <4>3, <4>4
            <4>6. \A i \in DOMAIN study.ended : i # k => study.ended[i] \in study.told
                BY <4>2, <4>5
            <4>. QED BY <4>5, <4>6
        <3>2. RanOf(st2) = R \cup {k} /\ k \notin R /\ \A i \in R : i < k
            BY <1>0, <1>4, <2>1, <2>3, <3>1 DEF RanOf, EndedAreOver
        <3>3. w[k] = value /\ \A i \in R : w[i] = v[i]
            BY <1>4, <2>1, <3>2 DEF ValuesOf
        <3>4. R \in SUBSET Int /\ IsFiniteSet(R) /\ \A i \in R : v[i] \in Int
            BY <1>0, RanTypes
        <3>5. Counted(R, v, study.best, study.stale)
            BY <1>8 DEF CountIsRight
        <3>6. study.why # "patience" /\ (study.why = "running" => study.stale < c.patience)
            BY <1>0, <1>8 DEF OneAtATime, OpenOf, CountIsRight
        <3>7. study.best \in Int /\ study.stale \in Nat
            BY <1>0, StudyTypes
        <3> HIDE DEF R, v, w, value, completed
        <3>8. CASE study.best = NoValue
            <4>1. R = {} /\ study.stale = 0
                BY <3>5, <3>8 DEF Counted
            <4>2. RanOf(st2) = {k} /\ Counted({k}, w, w[k], 0)
                BY <1>1, <1>2, <2>3, <3>1, <3>2, <3>3, <4>1, CountFirst
            <4>3. st2.best = w[k] /\ st2.stale = 0 /\ st2.why = study.why
                BY <1>4, <1>8, <2>3, <3>3, <3>8, <4>1
            <4>. QED BY <4>2, <4>3, <3>6, <1>8 DEF CountIsRight, w
        <3>9. CASE study.best # NoValue /\ value = BestValue /\ value # study.best
            <4>1. value > study.best
                <5>1. PICK m \in R : v[m] = study.best
                    BY <3>5, <3>9 DEF Counted
                <5>2. study.ended[m] \in Complete /\ ValueOf(study.ended[m]) = v[m]
                    BY DEF R, v, RanOf, ValuesOf, Complete, ValueOf
                <5>3. v[m] <= BestValue
                    BY <5>2, BestFacts
                <5>. QED BY <5>1, <5>3, <3>7, <3>9, <1>1
            <4>2. Counted(R \cup {k}, w, w[k], 0)
                BY <1>1, <1>2, <2>3, <3>1, <3>2, <3>3, <3>4, <3>5, <3>7, <3>9, <4>1, CountBetter
            <4>3. st2.best = w[k] /\ st2.stale = 0 /\ st2.why = study.why
                BY <1>4, <1>8, <2>3, <3>3, <3>9
            <4>. QED BY <4>2, <4>3, <3>2, <3>6, <1>8 DEF CountIsRight, w
        <3>10. CASE study.best # NoValue /\ ~(value = BestValue /\ value # study.best)
            <4>1. value <= study.best
                <5>1. SUFFICES ASSUME value > study.best PROVE FALSE
                    BY <1>1, <3>7
                <5>2. n \in Complete
                    BY <1>3, <2>3
                <5>3. BestTrial \in Complete /\ ValueOf(BestTrial) = BestValue
                      /\ value <= BestValue /\ BestValue \in Int
                    BY <5>2, <1>3, BestFacts
                <5>4. BestTrial # n
                    BY <5>1, <5>3, <1>1, <1>3, <3>7, <3>10
                <5>5. PICK i \in DOMAIN study.ended : study.ended[i] = BestTrial
                    BY <5>3, <1>0 DEF EndedAreOver, Complete
                <5>6. i \in R
                    BY <5>3, <5>4, <5>5, <2>1, <3>1 DEF R, RanOf, Complete
                <5>7. v[i] = BestValue
                    BY <5>3, <5>5, <5>6 DEF v, R, ValuesOf, ValueOf
                <5>8. v[i] <= study.best
                    BY <5>6, <3>5, <3>10 DEF Counted
                <5>. QED BY <5>1, <5>3, <5>7, <5>8, <1>1, <3>7
            <4>2. Counted(R \cup {k}, w, study.best, study.stale + 1)
                BY <1>1, <3>1, <3>2, <3>3, <3>4, <3>5, <3>7, <3>10, <4>1, CountWorse
            <4>3. /\ st2.best = study.best /\ st2.stale = study.stale + 1
                  /\ st2.why = IF study.why = "running" /\ study.stale + 1 >= c.patience
                               THEN "patience" ELSE study.why
                BY <1>4, <1>8, <2>3, <3>10
            <4>. QED BY <4>2, <4>3, <3>2, <3>6, <3>7, <3>10, <1>8 DEF CountIsRight, w
        <3>. QED BY <3>8, <3>9, <3>10
    <2>. QED BY <2>2, <2>3
<1>. QED BY <1>4, <1>5, <1>6, <1>7, <1>8 DEF StudyOK

\* When every trial has been told, those that completed are those that are sound.
LEMMA AllAreOver ==
    ASSUME NEW c, StudyOK(study, c), Open = {}
    PROVE  /\ \A q \in Sound(study) : \E n \in Complete :
                 study.trials[n].params = q /\ ValueOf(n) = study.land[q].value
           /\ \A n \in Complete : /\ study.trials[n].params \in Sound(study)
                                  /\ ValueOf(n) = study.land[study.trials[n].params].value
<1>0. study \in StudySet /\ EndedAreOver(study) /\ TrialsAreTrue(study)
    BY DEF StudyOK
<1>1. \A n \in DOMAIN study.trials :
         /\ study.trials[n].state \in {"RUNNING", "COMPLETE", "PRUNED"}
         /\ study.trials[n].params \in Params
    BY <1>0, StudyTypes DEF TrialSet
<1>2. \A n \in DOMAIN study.trials : study.trials[n].state # "RUNNING"
    BY <1>0 DEF EndedAreOver, Open
<1>3. ASSUME NEW n \in Complete
      PROVE  /\ study.trials[n].params \in Sound(study)
             /\ ValueOf(n) = study.land[study.trials[n].params].value
    <2>1. n \in DOMAIN study.trials /\ study.trials[n].state = "COMPLETE"
        BY DEF Complete
    <2>. QED BY <2>1, <1>0, <1>1 DEF TrialsAreTrue, Sound, ValueOf
<1>4. ASSUME NEW q \in Sound(study)
      PROVE  \E n \in Complete : study.trials[n].params = q /\ ValueOf(n) = study.land[q].value
    <2>1. PICK n \in DOMAIN study.trials : study.trials[n].params = q /\ study.land[q].kind = "ok"
        BY DEF Sound
    <2>2. study.trials[n].state = "COMPLETE"
        BY <2>1, <1>0, <1>1, <1>2 DEF TrialsAreTrue
    <2>3. n \in Complete
        BY <2>2 DEF Complete
    <2>. QED BY <2>1, <2>3, <1>3
<1>. QED BY <1>3, <1>4

LEMMA StudyEnds ==
    ASSUME NEW c, c.patience \in Nat, StudyOK(study, c), Open = {}, Complete # {},
           NEW st2, st2 = [study EXCEPT !.on = FALSE, !.result = {BestParams}]
    PROVE  StudyOK(st2, c) /\ BestParams \in Params
<1>0. /\ study \in StudySet /\ EndedAreOver(study) /\ TrialsAreTrue(study)
    BY DEF StudyOK
<1>1. /\ BestParams \in Sound(study)
      /\ \A q \in Sound(study) : study.land[q].value <= study.land[BestParams].value
    <2>1. BestTrial \in Complete /\ ValueOf(BestTrial) = BestValue
          /\ \A n \in Complete : ValueOf(n) <= BestValue
        BY BestFacts
    <2>. QED BY <2>1, AllAreOver DEF BestParams
<1>2. BestParams \in Params
    BY <1>1 DEF Sound
<1>3. /\ st2.on = FALSE /\ st2.result = {BestParams} /\ st2.land = study.land
      /\ st2.trials = study.trials /\ st2.ended = study.ended /\ st2.told = study.told
      /\ st2.best = study.best /\ st2.stale = study.stale /\ st2.why = study.why
    BY <1>0 DEF StudySet
<1>4. st2 \in StudySet
    BY <1>0, <1>2 DEF StudySet
<1>5. EndedAreOver(st2) /\ TrialsAreTrue(st2)
    BY <1>0, <1>3 DEF EndedAreOver, TrialsAreTrue
<1>6. BestIsSound(st2)
    <2>1. Sound(st2) = Sound(study)
        BY <1>3 DEF Sound
    <2>. QED BY <2>1, <1>1, <1>3 DEF BestIsSound
<1>7. ASSUME OneAtATime(study) PROVE OneAtATime(st2)
    BY <1>3, <1>7 DEF OneAtATime, OpenOf
<1>8. ASSUME CountIsRight(study, c.patience) PROVE CountIsRight(st2, c.patience)
    <2>1. RanOf(st2) = RanOf(study)
        BY <1>3 DEF RanOf
    <2>2. \A i \in RanOf(study) : ValuesOf(st2)[i] = ValuesOf(study)[i]
        BY <2>1, <1>3 DEF ValuesOf
    <2>3. st2.best = study.best /\ st2.stale = study.stale /\ st2.why = study.why
        BY <1>3
    <2>4. SameCount(study, st2)
        BY <2>1, <2>2, <2>3 DEF SameCount
    <2>. QED BY <2>4, <1>0, <1>8, CountStays
<1>. QED BY <1>2, <1>4, <1>5, <1>6, <1>7, <1>8 DEF StudyOK

\* What the invariant says of a study makes it honest.
LEMMA StudyIsBest ==
    ASSUME StudyInv
    PROVE  BestOfTheStudy
<1>. SUFFICES ASSUME study # NoStudy
              PROVE  LET tried == {study.trials[n].params : n \in DOMAIN study.trials}
                         sound == {p \in tried : study.land[p].kind = "ok"}
                     IN  /\ \A p \in study.result :
                               p \in sound
                               /\ \A q \in sound : study.land[q].value <= study.land[p].value
                         /\ StudyOver(call) => (OptimizationFails <=> sound = {})
    BY DEF BestOfTheStudy
<1>0. StudyOK(study, call) /\ study \in StudySet /\ BestIsSound(study)
    BY DEF StudyInv, StudyOK
<1>1. {p \in {study.trials[n].params : n \in DOMAIN study.trials} : study.land[p].kind = "ok"}
        = Sound(study)
    BY <1>0, StudyTypes DEF Sound
<1>2. ASSUME StudyOver(call) PROVE OptimizationFails <=> Sound(study) = {}
    <2>1. Open = {}
        BY <1>2 DEF StudyOver
    <2>. QED BY <2>1, <1>0, AllAreOver DEF OptimizationFails
<1>. QED BY <1>0, <1>1, <1>2 DEF BestIsSound

LEMMA PatienceHolds ==
    ASSUME StudyInv, call \in Callers
    PROVE  PatienceIsKept
<1>. SUFFICES ASSUME study # NoStudy, call.patience > 0, EffectiveJobs(call) = 1
              PROVE  /\ study.why = "patience" => Stagnant(call.patience)
                     /\ study.why = "running" => ~Stagnant(call.patience)
    BY DEF PatienceIsKept
<1> DEFINE k == call.patience
<1>0. StudyOK(study, call) /\ study \in StudySet /\ CountIsRight(study, k) /\ EndedAreOver(study)
    BY DEF StudyInv, StudyOK
<1>1. k \in Nat
    BY CallersAssumption
<1>2. Ran = RanOf(study) /\ \A i \in Ran : ValueAt(i) = ValuesOf(study)[i]
    <2>1. Ran = RanOf(study)
        BY DEF Ran, RanOf, Complete
    <2>. QED BY <2>1 DEF ValueAt, ValueOf, ValuesOf
<1> DEFINE R == RanOf(study)
           v == ValuesOf(study)
           stagnant == \E i \in R : /\ Cardinality({j \in R : j > i}) >= k
                                    /\ \A j \in R : j > i => v[j] <= v[i]
<1>3. Stagnant(k) <=> stagnant
    BY <1>2 DEF Stagnant
<1>4. /\ study.best # NoValue /\ study.stale >= k => stagnant
      /\ study.stale < k => ~stagnant
    <2>1. /\ R \in SUBSET Int /\ IsFiniteSet(R) /\ \A i \in R : v[i] \in Int
          /\ study.best \in Int /\ study.stale \in Nat
          /\ Counted(R, v, study.best, study.stale)
        BY <1>0, RanTypes, StudyTypes DEF CountIsRight
    <2> HIDE DEF R, v, k
    <2>. QED BY <2>1, <1>1, CountTells
<1>. QED BY <1>0, <1>3, <1>4 DEF CountIsRight

-----------------------------------------------------------------------------
(* The rules of walk-forward validation *)

LEMMA FiniteMin ==
    ASSUME NEW S \in SUBSET Int, S # {}, IsFiniteSet(S)
    PROVE  Min(S) \in S /\ \A x \in S : Min(S) <= x
<1> DEFINE T == {-x : x \in S}
<1>1. T \in SUBSET Int /\ T # {}
    <2>1. \A x \in S : -x \in Int
        OBVIOUS
    <2>. QED BY <2>1, Zenon
<1>2. IsFiniteSet(T)
    <2>1. [x \in S |-> -x] \in Surjection(S, T)
        BY DEF Surjection
    <2>. QED BY <2>1, FS_Surjection
<1>3. Max(T) \in T /\ \A y \in T : y <= Max(T)
    BY <1>1, <1>2, FiniteMax
<1>4. PICK m \in S : Max(T) = -m
    BY <1>3
<1>5. \A x \in S : m <= x
    <2> SUFFICES ASSUME NEW x \in S PROVE m <= x
        OBVIOUS
    <2>1. m \in Int /\ x \in Int
        OBVIOUS
    <2>2. -x <= -m
        BY <1>3, <1>4, Zenon
    <2>. QED BY <2>1, <2>2
<1>. QED BY <1>5 DEF Min

LEMMA RoundType ==
    ASSUME NEW a \in Int, NEW b \in Nat, b > 0
    PROVE  Round(a, b) \in Int
<1>1. a \div b \in Int
    OBVIOUS
<1>. QED BY <1>1 DEF Round

\* No fewer trades than the floor are ever asked for.
LEMMA FloorIsKept ==
    ASSUME NEW trades \in Nat, NEW a \in Int, NEW b \in Int
    PROVE  ScaledMinTrades(trades, a, b) \in Int /\ ScaledMinTrades(trades, a, b) >= Floor
<1>1. CASE a <= 0 \/ trades <= 0
    BY <1>1 DEF ScaledMinTrades, Floor, Ceil
<1>2. CASE ~(a <= 0 \/ trades <= 0)
    <2> DEFINE hold == Max({b, 0})
               scaled == Round(trades * hold, a)
               least == Max({Floor, scaled})
    <2>1. hold \in Int
        <3>1. 0 \in Int
            OBVIOUS
        <3>. QED BY <3>1, PairMax, Zenon
    <2>2. trades * hold \in Int
        BY <2>1
    <2>3. scaled \in Int
        BY <1>2, <2>2, RoundType
    <2>4. least \in Int /\ Floor <= least
        <3>1. Floor \in Int
            BY DEF Floor
        <3>. QED BY <2>3, <3>1, PairMax, Zenon
    <2> HIDE DEF hold, scaled, least
    <2>5. Min({Ceil, least}) \in {Ceil, least}
        BY <2>4, PairMin DEF Ceil
    <2>6. ScaledMinTrades(trades, a, b) = Min({Ceil, least})
        BY <1>2 DEF ScaledMinTrades, hold, scaled, least
    <2>. QED BY <2>4, <2>5, <2>6 DEF Ceil, Floor
<1>. QED BY <1>1, <1>2

\* A window only validates on enough usable trades that differ, at no less than
\* the base significance.
LEMMA ValidIsConvincing ==
    ASSUME NEW o \in Outcomes, NEW trades \in Nat, NEW a \in Int, NEW b \in Int,
           Validates(Assess(o, trades, a, b))
    PROVE  Convincing(o)
<1> DEFINE least == ScaledMinTrades(trades, a, b)
           basis == Basis(o, least)
<1>1. least \in Int /\ least >= Floor
    BY FloorIsKept
<1>2. /\ o.trades \in Nat /\ o.usable \in Nat /\ o.t \in Int /\ o.sharpe \in Int
      /\ TCritical[Max({1, o.usable - 1})] \in Int
    BY OutcomesAssumption
<1>3. Validates(ConfidenceTier(o, basis))
    BY DEF Assess
<1> HIDE DEF least
<1>4. basis = "per_trade" /\ Validates(TradeTier(o))
    BY <1>3 DEF ConfidenceTier, Validates
<1>5. o.usable >= least /\ o.spread
    BY <1>4, Zenon DEF Basis
<1>6. /\ Max({ValidateT, TCritical[Max({1, o.usable - 1})]}) \in Int
      /\ ValidateT <= Max({ValidateT, TCritical[Max({1, o.usable - 1})]})
    <2>1. ValidateT \in Int
        BY DEF ValidateT
    <2>. QED BY <1>2, <2>1, PairMax, Zenon
<1>7. o.sharpe >= 0 /\ o.t >= ValidateT
    <2> DEFINE tc == Max({ValidateT, TCritical[Max({1, o.usable - 1})]})
    <2>1. tc \in Int
        BY <1>6
    <2>2. \/ o.sharpe >= 0 /\ o.t >= StrongT
          \/ o.sharpe > 0 /\ o.t >= tc
        <3> HIDE DEF tc
        <3>. QED BY <1>2, <1>4 DEF TradeTier, Validates, tc
    <2> HIDE DEF tc
    <2>3. ValidateT <= tc
        BY <1>6 DEF tc
    <2>. QED BY <1>2, <2>1, <2>2, <2>3 DEF StrongT, ValidateT
<1>8. o.usable >= Floor
    BY <1>1, <1>2, <1>5 DEF Floor
<1>. QED BY <1>5, <1>7, <1>8, Zenon DEF Convincing

LEMMA SplitsAreWindows ==
    /\ Len(Splits) \in Nat /\ (Splits = <<>> <=> Len(Splits) = 0)
    /\ \A i \in 1..Len(Splits) :
          /\ Splits[i].train \in SUBSET Days /\ Splits[i].train # {}
          /\ Splits[i].test \in SUBSET Days /\ Splits[i].test # {}
<1> DEFINE first == Min(Days)
           count == IF first + Train > Max(Days) THEN 0
                    ELSE (Max(Days) - first - Train) \div Step + 1
           Split(k) == LET cut == first + (k - 1) * Step + Train
                       IN  [train |-> {d \in Days : cut - Train <= d /\ d < cut},
                            test |-> {d \in Days : cut <= d /\ d < cut + Test}]
           kept == {k \in 1..count : Split(k).train # {} /\ Split(k).test # {}}
           Rank(i) == CHOOSE k \in kept : Cardinality({j \in kept : j <= k}) = i
<1>1. Splits = [i \in 1..Cardinality(kept) |-> Split(Rank(i))]
    BY DEF Splits, Windows
<1>2. count \in Nat
    <2>1. first \in Int /\ Max(Days) \in Int
        BY SplitsAssumption, FiniteMax, FiniteMin
    <2> HIDE DEF first
    <2>2. CASE first + Train > Max(Days)
        BY <2>2
    <2>3. CASE ~(first + Train > Max(Days))
        <3>1. (Max(Days) - first) - Train \in Nat /\ Step \in Nat /\ Step > 0
            BY <2>1, <2>3, SplitsAssumption
        <3>2. ((Max(Days) - first) - Train) \div Step \in Nat
            BY <3>1
        <3>. QED BY <2>3, <3>2
    <2>. QED BY <2>2, <2>3
<1>3. \A k \in kept : /\ Split(k).train \in SUBSET Days /\ Split(k).train # {}
                      /\ Split(k).test \in SUBSET Days /\ Split(k).test # {}
    <2>1. \A k : Split(k).train \in SUBSET Days /\ Split(k).test \in SUBSET Days
        OBVIOUS
    <2> HIDE DEF Split
    <2>. QED BY <2>1
<1> HIDE DEF count, Split
<1>4. kept \in SUBSET Nat /\ IsFiniteSet(kept)
    <2>1. IsFiniteSet(1..count) /\ 1..count \subseteq Nat
        BY <1>2, FS_Interval
    <2>2. kept \subseteq 1..count
        BY Zenon
    <2>. QED BY <2>1, <2>2, FS_Subset
<1> HIDE DEF kept
<1>5. Cardinality(kept) \in Nat
    BY <1>4, FS_CardinalityType
<1>6. \A i \in 1..Cardinality(kept) : Rank(i) \in kept
    BY <1>4, Ranked
<1> HIDE DEF Rank
<1>7. Len(Splits) = Cardinality(kept) /\ DOMAIN Splits = 1..Cardinality(kept)
    BY <1>1, <1>5
<1>8. Splits = <<>> <=> Len(Splits) = 0
    BY <1>1, <1>5, <1>7
<1>9. \A i \in 1..Len(Splits) : Splits[i] = Split(Rank(i))
    BY <1>1, <1>7
<1>. QED BY <1>3, <1>5, <1>6, <1>7, <1>8, <1>9

LEMMA SpanType ==
    ASSUME NEW days \in SUBSET Days, days # {}
    PROVE  Span(days) \in Int
<1>1. days \in SUBSET Int /\ IsFiniteSet(days)
    BY SplitsAssumption, FS_Subset
<1>2. Max(days) \in Int /\ Min(days) \in Int
    BY <1>1, FiniteMax, FiniteMin
<1>3. Max(days) - Min(days) \in Int /\ 1 \in Int
    BY <1>2
<1>. QED BY <1>3, PairMax, Zenon DEF Span

-----------------------------------------------------------------------------
(* The inductive invariant: what the pipeline knows *)

SymbolSet == {Symbols[i] : i \in DOMAIN Symbols}
FetchErrors == {[symbol |-> s] : s \in SymbolSet}

\* The combination k of the symbols d with data.
PairOf(d, k) == [symbol |-> d[(k - 1) \div Len(Strategies) + 1],
                 strategy |-> Strategies[((k - 1) % Len(Strategies)) + 1]]

\* Its strategy can be resolved; what an error report calls it.
Resolved(d, k) == PairOf(d, k).strategy \in Known
ContextOf(d, k) == IF Resolved(d, k) THEN PairOf(d, k)
                   ELSE [strategy |-> PairOf(d, k).strategy]

DataOK(c, a, d, k, ph) ==
    /\ c \in Callers /\ a \in 0..Len(Symbols)
    /\ k \in Nat /\ k <= Len(d) * Len(Strategies)
    /\ d \in Seq(SymbolSet) /\ \A i, j \in DOMAIN d : d[i] = d[j] => i = j
    /\ ph = "fetch" => \A i \in DOMAIN d : \E j \in 1..a : d[i] = Symbols[j]
    /\ ph \in {"fetch", "no_data"} => k = 0
    /\ ph \in {"study", "saving"} => k > 0

WindowSet == [index : Nat, shown : Outcomes, valid : BOOLEAN]

WindowsOK(ws, lost, c, ph) ==
    /\ ws \in Seq(WindowSet) /\ lost \in Nat
    /\ \A i, j \in DOMAIN ws : ws[i].index = ws[j].index => i = j
    /\ \A i \in DOMAIN ws : /\ ws[i].index <= Len(ws) + lost
                            /\ ws[i].valid = TRUE => Convincing(ws[i].shown)
    /\ c.mode = "walk_forward" =>
          /\ ph = "study" => Len(ws) + lost < Len(Splits)
          /\ ph = "saving" => Len(ws) + lost = Len(Splits)

RowSet ==
    [combo : Nat, kind : {"best", "summary", "train", "test"}, window : Params \cup Nat,
     validated : {"yes", "no", "none"}]

RowsOf(rs, k) == {r \in rs : r.combo = k}
ToSave(un) == UNION {un[i] : i \in DOMAIN un}

\* Each element of a walk-forward save is one row nobody has stored yet.
WindowsAreSaved(un, rs, k, ws, lost, c) ==
    /\ IsFiniteSet(RowsOf(rs, k))
    /\ Cardinality(RowsOf(rs, k)) + Len(un) = 2 * Len(ws)
    /\ \A i \in DOMAIN un : \E r \in un[i] : un[i] = {r} /\ r \notin rs
    /\ \A i, j \in DOMAIN un : un[i] = un[j] => i = j
    /\ c.caller = "cli" => \A r \in RowsOf(rs, k) \cup ToSave(un) :
                              (r.validated = "yes") = Verdict(ws, lost)

SavingOK(un, rs, k, ws, lost, c, ph) ==
    /\ un \in Seq(SUBSET RowSet)
    /\ ph = "study" => RowsOf(rs, k) = {}
    /\ ph = "saving" =>
          /\ \A r \in ToSave(un) : r.combo = k
          /\ c.mode = "optimize" => \E r \in RowsOf(rs, k) \cup ToSave(un) : r.kind = "best"
          /\ c.mode = "walk_forward" => WindowsAreSaved(un, rs, k, ws, lost, c)

ResultSet == [combo : Nat, evaluated : Nat, validated : BOOLEAN]

ReportedIn(res) == {res[i].combo : i \in DOMAIN res}
FailedIn(errs, d, k) == {j \in 1..k : ContextOf(d, j) \in errs}

\* The combinations that are over.
Settled(k, ph) == IF ph \in {"study", "saving"} THEN k - 1 ELSE k

LedgerOK(res, errs, d, k, ph) ==
    /\ res \in Seq(ResultSet)
    /\ errs \subseteq {ContextOf(d, j) : j \in 1..k} \cup FetchErrors
    /\ \A j \in 1..k : ~Resolved(d, j) => ContextOf(d, j) \in errs
    /\ ph # "aborted" =>
          /\ ReportedIn(res) \cup FailedIn(errs, d, k) = 1..Settled(k, ph)
          /\ ReportedIn(res) \cap FailedIn(errs, d, k) = {}

BackedBy(x, rs, c) ==
    IF c.mode = "optimize" THEN \E r \in RowsOf(rs, x.combo) : r.kind = "best"
    ELSE /\ Cardinality(RowsOf(rs, x.combo)) = 2 * x.evaluated
         /\ c.caller = "cli" =>
               \A r \in RowsOf(rs, x.combo) : (r.validated = "yes") = x.validated

RowsOK(res, rs, c, k) ==
    /\ rs \subseteq RowSet /\ \A r \in rs : r.combo \in 1..k
    /\ \A i \in DOMAIN res : BackedBy(res[i], rs, c)

MajorityOK(res, k, c, ws, ph) ==
    c.mode = "walk_forward" /\ ph = "next" /\ res # <<>> /\ res[Len(res)].combo = k
        /\ res[Len(res)].validated =>
            2 * Cardinality({i \in DOMAIN ws : Convincing(ws[i].shown)}) > Len(Splits)

PipelineInv ==
    /\ DataOK(call, asked, data, combo, phase)
    /\ StudyInv /\ (phase = "study" => study # NoStudy /\ study.on = TRUE)
    /\ WindowsOK(windows, crashed, call, phase)
    /\ SavingOK(unsaved, rows, combo, windows, crashed, call, phase)
    /\ LedgerOK(results, errors, data, combo, phase)
    /\ RowsOK(results, rows, call, combo)
    /\ MajorityOK(results, combo, call, windows, phase)

-----------------------------------------------------------------------------
(* Combinations *)

LEMMA Quotient ==
    ASSUME NEW n \in Nat, n > 0, NEW m \in Nat, NEW a \in Nat, a < m * n
    PROVE  /\ a \div n \in Nat /\ a \div n < m
           /\ a % n \in Nat /\ a % n < n
<1> DEFINE q == a \div n
           r == a % n
<1>1. q \in Int /\ r \in 0..(n - 1) /\ a = n * q + r
    OBVIOUS
<1> HIDE DEF q, r
<1>2. q >= 0
    <2> SUFFICES ASSUME q <= -1 PROVE FALSE
        BY <1>1
    <2>1. n * q <= n * (-1)
        BY <1>1
    <2>. QED BY <2>1, <1>1
<1>3. q < m
    <2> SUFFICES ASSUME m <= q PROVE FALSE
        BY <1>1
    <2>1. n * m <= n * q
        BY <1>1
    <2>2. m * n = n * m
        OBVIOUS
    <2>. QED BY <2>1, <2>2, <1>1
<1>4. q \in Nat /\ q < m /\ r \in Nat /\ r < n
    BY <1>1, <1>2, <1>3
<1>5. a \div n = q /\ a % n = r
    BY DEF q, r
<1>. QED BY <1>4, <1>5

LEMMA QuotientTells ==
    ASSUME NEW n \in Nat, n > 0, NEW a \in Nat, NEW b \in Nat,
           a \div n = b \div n, a % n = b % n
    PROVE  a = b
OBVIOUS

LEMMA NamesFacts ==
    /\ Len(Symbols) \in Nat /\ DOMAIN Symbols = 1..Len(Symbols) /\ Len(Symbols) > 0
    /\ Len(Strategies) \in Nat /\ DOMAIN Strategies = 1..Len(Strategies)
    /\ \A i \in DOMAIN Symbols : Symbols[i] \in SymbolSet
BY NamesAssumption DEF SymbolSet

\* Each combination has a name of its own.
LEMMA PairsDiffer ==
    ASSUME NEW d \in Seq(SymbolSet), \A i, j \in DOMAIN d : d[i] = d[j] => i = j,
           NEW k \in Nat \ {0}, NEW l \in Nat \ {0},
           k <= Len(d) * Len(Strategies), l <= Len(d) * Len(Strategies)
    PROVE  PairOf(d, k) = PairOf(d, l) => k = l
<1> DEFINE n == Len(Strategies)
           m == Len(d)
<1>1. n \in Nat /\ m \in Nat /\ n > 0
    <2>1. n \in Nat /\ m \in Nat
        BY NamesFacts
    <2>2. n # 0
        <3> SUFFICES ASSUME n = 0 PROVE FALSE
            OBVIOUS
        <3>1. m * n = 0
            BY <2>1
        <3>. QED BY <3>1
    <2>. QED BY <2>1, <2>2
<1>2. /\ DOMAIN d = 1..m /\ DOMAIN Strategies = 1..n
      /\ \A i, j \in DOMAIN Strategies : Strategies[i] = Strategies[j] => i = j
    BY NamesFacts, NamesAssumption
<1>3. k - 1 \in Nat /\ k - 1 < m * n /\ l - 1 \in Nat /\ l - 1 < m * n
    <2>1. m * n \in Nat
        BY <1>1
    <2>. QED BY <2>1
<1> HIDE DEF n, m
<1>4. /\ (k - 1) \div n \in Nat /\ (k - 1) \div n < m /\ (k - 1) % n \in Nat
      /\ (k - 1) % n < n
    BY <1>1, <1>3, Quotient
<1>5. /\ (l - 1) \div n \in Nat /\ (l - 1) \div n < m /\ (l - 1) % n \in Nat
      /\ (l - 1) % n < n
    BY <1>1, <1>3, Quotient
<1>6. ASSUME PairOf(d, k) = PairOf(d, l) PROVE k = l
    <2>1. /\ d[(k - 1) \div n + 1] = d[(l - 1) \div n + 1]
          /\ Strategies[((k - 1) % n) + 1] = Strategies[((l - 1) % n) + 1]
        BY <1>6 DEF PairOf, n
    <2>2. (k - 1) \div n + 1 \in DOMAIN d /\ (l - 1) \div n + 1 \in DOMAIN d
        BY <1>1, <1>2, <1>4, <1>5
    <2>3. ((k - 1) % n) + 1 \in DOMAIN Strategies /\ ((l - 1) % n) + 1 \in DOMAIN Strategies
        BY <1>1, <1>2, <1>4, <1>5
    <2>4. (k - 1) \div n + 1 = (l - 1) \div n + 1
        BY <2>1, <2>2
    <2>5. ((k - 1) % n) + 1 = ((l - 1) % n) + 1
        BY <1>2, <2>1, <2>3
    <2>6. (k - 1) \div n = (l - 1) \div n /\ (k - 1) % n = (l - 1) % n
        <3> DEFINE q1 == (k - 1) \div n
                   q2 == (l - 1) \div n
                   r1 == (k - 1) % n
                   r2 == (l - 1) % n
        <3>1. q1 \in Nat /\ q2 \in Nat /\ r1 \in Nat /\ r2 \in Nat
              /\ q1 + 1 = q2 + 1 /\ r1 + 1 = r2 + 1
            BY <1>4, <1>5, <2>4, <2>5
        <3> HIDE DEF q1, q2, r1, r2
        <3>2. q1 = q2 /\ r1 = r2
            BY <3>1
        <3>. QED BY <3>2 DEF q1, q2, r1, r2
    <2>7. k - 1 = l - 1
        BY <1>1, <1>3, <2>6, QuotientTells
    <2>. QED BY <2>7
<1>. QED BY <1>6

\* An error is not a symbol's, and is the combination's own if its strategy
\* can be resolved.
LEMMA ContextsDiffer ==
    ASSUME NEW d \in Seq(SymbolSet), \A i, j \in DOMAIN d : d[i] = d[j] => i = j,
           NEW k \in Nat \ {0}, NEW l \in Nat \ {0},
           k <= Len(d) * Len(Strategies), l <= Len(d) * Len(Strategies)
    PROVE  /\ Resolved(d, k) /\ ContextOf(d, l) = ContextOf(d, k) => l = k
           /\ ContextOf(d, k) \notin FetchErrors
<1>1. /\ DOMAIN PairOf(d, k) = {"symbol", "strategy"}
      /\ DOMAIN PairOf(d, l) = {"symbol", "strategy"}
    BY DEF PairOf
<1>2. /\ ~Resolved(d, k) => DOMAIN ContextOf(d, k) = {"strategy"}
      /\ ~Resolved(d, l) => DOMAIN ContextOf(d, l) = {"strategy"}
      /\ Resolved(d, k) => ContextOf(d, k) = PairOf(d, k)
      /\ Resolved(d, l) => ContextOf(d, l) = PairOf(d, l)
    BY DEF ContextOf
<1>3. ASSUME Resolved(d, k), ContextOf(d, l) = ContextOf(d, k) PROVE l = k
    <2>1. Resolved(d, l)
        BY <1>1, <1>2, <1>3
    <2>2. PairOf(d, k) = PairOf(d, l)
        BY <1>2, <1>3, <2>1
    <2>. QED BY <2>2, PairsDiffer
<1>4. ContextOf(d, k) \notin FetchErrors
    <2>1. "strategy" \in DOMAIN ContextOf(d, k)
        BY <1>1, <1>2
    <2>2. \A e \in FetchErrors : "strategy" \notin DOMAIN e
        BY DEF FetchErrors
    <2>. QED BY <2>1, <2>2
<1>. QED BY <1>3, <1>4

LEMMA PairIs == \A k : Pair(k) = PairOf(data, k) /\ Context(k) = ContextOf(data, k)
BY DEF Pair, PairOf, Context, ContextOf, Resolved

-----------------------------------------------------------------------------
(* The steps of the pipeline *)

LEMMA ReportedTypes ==
    ASSUME NEW res \in Seq(ResultSet), NEW errs, NEW d, NEW k \in Nat, NEW ph, ph # "aborted",
           LedgerOK(res, errs, d, k, ph)
    PROVE  /\ \A i \in DOMAIN res : res[i].combo \in 1..Settled(k, ph)
           /\ Settled(k, ph) = 0 => res = <<>>
           /\ Settled(k, ph) \in Int /\ Settled(k, ph) <= k
<1>1. \A i \in DOMAIN res : res[i].combo \in ReportedIn(res)
    BY DEF ReportedIn
<1>2. \A i \in DOMAIN res : res[i].combo \in 1..Settled(k, ph)
    BY <1>1 DEF LedgerOK
<1>3. Settled(k, ph) \in Int /\ Settled(k, ph) <= k
    BY DEF Settled
<1>4. ASSUME Settled(k, ph) = 0 PROVE res = <<>>
    <2>1. DOMAIN res = {}
        BY <1>2, <1>4
    <2>. QED BY <2>1
<1>. QED BY <1>2, <1>3, <1>4

\* A change of phase between combinations, or the end of the program.
LEMMA PhaseMoves ==
    ASSUME PipelineInv, phase # "aborted",
           UNCHANGED <<study, call, asked, data, combo, windows, crashed, unsaved, rows,
                       results, errors>>,
           phase' \notin {"study", "saving", "fetch"},
           phase \notin {"study", "saving"} \/ phase' = "aborted",
           phase' = "no_data" => phase = "fetch", phase' = "next" => phase \in {"next", "fetch"}
    PROVE  PipelineInv'
<1>1. DataOK(call, asked, data, combo, phase)'
    <2>1. DataOK(call, asked, data, combo, phase) /\ data' = data /\ combo' = combo
          /\ call' = call /\ asked' = asked
        BY DEF PipelineInv
    <2>. QED BY <2>1 DEF DataOK
<1>2. StudyInv' /\ phase' # "study"
    BY DEF PipelineInv, StudyInv
<1>3. WindowsOK(windows, crashed, call, phase)'
    <2>1. WindowsOK(windows, crashed, call, phase)
        BY DEF PipelineInv
    <2>2. WindowsOK(windows, crashed, call, phase')
        BY <2>1 DEF WindowsOK
    <2>. QED BY <2>2
<1>4. SavingOK(unsaved, rows, combo, windows, crashed, call, phase)'
    <2>1. SavingOK(unsaved, rows, combo, windows, crashed, call, phase)
        BY DEF PipelineInv
    <2>2. SavingOK(unsaved, rows, combo, windows, crashed, call, phase')
        BY <2>1 DEF SavingOK
    <2>. QED BY <2>2
<1>5. LedgerOK(results, errors, data, combo, phase)'
    <2>1. LedgerOK(results, errors, data, combo, phase)
        BY DEF PipelineInv
    <2>2. LedgerOK(results, errors, data, combo, phase')
        BY <2>1 DEF LedgerOK, Settled
    <2>. QED BY <2>2
<1>6. RowsOK(results, rows, call, combo)'
    BY DEF PipelineInv
<1>7. MajorityOK(results, combo, call, windows, phase)'
    <2>1. CASE phase' # "next"
        BY <2>1 DEF MajorityOK
    <2>2. CASE phase' = "next" /\ phase = "next"
        BY <2>2 DEF PipelineInv
    <2>3. CASE phase' = "next" /\ phase = "fetch"
        <3>1. combo = 0 /\ combo \in Nat /\ results \in Seq(ResultSet)
              /\ LedgerOK(results, errors, data, combo, phase)
            BY <2>3 DEF PipelineInv, DataOK, LedgerOK
        <3>2. Settled(combo, phase) = 0
            BY <2>3, <3>1 DEF Settled
        <3>3. results' = <<>>
            BY <3>1, <3>2, ReportedTypes
        <3>. QED BY <3>3 DEF MajorityOK
    <2>. QED BY <2>1, <2>2, <2>3
<1>. QED BY <1>1, <1>2, <1>3, <1>4, <1>5, <1>6, <1>7 DEF PipelineInv

LEMMA SigintStep ==
    ASSUME PipelineInv, HandleSigint
    PROVE  PipelineInv'
<1>1. CASE phase' = "aborted"
    <2>1. phase # "aborted"
        BY DEF HandleSigint, Live
    <2>. QED BY <1>1, <2>1, PhaseMoves DEF HandleSigint
<1>2. CASE phase' = phase
    BY <1>2 DEF HandleSigint, PipelineInv, StudyInv
<1>. QED BY <1>1, <1>2 DEF HandleSigint

LEMMA FetchedStep == ASSUME PipelineInv, Fetched PROVE PipelineInv'
<1>1. phase = "fetch" /\ phase' \in {"no_data", "next"}
    BY DEF Fetched
<1>. QED BY <1>1, PhaseMoves DEF Fetched

LEMMA LoopEndsStep == ASSUME PipelineInv, LoopEnds PROVE PipelineInv'
<1>1. phase = "next" /\ phase' \in {"summary", "printed"}
    BY DEF LoopEnds
<1>. QED BY <1>1, PhaseMoves DEF LoopEnds, Quiet

LEMMA PrintSummaryStep == ASSUME PipelineInv, PrintSummary PROVE PipelineInv'
<1>1. phase = "summary" /\ phase' \in {"crashed", "printed"}
    BY DEF PrintSummary
<1>. QED BY <1>1, PhaseMoves DEF PrintSummary, Quiet

LEMMA FetchStep ==
    ASSUME PipelineInv, NEW found \in {"data", "empty", "error"}, Fetch(found)
    PROVE  PipelineInv'
<1>1. /\ phase = "fetch" /\ asked < Len(Symbols) /\ asked' = asked + 1
      /\ call' = call /\ phase' = phase /\ combo' = combo /\ study' = study
      /\ windows' = windows /\ crashed' = crashed /\ unsaved' = unsaved /\ rows' = rows
      /\ results' = results
    BY DEF Fetch
<1>2. /\ call \in Callers /\ asked \in 0..Len(Symbols) /\ combo = 0
      /\ data \in Seq(SymbolSet) /\ \A i, j \in DOMAIN data : data[i] = data[j] => i = j
      /\ \A i \in DOMAIN data : \E j \in 1..asked : data[i] = Symbols[j]
    BY <1>1 DEF PipelineInv, DataOK
<1> DEFINE s == Symbols[asked + 1]
<1>3. /\ s \in SymbolSet /\ asked \in Nat /\ asked + 1 \in 1..Len(Symbols)
      /\ \A j \in 1..asked : s # Symbols[j]
    <2>1. /\ Len(Symbols) \in Nat /\ DOMAIN Symbols = 1..Len(Symbols)
          /\ \A i \in DOMAIN Symbols : Symbols[i] \in SymbolSet
          /\ \A i, j \in DOMAIN Symbols : Symbols[i] = Symbols[j] => i = j
        BY NamesFacts, NamesAssumption
    <2>2. asked + 1 \in DOMAIN Symbols /\ asked \in Nat
        BY <1>1, <1>2, <2>1
    <2>3. \A j \in 1..asked : j \in DOMAIN Symbols /\ j # asked + 1
        BY <1>1, <1>2, <2>1
    <2>. QED BY <2>1, <2>2, <2>3
<1>4. data' = (IF found = "data" THEN Append(data, s) ELSE data)
      /\ errors' = (IF found = "error" THEN errors \cup {[symbol |-> s]} ELSE errors)
    BY DEF Fetch
<1> HIDE DEF s
<1>5. DataOK(call, asked, data, combo, phase)'
    <2>1. /\ data' \in Seq(SymbolSet)
          /\ \A i, j \in DOMAIN data' : data'[i] = data'[j] => i = j
          /\ \A i \in DOMAIN data' : \E j \in 1..asked' : data'[i] = Symbols[j]
        <3>1. CASE found = "data"
            <4>1. /\ data' = Append(data, s) /\ Len(data) \in Nat
                  /\ DOMAIN data = 1..Len(data) /\ DOMAIN data' = 1..(Len(data) + 1)
                  /\ \A i \in DOMAIN data : data'[i] = data[i]
                  /\ data'[Len(data) + 1] = s /\ data' \in Seq(SymbolSet)
                BY <3>1, <1>2, <1>3, <1>4
            <4>2. \A i \in DOMAIN data : data[i] # s
                BY <1>2, <1>3
            <4>3. \A i \in DOMAIN data' : i \in DOMAIN data \/ i = Len(data) + 1
                BY <4>1
            <4>4. \A i, j \in DOMAIN data' : data'[i] = data'[j] => i = j
                BY <4>1, <4>2, <4>3, <1>2
            <4>5. \A i \in DOMAIN data' : \E j \in 1..asked' : data'[i] = Symbols[j]
                <5>1. \A j \in 1..asked : j \in 1..asked'
                    BY <1>1, <1>3
                <5>2. asked + 1 \in 1..asked' /\ s = Symbols[asked + 1]
                    BY <1>1, <1>3 DEF s
                <5>. QED BY <4>1, <4>3, <5>1, <5>2, <1>2
            <4>. QED BY <4>1, <4>4, <4>5
        <3>2. CASE found # "data"
            <4>1. data' = data
                BY <3>2, <1>4
            <4>2. \A j \in 1..asked : j \in 1..asked'
                BY <1>1, <1>3
            <4>. QED BY <4>1, <4>2, <1>2
        <3>. QED BY <3>1, <3>2
    <2>2. asked' \in 0..Len(Symbols)
        BY <1>1, <1>3
    <2>3. combo' <= Len(data') * Len(Strategies)
        <3>1. Len(data') \in Nat /\ Len(Strategies) \in Nat
            BY <2>1, NamesFacts
        <3>2. Len(data') * Len(Strategies) \in Nat
            BY <3>1
        <3>. QED BY <3>2, <1>1, <1>2
    <2>. QED BY <2>1, <2>2, <2>3, <1>1, <1>2 DEF DataOK
<1>6. LedgerOK(results, errors, data, combo, phase)'
    <2>1. LedgerOK(results, errors, data, combo, phase)
        BY DEF PipelineInv
    <2>2. \A e \in errors' : e \in errors \/ e \in FetchErrors
        BY <1>3, <1>4 DEF FetchErrors
    <2>3. \A e \in errors : e \in FetchErrors
        BY <2>1, <1>2 DEF LedgerOK
    <2>4. errors' \subseteq FetchErrors
        BY <2>2, <2>3
    <2>5. \A e, d : FailedIn(e, d, 0) = {}
        BY DEF FailedIn
    <2>. QED BY <2>1, <2>4, <2>5, <1>1, <1>2 DEF LedgerOK
<1>7. /\ StudyInv' /\ phase' # "study"
      /\ WindowsOK(windows, crashed, call, phase)'
      /\ SavingOK(unsaved, rows, combo, windows, crashed, call, phase)'
      /\ RowsOK(results, rows, call, combo)'
      /\ MajorityOK(results, combo, call, windows, phase)'
    BY <1>1 DEF PipelineInv, StudyInv
<1>. QED BY <1>5, <1>6, <1>7 DEF PipelineInv

LEMMA StudyStepKeeps == ASSUME PipelineInv, StudyStep PROVE PipelineInv'
<1>1. /\ phase = "study" /\ study # NoStudy /\ study.on = TRUE
      /\ StudyOK(study, call) /\ call \in Callers
    BY DEF StudyStep, PipelineInv, StudyInv, DataOK
<1>2. call.patience \in Nat /\ study \in StudySet /\ study.result = {}
    BY <1>1, CallersAssumption DEF StudyOK, BestIsSound
<1>3. UNCHANGED <<call, asked, data, phase, combo, windows, crashed, unsaved, rows, results,
                  errors>>
    BY DEF StudyStep, Quiet
<1>4. StudyOK(study', call) /\ study'.on = study.on
    <2>1. CASE Ask(call)
        <3>1. PICK p \in Params :
                 study' = [study EXCEPT !.trials =
                             Append(@, [params |-> p, state |-> "RUNNING", value |-> NoValue])]
            BY <2>1 DEF Ask
        <3>2. study.why = "running" /\ Cardinality(OpenOf(study)) < EffectiveJobs(call)
            BY <2>1 DEF Ask, Open, OpenOf
        <3>. QED BY <3>1, <3>2, <1>1, <1>2, AskKeeps
    <2>2. CASE TimeOut(call)
        <3>1. study' = [study EXCEPT !.why = "timeout"]
            BY <2>2 DEF TimeOut
        <3>. QED BY <3>1, <1>1, <1>2, TimeOutKeeps
    <2>3. ASSUME NEW n \in DOMAIN study.trials, Tell(n)
          PROVE  StudyOK(study', call) /\ study'.on = study.on
        <3>1. /\ study.trials[n].state = "RUNNING"
              /\ study' = [study EXCEPT !.trials[n] = Objective(study.trials[n].params,
                                                    study.land[study.trials[n].params]),
                                        !.ended = Append(@, n)]
            BY <2>3 DEF Tell
        <3>. QED BY <3>1, <1>1, <1>2, TellKeeps
    <2>4. ASSUME NEW n \in DOMAIN study.trials, Callback(call, n)
          PROVE  StudyOK(study', call) /\ study'.on = study.on
        <3>1. n \in Open /\ study.trials[n].state # "RUNNING" /\ study' = EarlyStop(call, n)
            BY <2>4 DEF Callback, CallbackDue
        <3>. QED BY <3>1, <1>1, <1>2, CallbackKeeps
    <2>. QED BY <2>1, <2>2, <2>3, <2>4 DEF StudyStep
<1>5. study' # NoStudy
    <2>1. NoStudy.on = FALSE
        BY DEF NoStudy
    <2>. QED BY <2>1, <1>1, <1>4
<1>. QED BY <1>1, <1>3, <1>4, <1>5 DEF PipelineInv, StudyInv

\* A failure ends the combination: it becomes an error, and what is stored stays.
LEMMA ComboFailsStep ==
    ASSUME PipelineInv, phase \in {"study", "saving"}, ComboFails
    PROVE  PipelineInv'
<1>1. /\ phase' = "next" /\ errors' = errors \cup {PairOf(data, combo)}
      /\ call' = call /\ asked' = asked /\ data' = data /\ combo' = combo /\ study' = NoStudy
      /\ windows' = windows /\ crashed' = crashed /\ unsaved' = <<>> /\ rows' = rows
      /\ results' = results
    BY PairIs DEF ComboFails, Quiet, Current
<1>2. /\ DataOK(call, asked, data, combo, phase) /\ LedgerOK(results, errors, data, combo, phase)
      /\ WindowsOK(windows, crashed, call, phase) /\ RowsOK(results, rows, call, combo)
    BY DEF PipelineInv
<1>3. combo \in Nat \ {0}
    BY <1>2 DEF DataOK
<1>3a. Resolved(data, combo) /\ ContextOf(data, combo) = PairOf(data, combo)
    <2>1. combo \in 1..combo /\ combo \notin 1..(combo - 1)
        BY <1>3
    <2>2. FailedIn(errors, data, combo) \subseteq 1..(combo - 1)
        BY <1>2 DEF LedgerOK, Settled
    <2>3. ContextOf(data, combo) \notin errors
        BY <2>1, <2>2 DEF FailedIn
    <2>. QED BY <2>1, <2>3, <1>2 DEF LedgerOK, ContextOf
<1>4. DataOK(call, asked, data, combo, phase)'
    <2>1. DataOK(call, asked, data, combo, "next")
        BY <1>2 DEF DataOK
    <2>. QED BY <2>1, <1>1
<1>5. StudyInv' /\ phase' # "study"
    BY <1>1 DEF StudyInv
<1>6. WindowsOK(windows, crashed, call, phase)'
    <2>1. WindowsOK(windows, crashed, call, "next")
        BY <1>2 DEF WindowsOK
    <2>. QED BY <2>1, <1>1
<1>7. SavingOK(unsaved, rows, combo, windows, crashed, call, phase)'
    <2>1. SavingOK(<<>>, rows, combo, windows, crashed, call, "next")
        BY DEF SavingOK
    <2>. QED BY <2>1, <1>1
<1>8. results \in Seq(ResultSet) /\ Settled(combo, phase) = combo - 1
    BY <1>2 DEF LedgerOK, Settled
<1>9. \A i \in DOMAIN results : results[i].combo \in 1..(combo - 1)
    BY <1>2, <1>3, <1>8, ReportedTypes
<1>10. LedgerOK(results, errors, data, combo, phase)'
    <2> DEFINE errs == errors \cup {PairOf(data, combo)}
    <2>1. /\ errors \subseteq {ContextOf(data, j) : j \in 1..combo} \cup FetchErrors
          /\ \A j \in 1..combo : ~Resolved(data, j) => ContextOf(data, j) \in errors
          /\ ReportedIn(results) \cup FailedIn(errors, data, combo) = 1..(combo - 1)
          /\ ReportedIn(results) \cap FailedIn(errors, data, combo) = {}
        BY <1>2, <1>8 DEF LedgerOK
    <2>2. FailedIn(errs, data, combo) = FailedIn(errors, data, combo) \cup {combo}
        <3>1. /\ data \in Seq(SymbolSet) /\ \A i, j \in DOMAIN data : data[i] = data[j] => i = j
              /\ combo <= Len(data) * Len(Strategies)
            BY <1>2 DEF DataOK
        <3>2. Len(data) * Len(Strategies) \in Nat
            BY <3>1, NamesFacts
        <3>3. ASSUME NEW j \in 1..combo, ContextOf(data, j) = PairOf(data, combo)
              PROVE  j = combo
            <4>1. j \in Nat \ {0} /\ j <= Len(data) * Len(Strategies)
                BY <1>3, <3>1, <3>2
            <4>. QED BY <4>1, <1>3, <1>3a, <3>1, <3>3, ContextsDiffer
        <3>4. combo \in 1..combo
            BY <1>3
        <3>. QED BY <3>3, <3>4, <1>3a DEF FailedIn
    <2>3. /\ errs \subseteq {ContextOf(data, j) : j \in 1..combo} \cup FetchErrors
          /\ \A j \in 1..combo : ~Resolved(data, j) => ContextOf(data, j) \in errs
        <3>1. combo \in 1..combo
            BY <1>3
        <3>. QED BY <3>1, <2>1, <1>3a
    <2>4. combo \notin ReportedIn(results) /\ 1..combo = 1..(combo - 1) \cup {combo}
        <3>1. combo \notin 1..(combo - 1) /\ 1..combo = 1..(combo - 1) \cup {combo}
            BY <1>3
        <3>. QED BY <3>1, <2>1
    <2>5. /\ ReportedIn(results) \cup FailedIn(errs, data, combo) = 1..combo
          /\ ReportedIn(results) \cap FailedIn(errs, data, combo) = {}
        <3> HIDE DEF errs
        <3>. QED BY <2>1, <2>2, <2>4
    <2>6. LedgerOK(results, errs, data, combo, "next")
        <3> HIDE DEF errs
        <3>. QED BY <1>8, <2>3, <2>5 DEF LedgerOK, Settled
    <2>. QED BY <2>6, <1>1
<1>11. RowsOK(results, rows, call, combo)'
    BY <1>1, <1>2
<1>12. MajorityOK(results, combo, call, windows, phase)'
    <2>1. ASSUME results # <<>> PROVE results[Len(results)].combo # combo
        <3>1. Len(results) \in DOMAIN results
            BY <1>8, <2>1
        <3>. QED BY <3>1, <1>9, <1>3
    <2>. QED BY <2>1, <1>1 DEF MajorityOK
<1>. QED BY <1>4, <1>5, <1>6, <1>7, <1>10, <1>11, <1>12 DEF PipelineInv

LEMMA BeginComboStep ==
    ASSUME PipelineInv, NEW land \in Landscapes, BeginCombo(land)
    PROVE  PipelineInv'
<1> DEFINE k == combo + 1
<1>1. /\ phase = "next" /\ combo < Combos /\ combo' = k /\ windows' = <<>> /\ crashed' = 0
      /\ unsaved' = <<>> /\ call' = call /\ asked' = asked /\ data' = data /\ rows' = rows
      /\ results' = results
    BY DEF BeginCombo, Quiet
<1>2. \/ /\ ~Resolved(data, k) /\ errors' = errors \cup {ContextOf(data, k)}
         /\ phase' = phase /\ study' = study
      \/ /\ Resolved(data, k) /\ errors' = errors /\ call.mode = "walk_forward" /\ Splits = <<>>
         /\ phase' = "saving" /\ study' = study
      \/ /\ Resolved(data, k) /\ errors' = errors /\ ~(call.mode = "walk_forward" /\ Splits = <<>>)
         /\ phase' = "study" /\ study' = NewStudy(land)
    BY PairIs DEF BeginCombo, Resolved
<1>3. phase' \in {"next", "saving", "study"}
    BY <1>1, <1>2
<1>4. /\ DataOK(call, asked, data, combo, phase) /\ LedgerOK(results, errors, data, combo, phase)
      /\ RowsOK(results, rows, call, combo) /\ StudyInv
    BY DEF PipelineInv
<1>5. /\ combo \in Nat /\ k \in Nat \ {0} /\ call \in Callers
      /\ k <= Len(data) * Len(Strategies)
      /\ data \in Seq(SymbolSet) /\ \A i, j \in DOMAIN data : data[i] = data[j] => i = j
    <2>1. combo \in Nat /\ call \in Callers /\ data \in Seq(SymbolSet)
          /\ \A i, j \in DOMAIN data : data[i] = data[j] => i = j
        BY <1>4 DEF DataOK
    <2>2. Len(data) \in Nat /\ Len(Strategies) \in Nat
        BY <2>1, NamesFacts
    <2>3. Len(data) * Len(Strategies) \in Nat
        BY <2>2
    <2>. QED BY <2>1, <2>3, <1>1 DEF Combos
<1>6. call.patience \in Nat
    BY <1>5, CallersAssumption
<1> HIDE DEF k
<1>7. DataOK(call, asked, data, combo, phase)'
    BY <1>1, <1>3, <1>4, <1>5 DEF DataOK
<1>8. StudyInv' /\ (phase' = "study" => study' # NoStudy /\ study'.on = TRUE)
    <2>1. StudyOK(NewStudy(land), call) /\ NewStudy(land) # NoStudy /\ NewStudy(land).on = TRUE
        BY <1>6, StudyBegins
    <2>2. CASE study' = study /\ phase' # "study"
        BY <2>2, <1>1, <1>4 DEF StudyInv
    <2>3. CASE study' = NewStudy(land)
        BY <2>1, <2>3, <1>1 DEF StudyInv
    <2>. QED BY <2>2, <2>3, <1>1, <1>2
<1>9. WindowsOK(windows, crashed, call, phase)'
    <2>1. WindowsOK(<<>>, 0, call, phase')
        <3>1. /\ call.mode = "walk_forward" /\ phase' = "study" => Len(Splits) > 0
              /\ phase' = "saving" => Len(Splits) = 0
            BY <1>1, <1>2, SplitsAreWindows
        <3>2. /\ <<>> \in Seq(WindowSet) /\ Len(<<>>) + 0 = 0 /\ 0 \in Nat /\ DOMAIN <<>> = {}
            OBVIOUS
        <3>. QED BY <3>1, <3>2 DEF WindowsOK
    <2>. QED BY <2>1, <1>1
<1>10. RowsOf(rows, k) = {} /\ ToSave(<<>>) = {} /\ IsFiniteSet({}) /\ Cardinality({}) = 0
    <2>1. \A r \in rows : r.combo # k
        BY <1>4, <1>5 DEF RowsOK, k
    <2>. QED BY <2>1, FS_EmptySet DEF RowsOf, ToSave
<1>11. SavingOK(unsaved, rows, combo, windows, crashed, call, phase)'
    <2>1. WindowsAreSaved(<<>>, rows, k, <<>>, 0, call)
        BY <1>10 DEF WindowsAreSaved
    <2>2. phase' = "saving" => call.mode # "optimize"
        BY <1>1, <1>2
    <2>3. SavingOK(<<>>, rows, k, <<>>, 0, call, phase')
        BY <1>10, <2>1, <2>2 DEF SavingOK
    <2>. QED BY <2>3, <1>1
<1>12. /\ results \in Seq(ResultSet) /\ Settled(combo, phase) = combo
       /\ \A i \in DOMAIN results : results[i].combo \in 1..combo
    <2>1. results \in Seq(ResultSet) /\ Settled(combo, phase) = combo
        BY <1>1, <1>4 DEF LedgerOK, Settled
    <2>. QED BY <2>1, <1>1, <1>4, <1>5, ReportedTypes
<1>13. LedgerOK(results, errors, data, combo, phase)'
    <2>1. /\ errors \subseteq {ContextOf(data, j) : j \in 1..combo} \cup FetchErrors
          /\ \A j \in 1..combo : ~Resolved(data, j) => ContextOf(data, j) \in errors
          /\ ReportedIn(results) \cup FailedIn(errors, data, combo) = 1..combo
          /\ ReportedIn(results) \cap FailedIn(errors, data, combo) = {}
        BY <1>1, <1>4, <1>12 DEF LedgerOK
    <2>2. 1..k = 1..combo \cup {k} /\ k \notin 1..combo
        BY <1>5 DEF k
    <2>3. Len(data) * Len(Strategies) \in Nat
        BY <1>5, NamesFacts
    <2>4. CASE ~Resolved(data, k) /\ errors' = errors \cup {ContextOf(data, k)}
               /\ phase' = "next"
        <3> DEFINE errs == errors \cup {ContextOf(data, k)}
        <3>1. /\ errs \subseteq {ContextOf(data, j) : j \in 1..k} \cup FetchErrors
              /\ \A j \in 1..k : ~Resolved(data, j) => ContextOf(data, j) \in errs
            BY <2>1, <2>2
        <3>2. FailedIn(errs, data, k) = FailedIn(errors, data, combo) \cup {k}
            <4>1. ASSUME NEW j \in 1..combo, ContextOf(data, j) = ContextOf(data, k)
                  PROVE  ContextOf(data, j) \in errors
                <5>1. ~Resolved(data, j)
                    <6>1. j \in Nat \ {0} /\ j <= Len(data) * Len(Strategies) /\ j # k
                        BY <1>5, <2>3 DEF k
                    <6>. QED BY <6>1, <1>5, <4>1, ContextsDiffer
                <5>. QED BY <5>1, <2>1
            <4>. QED BY <4>1, <2>2 DEF FailedIn
        <3> HIDE DEF errs
        <3>3. /\ ReportedIn(results) \cup FailedIn(errs, data, k) = 1..k
              /\ ReportedIn(results) \cap FailedIn(errs, data, k) = {}
            BY <2>1, <2>2, <3>2
        <3>4. LedgerOK(results, errs, data, k, "next")
            BY <1>12, <3>1, <3>3 DEF LedgerOK, Settled
        <3>. QED BY <3>4, <2>4, <1>1 DEF errs
    <2>5. CASE Resolved(data, k) /\ errors' = errors /\ phase' \in {"study", "saving"}
        <3>1. /\ errors \subseteq {ContextOf(data, j) : j \in 1..k} \cup FetchErrors
              /\ \A j \in 1..k : ~Resolved(data, j) => ContextOf(data, j) \in errors
            BY <2>1, <2>2, <2>5
        <3>2. Settled(k, phase') = combo
            BY <2>5, <1>5 DEF Settled, k
        <3>3. ContextOf(data, k) \notin errors
            <4>1. \A j \in 1..combo : ContextOf(data, j) # ContextOf(data, k)
                <5> SUFFICES ASSUME NEW j \in 1..combo, ContextOf(data, j) = ContextOf(data, k)
                             PROVE  FALSE
                    OBVIOUS
                <5>1. j \in Nat \ {0} /\ j <= Len(data) * Len(Strategies) /\ j # k
                    BY <1>5, <2>3 DEF k
                <5>. QED BY <5>1, <1>5, <2>5, ContextsDiffer
            <4>2. ContextOf(data, k) \notin FetchErrors
                BY <1>5, ContextsDiffer
            <4>. QED BY <4>1, <4>2, <2>1
        <3>4. FailedIn(errors, data, k) = FailedIn(errors, data, combo)
            BY <3>3, <2>2 DEF FailedIn
        <3>5. LedgerOK(results, errors, data, k, phase')
            BY <1>12, <2>1, <3>1, <3>2, <3>4 DEF LedgerOK
        <3>. QED BY <3>5, <2>5, <1>1
    <2>. QED BY <2>4, <2>5, <1>1, <1>2
<1>14. RowsOK(results, rows, call, combo)'
    <2>1. \A j \in 1..combo : j \in 1..k
        BY <1>5 DEF k
    <2>. QED BY <2>1, <1>1, <1>4 DEF RowsOK
<1>15. MajorityOK(results, combo, call, windows, phase)'
    <2>1. ASSUME results # <<>> PROVE results[Len(results)].combo # k
        <3>1. Len(results) \in DOMAIN results
            BY <1>12, <2>1
        <3>. QED BY <3>1, <1>12, <1>5 DEF k
    <2>. QED BY <2>1, <1>1 DEF MajorityOK
<1>. QED BY <1>7, <1>8, <1>9, <1>11, <1>13, <1>14, <1>15 DEF PipelineInv

LEMMA SavingIsOver ==
    ASSUME NEW un \in Seq(SUBSET RowSet)
    PROVE  /\ \A i \in DOMAIN un : un[i] \subseteq ToSave(un)
           /\ \A r \in ToSave(un) : \E i \in DOMAIN un : r \in un[i]
BY DEF ToSave

LEMMA OptimizedStep == ASSUME PipelineInv, Optimized PROVE PipelineInv'
<1> DEFINE best == Row("best", BestParams, "none")
           summary == {Row("summary", p, "none") : p \in Others}
<1>1. /\ phase = "study" /\ call.mode = "optimize" /\ Open = {} /\ Complete # {}
      /\ study' = [study EXCEPT !.on = FALSE, !.result = {BestParams}]
      /\ unsaved' = (IF call.caller = "cli" THEN <<{best}>> ELSE <<{best}, summary>>)
      /\ phase' = "saving"
      /\ call' = call /\ asked' = asked /\ data' = data /\ combo' = combo
      /\ windows' = windows /\ crashed' = crashed /\ rows' = rows
      /\ results' = results /\ errors' = errors
    BY DEF Optimized, Quiet, StudyOver, OptimizationFails
<1>2. /\ DataOK(call, asked, data, combo, phase) /\ LedgerOK(results, errors, data, combo, phase)
      /\ WindowsOK(windows, crashed, call, phase) /\ RowsOK(results, rows, call, combo)
      /\ StudyOK(study, call)
    BY <1>1 DEF PipelineInv, StudyInv
<1>3. call.patience \in Nat /\ combo \in Nat
    BY <1>2, CallersAssumption DEF DataOK
<1>4. StudyOK(study', call) /\ BestParams \in Params
    BY <1>1, <1>2, <1>3, StudyEnds
<1>5. DataOK(call, asked, data, combo, phase)' /\ LedgerOK(results, errors, data, combo, phase)'
    <2>1. DataOK(call, asked, data, combo, "saving")
        BY <1>1, <1>2 DEF DataOK
    <2>2. LedgerOK(results, errors, data, combo, "saving")
        BY <1>1, <1>2 DEF LedgerOK, Settled
    <2>. QED BY <2>1, <2>2, <1>1
<1>6. WindowsOK(windows, crashed, call, phase)'
    <2>1. WindowsOK(windows, crashed, call, "saving")
        BY <1>1, <1>2 DEF WindowsOK
    <2>. QED BY <2>1, <1>1
<1>7. SavingOK(unsaved, rows, combo, windows, crashed, call, phase)'
    <2>1. Others \subseteq Params
        <3>1. \A n \in Complete : study.trials[n].params \in Params
            BY <1>2, StudyTypes DEF StudyOK, Complete
        <3>. QED BY <3>1 DEF Others
    <2>2. /\ best \in RowSet /\ best.combo = combo /\ best.kind = "best"
          /\ summary \subseteq RowSet /\ \A r \in summary : r.combo = combo
        <3>1. ASSUME NEW p \in Params, NEW kind \in {"best", "summary"}
              PROVE  Row(kind, p, "none") \in RowSet /\ Row(kind, p, "none").combo = combo
                     /\ Row(kind, p, "none").kind = kind
            BY <1>3 DEF Row, RowSet
        <3>. QED BY <3>1, <2>1, <1>4
    <2> HIDE DEF best, summary
    <2>3. \/ unsaved' = <<{best}>>
          \/ unsaved' = <<{best}, summary>>
        BY <1>1
    <2>4. unsaved' \in Seq(SUBSET RowSet)
        <3>1. ASSUME NEW S \in SUBSET RowSet, NEW T \in SUBSET RowSet
              PROVE  <<S>> \in Seq(SUBSET RowSet) /\ <<S, T>> \in Seq(SUBSET RowSet)
            OBVIOUS
        <3>2. {best} \in SUBSET RowSet /\ summary \in SUBSET RowSet
            BY <2>2
        <3>. QED BY <3>1, <3>2, <2>3
    <2>5. DOMAIN unsaved' \subseteq {1, 2} /\ 1 \in DOMAIN unsaved' /\ unsaved'[1] = {best}
          /\ \A i \in DOMAIN unsaved' : unsaved'[i] = {best} \/ unsaved'[i] = summary
        BY <2>3
    <2>6. best \in ToSave(unsaved') /\ \A r \in ToSave(unsaved') : r.combo = combo
        BY <2>2, <2>5 DEF ToSave
    <2>7. SavingOK(unsaved', rows, combo, windows, crashed, call, "saving")
        BY <2>2, <2>4, <2>6, <1>1 DEF SavingOK
    <2>. QED BY <2>7, <1>1
<1>8. /\ StudyInv' /\ phase' # "study" /\ RowsOK(results, rows, call, combo)'
      /\ MajorityOK(results, combo, call, windows, phase)'
    BY <1>1, <1>2, <1>4 DEF StudyInv, MajorityOK
<1>. QED BY <1>5, <1>6, <1>7, <1>8 DEF PipelineInv

LEMMA Halves ==
    ASSUME NEW i \in Nat, NEW j \in Nat, (i + 1) \div 2 = (j + 1) \div 2,
           i % 2 = 1 <=> j % 2 = 1
    PROVE  i = j
OBVIOUS

\* The next window's study, or the trials of all of them to save.
LEMMA OnwardKeeps ==
    ASSUME PipelineInv, phase = "study", call.mode = "walk_forward", NEW land \in Landscapes,
           NEW ws \in Seq(WindowSet), NEW lost \in Nat, Len(ws) + lost <= Len(Splits),
           \A i, j \in DOMAIN ws : ws[i].index = ws[j].index => i = j,
           \A i \in DOMAIN ws : /\ ws[i].index <= Len(ws) + lost
                                /\ ws[i].valid = TRUE => Convincing(ws[i].shown),
           windows' = ws, crashed' = lost, Onward(ws, lost, land),
           UNCHANGED <<call, asked, data, combo, rows, results, errors>>
    PROVE  PipelineInv'
<1>1. /\ DataOK(call, asked, data, combo, phase) /\ LedgerOK(results, errors, data, combo, phase)
      /\ RowsOK(results, rows, call, combo)
      /\ SavingOK(unsaved, rows, combo, windows, crashed, call, phase)
    BY DEF PipelineInv
<1>2. call \in Callers /\ call.patience \in Nat /\ combo \in Nat /\ Len(Splits) \in Nat
      /\ Len(ws) \in Nat /\ DOMAIN ws = 1..Len(ws)
    BY <1>1, CallersAssumption, SplitsAreWindows DEF DataOK
<1>3. ASSUME NEW ph \in {"study", "saving"}
      PROVE  /\ DataOK(call, asked, data, combo, ph)
             /\ LedgerOK(results, errors, data, combo, ph)
    BY <1>1 DEF DataOK, LedgerOK, Settled
<1>4. CASE Len(ws) + lost < Len(Splits)
    <2>1. phase' = "study" /\ study' = NewStudy(land) /\ unsaved' = unsaved
        BY <1>4 DEF Onward
    <2>2. StudyInv' /\ study' # NoStudy /\ study'.on = TRUE
        BY <2>1, <1>2, StudyBegins DEF StudyInv
    <2>3. WindowsOK(ws, lost, call, "study")
        BY <1>4 DEF WindowsOK
    <2>4. SavingOK(unsaved, rows, combo, ws, lost, call, "study")
        BY <1>1 DEF SavingOK
    <2>5. DataOK(call, asked, data, combo, phase)' /\ LedgerOK(results, errors, data, combo, phase)'
        BY <2>1, <1>3
    <2>. QED BY <2>1, <2>2, <2>3, <2>4, <2>5, <1>1 DEF PipelineInv, MajorityOK
<1>5. CASE ~(Len(ws) + lost < Len(Splits))
    <2> DEFINE passed(w) == (call.caller = "cli" /\ Verdict(ws, lost))
                            \/ (call.caller # "cli" /\ w.valid)
               row(i) == LET w == ws[(i + 1) \div 2]
                         IN  Row(IF i % 2 = 1 THEN "train" ELSE "test", w.index,
                                 IF passed(w) THEN "yes" ELSE "no")
    <2>1. phase' = "saving" /\ study' = NoStudy
          /\ unsaved' = [i \in 1..(2 * Len(ws)) |-> {row(i)}]
        BY <1>5 DEF Onward
    <2>2. StudyInv' /\ phase' # "study"
        BY <2>1 DEF StudyInv
    <2>3. WindowsOK(ws, lost, call, "saving")
        BY <1>2, <1>5 DEF WindowsOK
    <2>4. ASSUME NEW i \in 1..(2 * Len(ws))
          PROVE  /\ (i + 1) \div 2 \in DOMAIN ws /\ row(i) \in RowSet /\ row(i).combo = combo
                 /\ row(i).window = ws[(i + 1) \div 2].index
                 /\ row(i).kind = IF i % 2 = 1 THEN "train" ELSE "test"
                 /\ call.caller = "cli" => (row(i).validated = "yes") = Verdict(ws, lost)
        <3>1. (i + 1) \div 2 \in DOMAIN ws
            BY <1>2
        <3> DEFINE w == ws[(i + 1) \div 2]
        <3>2. w.index \in Nat
            <4>1. w \in WindowSet
                BY <3>1
            <4>. QED BY <4>1 DEF WindowSet
        <3> HIDE DEF w, passed
        <3>3. row(i) = Row(IF i % 2 = 1 THEN "train" ELSE "test", w.index,
                           IF passed(w) THEN "yes" ELSE "no")
            BY DEF w
        <3> HIDE DEF row
        <3>4. /\ row(i) \in RowSet /\ row(i).combo = combo /\ row(i).window = w.index
              /\ row(i).kind = IF i % 2 = 1 THEN "train" ELSE "test"
              /\ row(i).validated = IF passed(w) THEN "yes" ELSE "no"
            BY <3>2, <3>3, <1>2 DEF Row, RowSet
        <3>5. call.caller = "cli" => (passed(w) <=> Verdict(ws, lost))
            BY DEF passed
        <3>. QED BY <3>1, <3>4, <3>5 DEF w, Verdict
    <2> HIDE DEF row, passed
    <2>5. /\ DOMAIN unsaved' = 1..(2 * Len(ws)) /\ Len(unsaved') = 2 * Len(ws)
          /\ unsaved' \in Seq(SUBSET RowSet)
          /\ \A i \in DOMAIN unsaved' : unsaved'[i] = {row(i)}
        <3>1. 2 * Len(ws) \in Nat
            BY <1>2
        <3>2. \A i \in 1..(2 * Len(ws)) : {row(i)} \in SUBSET RowSet
            BY <2>4
        <3>. QED BY <2>1, <3>1, <3>2
    <2>6. RowsOf(rows, combo) = {}
        BY <1>1 DEF SavingOK
    <2>7. \A r \in ToSave(unsaved') : \E i \in 1..(2 * Len(ws)) : r = row(i)
        BY <2>5 DEF ToSave
    <2>8. \A i, j \in DOMAIN unsaved' : unsaved'[i] = unsaved'[j] => i = j
        <3> SUFFICES ASSUME NEW i \in DOMAIN unsaved', NEW j \in DOMAIN unsaved',
                            unsaved'[i] = unsaved'[j]
                     PROVE  i = j
            OBVIOUS
        <3>4. i \in 1..(2 * Len(ws)) /\ j \in 1..(2 * Len(ws)) /\ {row(i)} = {row(j)}
            BY <2>5
        <3>5. row(i) = row(j)
            BY <3>4, Zenon
        <3> DEFINE a == (i + 1) \div 2
                   b == (j + 1) \div 2
        <3>6. a \in DOMAIN ws /\ b \in DOMAIN ws /\ ws[a].index = ws[b].index
            BY <2>4, <3>4, <3>5
        <3>1. a = b
            <4> HIDE DEF a, b
            <4>. QED BY <3>6
        <3>2. i % 2 = 1 <=> j % 2 = 1
            BY <2>4, <3>4, <3>5
        <3>3. i \in Nat /\ j \in Nat
            BY <1>2, <3>4
        <3>. QED BY <3>1, <3>2, <3>3, Halves
    <2>9. WindowsAreSaved(unsaved', rows, combo, ws, lost, call)
        <3>1. IsFiniteSet({}) /\ Cardinality({}) = 0
            BY FS_EmptySet
        <3>2. \A i \in DOMAIN unsaved' : \E r \in unsaved'[i] : unsaved'[i] = {r} /\ r \notin rows
            <4>1. \A i \in DOMAIN unsaved' : row(i) \notin rows
                BY <2>4, <2>5, <2>6 DEF RowsOf
            <4>. QED BY <4>1, <2>5
        <3>3. call.caller = "cli" => \A r \in RowsOf(rows, combo) \cup ToSave(unsaved') :
                                        (r.validated = "yes") = Verdict(ws, lost)
            BY <2>4, <2>6, <2>7
        <3>. QED BY <3>1, <3>2, <3>3, <2>5, <2>6, <2>8, <1>2 DEF WindowsAreSaved
    <2>10. SavingOK(unsaved', rows, combo, ws, lost, call, "saving")
        <3>1. \A r \in ToSave(unsaved') : r.combo = combo
            BY <2>4, <2>7
        <3>. QED BY <3>1, <2>5, <2>9 DEF SavingOK
    <2>11. DataOK(call, asked, data, combo, phase)' /\ LedgerOK(results, errors, data, combo, phase)'
        BY <2>1, <1>3
    <2>. QED BY <2>1, <2>2, <2>3, <2>10, <2>11, <1>1 DEF PipelineInv, MajorityOK
<1>. QED BY <1>4, <1>5

LEMMA WindowCrashesStep ==
    ASSUME PipelineInv, NEW land \in Landscapes, WindowCrashes(land)
    PROVE  PipelineInv'
<1>1. /\ phase = "study" /\ call.mode = "walk_forward" /\ windows' = windows
      /\ crashed' = crashed + 1 /\ Onward(windows, crashed + 1, land)
      /\ UNCHANGED <<call, asked, data, combo, rows, results, errors>>
    BY DEF WindowCrashes, Quiet
<1>2. WindowsOK(windows, crashed, call, phase)
    BY DEF PipelineInv
<1>3. /\ windows \in Seq(WindowSet) /\ crashed \in Nat /\ crashed + 1 \in Nat
      /\ Len(windows) \in Nat /\ Len(Splits) \in Nat
      /\ Len(windows) + crashed < Len(Splits)
    BY <1>1, <1>2, SplitsAreWindows DEF WindowsOK
<1>4. \A i \in DOMAIN windows :
         /\ windows[i].index <= Len(windows) + (crashed + 1)
         /\ windows[i].valid = TRUE => Convincing(windows[i].shown)
    <2> SUFFICES ASSUME NEW i \in DOMAIN windows
                 PROVE  windows[i].index <= Len(windows) + (crashed + 1)
        BY <1>2 DEF WindowsOK
    <2>1. windows[i] \in WindowSet /\ windows[i].index <= Len(windows) + crashed
        BY <1>2, <1>3 DEF WindowsOK
    <2>2. windows[i].index \in Nat
        BY <2>1 DEF WindowSet
    <2>. QED BY <2>1, <2>2, <1>3
<1>5. \A i, j \in DOMAIN windows : windows[i].index = windows[j].index => i = j
    BY <1>2 DEF WindowsOK
<1>6. Len(windows) + (crashed + 1) <= Len(Splits)
    BY <1>3
<1>. QED BY <1>1, <1>3, <1>4, <1>5, <1>6, OnwardKeeps

LEMMA WindowEvaluatedStep ==
    ASSUME PipelineInv, NEW o \in Outcomes, NEW land \in Landscapes, WindowEvaluated(o, land)
    PROVE  PipelineInv'
<1> DEFINE split == Splits[Window]
           tier == Assess(o, study.land[BestParams].trades, Span(split.train), Span(split.test))
           shown == [index |-> Window, shown |-> o, valid |-> Validates(tier)]
           ws == Append(windows, shown)
<1>1. /\ phase = "study" /\ call.mode = "walk_forward" /\ StudyOver(call) /\ ~OptimizationFails
      /\ windows' = ws /\ crashed' = crashed /\ Onward(ws, crashed, land)
      /\ UNCHANGED <<call, asked, data, combo, rows, results, errors>>
    BY DEF WindowEvaluated, Quiet
<1>2. WindowsOK(windows, crashed, call, phase)
    BY DEF PipelineInv
<1>3. /\ windows \in Seq(WindowSet) /\ crashed \in Nat
      /\ Len(windows) \in Nat /\ Len(Splits) \in Nat
      /\ Len(windows) + crashed < Len(Splits)
    BY <1>1, <1>2, SplitsAreWindows DEF WindowsOK
<1>4. Window \in Nat /\ Window \in 1..Len(Splits)
    BY <1>3 DEF Window
<1>5. Span(split.train) \in Int /\ Span(split.test) \in Int
    BY <1>4, SplitsAreWindows, SpanType
<1>6. study.land[BestParams].trades \in Nat
    <2>1. StudyOK(study, call) /\ Open = {} /\ Complete # {}
        BY <1>1 DEF PipelineInv, StudyInv, StudyOver, OptimizationFails
    <2>2. study.land \in Landscapes
        BY <2>1, StudyTypes DEF StudyOK
    <2>3. BestParams \in Params
        <3>1. BestTrial \in DOMAIN study.trials
            BY <2>1, BestFacts DEF Complete
        <3>. QED BY <3>1, <2>1, StudyTypes DEF StudyOK, BestParams
    <2>. QED BY <2>2, <2>3, LandscapesAssumption
<1>7. Validates(tier) => Convincing(o)
    <2> DEFINE trades == study.land[BestParams].trades
               a == Span(split.train)
               b == Span(split.test)
    <2>1. trades \in Nat /\ a \in Int /\ b \in Int
        BY <1>5, <1>6
    <2> HIDE DEF trades, a, b
    <2>2. tier = Assess(o, trades, a, b)
        BY DEF trades, a, b
    <2>. QED BY <2>1, <2>2, ValidIsConvincing
<1>8. Validates(tier) \in BOOLEAN
    BY DEF Validates
<1> HIDE DEF tier, split
<1>9. /\ shown \in WindowSet /\ shown.index = Window
      /\ shown.valid = TRUE => Convincing(shown.shown)
    <2>1. shown \in WindowSet
        BY <1>4, <1>8 DEF WindowSet
    <2>2. shown.index = Window /\ shown.shown = o /\ shown.valid = Validates(tier)
        BY Zenon
    <2> HIDE DEF shown
    <2>. QED BY <2>1, <2>2, <1>7, Zenon
<1> HIDE DEF shown
<1>10. /\ ws \in Seq(WindowSet) /\ Len(ws) = Len(windows) + 1
       /\ DOMAIN ws = DOMAIN windows \cup {Len(windows) + 1}
       /\ Len(windows) + 1 \notin DOMAIN windows /\ ws[Len(windows) + 1] = shown
       /\ \A i \in DOMAIN windows : ws[i] = windows[i]
    BY <1>3, <1>9
<1> HIDE DEF ws
<1>11. \A i \in DOMAIN windows : /\ windows[i].index \in Nat
                                 /\ windows[i].index < Window
                                 /\ windows[i].valid = TRUE => Convincing(windows[i].shown)
    <2> SUFFICES ASSUME NEW i \in DOMAIN windows
                 PROVE  windows[i].index \in Nat /\ windows[i].index < Window
        BY <1>2 DEF WindowsOK
    <2>1. windows[i] \in WindowSet /\ windows[i].index <= Len(windows) + crashed
        BY <1>2, <1>3 DEF WindowsOK
    <2>2. windows[i].index \in Nat
        BY <2>1 DEF WindowSet
    <2>. QED BY <2>1, <2>2, <1>3 DEF Window
<1>12. \A i, j \in DOMAIN ws : ws[i].index = ws[j].index => i = j
    <2>1. \A i, j \in DOMAIN windows : windows[i].index = windows[j].index => i = j
        BY <1>2 DEF WindowsOK
    <2>2. \A i \in DOMAIN windows : windows[i].index # Window
        BY <1>4, <1>11
    <2>. QED BY <2>1, <2>2, <1>9, <1>10
<1>13. Len(ws) + crashed = Window
    BY <1>3, <1>10 DEF Window
<1>14. \A i \in DOMAIN ws : /\ ws[i].index <= Len(ws) + crashed
                            /\ ws[i].valid = TRUE => Convincing(ws[i].shown)
    BY <1>4, <1>9, <1>10, <1>11, <1>13
<1>15. Len(ws) + crashed <= Len(Splits)
    BY <1>4, <1>13
<1>. QED BY <1>1, <1>3, <1>10, <1>12, <1>14, <1>15, OnwardKeeps

\* Other combinations' rows are not touched while this one's are saved.
LEMMA BackedStays ==
    ASSUME NEW x, NEW rs, NEW rs2, NEW c, RowsOf(rs2, x.combo) = RowsOf(rs, x.combo),
           BackedBy(x, rs, c)
    PROVE  BackedBy(x, rs2, c)
BY DEF BackedBy

LEMMA SaveStep == ASSUME PipelineInv, Save PROVE PipelineInv'
<1> DEFINE part == Head(unsaved)
           rs == rows \cup part
<1>1. /\ phase = "saving" /\ unsaved # <<>> /\ rows' = rs /\ unsaved' = Tail(unsaved)
      /\ call' = call /\ asked' = asked /\ data' = data /\ combo' = combo /\ study' = study
      /\ phase' = phase /\ windows' = windows /\ crashed' = crashed
      /\ results' = results /\ errors' = errors
    BY DEF Save, Quiet
<1>2. /\ DataOK(call, asked, data, combo, phase) /\ LedgerOK(results, errors, data, combo, phase)
      /\ RowsOK(results, rows, call, combo)
      /\ SavingOK(unsaved, rows, combo, windows, crashed, call, phase)
      /\ WindowsOK(windows, crashed, call, phase)
    BY DEF PipelineInv
<1>3. /\ unsaved \in Seq(SUBSET RowSet) /\ \A r \in ToSave(unsaved) : r.combo = combo
      /\ call.mode = "optimize" =>
            \E r \in RowsOf(rows, combo) \cup ToSave(unsaved) : r.kind = "best"
      /\ call.mode = "walk_forward" =>
            WindowsAreSaved(unsaved, rows, combo, windows, crashed, call)
    BY <1>1, <1>2 DEF SavingOK
<1>4. /\ Len(unsaved) \in Nat /\ 1 \in DOMAIN unsaved /\ part = unsaved[1]
      /\ Tail(unsaved) \in Seq(SUBSET RowSet) /\ Len(Tail(unsaved)) = Len(unsaved) - 1
      /\ \A i \in DOMAIN Tail(unsaved) : i + 1 \in DOMAIN unsaved /\ i \in Nat \ {0}
                                         /\ Tail(unsaved)[i] = unsaved[i + 1]
      /\ \A i \in DOMAIN unsaved : i = 1 \/ (i - 1 \in DOMAIN Tail(unsaved)
                                             /\ unsaved[i] = Tail(unsaved)[i - 1])
    BY <1>1, <1>3
<1> HIDE DEF part
<1> DEFINE rest == Tail(unsaved)
<1> HIDE DEF rest
<1>5. part \subseteq ToSave(unsaved) /\ part \subseteq RowSet
    BY <1>3, <1>4 DEF ToSave
<1>6. ToSave(unsaved) = part \cup ToSave(rest)
    <2>1. ASSUME NEW i \in DOMAIN unsaved PROVE unsaved[i] \subseteq part \cup ToSave(rest)
        <3>1. CASE i = 1
            BY <1>4, <3>1
        <3>2. CASE i - 1 \in DOMAIN rest /\ unsaved[i] = rest[i - 1]
            BY <3>2 DEF ToSave
        <3>. QED BY <1>4, <3>1, <3>2 DEF rest
    <2>2. ASSUME NEW i \in DOMAIN rest PROVE rest[i] \subseteq ToSave(unsaved)
        BY <1>4 DEF ToSave, rest
    <2>. QED BY <1>5, <2>1, <2>2 DEF ToSave
<1>7. combo \in Nat \ {0}
    BY <1>1, <1>2 DEF DataOK
<1>8. RowsOf(rs, combo) = RowsOf(rows, combo) \cup part
    BY <1>3, <1>5 DEF RowsOf
<1>9. SavingOK(rest, rs, combo, windows, crashed, call, "saving")
    <2>1. \A r \in ToSave(rest) : r.combo = combo
        BY <1>3, <1>6
    <2>2. ASSUME call.mode = "optimize"
          PROVE  \E r \in RowsOf(rs, combo) \cup ToSave(rest) : r.kind = "best"
        BY <2>2, <1>3, <1>6, <1>8
    <2>3. ASSUME call.mode = "walk_forward"
          PROVE  WindowsAreSaved(rest, rs, combo, windows, crashed, call)
        <3>1. /\ IsFiniteSet(RowsOf(rows, combo))
              /\ Cardinality(RowsOf(rows, combo)) + Len(unsaved) = 2 * Len(windows)
              /\ \A i \in DOMAIN unsaved :
                    \E r \in unsaved[i] : unsaved[i] = {r} /\ r \notin rows
              /\ \A i, j \in DOMAIN unsaved : unsaved[i] = unsaved[j] => i = j
              /\ call.caller = "cli" => \A r \in RowsOf(rows, combo) \cup ToSave(unsaved) :
                                            (r.validated = "yes") = Verdict(windows, crashed)
            BY <2>3, <1>3 DEF WindowsAreSaved
        <3>2. PICK r \in part : part = {r} /\ r \notin rows
            BY <3>1, <1>4
        <3>3. r \notin RowsOf(rows, combo)
            BY <3>2 DEF RowsOf
        <3>4. /\ IsFiniteSet(RowsOf(rs, combo))
              /\ Cardinality(RowsOf(rs, combo)) = Cardinality(RowsOf(rows, combo)) + 1
            <4>1. RowsOf(rs, combo) = RowsOf(rows, combo) \cup {r}
                BY <3>2, <1>8, Zenon
            <4>2. IsFiniteSet(RowsOf(rows, combo))
                BY <3>1
            <4>. QED BY <4>1, <4>2, <3>3, FS_AddElement, Zenon
        <3>5. Cardinality(RowsOf(rs, combo)) + Len(rest) = 2 * Len(windows)
            <4>1. Cardinality(RowsOf(rows, combo)) \in Nat
                BY <3>1, FS_CardinalityType
            <4>2. Len(windows) \in Nat
                BY <1>2 DEF WindowsOK
            <4>. QED BY <4>1, <4>2, <3>1, <3>4, <1>4 DEF rest
        <3>6. \A i \in DOMAIN rest : \E q \in rest[i] : rest[i] = {q} /\ q \notin rs
            <4> SUFFICES ASSUME NEW i \in DOMAIN rest
                         PROVE  \E q \in rest[i] : rest[i] = {q} /\ q \notin rs
                OBVIOUS
            <4>1. /\ i + 1 \in DOMAIN unsaved /\ rest[i] = unsaved[i + 1] /\ i + 1 # 1
                BY <1>4 DEF rest
            <4>2. PICK q \in rest[i] : rest[i] = {q} /\ q \notin rows
                BY <3>1, <4>1
            <4>3. rest[i] # part
                BY <4>1, <3>1, <1>4
            <4>. QED BY <4>2, <4>3, <3>2
        <3>7. \A i, j \in DOMAIN rest : rest[i] = rest[j] => i = j
            <4> SUFFICES ASSUME NEW i \in DOMAIN rest, NEW j \in DOMAIN rest, rest[i] = rest[j]
                         PROVE  i = j
                OBVIOUS
            <4>1. i \in Nat /\ j \in Nat /\ i + 1 \in DOMAIN unsaved /\ j + 1 \in DOMAIN unsaved
                  /\ unsaved[i + 1] = unsaved[j + 1]
                BY <1>4 DEF rest
            <4>2. i + 1 = j + 1
                BY <4>1, <3>1
            <4>. QED BY <4>1, <4>2
        <3>8. call.caller = "cli" => \A q \in RowsOf(rs, combo) \cup ToSave(rest) :
                                        (q.validated = "yes") = Verdict(windows, crashed)
            BY <3>1, <1>5, <1>6, <1>8
        <3>. QED BY <3>4, <3>5, <3>6, <3>7, <3>8 DEF WindowsAreSaved
    <2>4. rest \in Seq(SUBSET RowSet)
        BY <1>4 DEF rest
    <2>. QED BY <2>1, <2>2, <2>3, <2>4 DEF SavingOK
<1>10. RowsOK(results, rs, call, combo)
    <2>1. /\ rows \subseteq RowSet /\ \A r \in rows : r.combo \in 1..combo
          /\ \A i \in DOMAIN results : BackedBy(results[i], rows, call)
        BY <1>2 DEF RowsOK
    <2>2. \A i \in DOMAIN results : results[i].combo # combo
        <3>1. results \in Seq(ResultSet) /\ Settled(combo, phase) = combo - 1
            BY <1>1, <1>2 DEF LedgerOK, Settled
        <3>2. \A i \in DOMAIN results : results[i].combo \in 1..(combo - 1)
            BY <3>1, <1>1, <1>2, <1>7, ReportedTypes
        <3>. QED BY <3>2, <1>7
    <2>3. \A r \in part : r.combo = combo
        BY <1>3, <1>5
    <2>4. \A i \in DOMAIN results : RowsOf(rs, results[i].combo) = RowsOf(rows, results[i].combo)
        BY <2>2, <2>3 DEF RowsOf
    <2>5. \A i \in DOMAIN results : BackedBy(results[i], rs, call)
        BY <2>1, <2>4, BackedStays
    <2>6. combo \in 1..combo
        BY <1>7
    <2>. QED BY <2>1, <2>3, <2>5, <2>6, <1>5 DEF RowsOK
<1>11. StudyInv' /\ phase' # "study" /\ phase' # "next"
    BY <1>1 DEF PipelineInv, StudyInv
<1>. QED BY <1>1, <1>2, <1>9, <1>10, <1>11 DEF PipelineInv, MajorityOK, rest

LEMMA ReportStep == ASSUME PipelineInv, Report PROVE PipelineInv'
<1> DEFINE verdict == Verdict(windows, crashed)
           x == [combo |-> combo, evaluated |-> Len(windows), validated |-> verdict]
           res == Append(results, x)
<1>1. /\ phase = "saving" /\ unsaved = <<>> /\ results' = res /\ phase' = "next"
      /\ study' = NoStudy
      /\ call' = call /\ asked' = asked /\ data' = data /\ combo' = combo
      /\ windows' = windows /\ crashed' = crashed /\ unsaved' = unsaved
      /\ rows' = rows /\ errors' = errors
    BY DEF Report, Quiet
<1>2. /\ DataOK(call, asked, data, combo, phase) /\ LedgerOK(results, errors, data, combo, phase)
      /\ RowsOK(results, rows, call, combo)
      /\ SavingOK(unsaved, rows, combo, windows, crashed, call, phase)
      /\ WindowsOK(windows, crashed, call, phase)
    BY DEF PipelineInv
<1>3. /\ combo \in Nat \ {0} /\ call \in Callers /\ windows \in Seq(WindowSet)
      /\ crashed \in Nat /\ Len(windows) \in Nat
    BY <1>1, <1>2 DEF DataOK, WindowsOK
<1>4. x \in ResultSet /\ x.combo = combo /\ x.evaluated = Len(windows) /\ x.validated = verdict
    <2>1. verdict \in BOOLEAN
        BY DEF Verdict
    <2>2. x.combo = combo /\ x.evaluated = Len(windows) /\ x.validated = verdict
        BY Zenon
    <2> HIDE DEF verdict
    <2>3. x \in ResultSet
        BY <2>1, <1>3 DEF ResultSet
    <2>. QED BY <2>2, <2>3, Zenon
<1> HIDE DEF x, verdict
<1>5. /\ results \in Seq(ResultSet) /\ Settled(combo, phase) = combo - 1
      /\ errors \subseteq {ContextOf(data, j) : j \in 1..combo} \cup FetchErrors
      /\ \A j \in 1..combo : ~Resolved(data, j) => ContextOf(data, j) \in errors
      /\ ReportedIn(results) \cup FailedIn(errors, data, combo) = 1..(combo - 1)
      /\ ReportedIn(results) \cap FailedIn(errors, data, combo) = {}
    BY <1>1, <1>2 DEF LedgerOK, Settled
<1>6. /\ res \in Seq(ResultSet) /\ res # <<>> /\ res[Len(res)] = x
      /\ DOMAIN res = DOMAIN results \cup {Len(results) + 1} /\ res[Len(results) + 1] = x
      /\ \A i \in DOMAIN results : res[i] = results[i]
    BY <1>4, <1>5
<1> HIDE DEF res
<1>7. ReportedIn(res) = ReportedIn(results) \cup {combo}
    <2>1. \A i \in DOMAIN results : i \in DOMAIN res
        BY <1>6
    <2>2. Len(results) + 1 \in DOMAIN res
        BY <1>6
    <2>. QED BY <2>1, <2>2, <1>4, <1>6 DEF ReportedIn
<1>8. LedgerOK(res, errors, data, combo, "next")
    <2>1. 1..combo = 1..(combo - 1) \cup {combo} /\ combo \notin 1..(combo - 1)
        BY <1>3
    <2>2. /\ ReportedIn(res) \cup FailedIn(errors, data, combo) = 1..combo
          /\ ReportedIn(res) \cap FailedIn(errors, data, combo) = {}
        BY <2>1, <1>5, <1>7
    <2>. QED BY <2>2, <1>5, <1>6 DEF LedgerOK, Settled
<1>9. ToSave(unsaved) = {}
    BY <1>1 DEF ToSave
<1>10. BackedBy(x, rows, call)
    <2>1. CASE call.mode = "optimize"
        BY <2>1, <1>1, <1>2, <1>4, <1>9 DEF SavingOK, BackedBy
    <2>2. CASE call.mode # "optimize"
        <3>1. call.mode = "walk_forward"
            BY <2>2, <1>3, CallersAssumption
        <3>2. WindowsAreSaved(unsaved, rows, combo, windows, crashed, call)
            BY <3>1, <1>1, <1>2 DEF SavingOK
        <3>3. /\ IsFiniteSet(RowsOf(rows, combo))
              /\ Cardinality(RowsOf(rows, combo)) + Len(unsaved) = 2 * Len(windows)
              /\ call.caller = "cli" => \A r \in RowsOf(rows, combo) :
                                            (r.validated = "yes") = verdict
            BY <3>2 DEF WindowsAreSaved, verdict
        <3>4. Cardinality(RowsOf(rows, combo)) = 2 * Len(windows)
            <4>1. Len(unsaved) = 0 /\ Cardinality(RowsOf(rows, combo)) \in Nat
                BY <3>3, <1>1, FS_CardinalityType
            <4>. QED BY <4>1, <3>3
        <3>. QED BY <2>2, <3>3, <3>4, <1>4 DEF BackedBy
    <2>. QED BY <2>1, <2>2
<1>11. RowsOK(res, rows, call, combo)
    BY <1>2, <1>6, <1>10 DEF RowsOK
<1>12. MajorityOK(res, combo, call, windows, "next")
    <2> SUFFICES ASSUME call.mode = "walk_forward", verdict
                 PROVE  2 * Cardinality({i \in DOMAIN windows : Convincing(windows[i].shown)})
                           > Len(Splits)
        BY <1>4, <1>6 DEF MajorityOK
    <2> DEFINE valid == {i \in DOMAIN windows : windows[i].valid}
               convincing == {i \in DOMAIN windows : Convincing(windows[i].shown)}
    <2>1. 2 * Cardinality(valid) > Len(windows) + crashed
        BY DEF verdict, Verdict
    <2>2. Len(windows) + crashed = Len(Splits)
        BY <1>1, <1>2 DEF WindowsOK
    <2>3. valid \subseteq convincing
        BY <1>2, Zenon DEF WindowsOK
    <2>4. IsFiniteSet(DOMAIN windows) /\ convincing \subseteq DOMAIN windows
        <3>1. DOMAIN windows = 1..Len(windows)
            BY <1>3
        <3>. QED BY <3>1, <1>3, FS_Interval
    <2> HIDE DEF valid, convincing
    <2>5. /\ Cardinality(valid) <= Cardinality(convincing)
          /\ Cardinality(valid) \in Nat /\ Cardinality(convincing) \in Nat
        BY <2>3, <2>4, FS_Subset, FS_CardinalityType
    <2>. QED BY <2>1, <2>2, <2>5, <1>3 DEF convincing
<1>13. /\ DataOK(call, asked, data, combo, "next")
       /\ WindowsOK(windows, crashed, call, "next")
       /\ SavingOK(unsaved, rows, combo, windows, crashed, call, "next")
    BY <1>2 DEF DataOK, WindowsOK, SavingOK
<1>14. StudyInv' /\ phase' # "study"
    BY <1>1 DEF StudyInv
<1>. QED BY <1>1, <1>8, <1>11, <1>12, <1>13, <1>14 DEF PipelineInv

-----------------------------------------------------------------------------
(* The theorems *)

LEMMA PipelineBegins == PipelineInit => PipelineInv
<1> SUFFICES ASSUME PipelineInit PROVE PipelineInv
    OBVIOUS
<1>1. /\ call \in Callers /\ phase \in {"fetch", "next"} /\ (phase = "fetch" => data = <<>>)
      /\ (data = <<>> \/ data = <<Symbols[1]>>) /\ asked = 0 /\ combo = 0
      /\ study = NoStudy /\ windows = <<>> /\ crashed = 0 /\ unsaved = <<>>
      /\ rows = {} /\ results = <<>> /\ errors = {}
    BY DEF PipelineInit
<1>2. DataOK(call, asked, data, combo, phase)
    <2>1. Symbols[1] \in SymbolSet /\ Len(Symbols) \in Nat /\ Len(Strategies) \in Nat
        BY NamesFacts
    <2>2. ASSUME NEW s \in SymbolSet
          PROVE  /\ <<s>> \in Seq(SymbolSet) /\ DOMAIN <<s>> = {1} /\ Len(<<s>>) = 1
                 /\ <<>> \in Seq(SymbolSet) /\ DOMAIN <<>> = {} /\ Len(<<>>) = 0
        OBVIOUS
    <2>3. /\ data \in Seq(SymbolSet) /\ \A i, j \in DOMAIN data : data[i] = data[j] => i = j
          /\ data = <<>> => DOMAIN data = {}
        <3>1. CASE data = <<>>
            BY <2>1, <2>2, <3>1
        <3>2. CASE data = <<Symbols[1]>>
            <4>1. data \in Seq(SymbolSet) /\ DOMAIN data = {1}
                BY <2>1, <2>2, <3>2
            <4>2. data # <<>>
                BY <3>2
            <4>. QED BY <4>1, <4>2
        <3>. QED BY <3>1, <3>2, <1>1
    <2>4. Len(data) * Len(Strategies) \in Nat
        BY <2>1, <2>3
    <2>. QED BY <2>1, <2>3, <2>4, <1>1 DEF DataOK
<1>3. StudyInv /\ phase # "study"
    BY <1>1 DEF StudyInv
<1>4. WindowsOK(windows, crashed, call, phase)
    <2>1. <<>> \in Seq(WindowSet) /\ DOMAIN <<>> = {}
        OBVIOUS
    <2>. QED BY <2>1, <1>1 DEF WindowsOK
<1>5. SavingOK(unsaved, rows, combo, windows, crashed, call, phase)
    BY <1>1 DEF SavingOK
<1>6. LedgerOK(results, errors, data, combo, phase)
    <2>1. ReportedIn(<<>>) = {} /\ FailedIn({}, data, 0) = {} /\ 1..0 = {}
        BY DEF ReportedIn, FailedIn
    <2>2. Settled(0, phase) = 0
        BY <1>1 DEF Settled
    <2>. QED BY <2>1, <2>2, <1>1 DEF LedgerOK
<1>7. RowsOK(results, rows, call, combo) /\ MajorityOK(results, combo, call, windows, phase)
    BY <1>1 DEF RowsOK, MajorityOK
<1>. QED BY <1>2, <1>3, <1>4, <1>5, <1>6, <1>7 DEF PipelineInv

LEMMA PipelineKeeps == PipelineInv /\ [PipelineNext]_pipelineVars => PipelineInv'
<1> SUFFICES ASSUME PipelineInv, [PipelineNext]_pipelineVars PROVE PipelineInv'
    OBVIOUS
<1>1. CASE HandleSigint
    BY <1>1, SigintStep
<1>2. CASE Fetched
    BY <1>2, FetchedStep
<1>3. CASE LoopEnds
    BY <1>3, LoopEndsStep
<1>4. ASSUME NEW found \in {"data", "empty", "error"}, Fetch(found) PROVE PipelineInv'
    BY <1>4, FetchStep
<1>5. ASSUME NEW land \in Landscapes, BeginCombo(land) PROVE PipelineInv'
    BY <1>5, BeginComboStep
<1>6. ASSUME NEW land \in Landscapes, WindowCrashes(land) PROVE PipelineInv'
    BY <1>6, WindowCrashesStep
<1>7. ASSUME NEW o \in Outcomes, NEW land \in Landscapes, WindowEvaluated(o, land)
      PROVE  PipelineInv'
    BY <1>7, WindowEvaluatedStep
<1>8. CASE StudyStep
    BY <1>8, StudyStepKeeps
<1>9. CASE ProgressCallbackRaises \/ OptimizationError \/ SaveFails
    <2>1. phase \in {"study", "saving"} /\ ComboFails
        BY <1>9 DEF ProgressCallbackRaises, OptimizationError, SaveFails
    <2>. QED BY <2>1, ComboFailsStep
<1>10. CASE Optimized
    BY <1>10, OptimizedStep
<1>11. CASE Save
    BY <1>11, SaveStep
<1>12. CASE Report
    BY <1>12, ReportStep
<1>13. CASE PrintSummary
    BY <1>13, PrintSummaryStep
<1>14. CASE UNCHANGED pipelineVars
    BY <1>14 DEF pipelineVars, PipelineInv, StudyInv
<1>. QED BY <1>1, <1>2, <1>3, <1>4, <1>5, <1>6, <1>7, <1>8, <1>9, <1>10, <1>11, <1>12, <1>13,
            <1>14 DEF PipelineNext

LEMMA PipelineIsInductive == PipelineSpec => []PipelineInv
BY PipelineBegins, PipelineKeeps, PTL DEF PipelineSpec

(***************************************************************************)
(* Whatever a search space yields, in whatever order several workers run   *)
(* it, a study returns the best choice that could be backtested and fails  *)
(* only when none could; run by one worker, it stops for want of patience  *)
(* exactly when that many values in a row brought nothing better.          *)
(***************************************************************************)
THEOREM TheStudyIsHonest == PipelineSpec => []StudyIsHonest
<1>1. PipelineInv => StudyIsHonest
    <2> SUFFICES ASSUME PipelineInv PROVE StudyIsHonest
        OBVIOUS
    <2>1. StudyInv /\ call \in Callers
        BY DEF PipelineInv, DataOK
    <2>. QED BY <2>1, StudyIsBest, PatienceHolds DEF StudyIsHonest
<1>. QED BY <1>1, PipelineIsInductive, PTL

(***************************************************************************)
(* For every set of trading days, window sizes and outcomes: a strategy is *)
(* validated only when more than half of all the windows its data offers   *)
(* were convincing.                                                        *)
(***************************************************************************)
THEOREM TheMajorityValidates == PipelineSpec => []ValidatedByMajority
<1>1. PipelineInv => ValidatedByMajority
    BY DEF PipelineInv, MajorityOK, ValidatedByMajority, Last
<1>. QED BY <1>1, PipelineIsInductive, PTL

(***************************************************************************)
(* For any number of symbols and strategies, failures and interruptions:   *)
(* each combination begun is reported or named an error, never both, and   *)
(* the rows stored bear every report out.                                  *)
(***************************************************************************)
THEOREM TheCombosAreAccountedFor == PipelineSpec => []EveryComboIsAccountedFor
<1>1. PipelineInv => EveryComboIsAccountedFor
    <2> SUFFICES ASSUME PipelineInv, phase \in {"next", "summary", "printed", "crashed"}
                 PROVE  /\ Reported \cup Failed = 1..combo /\ Reported \cap Failed = {}
                        /\ \A i \in DOMAIN results : Backed(results[i])
                        /\ \A r \in rows : r.combo \in Reported \cup Failed
        BY DEF EveryComboIsAccountedFor
    <2>1. /\ LedgerOK(results, errors, data, combo, phase)
          /\ RowsOK(results, rows, call, combo)
        BY DEF PipelineInv
    <2>2. Reported = ReportedIn(results) /\ Failed = FailedIn(errors, data, combo)
        BY PairIs DEF Reported, ReportedIn, Failed, FailedIn
    <2>3. Settled(combo, phase) = combo
        BY DEF Settled
    <2>4. Reported \cup Failed = 1..combo /\ Reported \cap Failed = {}
        BY <2>1, <2>2, <2>3 DEF LedgerOK
    <2>5. \A x : Backed(x) <=> BackedBy(x, rows, call)
        BY DEF Backed, BackedBy, RowsOf
    <2>. QED BY <2>1, <2>4, <2>5 DEF RowsOK
<1>. QED BY <1>1, PipelineIsInductive, PTL
=============================================================================
