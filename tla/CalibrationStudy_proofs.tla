---------------------- MODULE CalibrationStudy_proofs -----------------------
(***************************************************************************)
(* Proofs about CalibrationStudy, for any names, windows, dials, rungs,    *)
(* readings and panels, and any number of invocations, failures and kills: *)
(* what the final files hold was measured by one whole sweep.              *)
(***************************************************************************)
EXTENDS CalibrationStudy, SequenceTheorems, TLAPS

-----------------------------------------------------------------------------
(* The inductive invariant *)

\* A stamp tells how a shard was measured, and in the full directory it is always
\* the stamp of every window and every dial.
ShardsInv ==
    /\ shards \in [Dirs -> [Names -> ShardType \cup {None, Torn}]]
    /\ \A n \in Names :
          LET f == shards["full"][n]
          IN  Readable(f) =>
                 /\ f.provenance.windows = Windows /\ f.provenance.dials = Dials
                 /\ f.outcome = "ok" =>
                       f.content = Content(n, Windows, Dials, f.provenance.extra)

JobType ==
    [phase : {"all", "a", "b", "kseed"}, smoke : BOOLEAN, accept : BOOLEAN,
     pc : {"pregates", "plan", "scan", "aggregate", "decide", "check", "write"},
     extra : Extras, rounds : Nat, todo : SUBSET Names, broken : BOOLEAN,
     failed : SUBSET Names, table : {job.table}, rows : Seq(Range(job.rows))]

JobInv ==
    job # None =>
        /\ job \in JobType
        /\ job.phase = "kseed" => ~job.smoke
        /\ job.phase = "kseed" /\ job.pc # "write" => Len(job.rows) < Len(AltPanels)

\* The shard of the name carries the stamp of this invocation.
Stamped(n) == shards[Directory][n] \in ShardType /\ shards[Directory][n].provenance = Provenance

ScanInv ==
    job # None =>
        /\ job.pc = "scan" => \A n \in Members \ job.todo : Stamped(n)
        /\ job.pc = "aggregate" /\ job.phase # "b" => \A n \in Members : Stamped(n)

\* Every name of the panel is accounted for, and measured whole.
OneSweep(table, panel, extra) ==
    /\ DOMAIN table.used \cup DOMAIN table.excluded = panel
    /\ \A n \in DOMAIN table.used : Whole(table.used[n], n, extra)

NoPart(used) ==
    \A n \in DOMAIN used :
        /\ used[n].windows = { w \in Windows : Bars[n][w] > 0 }
        /\ \A d \in Dials : Rungs(d, {}) \subseteq used[n].rungs[d]

Extended(used, extra) ==
    \A d \in Dials, w \in Windows :
        Eligible(used, d, w) /\ AtFloor(used, d, w) => Finer[d] \subseteq extra[d]

TableInv ==
    job # None /\ job.phase # "kseed" /\ ~job.smoke /\ job.pc \in {"decide", "check", "write"} =>
        /\ job.table.needs = NeedsFiner(job.table.used)
        /\ NoPart(job.table.used)
        /\ job.phase = "all" => OneSweep(job.table, Panel, job.extra)
        /\ job.phase = "all" /\ job.pc # "decide" /\ job.rounds < ExtendRounds =>
              Extended(job.table.used, job.extra)
        /\ job.pc = "write" => Written = None

AllSwept(rows, extra) == \A i \in DOMAIN rows : OneSweep(rows[i], AltPanels[i], extra)

OfOneSweep(result) ==
    /\ result.extra \in Extras
    /\ NoPart(result.used)
    /\ result.by = "all" =>
          /\ OneSweep(result, Panel, result.extra)
          /\ result.rounds < ExtendRounds => Extended(result.used, result.extra)

\* The results, once there, stay, and with them the rungs the K-seed stage takes.
ResultsInv ==
    /\ DOMAIN results = Dirs
    /\ Readable(Written) => OfOneSweep(Written)
    /\ Readable(kseed) => Readable(Written) /\ AllSwept(kseed.rows, Written.extra)

KSeedInv ==
    job # None /\ job.phase = "kseed" =>
        /\ Readable(Written) /\ job.extra = Written.extra
        /\ AllSwept(job.rows, job.extra)

StudyInv == ShardsInv /\ JobInv /\ ScanInv /\ TableInv /\ ResultsInv /\ KSeedInv

-----------------------------------------------------------------------------
(* What the operators return *)

LEMMA AppendRow ==
    ASSUME NEW rows, rows \in Seq(Range(rows)), NEW row
    PROVE  /\ Append(rows, row) \in Seq(Range(Append(rows, row)))
           /\ Len(Append(rows, row)) = Len(rows) + 1
           /\ DOMAIN Append(rows, row) = DOMAIN rows \cup {Len(rows) + 1}
           /\ \A i \in DOMAIN rows : Append(rows, row)[i] = rows[i]
           /\ Append(rows, row)[Len(rows) + 1] = row
<1>. DEFINE S == Range(rows) \cup {row}
<1>1. rows \in Seq(S) /\ row \in S
  BY SeqMonotonic
<1>2. /\ Append(rows, row) \in Seq(S) /\ Len(Append(rows, row)) = Len(rows) + 1
      /\ \A i \in 1..Len(rows) : Append(rows, row)[i] = rows[i]
      /\ Append(rows, row)[Len(rows) + 1] = row
  BY <1>1, AppendProperties
<1>. HIDE DEF S
<1>3. /\ Len(rows) \in Nat /\ DOMAIN rows = 1..Len(rows)
      /\ DOMAIN Append(rows, row) = 1..Len(rows) + 1
  BY <1>1, <1>2, LenProperties
<1>4. 1..Len(rows) + 1 = 1..Len(rows) \cup {Len(rows) + 1}
  BY <1>3
<1>. QED BY <1>2, <1>3, <1>4, SeqOfRange

\* A sweep of every window and every dial is whole.
LEMMA WholeContent ==
    ASSUME NEW n, NEW extra \in Extras
    PROVE  /\ Whole(Content(n, Windows, Dials, extra), n, extra)
           /\ \A d \in Dials : Rungs(d, {}) \subseteq Content(n, Windows, Dials, extra).rungs[d]
BY DEF Whole, Content, Rungs

LEMMA ContentType ==
    ASSUME NEW n, NEW windows \in SUBSET Windows, NEW dials, NEW extra \in Extras
    PROVE  Content(n, windows, dials, extra) \in [windows : SUBSET Windows, rungs : Extras]
<1>1. \A d \in Dials : Rungs(d, extra[d]) \in SUBSET Nat
  BY RungsAssumption DEF Rungs, Extras
<1>2. {w \in windows : Bars[n][w] > 0} \in SUBSET Windows
  OBVIOUS
<1>3. [d \in Dials |-> IF d \in dials THEN Rungs(d, extra[d]) ELSE {}] \in Extras
  BY <1>1 DEF Extras
<1>. QED BY <1>2, <1>3 DEF Content

\* What an invocation measures: members of the names, windows and dials there are.
LEMMA JobFacts ==
    ASSUME JobInv, job # None
    PROVE  /\ job \in JobType /\ Directory \in Dirs
           /\ Directory = "full" <=> ~job.smoke
           /\ job.pc # "write" => Members \subseteq Names
           /\ SweptWindows \in SUBSET Windows /\ SweptDials \in SUBSET Dials
           /\ Provenance \in [windows : SUBSET Windows, dials : SUBSET Dials, extra : Extras]
           /\ ~job.smoke => SweptWindows = Windows /\ SweptDials = Dials
           /\ Provenance.extra = job.extra /\ Provenance.windows = SweptWindows
           /\ Provenance.dials = SweptDials
<1>1. job \in JobType
  BY DEF JobInv
<1>2. /\ SweptWindows \in SUBSET Windows /\ SweptDials \in SUBSET Dials
      /\ ~job.smoke => SweptWindows = Windows /\ SweptDials = Dials
  BY SmokeAssumption DEF SweptWindows, SweptDials
<1>3. job.extra \in Extras /\ job.smoke \in BOOLEAN
  BY <1>1 DEF JobType
<1>4. Directory \in Dirs /\ (Directory = "full" <=> ~job.smoke)
  BY DEF Directory, Dirs
<1>5. ASSUME job.pc # "write" PROVE Members \subseteq Names
  <2>1. CASE job.phase = "kseed"
    <3>1. Len(job.rows) + 1 \in 1..Len(AltPanels)
      <4>1. job.rows \in Seq(Range(job.rows)) /\ Len(job.rows) < Len(AltPanels)
        BY <1>1, <1>5, <2>1 DEF JobInv, JobType
      <4>2. Len(job.rows) \in Nat /\ Len(AltPanels) \in Nat
        BY <4>1, LenProperties, PanelsAssumption
      <4>. QED BY <4>1, <4>2
    <3>. QED BY <2>1, <3>1, PanelsAssumption, ElementOfSeq DEF Members
  <2>2. CASE job.phase # "kseed"
    BY <2>2, PanelsAssumption, SmokeAssumption DEF Members
  <2>. QED BY <2>1, <2>2
<1>. QED BY <1>1, <1>2, <1>3, <1>4, <1>5 DEF Provenance

\* The table over the members: those with a readable shard of a good scan, whole as
\* their stamps say, and all of them where each one is stamped by this invocation.
LEMMA TableFacts ==
    ASSUME StudyInv, job # None, ~job.smoke, job.pc = "aggregate", Loads,
           NEW table, table = Table(Directory, Members)
    PROVE  /\ table.needs = NeedsFiner(table.used)
           /\ NoPart(table.used)
           /\ (\A n \in Members : Stamped(n)) => OneSweep(table, Members, job.extra)
<1>. DEFINE there == {n \in Members : shards["full"][n] # None}
            good == {n \in there : shards["full"][n].outcome = "ok"}
<1>1. Directory = "full" /\ Members \subseteq Names /\ job \in JobType
  BY JobFacts DEF StudyInv
<1>2. /\ table.used = [n \in good |-> shards["full"][n].content]
      /\ DOMAIN table.excluded = there \ good /\ table.needs = NeedsFiner(table.used)
  BY <1>1 DEF Table
<1>3. ASSUME NEW n \in good
      PROVE  /\ shards["full"][n] \in ShardType /\ n \in Names
             /\ table.used[n] = Content(n, Windows, Dials, shards["full"][n].provenance.extra)
             /\ shards["full"][n].provenance.extra \in Extras
  <2>1. n \in Names /\ shards["full"][n] \notin {None, Torn}
    BY <1>1, <1>3 DEF Loads
  <2>2. shards["full"][n] \in ShardType
    BY <2>1 DEF StudyInv, ShardsInv, Dirs, Readable
  <2>. QED BY <1>2, <2>1, <2>2 DEF StudyInv, ShardsInv, ShardType, Readable
<1>4. NoPart(table.used)
  <2>1. DOMAIN table.used = good
    BY <1>2
  <2>. HIDE DEF good
  <2>. QED BY <1>3, <2>1, WholeContent DEF NoPart, Whole
<1>5. ASSUME \A n \in Members : Stamped(n) PROVE OneSweep(table, Members, job.extra)
  <2>1. there = Members
    BY <1>1, <1>5, AbsenceAssumption DEF Stamped
  <2>2. DOMAIN table.used \cup DOMAIN table.excluded = Members
    BY <1>2, <2>1
  <2>3. ASSUME NEW n \in good PROVE Whole(table.used[n], n, job.extra)
    <3>1. shards["full"][n].provenance.extra = job.extra
      BY <1>1, <1>5, JobFacts DEF Stamped, StudyInv
    <3>. QED BY <1>3, <3>1, WholeContent
  <2>. QED BY <1>2, <2>2, <2>3 DEF OneSweep
<1>. QED BY <1>2, <1>4, <1>5

-----------------------------------------------------------------------------
(* The steps *)

\* What is measured does not change while the invocation moves on.
LEMMA SameMeasure ==
    ASSUME job'.phase = job.phase, job'.smoke = job.smoke, job'.extra = job.extra,
           job'.rows = job.rows
    PROVE  /\ Members' = Members /\ Directory' = Directory /\ Provenance' = Provenance
           /\ shards' = shards => \A n : Stamped(n)' = Stamped(n)
<1>1. /\ Members' = Members /\ Directory' = Directory /\ Provenance' = Provenance
  BY DEF Members, Directory, Provenance, SweptWindows, SweptDials
<1>. QED BY <1>1 DEF Stamped

LEMMA FilesKept ==
    ASSUME StudyInv, UNCHANGED files
    PROVE  ShardsInv' /\ ResultsInv' /\ Written' = Written /\ kseed' = kseed
                      /\ shards' = shards /\ results' = results
BY DEF StudyInv, ShardsInv, ResultsInv, Written, files, Readable

\* Once an invocation is over, only the files count.
LEMMA Gone ==
    ASSUME ShardsInv', ResultsInv', Exit
    PROVE  StudyInv'
BY DEF Exit, StudyInv, JobInv, ScanInv, TableInv, KSeedInv

LEMMA RefuseStep ==
    ASSUME StudyInv, Refuse
    PROVE  StudyInv'
BY FilesKept, Gone DEF Refuse

\* A step between two stages that changes neither the files nor what was found.
LEMMA GotoStep ==
    ASSUME StudyInv, job # None, job.pc # "write", UNCHANGED files,
           NEW pc \in {"plan", "aggregate", "check", "write"}, Goto(pc),
           pc = "aggregate" /\ job.phase # "b" => \A n \in Members : Stamped(n),
           pc = "check" => job.pc = "decide",
           pc = "write" => job.pc = "check" /\ (~job.smoke => Written = None),
           pc = "check" /\ job.phase = "all" /\ ~job.smoke /\ job.rounds < ExtendRounds =>
              Extended(job.table.used, job.extra)
    PROVE  StudyInv'
<1>1. job \in JobType
  BY DEF StudyInv, JobInv
<1>2. job' = [job EXCEPT !.pc = pc]
  BY DEF Goto
<1>3. /\ job'.phase = job.phase /\ job'.smoke = job.smoke /\ job'.extra = job.extra
      /\ job'.rows = job.rows /\ job'.pc = pc /\ job'.table = job.table
      /\ job'.rounds = job.rounds /\ job'.failed = job.failed /\ job'.todo = job.todo
  BY <1>1, <1>2 DEF JobType
<1>4. ShardsInv' /\ ResultsInv' /\ Written' = Written /\ shards' = shards
  BY FilesKept
<1>5. JobInv'
  <2>1. job' \in JobType'
    BY <1>1, <1>2, <1>3 DEF JobType
  <2>. QED BY <1>3, <2>1 DEF StudyInv, JobInv
<1>6. ScanInv'
  BY <1>3, <1>4, SameMeasure DEF ScanInv
<1>7. TableInv'
  BY <1>3, <1>4 DEF StudyInv, TableInv
<1>8. KSeedInv'
  BY <1>3, <1>4 DEF StudyInv, KSeedInv
<1>. QED BY <1>4, <1>5, <1>6, <1>7, <1>8 DEF StudyInv

\* A new invocation has found nothing yet.
LEMMA StartStep ==
    ASSUME StudyInv, UNCHANGED files, NEW phase \in {"all", "a", "b", "kseed"},
           NEW smoke \in BOOLEAN, NEW accept \in BOOLEAN, NEW extra \in Extras,
           NEW pc \in {"pregates", "plan", "aggregate"},
           job' = NewJob(phase, smoke, accept, extra, pc),
           pc = "aggregate" => phase = "b",
           phase = "kseed" => ~smoke /\ Readable(Written) /\ extra = Written.extra
    PROVE  StudyInv'
<1>1. /\ job'.phase = phase /\ job'.smoke = smoke /\ job'.extra = extra
      /\ job'.rows = <<>> /\ job'.pc = pc
  BY DEF NewJob
<1>2. ShardsInv' /\ ResultsInv' /\ Written' = Written
  BY FilesKept
<1>3. JobInv'
  <2>1. job' \in JobType'
    <3>1. <<>> \in Seq(Range(<<>>)) /\ 0 \in Nat
      BY EmptySeq
    <3>. QED BY <1>1, <3>1 DEF NewJob, JobType
  <2>2. Len(AltPanels) > 0 /\ Len(<<>>) = 0
    BY PanelsAssumption, EmptySeq, LenProperties
  <2>. QED BY <1>1, <2>1, <2>2 DEF JobInv
<1>4. ScanInv' /\ TableInv'
  BY <1>1 DEF ScanInv, TableInv
<1>5. KSeedInv'
  <2>1. AllSwept(<<>>, extra)
    <3>1. DOMAIN <<>> = {}
      OBVIOUS
    <3>. QED BY <3>1 DEF AllSwept
  <2>. QED BY <1>1, <1>2, <2>1 DEF KSeedInv, Readable
<1>. QED BY <1>2, <1>3, <1>4, <1>5 DEF StudyInv

\* A shard is written: the stamp of this invocation, and in the full directory the
\* windows and dials of the whole sweep.
LEMMA WriteStep ==
    ASSUME StudyInv, At("scan"), NEW n \in Names, n \in job.todo,
           NEW outcome \in {"ok", "adjustment-excluded", "failed"}, Write(n, outcome)
    PROVE  StudyInv'
<1>. DEFINE shard == Shard(n, outcome)
<1>1. job # None /\ job.pc = "scan" /\ job \in JobType /\ Directory \in Dirs /\ JobInv
  BY JobFacts DEF At, StudyInv
<1>2. shard \in ShardType
  <2>1. Provenance \in [windows : SUBSET Windows, dials : SUBSET Dials, extra : Extras]
    BY <1>1, JobFacts
  <2>2. shard.content \in [windows : SUBSET Windows, rungs : Extras]
    <3>1. job.extra \in Extras /\ NoRungs \in Extras
      BY <1>1 DEF JobType, Extras, NoRungs
    <3>2. Content(n, SweptWindows, SweptDials, job.extra) \in
             [windows : SUBSET Windows, rungs : Extras]
      BY <1>1, <3>1, JobFacts, ContentType
    <3>. QED BY <3>1, <3>2 DEF Shard
  <2>. QED BY <2>1, <2>2 DEF Shard, ShardType
<1>3. ~job.smoke => /\ shard.provenance.windows = Windows /\ shard.provenance.dials = Dials
                    /\ shard.outcome = "ok" =>
                          shard.content = Content(n, Windows, Dials, shard.provenance.extra)
  BY <1>1, JobFacts DEF Shard
<1>4. shard.provenance = Provenance
  BY DEF Shard
<1>. HIDE DEF shard
<1>5. /\ shards' = [shards EXCEPT ![Directory][n] = shard]
      /\ UNCHANGED <<results, kseed>>
  BY DEF Write, shard
<1>6. /\ job' = [job EXCEPT !.todo = job.todo \ {n},
                            !.failed = IF outcome = "failed" THEN job.failed \cup {n}
                                       ELSE job.failed]
  BY DEF Write
<1>7. /\ job'.phase = job.phase /\ job'.smoke = job.smoke /\ job'.extra = job.extra
      /\ job'.rows = job.rows /\ job'.pc = job.pc /\ job'.table = job.table
      /\ job'.todo = job.todo \ {n}
  BY <1>1, <1>6 DEF JobType
<1>8. ShardsInv'
  <2>1. shards' \in [Dirs -> [Names -> ShardType \cup {None, Torn}]]
    BY <1>1, <1>2, <1>5 DEF StudyInv, ShardsInv
  <2>2. ASSUME NEW m \in Names, ~(m = n /\ Directory = "full")
        PROVE  shards'["full"][m] = shards["full"][m]
    BY <1>5, <2>2 DEF StudyInv, ShardsInv, Dirs
  <2>3. Directory = "full" => shards'["full"][n] = shard /\ ~job.smoke
    BY <1>1, <1>5, JobFacts DEF StudyInv, ShardsInv, Dirs
  <2>. QED BY <1>3, <2>1, <2>2, <2>3 DEF StudyInv, ShardsInv
<1>9. JobInv'
  <2>1. job' \in JobType'
    BY <1>1, <1>6, <1>7 DEF JobType
  <2>. QED BY <1>1, <1>7, <2>1 DEF StudyInv, JobInv
<1>10. ScanInv'
  <2>1. Members' = Members /\ Directory' = Directory /\ Provenance' = Provenance
    BY <1>7, SameMeasure
  <2>2. ASSUME NEW m \in Members, m \notin job'.todo PROVE Stamped(m)'
    <3>1. CASE m = n
      <4>1. shards'[Directory][n] = shard
        BY <1>1, <1>5 DEF StudyInv, ShardsInv
      <4>. QED BY <1>2, <1>4, <2>1, <3>1, <4>1 DEF Stamped
    <3>2. CASE m # n
      <4>1. m \notin job.todo
        BY <1>7, <2>2, <3>2
      <4>2. Stamped(m)
        BY <1>1, <2>2, <4>1 DEF StudyInv, ScanInv
      <4>3. shards'[Directory][m] = shards[Directory][m]
        BY <1>1, <1>5, <3>2 DEF StudyInv, ShardsInv
      <4>. QED BY <2>1, <4>2, <4>3 DEF Stamped
    <3>. QED BY <3>1, <3>2
  <2>3. \A m \in Members' \ job'.todo : Stamped(m)'
    BY <2>1, <2>2
  <2>. QED BY <1>1, <1>7, <2>3 DEF ScanInv
<1>11. TableInv'
  BY <1>1, <1>7 DEF TableInv
<1>12. ResultsInv' /\ KSeedInv'
  BY <1>5, <1>7, <1>1 DEF StudyInv, ResultsInv, KSeedInv, Written, Readable
<1>. QED BY <1>8, <1>9, <1>10, <1>11, <1>12 DEF StudyInv

\* run_phase_a starts: what is not to be measured again carries the stamp already.
LEMMA PlanStep ==
    ASSUME StudyInv, Plan
    PROVE  StudyInv'
<1>. DEFINE todo == {n \in Members : ~Fresh(n)}
<1>1. job # None /\ job.pc = "plan" /\ job \in JobType /\ Directory \in Dirs
      /\ Members \subseteq Names /\ UNCHANGED files
  BY JobFacts DEF Plan, At, StudyInv
<1>2. job' = [job EXCEPT !.pc = "scan", !.todo = todo, !.broken = FALSE]
  BY DEF Plan
<1>3. \A n \in Members \ todo : Stamped(n)
  <2>1. SUFFICES ASSUME NEW n \in Members, Fresh(n) PROVE Stamped(n)
    OBVIOUS
  <2>2. shards[Directory][n] \in ShardType \cup {None, Torn}
    BY <1>1 DEF StudyInv, ShardsInv
  <2>. QED BY <2>1, <2>2 DEF Fresh, Readable, Stamped
<1>4. todo \in SUBSET Names
  BY <1>1
<1>. HIDE DEF todo
<1>5. /\ job'.phase = job.phase /\ job'.smoke = job.smoke /\ job'.extra = job.extra
      /\ job'.rows = job.rows /\ job'.pc = "scan" /\ job'.todo = todo
      /\ job'.table = job.table
  BY <1>1, <1>2 DEF JobType
<1>6. ShardsInv' /\ ResultsInv' /\ Written' = Written /\ shards' = shards
  BY <1>1, FilesKept
<1>7. JobInv'
  <2>1. job' \in JobType'
    BY <1>1, <1>2, <1>4, <1>5 DEF JobType
  <2>. QED BY <1>1, <1>5, <2>1 DEF StudyInv, JobInv
<1>8. ScanInv'
  <2>1. Members' = Members /\ \A n : Stamped(n)' = Stamped(n)
    BY <1>5, <1>6, SameMeasure
  <2>. QED BY <1>3, <1>5, <2>1 DEF ScanInv
<1>9. TableInv' /\ KSeedInv'
  BY <1>1, <1>5, <1>6 DEF StudyInv, TableInv, KSeedInv
<1>. QED BY <1>6, <1>7, <1>8, <1>9 DEF StudyInv

LEMMA PoolStep ==
    ASSUME StudyInv, PoolBreaks
    PROVE  StudyInv'
<1>1. job # None /\ job.pc = "scan" /\ job \in JobType /\ UNCHANGED files
  BY DEF PoolBreaks, At, StudyInv, JobInv
<1>2. job' = [job EXCEPT !.broken = TRUE]
  BY DEF PoolBreaks
<1>3. /\ job'.phase = job.phase /\ job'.smoke = job.smoke /\ job'.extra = job.extra
      /\ job'.rows = job.rows /\ job'.pc = "scan" /\ job'.todo = job.todo
      /\ job'.table = job.table
  BY <1>1, <1>2 DEF JobType
<1>4. ShardsInv' /\ ResultsInv' /\ Written' = Written /\ shards' = shards
  BY <1>1, FilesKept
<1>5. JobInv'
  <2>1. job' \in JobType'
    BY <1>1, <1>2, <1>3 DEF JobType
  <2>. QED BY <1>1, <1>3, <2>1 DEF StudyInv, JobInv
<1>6. ScanInv'
  <2>1. Members' = Members /\ \A n : Stamped(n)' = Stamped(n)
    BY <1>3, <1>4, SameMeasure
  <2>. QED BY <1>1, <1>3, <2>1 DEF StudyInv, ScanInv
<1>7. TableInv' /\ KSeedInv'
  BY <1>1, <1>3, <1>4 DEF StudyInv, TableInv, KSeedInv
<1>. QED BY <1>4, <1>5, <1>6, <1>7 DEF StudyInv

\* The scan is over: every member carries the stamp.
LEMMA ScanEndsStep ==
    ASSUME StudyInv, ScanEnds
    PROVE  StudyInv'
<1>1. job # None /\ job.pc = "scan" /\ job.todo = {} /\ UNCHANGED files
  BY DEF ScanEnds, At
<1>2. \A n \in Members : Stamped(n)
  BY <1>1 DEF StudyInv, ScanInv
<1>3. CASE Exit
  BY <1>1, <1>3, FilesKept, Gone
<1>4. CASE Goto("aggregate")
  BY <1>1, <1>2, <1>4, GotoStep
<1>. QED BY <1>3, <1>4 DEF ScanEnds

\* run_phase_b: the table is that of the panel.
LEMMA AggregateStep ==
    ASSUME StudyInv, Aggregate
    PROVE  StudyInv'
<1>. DEFINE table == Table(Directory, Members)
<1>1. job # None /\ job.pc = "aggregate" /\ job.phase # "kseed" /\ Loads
      /\ job \in JobType /\ UNCHANGED files
  BY DEF Aggregate, At, StudyInv, JobInv
<1>2. job' = [job EXCEPT !.table = table, !.pc = "decide"]
  BY DEF Aggregate
<1>3. ~job.smoke =>
         /\ table.needs = NeedsFiner(table.used) /\ NoPart(table.used)
         /\ job.phase = "all" => OneSweep(table, Panel, job.extra)
  <2>1. SUFFICES ASSUME ~job.smoke
                 PROVE  /\ table.needs = NeedsFiner(table.used) /\ NoPart(table.used)
                        /\ job.phase = "all" => OneSweep(table, Panel, job.extra)
    OBVIOUS
  <2>2. Members = Panel
    BY <1>1, <2>1 DEF Members
  <2>3. job.phase = "all" => \A n \in Members : Stamped(n)
    BY <1>1 DEF StudyInv, ScanInv
  <2>. QED BY <1>1, <2>1, <2>2, <2>3, TableFacts
<1>. HIDE DEF table
<1>4. /\ job'.phase = job.phase /\ job'.smoke = job.smoke /\ job'.extra = job.extra
      /\ job'.rows = job.rows /\ job'.pc = "decide" /\ job'.table = table
  BY <1>1, <1>2 DEF JobType
<1>5. ShardsInv' /\ ResultsInv'
  BY <1>1, FilesKept
<1>6. JobInv'
  <2>1. job' \in JobType'
    BY <1>1, <1>2, <1>4 DEF JobType
  <2>. QED BY <1>1, <1>4, <2>1 DEF JobInv
<1>7. TableInv'
  BY <1>3, <1>4 DEF TableInv
<1>8. ScanInv' /\ KSeedInv'
  BY <1>1, <1>4 DEF ScanInv, KSeedInv
<1>. QED BY <1>5, <1>6, <1>7, <1>8 DEF StudyInv

\* kseed_select: one more panel measured with the rungs of the results.
LEMMA KSeedSelectStep ==
    ASSUME StudyInv, KSeedSelect
    PROVE  StudyInv'
<1>. DEFINE table == Table(Directory, Members)
            rows == Append(job.rows, table)
<1>1. job # None /\ job.pc = "aggregate" /\ job.phase = "kseed" /\ Loads /\ ~job.smoke
      /\ job \in JobType /\ UNCHANGED files
  BY DEF KSeedSelect, At, StudyInv, JobInv
<1>2. job' = [job EXCEPT !.rows = rows,
                         !.pc = IF Len(rows) < Len(AltPanels) THEN "plan" ELSE "write"]
  BY DEF KSeedSelect
<1>3. OneSweep(table, AltPanels[Len(job.rows) + 1], job.extra)
  <2>1. \A n \in Members : Stamped(n)
    BY <1>1 DEF StudyInv, ScanInv
  <2>2. Members = AltPanels[Len(job.rows) + 1]
    BY <1>1 DEF Members
  <2>. QED BY <1>1, <2>1, <2>2, TableFacts
<1>. HIDE DEF table
<1>4. job.rows \in Seq(Range(job.rows))
  BY <1>1 DEF JobType
<1>5. rows \in Seq(Range(rows))
  BY <1>4, AppendRow
<1>6. AllSwept(rows, job.extra)
  <2>1. /\ DOMAIN rows = DOMAIN job.rows \cup {Len(job.rows) + 1}
        /\ \A i \in DOMAIN job.rows : rows[i] = job.rows[i]
        /\ rows[Len(job.rows) + 1] = table
    BY <1>4, AppendRow
  <2>2. AllSwept(job.rows, job.extra)
    BY <1>1 DEF StudyInv, KSeedInv
  <2>. HIDE DEF rows
  <2>. QED BY <1>3, <2>1, <2>2 DEF AllSwept
<1>. HIDE DEF rows
<1>7. /\ job'.phase = job.phase /\ job'.smoke = job.smoke /\ job'.extra = job.extra
      /\ job'.rows = rows /\ job'.table = job.table
      /\ job'.pc = IF Len(rows) < Len(AltPanels) THEN "plan" ELSE "write"
  BY <1>1, <1>2 DEF JobType
<1>8. ShardsInv' /\ ResultsInv' /\ Written' = Written
  BY <1>1, FilesKept
<1>9. JobInv'
  <2>1. job' \in JobType'
    BY <1>1, <1>2, <1>5, <1>7 DEF JobType
  <2>. QED BY <1>1, <1>7, <2>1 DEF JobInv
<1>10. ScanInv' /\ TableInv'
  BY <1>1, <1>7 DEF ScanInv, TableInv
<1>11. KSeedInv'
  BY <1>1, <1>6, <1>7, <1>8 DEF StudyInv, KSeedInv, Readable
<1>. QED BY <1>8, <1>9, <1>10, <1>11 DEF StudyInv

\* The extend-finer loop: it goes on while a floor has finer rungs left.
LEMMA ExtendStep ==
    ASSUME StudyInv, Extend
    PROVE  StudyInv'
<1>. DEFINE redo == Redo(job.table.needs)
            extra == [d \in Dials |-> IF d \in redo THEN job.extra[d] \cup Finer[d]
                                      ELSE job.extra[d]]
<1>1. job # None /\ job.pc = "decide" /\ job.phase = "all" /\ job \in JobType
      /\ UNCHANGED files
  BY DEF Extend, MayExtend, At, StudyInv, JobInv
<1>2. job' = [job EXCEPT !.rounds = job.rounds + 1, !.extra = extra,
                         !.pc = IF redo = {} THEN "check" ELSE "plan"]
  BY DEF Extend
<1>3. extra \in Extras
  BY <1>1, RungsAssumption DEF JobType, Extras
<1>4. ASSUME redo = {} PROVE extra = job.extra
  BY <1>1, <1>4 DEF JobType, Extras
<1>5. ASSUME redo = {}, ~job.smoke PROVE Extended(job.table.used, job.extra)
  <2>1. job.table.needs = NeedsFiner(job.table.used)
    BY <1>1, <1>5 DEF StudyInv, TableInv
  <2>. QED BY <1>5, <2>1 DEF Extended, Redo, NeedsFiner
<1>6. job.rounds + 1 \in Nat
  BY <1>1 DEF JobType
<1>. HIDE DEF redo, extra
<1>7. /\ job'.phase = job.phase /\ job'.smoke = job.smoke /\ job'.extra = extra
      /\ job'.rows = job.rows /\ job'.table = job.table
      /\ job'.pc = IF redo = {} THEN "check" ELSE "plan"
  BY <1>1, <1>2 DEF JobType
<1>8. ShardsInv' /\ ResultsInv' /\ Written' = Written
  BY <1>1, FilesKept
<1>9. JobInv'
  <2>1. job' \in JobType'
    BY <1>1, <1>2, <1>3, <1>6, <1>7 DEF JobType
  <2>. QED BY <1>1, <1>7, <2>1 DEF JobInv
<1>10. ScanInv' /\ KSeedInv'
  BY <1>1, <1>7 DEF ScanInv, KSeedInv
<1>11. TableInv'
  <2>1. CASE redo = {}
    BY <1>1, <1>4, <1>5, <1>7, <2>1 DEF StudyInv, TableInv
  <2>2. CASE redo # {}
    BY <1>7, <2>2 DEF TableInv
  <2>. QED BY <2>1, <2>2
<1>. QED BY <1>8, <1>9, <1>10, <1>11 DEF StudyInv

LEMMA NoExtensionStep ==
    ASSUME StudyInv, NoExtension
    PROVE  StudyInv'
<1>1. job # None /\ job.pc = "decide" /\ ~MayExtend /\ Goto("check") /\ UNCHANGED files
  BY DEF NoExtension, At
<1>2. ASSUME job.phase = "all", ~job.smoke, job.rounds < ExtendRounds
      PROVE  Extended(job.table.used, job.extra)
  <2>1. NeedsFiner(job.table.used) = {}
    BY <1>1, <1>2 DEF MayExtend, StudyInv, TableInv
  <2>. QED BY <2>1 DEF Extended, NeedsFiner
<1>. QED BY <1>1, <1>2, GotoStep

\* The final write is reached only where no results are.
LEMMA CheckStep ==
    ASSUME StudyInv, Check
    PROVE  StudyInv'
<1>1. job # None /\ job.pc = "check" /\ UNCHANGED files
  BY DEF Check, At
<1>2. CASE Blocked
  BY <1>1, <1>2, FilesKept, Gone DEF Check
<1>3. CASE ~Blocked
  <2>1. Goto("write")
    BY <1>3 DEF Check
  <2>2. ~job.smoke => Written = None
    BY <1>3 DEF Blocked, Directory, Written
  <2>. QED BY <1>1, <2>1, <2>2, GotoStep
<1>. QED BY <1>2, <1>3

\* The results are those of the table that was checked.
LEMMA WriteResultsStep ==
    ASSUME StudyInv, WriteResults
    PROVE  StudyInv'
<1>1. /\ job # None /\ job.pc = "write" /\ job.phase # "kseed" /\ job \in JobType
      /\ results' = [results EXCEPT ![Directory] = Result] /\ Exit
      /\ shards' = shards /\ kseed' = kseed
  BY DEF WriteResults, At, StudyInv, JobInv
<1>2. ShardsInv'
  BY <1>1 DEF StudyInv, ShardsInv, Readable
<1>3. DOMAIN results' = Dirs /\ DOMAIN results = Dirs
  BY <1>1 DEF StudyInv, ResultsInv
<1>4. CASE job.smoke
  <2>1. Written' = Written
    BY <1>1, <1>3, <1>4 DEF Directory, Written, Dirs
  <2>2. ResultsInv'
    BY <1>1, <1>3, <2>1 DEF StudyInv, ResultsInv, Readable
  <2>. QED BY <1>1, <1>2, <2>2, Gone
<1>5. CASE ~job.smoke
  <2>1. Written' = Result /\ Written = None
    BY <1>1, <1>3, <1>5 DEF Directory, Written, Dirs, StudyInv, TableInv
  <2>2. OfOneSweep(Result)
    <3>1. /\ Result.extra = job.extra /\ Result.by = job.phase /\ Result.rounds = job.rounds
          /\ Result.used = job.table.used /\ Result.excluded = job.table.excluded
      BY DEF Result
    <3>2. /\ NoPart(job.table.used)
          /\ job.phase = "all" =>
                /\ OneSweep(job.table, Panel, job.extra)
                /\ job.rounds < ExtendRounds => Extended(job.table.used, job.extra)
      BY <1>1, <1>5 DEF StudyInv, TableInv
    <3>3. job.extra \in Extras
      BY <1>1 DEF JobType
    <3>. QED BY <3>1, <3>2, <3>3 DEF OfOneSweep, OneSweep
  <2>3. ~Readable(kseed)'
    BY <1>1, <2>1 DEF StudyInv, ResultsInv, Readable
  <2>4. ResultsInv'
    BY <1>3, <2>1, <2>2, <2>3 DEF ResultsInv
  <2>. QED BY <1>1, <1>2, <2>4, Gone
<1>. QED BY <1>4, <1>5

LEMMA WriteKSeedStep ==
    ASSUME StudyInv, WriteKSeed
    PROVE  StudyInv'
<1>1. /\ job # None /\ job.phase = "kseed" /\ Exit
      /\ shards' = shards /\ results' = results /\ kseed'.rows = job.rows
  BY DEF WriteKSeed, At
<1>2. ShardsInv'
  BY <1>1 DEF StudyInv, ShardsInv, Readable
<1>3. Written' = Written /\ Readable(Written) /\ AllSwept(job.rows, Written.extra)
  BY <1>1 DEF StudyInv, KSeedInv, Written
<1>4. ResultsInv'
  BY <1>1, <1>3 DEF StudyInv, ResultsInv, Readable
<1>. QED BY <1>1, <1>2, <1>4, Gone

\* A file cut in the middle of a write cannot be read, and no other file is touched.
LEMMA KilledStep ==
    ASSUME StudyInv, Killed
    PROVE  StudyInv'
<1>1. job # None /\ Exit /\ JobInv
  BY DEF Killed, StudyInv
<1>2. CASE UNCHANGED files
  BY <1>1, <1>2, FilesKept, Gone
<1>3. ASSUME NEW n \in job.todo, shards' = [shards EXCEPT ![Directory][n] = Torn],
             UNCHANGED <<results, kseed>>
      PROVE  StudyInv'
  <2>1. n \in Names /\ Directory \in Dirs
    BY <1>1, <1>3, JobFacts DEF JobType
  <2>2. shards' \in [Dirs -> [Names -> ShardType \cup {None, Torn}]]
    BY <1>3, <2>1 DEF StudyInv, ShardsInv
  <2>3. \A m \in Names : shards'["full"][m] = shards["full"][m] \/ shards'["full"][m] = Torn
    BY <1>3, <2>1 DEF StudyInv, ShardsInv, Dirs
  <2>4. ShardsInv'
    BY <2>2, <2>3 DEF StudyInv, ShardsInv, Readable
  <2>5. ResultsInv'
    BY <1>3 DEF StudyInv, ResultsInv, Written, Readable
  <2>. QED BY <1>1, <2>4, <2>5, Gone
<1>4. CASE /\ job.pc = "write" /\ job.phase # "kseed"
           /\ results' = [results EXCEPT ![Directory] = Torn] /\ UNCHANGED <<shards, kseed>>
  <2>1. ShardsInv'
    BY <1>4 DEF StudyInv, ShardsInv, Readable
  <2>2. DOMAIN results' = Dirs /\ DOMAIN results = Dirs
    BY <1>4 DEF StudyInv, ResultsInv
  <2>3. CASE job.smoke
    <3>1. Written' = Written
      BY <1>4, <2>2, <2>3 DEF Directory, Written, Dirs
    <3>2. ResultsInv'
      BY <1>4, <2>2, <3>1 DEF StudyInv, ResultsInv, Readable
    <3>. QED BY <1>1, <2>1, <3>2, Gone
  <2>4. CASE ~job.smoke
    <3>1. Written' = Torn /\ Written = None
      BY <1>1, <1>4, <2>2, <2>4 DEF Directory, Written, Dirs, StudyInv, TableInv
    <3>2. ~Readable(kseed)' /\ ~Readable(Written)'
      BY <1>4, <3>1 DEF StudyInv, ResultsInv, Readable
    <3>3. ResultsInv'
      BY <2>2, <3>2 DEF ResultsInv
    <3>. QED BY <1>1, <2>1, <3>3, Gone
  <2>. QED BY <2>3, <2>4
<1>5. CASE kseed' = Torn /\ UNCHANGED <<shards, results>>
  <2>1. ShardsInv' /\ ResultsInv'
    BY <1>5 DEF StudyInv, ShardsInv, ResultsInv, Written, Readable
  <2>. QED BY <1>1, <2>1, Gone
<1>. QED BY <1>2, <1>3, <1>4, <1>5 DEF Killed

-----------------------------------------------------------------------------
(* The theorems *)

LEMMA StudyInit == Init => StudyInv
<1>1. ASSUME Init PROVE ShardsInv /\ ResultsInv
  BY <1>1 DEF Init, ShardsInv, ResultsInv, Dirs, Written, Readable
<1>. QED BY <1>1 DEF Init, StudyInv, JobInv, ScanInv, TableInv, KSeedInv

LEMMA StudyNext == StudyInv /\ [Next]_vars => StudyInv'
<1>. SUFFICES ASSUME StudyInv, [Next]_vars PROVE StudyInv'
  OBVIOUS
<1>1. NoRungs \in Extras
  BY DEF NoRungs, Extras
<1>2. CASE Start
  BY <1>1, <1>2, StartStep DEF Start
<1>3. CASE StartKSeed
  <2>1. Readable(Written) /\ results["full"].extra = Written.extra /\ Written.extra \in Extras
    BY <1>3 DEF StartKSeed, Written, StudyInv, ResultsInv, OfOneSweep
  <2>2. UNCHANGED files /\ job' = NewJob("kseed", FALSE, FALSE, Written.extra, "plan")
    BY <1>3, <2>1 DEF StartKSeed
  <2>. QED BY <2>1, <2>2, StartStep
<1>4. CASE PregatesPass
  BY <1>4, GotoStep DEF PregatesPass, At
<1>5. CASE PregatesRaise
  BY <1>5, RefuseStep DEF PregatesRaise
<1>6. CASE Plan
  BY <1>6, PlanStep
<1>7. CASE ScanEnds
  BY <1>7, ScanEndsStep
<1>8. CASE PoolBreaks
  BY <1>8, PoolStep
<1>9. ASSUME NEW n \in Names, Scanned(n) PROVE StudyInv'
  BY <1>9, WriteStep DEF Scanned, Outcome
<1>10. ASSUME NEW n \in Names, ScanFails(n) PROVE StudyInv'
  BY <1>10, WriteStep DEF ScanFails
<1>11. CASE Aggregate
  BY <1>11, AggregateStep
<1>12. CASE KSeedSelect
  BY <1>12, KSeedSelectStep
<1>13. CASE LoadRaises
  BY <1>13, RefuseStep DEF LoadRaises
<1>14. CASE Extend
  BY <1>14, ExtendStep
<1>15. CASE NoExtension
  BY <1>15, NoExtensionStep
<1>16. CASE Check
  BY <1>16, CheckStep
<1>17. CASE WriteResults
  BY <1>17, WriteResultsStep
<1>18. CASE WriteKSeed
  BY <1>18, WriteKSeedStep
<1>19. CASE Killed
  BY <1>19, KilledStep
<1>20. CASE UNCHANGED vars
  <2>1. UNCHANGED files /\ job' = job
    BY <1>20 DEF vars
  <2>2. ShardsInv' /\ ResultsInv' /\ Written' = Written /\ shards' = shards
    BY <2>1, FilesKept
  <2>3. JobInv' /\ TableInv' /\ KSeedInv'
    BY <2>1, <2>2 DEF StudyInv, JobInv, JobType, TableInv, KSeedInv
  <2>4. ScanInv'
    <3>1. Members' = Members /\ \A n : Stamped(n)' = Stamped(n)
      BY <2>1, <2>2, SameMeasure
    <3>. QED BY <2>1, <3>1 DEF StudyInv, ScanInv
  <2>. QED BY <2>2, <2>3, <2>4 DEF StudyInv
<1>. QED
  BY <1>2, <1>3, <1>4, <1>5, <1>6, <1>7, <1>8, <1>9, <1>10, <1>11, <1>12, <1>13, <1>14,
     <1>15, <1>16, <1>17, <1>18, <1>19, <1>20 DEF Next

\* Whatever invocations follow one another over the directory and whenever they are
\* killed, a readable shard of the full directory is what its stamp says, and the
\* results and the K-seed file come of whole sweeps (run_phase_a, run_phase_b, main).
THEOREM StudyInvariant == Spec => []StudyInv
BY StudyInit, StudyNext, PTL DEF Spec

\* Results of both phases hold every name of the panel, each one measured on all
\* windows and dials and on exactly the rungs the file reports (main).
THEOREM OneSweepTheorem == Spec => []ResultsAreOneSweep
<1>1. StudyInv => ResultsAreOneSweep
  BY DEF StudyInv, ResultsInv, OfOneSweep, OneSweep, ResultsAreOneSweep
<1>. QED BY <1>1, StudyInvariant, PTL

\* No shard of a smoke run, and none that lost a dial, gets into results (shard_dir).
THEOREM NoPartTheorem == Spec => []NoPartialShards
<1>1. StudyInv => NoPartialShards
  BY DEF StudyInv, ResultsInv, OfOneSweep, NoPart, NoPartialShards
<1>. QED BY <1>1, StudyInvariant, PTL

\* No dial is reported at its floor with finer rungs and rounds left (main).
THEOREM FloorsTheorem == Spec => []FloorsAreExtended
<1>1. StudyInv => FloorsAreExtended
  BY DEF StudyInv, ResultsInv, OfOneSweep, Extended, FloorsAreExtended
<1>. QED BY <1>1, StudyInvariant, PTL

\* Every row of the K-seed file is a whole sweep of its panel with the rungs of the
\* results it is compared with (run_kseed).
THEOREM SpreadTheorem == Spec => []SpreadIsLikeForLike
<1>1. StudyInv => SpreadIsLikeForLike
  BY DEF StudyInv, ResultsInv, AllSwept, OneSweep, SpreadIsLikeForLike
<1>. QED BY <1>1, StudyInvariant, PTL

=============================================================================
