--------------------------- MODULE CalibrationStudy ---------------------------
(***************************************************************************)
(* scripts/calibrate_coverage_grid_v3.py as its owner runs it: one         *)
(* invocation after another over the same directory of shards, any of them *)
(* killed at any moment.                                                   *)
(*                                                                         *)
(* Phase A writes one shard per name, stamped with the sweep that made it, *)
(* and reuses the shards whose stamp fits; phase B aggregates what is on   *)
(* the disk; an invocation of both phases extends the dials that bottomed  *)
(* out and measures again.  The K-seed stage measures the names of the     *)
(* alternative panels with the sweep of the written results.  The panel    *)
(* and the alternative panels are the committed files of                   *)
(* draw_calibration_panel.py and do not change.                            *)
(***************************************************************************)
EXTENDS Sweep, Functions

CONSTANTS
    Panel, AltPanels,           \* names of the panel; of the alternative draws, in order
    SmokePanel, SmokeDials, SmokeWindows,   \* what --smoke measures
    ExtendRounds,               \* --extend-rounds
    Torn,
    MaxRuns, MaxFaults, MaxKills   \* bounds on invocations, worker failures and kills

\* The runs over the same directory may differ in what they measure, not in what
\* there is; the alternative panels are at least one.
ASSUME PanelsAssumption ==
    Panel \subseteq Names /\ AltPanels \in Seq(SUBSET Names) \ {<<>>}
ASSUME SmokeAssumption ==
    SmokePanel \subseteq Names /\ SmokeDials \subseteq Dials /\ SmokeWindows \subseteq Windows
ASSUME RoundsAssumption == ExtendRounds \in Nat

VARIABLES
    shards,    \* the shard files, per directory and name
    results,   \* the results file, per directory
    kseed,     \* the file of the K-seed stage
    job,       \* the invocation that runs
    runs, faults, kills

files == <<shards, results, kseed>>
bounds == <<runs, faults, kills>>
vars == <<files, job, bounds>>

Dirs == {"full", "smoke"}

\* A file that can be read.
Readable(f) == f \notin {None, Torn}

Init ==
    /\ shards = [x \in Dirs |-> [n \in Names |-> None]]
    /\ results = [x \in Dirs |-> None]
    /\ kseed = None
    /\ job = None
    /\ runs = 0 /\ faults = 0 /\ kills = 0

---------------------------------------------------------------------------
(* What the running invocation measures.                                   *)

Extras == [Dials -> SUBSET Nat]

\* What a shard file holds that can be read.
ShardType ==
    [provenance : [windows : SUBSET Windows, dials : SUBSET Dials, extra : Extras],
     outcome : {"ok", "adjustment-excluded", "failed"},
     content : [windows : SUBSET Windows, rungs : Extras]]

ASSUME AbsenceAssumption == None \notin ShardType

\* As a script with one directory of shards would do.
DirectoryShared == "full"

Directory == IF job.smoke THEN "smoke" ELSE "full"
Members == IF job.phase = "kseed" THEN AltPanels[Len(job.rows) + 1]
           ELSE IF job.smoke THEN SmokePanel ELSE Panel
SweptWindows == IF job.smoke THEN SmokeWindows ELSE Windows
SweptDials == IF job.smoke THEN SmokeDials ELSE Dials

Provenance == [windows |-> SweptWindows, dials |-> SweptDials, extra |-> job.extra]

\* As a resume that looks for the file alone would do.
FreshIfThere(n) == Readable(shards[Directory][n])

\* The shard is kept: it can be read and its stamp fits.
Fresh(n) ==
    LET f == shards[Directory][n] IN Readable(f) /\ f.provenance = Provenance

At(pc) == job # None /\ job.pc = pc
Goto(pc) == job' = [job EXCEPT !.pc = pc]
Exit == job' = None
\* The process exits before it has touched a file.
Refuse == Exit /\ UNCHANGED files

---------------------------------------------------------------------------
(***************************************************************************)
(* main: the phases asked for.  A K-seed stage whose file exists already,  *)
(* or that finds no results to read, ends at once and is not a run.        *)
(***************************************************************************)
NewJob(phase, smoke, accept, extra, pc) ==
    [phase |-> phase, smoke |-> smoke, accept |-> accept, pc |-> pc, extra |-> extra,
     rounds |-> 0, todo |-> {}, broken |-> FALSE, failed |-> {}, table |-> None, rows |-> <<>>]

Start ==
    /\ job = None /\ runs < MaxRuns
    /\ \E phase \in {"all", "a", "b"}, smoke \in BOOLEAN, accept \in BOOLEAN :
          /\ accept => phase # "a" /\ ~smoke
          /\ job' = NewJob(phase, smoke, accept, NoRungs,
                           IF phase = "b" THEN "aggregate" ELSE IF smoke THEN "plan" ELSE "pregates")
    /\ runs' = runs + 1
    /\ UNCHANGED <<files, faults, kills>>

\* As a K-seed stage that forgot the rungs of the results would do.
StartKSeedCoarse ==
    /\ job = None /\ runs < MaxRuns
    /\ kseed = None /\ Readable(results["full"])
    /\ job' = NewJob("kseed", FALSE, FALSE, NoRungs, "plan")
    /\ runs' = runs + 1
    /\ UNCHANGED <<files, faults, kills>>

StartKSeed ==
    /\ job = None /\ runs < MaxRuns
    /\ kseed = None /\ Readable(results["full"])
    /\ job' = NewJob("kseed", FALSE, FALSE, results["full"].extra, "plan")
    /\ runs' = runs + 1
    /\ UNCHANGED <<files, faults, kills>>

(***************************************************************************)
(* run_pregates scans the most volatile name twice in this process; the    *)
(* scan is deterministic, so what can go wrong is an exception, which      *)
(* nothing catches here.                                                   *)
(***************************************************************************)
PregatesPass == At("pregates") /\ Goto("plan") /\ UNCHANGED <<files, bounds>>

PregatesRaise ==
    /\ At("pregates") /\ faults < MaxFaults
    /\ Refuse
    /\ faults' = faults + 1
    /\ UNCHANGED <<runs, kills>>

(***************************************************************************)
(* run_phase_a.  The pool of workers is made anew by every call.           *)
(***************************************************************************)
Plan ==
    /\ At("plan")
    /\ job' = [job EXCEPT !.pc = "scan", !.todo = { n \in Members : ~Fresh(n) }, !.broken = FALSE]
    /\ UNCHANGED <<files, bounds>>

Outcome(n) == IF Refused(n) THEN "adjustment-excluded" ELSE "ok"

\* What the dials of a sweep leave in a shard; a failed one holds no records.
Shard(n, outcome) ==
    [provenance |-> Provenance, outcome |-> outcome,
     content |-> IF outcome = "ok" THEN Content(n, SweptWindows, SweptDials, job.extra)
                 ELSE [windows |-> {}, rungs |-> NoRungs]]

Write(n, outcome) ==
    /\ shards' = [shards EXCEPT ![Directory][n] = Shard(n, outcome)]
    /\ job' = [job EXCEPT !.todo = @ \ {n},
                          !.failed = IF outcome = "failed" THEN @ \cup {n} ELSE @]
    /\ UNCHANGED <<results, kseed>>

\* A worker returns its shard, the names in any order.
Scanned(n) ==
    /\ At("scan") /\ n \in job.todo /\ ~job.broken
    /\ Write(n, Outcome(n))
    /\ UNCHANGED bounds

\* The worker raised something else: recorded, and the others go on.
ScanFails(n) ==
    /\ At("scan") /\ n \in job.todo
    /\ job.broken \/ faults < MaxFaults
    /\ Write(n, "failed")
    /\ faults' = IF job.broken THEN faults ELSE faults + 1
    /\ UNCHANGED <<runs, kills>>

\* A worker process dies: every future still open raises BrokenProcessPool.
PoolBreaks ==
    /\ At("scan") /\ job.todo # {} /\ ~job.broken /\ faults < MaxFaults
    /\ job' = [job EXCEPT !.broken = TRUE]
    /\ faults' = faults + 1
    /\ UNCHANGED <<files, runs, kills>>

ScanEnds ==
    /\ At("scan") /\ job.todo = {}
    /\ IF job.phase = "a" \/ (job.phase = "kseed" /\ job.failed # {}) THEN Exit ELSE Goto("aggregate")
    /\ UNCHANGED <<files, bounds>>

(***************************************************************************)
(* run_phase_b and kseed_select load the shards there are, whatever their  *)
(* stamp, and leave out those marked as excluded.                          *)
(***************************************************************************)
Table(x, members) ==
    LET there == { n \in members : shards[x][n] # None }
        good == { n \in there : shards[x][n].outcome = "ok" }
        used == [n \in good |-> shards[x][n].content]
    IN [used |-> used, excluded |-> [n \in there \ good |-> shards[x][n].outcome],
        jnd |-> [d \in Dials |-> Jnd(used, d)],
        needs |-> NeedsFiner(used), crashing |-> CrashViolations(used)]

Loads == \A n \in Members : shards[Directory][n] # Torn

Aggregate ==
    /\ At("aggregate") /\ job.phase # "kseed" /\ Loads
    /\ job' = [job EXCEPT !.table = Table(Directory, Members), !.pc = "decide"]
    /\ UNCHANGED <<files, bounds>>

KSeedSelect ==
    /\ At("aggregate") /\ job.phase = "kseed" /\ Loads
    /\ LET rows == Append(job.rows, Table(Directory, Members))
       IN job' = [job EXCEPT !.rows = rows, !.pc = IF Len(rows) < Len(AltPanels) THEN "plan" ELSE "write"]
    /\ UNCHANGED <<files, bounds>>

LoadRaises == At("aggregate") /\ ~Loads /\ Refuse /\ UNCHANGED bounds

(***************************************************************************)
(* The extend-finer loop: the rungs of EXTEND_FINER are added to the dials *)
(* that bottomed out and whole shards are measured again.                  *)
(***************************************************************************)
MayExtend == job.phase = "all" /\ job.rounds < ExtendRounds /\ job.table.needs # {}

Redo(needs) == { d \in needs : ~(Finer[d] \subseteq job.extra[d]) }

Extend ==
    /\ At("decide") /\ MayExtend
    /\ LET redo == Redo(job.table.needs)
       IN job' = [job EXCEPT !.rounds = @ + 1,
                             !.extra = [d \in Dials |-> IF d \in redo THEN @[d] \cup Finer[d] ELSE @[d]],
                             !.pc = IF redo = {} THEN "check" ELSE "plan"]
    /\ UNCHANGED <<files, bounds>>

NoExtension == At("decide") /\ ~MayExtend /\ Goto("check") /\ UNCHANGED <<files, bounds>>

(***************************************************************************)
(* The final write, refused after a failure in this run, past the ceiling  *)
(* of crashes unless that is accepted, and over an existing file.          *)
(***************************************************************************)
Blocked ==
    \/ job.failed # {}
    \/ job.table.crashing # {} /\ ~job.accept
    \/ ~job.smoke /\ results[Directory] # None

Check ==
    /\ At("check")
    /\ IF Blocked THEN Exit ELSE Goto("write")
    /\ UNCHANGED <<files, bounds>>

Result ==
    [by |-> job.phase, used |-> job.table.used, excluded |-> job.table.excluded,
     jnd |-> job.table.jnd,
     extra |-> job.extra, rounds |-> job.rounds, needs |-> job.table.needs]

WriteResults ==
    /\ At("write") /\ job.phase # "kseed"
    /\ results' = [results EXCEPT ![Directory] = Result]
    /\ Exit
    /\ UNCHANGED <<shards, kseed, bounds>>

WriteKSeed ==
    /\ At("write") /\ job.phase = "kseed"
    /\ kseed' = [rows |-> job.rows,
                  spread |-> [d \in Dials |->
                      Spread(d, job.extra,
                             {results["full"].jnd[d]} \cup { row.jnd[d] : row \in Range(job.rows) })]]
    /\ Exit
    /\ UNCHANGED <<shards, results, bounds>>

(***************************************************************************)
(* The process is killed.  write_text truncates the file first, so a kill  *)
(* in the middle of a write leaves one that cannot be read.                *)
(***************************************************************************)
Killed ==
    /\ job # None /\ kills < MaxKills
    /\ Exit
    /\ kills' = kills + 1
    /\ UNCHANGED <<runs, faults>>
    /\ \/ UNCHANGED files
       \/ /\ job.pc = "scan"
          /\ \E n \in job.todo : shards' = [shards EXCEPT ![Directory][n] = Torn]
          /\ UNCHANGED <<results, kseed>>
       \/ /\ job.pc = "write" /\ job.phase # "kseed"
          /\ results' = [results EXCEPT ![Directory] = Torn]
          /\ UNCHANGED <<shards, kseed>>
       \/ /\ job.pc = "write" /\ job.phase = "kseed"
          /\ kseed' = Torn
          /\ UNCHANGED <<shards, results>>

---------------------------------------------------------------------------
Next ==
    \/ Start \/ StartKSeed \/ PregatesPass \/ PregatesRaise
    \/ Plan \/ ScanEnds \/ PoolBreaks
    \/ \E n \in Names : Scanned(n) \/ ScanFails(n)
    \/ Aggregate \/ KSeedSelect \/ LoadRaises
    \/ Extend \/ NoExtension \/ Check \/ WriteResults \/ WriteKSeed
    \/ Killed

Spec == Init /\ [][Next]_vars

---------------------------------------------------------------------------
(* Properties.                                                             *)

Written == results["full"]

\* The content of a whole sweep of a name with these extra rungs.
Whole(content, n, extra) ==
    /\ content.windows = { w \in Windows : Bars[n][w] > 0 }
    /\ \A d \in Dials : content.rungs[d] = { r \in Coarse[d] \cup extra[d] : Base[d] + r <= High[d] }

(***************************************************************************)
(* Results of an invocation of both phases are one sweep: every name of    *)
(* the panel is there or excluded, and each one used was measured on every *)
(* window, every dial and exactly the rungs the file reports, however      *)
(* often earlier invocations were killed, smoke-tested or extended         *)
(* (run_phase_a, _load_shards, the extend-finer loop of main).             *)
(***************************************************************************)
ResultsAreOneSweep ==
    Readable(Written) /\ Written.by = "all" =>
        /\ DOMAIN Written.used \cup DOMAIN Written.excluded = Panel
        /\ \A n \in DOMAIN Written.used : Whole(Written.used[n], n, Written.extra)

(***************************************************************************)
(* Whatever phase wrote them, the results hold no shard that was measured  *)
(* on the windows or the dials of a smoke run, and no dial of a name was   *)
(* dropped by measuring another one again (shard_dir and the comment on    *)
(* partial shards in main).                                                *)
(***************************************************************************)
NoPartialShards ==
    Readable(Written) =>
        \A n \in DOMAIN Written.used :
            /\ Written.used[n].windows = { w \in Windows : Bars[n][w] > 0 }
            /\ \A d \in Dials : Rungs(d, {}) \subseteq Written.used[n].rungs[d]

(***************************************************************************)
(* An invocation of both phases reports no dial at the floor of its sweep  *)
(* while finer rungs are left for it and rounds are left to use them       *)
(* (the extend-finer loop of main).                                        *)
(***************************************************************************)
FloorsAreExtended ==
    Readable(Written) /\ Written.by = "all" /\ Written.rounds < ExtendRounds =>
        \A d \in Dials, w \in Windows :
            Eligible(Written.used, d, w) /\ AtFloor(Written.used, d, w) =>
                Finer[d] \subseteq Written.extra[d]

(***************************************************************************)
(* The K-seed file compares like with like: each of its rows is a whole    *)
(* sweep of its panel with the extra rungs of the results, the rungs       *)
(* results of both phases were measured on (run_kseed).                    *)
(***************************************************************************)
SpreadIsLikeForLike ==
    Readable(kseed) =>
        \A i \in DOMAIN kseed.rows :
            LET row == kseed.rows[i]
            IN /\ DOMAIN row.used \cup DOMAIN row.excluded = AltPanels[i]
               /\ \A n \in DOMAIN row.used : Whole(row.used[n], n, Written.extra)

(***************************************************************************)
(* calibrate_coverage_grid_v3.py:27 promises of a failure outside the      *)
(* guards that it "is recorded and blocks the final results write".        *)
(***************************************************************************)
FailureBlocksTheWrite ==
    Readable(Written) => \A n \in DOMAIN Written.excluded : Written.excluded[n] # "failed"

===============================================================================
