------------------------ MODULE ResearchLoop_proofs ------------------------
(***************************************************************************)
(* Proofs about ResearchLoop, for every value of its constants.            *)
(***************************************************************************)
EXTENDS ResearchLoop, FiniteSetTheorems, TLAPS

-----------------------------------------------------------------------------
(* Type correctness *)

\* What each phase can rely on: an asset is chosen, a proposal is in flight,
\* its Sharpe ratio is known, the candidate under OOS test exists.
PhaseInv ==
    /\ pc \notin {"GOAL_RECEIVED", "COMPLETED", "STOPPED"}
         => current \in 1..Len(AssetPool)
    /\ pc \in {"BUDGET_GUARD", "DATA_PREPARING", "GATING", "CRITIQUING"}
         => proposal \in Strategies
    /\ pc \in {"GATING", "CRITIQUING"} => sharpe \in Sharpes
    /\ pc = "OOS_EVALUATING" => candidates # <<>>

TInv == TypeOK /\ PhaseInv

USE DEF flow, counters, streaks, inflight, lineage, records, lockbox, oosVars, progress

LEMMA PoolLength == Len(AssetPool) \in Nat
BY PoolAssumption

\* Positions in the pool: the first, and the next one while the queue lasts.
LEMMA PoolPositions ==
    /\ 0 \in 0..Len(AssetPool)
    /\ AssetPool # <<>> => 1 \in 1..Len(AssetPool)
    /\ 1..Len(AssetPool) \subseteq 0..Len(AssetPool)
    /\ current \in 0..Len(AssetPool) /\ QueueNonEmpty
         => current + 1 \in 1..Len(AssetPool)
<1>1. AssetPool # <<>> => Len(AssetPool) > 0
  BY PoolAssumption
<1> QED
  BY <1>1, PoolLength DEF QueueNonEmpty

LEMMA NewRootType ==
    ASSUME NewRoot
    PROVE  /\ root' \in RootIds
           /\ familySpent' = 0 /\ admitted' = 0 /\ admittedMutations' = 0
<1>1. \E r \in RootIds : r \notin {root, usage.hypothesis}
  BY DEF RootIds
<1> QED
  BY <1>1 DEF NewRoot

LEMMA InitTInv == Init => TInv
<1> SUFFICES ASSUME Init PROVE TInv
  OBVIOUS
<1>1. FlowType
  <2>1. current = 0 /\ pc = "GOAL_RECEIVED" /\ control = "run" /\ overBudget = FALSE /\ stopReason = ""
    BY DEF Init
  <2> QED
    BY <2>1, PoolPositions DEF FlowType, Phases, StopReasons
<1>2. CounterType
  BY DEF Init, CounterType
<1>3. TrialType
  BY DEF Init, TrialType
<1>4. LineageType
  BY DEF Init, LineageType, FreshUsage, Usage
<1>5. RecordType
  <2>1. candidates = <<>> /\ bestSharpe = <<>> /\ holdoutPeeks = [a \in Assets |-> 0]
    BY DEF Init
  <2> QED
    BY <2>1 DEF RecordType
<1>6. LockboxType
  <2>1. oosResults = <<>> /\ verdicts = [h \in Hashes |-> "none"] /\ familySpent = 0 /\ campaignSpent = 0
    BY DEF Init
  <2> QED
    BY <2>1 DEF LockboxType
<1>7. PhaseInv
  BY DEF Init, PhaseInv
<1> QED
  BY <1>1, <1>2, <1>3, <1>4, <1>5, <1>6, <1>7 DEF TInv, TypeOK

LEMMA FlowStep == TInv /\ [Next]_vars => FlowType'
<1> SUFFICES ASSUME TInv, [Next]_vars PROVE FlowType'
  OBVIOUS
<1> USE DEF TInv, TypeOK, FlowType, Phases, Terminal, StopReasons
<1>1. CASE StartWithoutAssets
  BY <1>1 DEF StartWithoutAssets
<1>2. CASE StartOnFirstAsset
  <2>1. 1 \in 0..Len(AssetPool)
    BY <1>2, PoolPositions DEF StartOnFirstAsset
  <2> QED
    BY <1>2, <2>1 DEF StartOnFirstAsset
<1>3. CASE HitIterationCap
  BY <1>3 DEF HitIterationCap
<1>4. CASE StopOnRequest
  BY <1>4 DEF StopOnRequest
<1>5. CASE BeginIteration
  BY <1>5 DEF BeginIteration
<1>6. CASE \E s \in Strategies : Propose(s)
  BY <1>6 DEF Propose
<1>7. CASE ProposeFails
  BY <1>7 DEF ProposeFails
<1>8. CASE Admit \/ Skip
  BY <1>8 DEF Admit, Skip
<1>9. CASE DataFails \/ (\E sr \in Sharpes : Execute(sr)) \/ ExecuteFails
  BY <1>9 DEF DataFails, Execute, ExecuteFails
<1>10. CASE PassGates \/ FailGates
  BY <1>10 DEF PassGates, FailGates
<1>11. CASE CriticKills \/ CriticAccepts \/ TestHoldout \/ HoldoutTooThin
  BY <1>11 DEF CriticKills, CriticAccepts, TestHoldout, HoldoutTooThin, Surface
<1>12. CASE OOSRecover \/ OOSTerminal \/ OOSUnevaluated \/ OOSRefused
  BY <1>12 DEF OOSRecover, OOSTerminal, OOSUnevaluated, OOSRefused, RecordOOS
<1>13. CASE DecideDone \/ DecideContinue
  <2>1. Decision.decision = "done" => Decision.reason \in StopReasons
    BY DEF Decision, Done, LeaveAsset
  <2> QED
    BY <1>13, <2>1 DEF DecideDone, DecideContinue
<1>14. CASE DecideNextAsset
  <2>1. QueueNonEmpty
    BY <1>14 DEF DecideNextAsset, Decision, Done, LeaveAsset, CapReached
  <2>2. current + 1 \in 0..Len(AssetPool)
    BY <2>1, PoolPositions
  <2> QED
    BY <1>14, <2>2 DEF DecideNextAsset
<1>15. CASE Report
  BY <1>15 DEF Report
<1>16. CASE Environment
  BY <1>16 DEF Environment, SetControl, ExceedTimeOrCost, NewDay, OtherRunEvaluates
<1>17. CASE UNCHANGED vars
  BY <1>17 DEF vars
<1> QED
  BY <1>1, <1>2, <1>3, <1>4, <1>5, <1>6, <1>7, <1>8, <1>9, <1>10, <1>11, <1>12,
     <1>13, <1>14, <1>15, <1>16, <1>17 DEF Next, Loop, Start, Returned

LEMMA CounterStep == TInv /\ [Next]_vars => CounterType'
<1> SUFFICES ASSUME TInv, [Next]_vars PROVE CounterType'
  OBVIOUS
<1> USE DEF TInv, TypeOK, CounterType
<1>1. CASE StartWithoutAssets \/ StartOnFirstAsset \/ HitIterationCap \/ StopOnRequest
  BY <1>1 DEF StartWithoutAssets, StartOnFirstAsset, HitIterationCap, StopOnRequest
<1>2. CASE BeginIteration
  BY <1>2 DEF BeginIteration
<1>3. CASE \/ (\E s \in Strategies : Propose(s)) \/ Admit \/ PassGates
  BY <1>3 DEF Propose, Admit, PassGates
<1>4. CASE ProposeFails \/ Skip \/ DataFails
  BY <1>4 DEF ProposeFails, Skip, DataFails, Bookkeeping
<1>5. CASE (\E sr \in Sharpes : Execute(sr)) \/ ExecuteFails
  BY <1>5 DEF Execute, ExecuteFails, ConsumeRun, RecordFailure, Bookkeeping
<1>6. CASE FailGates \/ CriticKills
  BY <1>6 DEF FailGates, CriticKills, CountFailure, RecordFailure, Bookkeeping
<1>7. CASE CriticAccepts \/ TestHoldout \/ HoldoutTooThin
  <2>1. PICK meets, status, peek : Surface(meets, status, peek)
    BY <1>7 DEF CriticAccepts, TestHoldout, HoldoutTooThin
  <2>2. consecutiveFailures' \in Nat /\ fruitless' \in Nat
    BY <2>1 DEF Surface, StreakAfter
  <2>3. consecutiveErrors' = 0 /\ consecutiveSkips' = 0 /\ barren' = 0
    BY <2>1 DEF Surface, Bookkeeping
  <2>4. UNCHANGED <<iterations, attempts, usedRuns, allFailures>>
    BY <2>1 DEF Surface
  <2> QED
    BY <2>2, <2>3, <2>4
<1>8. CASE OOSRecover \/ OOSTerminal \/ OOSUnevaluated \/ OOSRefused
  BY <1>8 DEF OOSRecover, OOSTerminal, OOSUnevaluated, OOSRefused, RecordOOS
<1>9. CASE DecideDone \/ DecideContinue \/ Report
  BY <1>9 DEF DecideDone, DecideContinue, Report
<1>10. CASE DecideNextAsset
  BY <1>10 DEF DecideNextAsset
<1>11. CASE Environment
  BY <1>11 DEF Environment, SetControl, ExceedTimeOrCost, NewDay, OtherRunEvaluates
<1>12. CASE UNCHANGED vars
  BY <1>12 DEF vars
<1> QED
  BY <1>1, <1>2, <1>3, <1>4, <1>5, <1>6, <1>7, <1>8, <1>9, <1>10, <1>11, <1>12
     DEF Next, Loop, Start, Returned

LEMMA TrialStep == TInv /\ [Next]_vars => TrialType'
<1> SUFFICES ASSUME TInv, [Next]_vars PROVE TrialType'
  OBVIOUS
<1> USE DEF TInv, TypeOK, TrialType
<1>1. CASE StartWithoutAssets \/ StartOnFirstAsset \/ HitIterationCap \/ StopOnRequest
  BY <1>1 DEF StartWithoutAssets, StartOnFirstAsset, HitIterationCap, StopOnRequest
<1>2. CASE BeginIteration \/ ProposeFails \/ PassGates
  BY <1>2 DEF BeginIteration, ProposeFails, PassGates
<1>3. CASE \E s \in Strategies : Propose(s)
  BY <1>3 DEF Propose
<1>4. CASE Admit \/ Skip \/ DataFails \/ ExecuteFails
  BY <1>4 DEF Admit, Skip, DataFails, ExecuteFails
<1>5. CASE \E sr \in Sharpes : Execute(sr)
  BY <1>5 DEF Execute
<1>6. CASE FailGates \/ CriticKills
  BY <1>6 DEF FailGates, CriticKills
<1>7. CASE CriticAccepts \/ TestHoldout \/ HoldoutTooThin
  BY <1>7 DEF CriticAccepts, TestHoldout, HoldoutTooThin, Surface
<1>8. CASE OOSRecover \/ OOSTerminal \/ OOSUnevaluated \/ OOSRefused
  BY <1>8 DEF OOSRecover, OOSTerminal, OOSUnevaluated, OOSRefused, RecordOOS
<1>9. CASE DecideDone \/ DecideNextAsset \/ DecideContinue \/ Report
  BY <1>9 DEF DecideDone, DecideNextAsset, DecideContinue, Report
<1>10. CASE Environment
  BY <1>10 DEF Environment, SetControl, ExceedTimeOrCost, NewDay, OtherRunEvaluates
<1>11. CASE UNCHANGED vars
  BY <1>11 DEF vars
<1> QED
  BY <1>1, <1>2, <1>3, <1>4, <1>5, <1>6, <1>7, <1>8, <1>9, <1>10, <1>11
     DEF Next, Loop, Start, Returned

LEMMA ConsumeType ==
    ASSUME NEW u \in Usage, NEW mutationAfterFailure
    PROVE  Consume(u, mutationAfterFailure) \in Usage
<1>1. u.trials + 1 \in Nat /\ u.lineageToday + 1 \in Nat /\ u.mutations + 1 \in Nat
  BY DEF Usage
<1>2. (IF mutationAfterFailure THEN u.mutations + 1 ELSE u.mutations) \in Nat
  BY <1>1 DEF Usage
<1> QED
  BY <1>1, <1>2 DEF Consume, Usage

LEMMA LineageStep == TInv /\ [Next]_vars => LineageType'
<1> SUFFICES ASSUME TInv, [Next]_vars PROVE LineageType'
  OBVIOUS
<1> USE DEF TInv, TypeOK, LineageType
<1>1. CASE StartWithoutAssets \/ HitIterationCap \/ StopOnRequest
  BY <1>1 DEF StartWithoutAssets, HitIterationCap, StopOnRequest
<1>2. CASE StartOnFirstAsset
  BY <1>2, NewRootType DEF StartOnFirstAsset
<1>3. CASE BeginIteration \/ ProposeFails
  BY <1>3 DEF BeginIteration, ProposeFails
<1>4. CASE \E s \in Strategies : Propose(s)
  BY <1>4, NewRootType, PoolAssumption DEF Propose
<1>5. root \in Nat
  BY DEF RootIds
<1>6. Switched \in Usage
  BY <1>5 DEF Switched, SwitchFamily, FamilyKey, Usage
<1>7. CASE Admit
  <2>1. Consume(Switched, MutationAfterFailure) \in Usage
    BY <1>6, ConsumeType
  <2> QED
    BY <1>7, <2>1 DEF Admit
<1>8. CASE Skip
  BY <1>6, <1>8 DEF Skip
<1>9. CASE DataFails \/ (\E sr \in Sharpes : Execute(sr)) \/ ExecuteFails
  BY <1>9 DEF DataFails, Execute, ExecuteFails
<1>10. CASE PassGates \/ FailGates \/ CriticKills
  BY <1>10 DEF PassGates, FailGates, CriticKills
<1>11. CASE CriticAccepts \/ TestHoldout \/ HoldoutTooThin
  BY <1>11 DEF CriticAccepts, TestHoldout, HoldoutTooThin, Surface
<1>12. CASE OOSRecover \/ OOSTerminal \/ OOSUnevaluated \/ OOSRefused
  BY <1>12 DEF OOSRecover, OOSTerminal, OOSUnevaluated, OOSRefused, RecordOOS
<1>13. CASE DecideDone \/ DecideContinue \/ Report
  BY <1>13 DEF DecideDone, DecideContinue, Report
<1>14. CASE DecideNextAsset
  BY <1>14, NewRootType DEF DecideNextAsset
<1>15. CASE SetControl \/ ExceedTimeOrCost \/ OtherRunEvaluates
  BY <1>15 DEF SetControl, ExceedTimeOrCost, OtherRunEvaluates
<1>16. CASE NewDay
  BY <1>16 DEF NewDay, NewDayUsage, Usage
<1>17. CASE UNCHANGED vars
  BY <1>17 DEF vars
<1> QED
  BY <1>1, <1>2, <1>3, <1>4, <1>7, <1>8, <1>9, <1>10, <1>11, <1>12, <1>13, <1>14,
     <1>15, <1>16, <1>17 DEF Next, Loop, Start, Environment, Returned

\* A surfaced candidate is well-typed, and the watermark is one of the Sharpe
\* ratios seen.
LEMMA SurfaceType ==
    ASSUME TInv, pc = "CRITIQUING", NEW meets \in BOOLEAN,
           NEW status \in StatusSet, NEW peek \in Nat, Surface(meets, status, peek)
    PROVE  candidates' \in Seq(Candidate) /\ bestSharpe' \in Seq(Sharpes)
<1> DEFINE c == [strategy |-> proposal, visit |-> current, sharpe |-> sharpe,
                 meets |-> meets, status |-> status, peek |-> peek]
<1>1. /\ proposal \in Strategies /\ sharpe \in Sharpes
      /\ current \in 1..Len(AssetPool)
      /\ candidates \in Seq(Candidate) /\ bestSharpe \in Seq(Sharpes)
  BY DEF TInv, TypeOK, PhaseInv, RecordType
<1>2. c \in Candidate
  BY <1>1 DEF Candidate
<1>3. candidates' = Append(candidates, c)
  BY DEF Surface
<1>4. NewBest \in Sharpes
  BY <1>1 DEF NewBest
<1>5. bestSharpe' = bestSharpe \/ bestSharpe' = Append(bestSharpe, NewBest)
  BY DEF Surface
<1> HIDE DEF c
<1>6. candidates' \in Seq(Candidate)
  BY <1>1, <1>2, <1>3
<1>7. bestSharpe' \in Seq(Sharpes)
  BY <1>1, <1>4, <1>5
<1> QED
  BY <1>6, <1>7

LEMMA RecordStep == TInv /\ [Next]_vars => RecordType'
<1> SUFFICES ASSUME TInv, [Next]_vars PROVE RecordType'
  OBVIOUS
<1> USE DEF TypeOK, RecordType
<1>0. RecordType
  BY DEF TInv
<1>1. CASE StartWithoutAssets \/ StartOnFirstAsset \/ HitIterationCap \/ StopOnRequest
  BY <1>0, <1>1 DEF StartWithoutAssets, StartOnFirstAsset, HitIterationCap, StopOnRequest
<1>2. CASE BeginIteration \/ (\E s \in Strategies : Propose(s)) \/ ProposeFails
  BY <1>0, <1>2 DEF BeginIteration, Propose, ProposeFails
<1>3. CASE Admit \/ Skip \/ DataFails
  BY <1>0, <1>3 DEF Admit, Skip, DataFails
<1>4. CASE (\E sr \in Sharpes : Execute(sr)) \/ ExecuteFails
  BY <1>0, <1>4 DEF Execute, ExecuteFails
<1>5. CASE PassGates \/ FailGates \/ CriticKills
  BY <1>0, <1>5 DEF PassGates, FailGates, CriticKills
<1>6. CASE CriticAccepts \/ HoldoutTooThin
  <2>1. PICK meets \in BOOLEAN, status \in StatusSet : Surface(meets, status, 0)
    BY <1>6 DEF CriticAccepts, HoldoutTooThin, StatusSet
  <2>2. candidates' \in Seq(Candidate) /\ bestSharpe' \in Seq(Sharpes)
    BY <1>6, <2>1, SurfaceType DEF CriticAccepts, HoldoutTooThin
  <2> QED
    BY <1>0, <1>6, <2>2 DEF CriticAccepts, HoldoutTooThin
<1>7. CASE TestHoldout
  <2>1. NextPeek \in Nat
    <3>1. AssetPool[current] \in Assets
      BY <1>7, PoolAssumption DEF TestHoldout, TInv, PhaseInv
    <3> QED
      BY <1>0, <3>1 DEF NextPeek
  <2>2. PICK meets \in BOOLEAN, status \in StatusSet : Surface(meets, status, NextPeek)
    BY <1>7 DEF TestHoldout, StatusSet
  <2>3. candidates' \in Seq(Candidate) /\ bestSharpe' \in Seq(Sharpes)
    BY <1>7, <2>1, <2>2, SurfaceType DEF TestHoldout
  <2>4. holdoutPeeks' \in [Assets -> Nat]
    BY <1>0, <1>7, <2>1 DEF TestHoldout
  <2> QED
    BY <2>3, <2>4
<1>8. CASE OOSRecover \/ OOSTerminal \/ OOSUnevaluated \/ OOSRefused
  BY <1>0, <1>8 DEF OOSRecover, OOSTerminal, OOSUnevaluated, OOSRefused, RecordOOS
<1>9. CASE DecideDone \/ DecideContinue \/ Report
  BY <1>0, <1>9 DEF DecideDone, DecideContinue, Report
<1>10. CASE DecideNextAsset
  <2>1. bestSharpe' = <<>> /\ UNCHANGED <<candidates, holdoutPeeks>>
    BY <1>10 DEF DecideNextAsset
  <2> QED
    BY <1>0, <2>1
<1>11. CASE Environment
  BY <1>0, <1>11 DEF Environment, SetControl, ExceedTimeOrCost, NewDay, OtherRunEvaluates
<1>12. CASE UNCHANGED vars
  BY <1>0, <1>12 DEF vars
<1> QED
  BY <1>1, <1>2, <1>3, <1>4, <1>5, <1>6, <1>7, <1>8, <1>9, <1>10, <1>11, <1>12
     DEF Next, Loop, Start, Returned

\* The strategy under OOS test is one the run surfaced.
LEMMA OOSHashType ==
    ASSUME TInv, pc = "OOS_EVALUATING"
    PROVE  OOSHash \in Hashes
<1>1. candidates \in Seq(Candidate) /\ candidates # <<>>
  BY DEF TInv, TypeOK, RecordType, PhaseInv
<1>2. candidates[Len(candidates)] \in Candidate
  BY <1>1
<1>3. /\ candidates[Len(candidates)].strategy \in Strategies
      /\ candidates[Len(candidates)].visit \in 1..Len(AssetPool)
  BY <1>2 DEF Candidate
<1>4. AssetPool[candidates[Len(candidates)].visit] \in Assets
  BY <1>3, PoolAssumption
<1> QED
  BY <1>3, <1>4 DEF OOSHash, HashOf, Hashes

LEMMA RecordOOSType ==
    ASSUME TInv, pc = "OOS_EVALUATING", NEW o \in {"PASS", "FAIL", "UNEVALUATED"},
           RecordOOS(o)
    PROVE  oosResults' \in Seq(OOSResult)
<1>1. [hash |-> OOSHash, outcome |-> o] \in OOSResult
  BY OOSHashType DEF OOSResult
<1>2. oosResults \in Seq(OOSResult)
  BY DEF TInv, TypeOK, LockboxType
<1> QED
  BY <1>1, <1>2 DEF RecordOOS

LEMMA LockboxStep == TInv /\ [Next]_vars => LockboxType'
<1> SUFFICES ASSUME TInv, [Next]_vars PROVE LockboxType'
  OBVIOUS
<1> USE DEF LockboxType
<1>0. LockboxType
  BY DEF TInv, TypeOK
<1>1. CASE StartWithoutAssets \/ HitIterationCap \/ StopOnRequest
  BY <1>0, <1>1 DEF StartWithoutAssets, HitIterationCap, StopOnRequest
<1>2. CASE StartOnFirstAsset
  BY <1>0, <1>2, NewRootType DEF StartOnFirstAsset
<1>3. CASE BeginIteration \/ ProposeFails
  BY <1>0, <1>3 DEF BeginIteration, ProposeFails
<1>4. CASE \E s \in Strategies : Propose(s)
  BY <1>0, <1>4, NewRootType DEF Propose
<1>5. CASE Admit \/ Skip \/ DataFails
  BY <1>0, <1>5 DEF Admit, Skip, DataFails
<1>6. CASE (\E sr \in Sharpes : Execute(sr)) \/ ExecuteFails
  BY <1>0, <1>6 DEF Execute, ExecuteFails
<1>7. CASE PassGates \/ FailGates \/ CriticKills
  BY <1>0, <1>7 DEF PassGates, FailGates, CriticKills
<1>8. CASE CriticAccepts \/ TestHoldout \/ HoldoutTooThin
  BY <1>0, <1>8 DEF CriticAccepts, TestHoldout, HoldoutTooThin, Surface
<1>9. CASE OOSRecover
  <2>1. verdicts[OOSHash] \in {"PASS", "FAIL"}
    BY <1>0, <1>9, OOSHashType DEF OOSRecover
  <2>2. oosResults' \in Seq(OOSResult)
    BY <1>9, <2>1, RecordOOSType DEF OOSRecover
  <2> QED
    BY <1>0, <1>9, <2>2 DEF OOSRecover
<1>10. CASE OOSTerminal
  <2>1. PICK o \in {"PASS", "FAIL"} :
          RecordOOS(o) /\ verdicts' = [verdicts EXCEPT ![OOSHash] = o]
    BY <1>10 DEF OOSTerminal
  <2>2. oosResults' \in Seq(OOSResult)
    BY <1>10, <2>1, RecordOOSType DEF OOSTerminal, NoVerdictYet
  <2>3. verdicts' \in [Hashes -> {"none", "PASS", "FAIL"}]
    BY <1>0, <2>1
  <2> QED
    BY <1>0, <1>10, <2>2, <2>3 DEF OOSTerminal
<1>11. CASE OOSUnevaluated
  <2>1. oosResults' \in Seq(OOSResult)
    BY <1>11, RecordOOSType DEF OOSUnevaluated, NoVerdictYet
  <2> QED
    BY <1>0, <1>11, <2>1 DEF OOSUnevaluated
<1>12. CASE OOSRefused
  BY <1>0, <1>12 DEF OOSRefused
<1>13. CASE DecideDone \/ DecideContinue \/ Report
  BY <1>0, <1>13 DEF DecideDone, DecideContinue, Report
<1>14. CASE DecideNextAsset
  BY <1>0, <1>14, NewRootType DEF DecideNextAsset
<1>15. CASE SetControl \/ ExceedTimeOrCost \/ NewDay
  BY <1>0, <1>15 DEF SetControl, ExceedTimeOrCost, NewDay
<1>16. CASE OtherRunEvaluates
  BY <1>0, <1>16 DEF OtherRunEvaluates
<1>17. CASE UNCHANGED vars
  BY <1>0, <1>17 DEF vars
<1> QED
  BY <1>1, <1>2, <1>3, <1>4, <1>5, <1>6, <1>7, <1>8, <1>9, <1>10, <1>11, <1>12,
     <1>13, <1>14, <1>15, <1>16, <1>17 DEF Next, Loop, Start, Environment, Returned

\* A surfaced trial is one more candidate.
LEMMA SurfaceAppends ==
    ASSUME TInv, CriticAccepts \/ TestHoldout \/ HoldoutTooThin
    PROVE  Len(candidates') = Len(candidates) + 1 /\ candidates' # <<>>
<1>1. PICK meets, status, peek : Surface(meets, status, peek)
  BY DEF CriticAccepts, TestHoldout, HoldoutTooThin
<1>2. candidates \in Seq(Candidate)
  BY DEF TInv, TypeOK, RecordType
<1> DEFINE c == [strategy |-> proposal, visit |-> current, sharpe |-> sharpe,
                 meets |-> meets, status |-> status, peek |-> peek]
<1>3. candidates' = Append(candidates, c)
  BY <1>1 DEF Surface
<1> HIDE DEF c
<1> QED
  BY <1>2, <1>3

LEMMA PhaseStep == TInv /\ [Next]_vars => PhaseInv'
<1> SUFFICES ASSUME TInv, [Next]_vars PROVE PhaseInv'
  OBVIOUS
<1> USE DEF PhaseInv
<1>0. PhaseInv /\ current \in 0..Len(AssetPool) /\ candidates \in Seq(Candidate)
  BY DEF TInv, TypeOK, FlowType, RecordType
<1>1. CASE StartWithoutAssets \/ StartOnFirstAsset
  BY <1>1, PoolPositions DEF StartWithoutAssets, StartOnFirstAsset
<1>2. CASE HitIterationCap \/ StopOnRequest \/ BeginIteration
  BY <1>0, <1>2 DEF HitIterationCap, StopOnRequest, BeginIteration
<1>3. CASE (\E s \in Strategies : Propose(s)) \/ ProposeFails
  BY <1>0, <1>3 DEF Propose, ProposeFails
<1>4. CASE Admit \/ Skip \/ DataFails
  BY <1>0, <1>4 DEF Admit, Skip, DataFails
<1>5. CASE (\E sr \in Sharpes : Execute(sr)) \/ ExecuteFails
  BY <1>0, <1>5 DEF Execute, ExecuteFails
<1>6. CASE PassGates \/ FailGates \/ CriticKills
  BY <1>0, <1>6 DEF PassGates, FailGates, CriticKills
<1>7. CASE CriticAccepts \/ TestHoldout \/ HoldoutTooThin
  <2>1. candidates' # <<>>
    BY <1>7, SurfaceAppends
  <2>2. current' = current /\ pc' \in {"DECIDING", "OOS_EVALUATING"}
    BY <1>7 DEF CriticAccepts, TestHoldout, HoldoutTooThin, Surface
  <2>3. current \in 1..Len(AssetPool)
    BY <1>0, <1>7 DEF CriticAccepts, TestHoldout, HoldoutTooThin
  <2> QED
    BY <2>1, <2>2, <2>3
<1>8. CASE OOSRecover \/ OOSTerminal \/ OOSUnevaluated \/ OOSRefused
  BY <1>0, <1>8 DEF OOSRecover, OOSTerminal, OOSUnevaluated, OOSRefused, RecordOOS,
     NoVerdictYet
<1>9. CASE DecideDone \/ DecideContinue \/ Report
  BY <1>0, <1>9 DEF DecideDone, DecideContinue, Report
<1>10. CASE DecideNextAsset
  <2>1. QueueNonEmpty
    BY <1>10 DEF DecideNextAsset, Decision, Done, LeaveAsset, CapReached
  <2> QED
    BY <1>0, <1>10, <2>1, PoolPositions DEF DecideNextAsset
<1>11. CASE Environment
  BY <1>0, <1>11 DEF Environment, SetControl, ExceedTimeOrCost, NewDay, OtherRunEvaluates
<1>12. CASE UNCHANGED vars
  BY <1>0, <1>12 DEF vars
<1> QED
  BY <1>1, <1>2, <1>3, <1>4, <1>5, <1>6, <1>7, <1>8, <1>9, <1>10, <1>11, <1>12
     DEF Next, Loop, Start, Returned

LEMMA TInvInvariant == Spec => []TInv
<1>1. TInv /\ [Next]_vars => TInv'
  BY FlowStep, CounterStep, TrialStep, LineageStep, RecordStep, LockboxStep, PhaseStep
     DEF TInv, TypeOK
<1> QED
  BY InitTInv, <1>1, PTL DEF Spec

\* Every state of every run is well-typed: in particular the Director never
\* leaves the asset pool and nothing is surfaced that was not backtested.
THEOREM TypeCorrect == Spec => []TypeOK
<1>1. TInv => TypeOK
  BY DEF TInv
<1> QED
  BY TInvInvariant, <1>1, PTL

-----------------------------------------------------------------------------
(* The books of the run balance *)

\* RunAccounting alone is not inductive: that a backtest may be consumed at all
\* rests on the budget being open from the decision to continue until then.
BudgetOpen ==
    pc \in {"GOAL_RECEIVED", "LOOP_HEAD", "PROPOSING", "BUDGET_GUARD", "DATA_PREPARING"}
        => usedRuns < MaxRuns

AccountInv == RunAccounting /\ BudgetOpen

LEMMA MaxIterationsNat == MaxIterations \in Nat
BY GoalAssumption DEF MaxIterations

LEMMA InitAccount == Init => AccountInv
<1> SUFFICES ASSUME Init PROVE AccountInv
  OBVIOUS
<1>1. /\ usedRuns = 0 /\ allFailures = 0 /\ candidates = <<>> /\ iterations = 0
      /\ pc = "GOAL_RECEIVED"
  BY DEF Init
<1> QED
  BY <1>1, GoalAssumption, MaxIterationsNat
     DEF AccountInv, RunAccounting, BudgetOpen, InFlight

LEMMA AccountStep == TInv /\ AccountInv /\ [Next]_vars => AccountInv'
<1> SUFFICES ASSUME TInv, AccountInv, [Next]_vars PROVE AccountInv'
  OBVIOUS
<1>0. /\ usedRuns \in Nat /\ allFailures \in Nat /\ iterations \in Nat
      /\ candidates \in Seq(Candidate) /\ Len(candidates) \in Nat
      /\ MaxRuns \in Nat /\ MaxIterations \in Nat
  BY GoalAssumption, MaxIterationsNat DEF TInv, TypeOK, CounterType, RecordType
<1> USE <1>0 DEF AccountInv, RunAccounting, BudgetOpen, InFlight
<1>1. CASE StartWithoutAssets \/ StartOnFirstAsset \/ HitIterationCap \/ StopOnRequest
  BY <1>1 DEF StartWithoutAssets, StartOnFirstAsset, HitIterationCap, StopOnRequest
<1>2. CASE BeginIteration
  <2>1. /\ iterations' = iterations + 1 /\ iterations < MaxIterations
        /\ pc = "LOOP_HEAD" /\ pc' = "PROPOSING"
        /\ UNCHANGED <<usedRuns, allFailures, candidates>>
    BY <1>2 DEF BeginIteration
  <2>2. MaxIterations' = MaxIterations
    BY DEF MaxIterations
  <2> HIDE DEF MaxIterations
  <2> QED
    BY <2>1, <2>2
<1>3. CASE (\E s \in Strategies : Propose(s)) \/ ProposeFails
  BY <1>3 DEF Propose, ProposeFails
<1>4. CASE Admit \/ Skip \/ DataFails
  BY <1>4 DEF Admit, Skip, DataFails
<1>5. CASE (\E sr \in Sharpes : Execute(sr)) \/ ExecuteFails
  BY <1>5 DEF Execute, ExecuteFails, ConsumeRun, RecordFailure
<1>6. CASE PassGates \/ FailGates \/ CriticKills
  BY <1>6 DEF PassGates, FailGates, CriticKills, RecordFailure
<1>7. CASE CriticAccepts \/ TestHoldout \/ HoldoutTooThin
  <2>1. /\ pc = "CRITIQUING" /\ pc' \in {"OOS_EVALUATING", "DECIDING"}
        /\ UNCHANGED <<usedRuns, allFailures, iterations>>
    BY <1>7 DEF CriticAccepts, TestHoldout, HoldoutTooThin, Surface
  <2>2. Len(candidates') = Len(candidates) + 1
    BY <1>7, SurfaceAppends
  <2> QED
    BY <2>1, <2>2
<1>8. CASE OOSRecover \/ OOSTerminal \/ OOSUnevaluated \/ OOSRefused
  BY <1>8 DEF OOSRecover, OOSTerminal, OOSUnevaluated, OOSRefused, RecordOOS, NoVerdictYet
<1>9. CASE DecideDone \/ Report
  BY <1>9 DEF DecideDone, Report
<1>10. CASE DecideNextAsset \/ DecideContinue
  <2>1. ~BudgetExhausted
    BY <1>10 DEF DecideNextAsset, DecideContinue, Decision, Done
  <2> QED
    BY <1>10, <2>1 DEF DecideNextAsset, DecideContinue, BudgetExhausted
<1>11. CASE Environment
  BY <1>11 DEF Environment, SetControl, ExceedTimeOrCost, NewDay, OtherRunEvaluates
<1>12. CASE UNCHANGED vars
  BY <1>12 DEF vars
<1> QED
  BY <1>1, <1>2, <1>3, <1>4, <1>5, <1>6, <1>7, <1>8, <1>9, <1>10, <1>11, <1>12
     DEF Next, Loop, Start, Returned

LEMMA AccountInvariant == Spec => []AccountInv
BY InitAccount, AccountStep, TInvInvariant, PTL DEF Spec

\* Every consumed backtest is in exactly one record or in flight, and neither
\* the run budget nor the iteration backstop is ever exceeded, for any budgets,
\* pools and error patterns.
THEOREM RunsAreAccounted == Spec => []RunAccounting
<1>1. AccountInv => RunAccounting
  BY DEF AccountInv
<1> QED
  BY AccountInvariant, <1>1, PTL

-----------------------------------------------------------------------------
(* A run is completed exactly when its goal was reached *)

\* The number of validated candidates is a natural number, at most the number
\* of candidates.
LEMMA ValidatedBound ==
    ASSUME candidates \in Seq(Candidate)
    PROVE  /\ IsFiniteSet(ValidatedAt)
           /\ Validated \in Nat /\ Validated <= Len(candidates)
<1>1. Len(candidates) \in Nat /\ DOMAIN candidates = 1..Len(candidates)
  OBVIOUS
<1>2. ValidatedAt \subseteq 1..Len(candidates)
  BY <1>1 DEF ValidatedAt
<1>3. IsFiniteSet(1..Len(candidates)) /\ Cardinality(1..Len(candidates)) = Len(candidates)
  BY <1>1, FS_Interval
<1>4. IsFiniteSet(ValidatedAt) /\ Cardinality(ValidatedAt) <= Cardinality(1..Len(candidates))
  BY <1>2, <1>3, FS_Subset
<1>5. Cardinality(ValidatedAt) \in Nat
  BY <1>4, FS_CardinalityType
<1> QED
  BY <1>3, <1>4, <1>5 DEF Validated

\* It depends on the candidates and the passed strategies alone.
LEMMA ValidatedSame ==
    ASSUME candidates' = candidates, Passed' = Passed
    PROVE  Validated' = Validated
<1>1. ValidatedAt' = ValidatedAt
  BY DEF ValidatedAt, HashOf
<1> QED
  BY <1>1 DEF Validated

LEMMA PassedSame ==
    ASSUME oosResults' = oosResults
    PROVE  Passed' = Passed
BY DEF Passed

\* Only a surfaced candidate or an OOS outcome can change it.
LEMMA QuietStep ==
    ASSUME [Next]_vars,
           ~(CriticAccepts \/ TestHoldout \/ HoldoutTooThin),
           ~(OOSRecover \/ OOSTerminal \/ OOSUnevaluated)
    PROVE  Validated' = Validated
<1>1. UNCHANGED <<candidates, oosResults>>
  <2>1. CASE StartWithoutAssets \/ StartOnFirstAsset \/ HitIterationCap \/ StopOnRequest
    BY <2>1 DEF StartWithoutAssets, StartOnFirstAsset, HitIterationCap, StopOnRequest
  <2>2. CASE BeginIteration \/ (\E s \in Strategies : Propose(s)) \/ ProposeFails
    BY <2>2 DEF BeginIteration, Propose, ProposeFails
  <2>3. CASE Admit \/ Skip \/ DataFails
    BY <2>3 DEF Admit, Skip, DataFails
  <2>4. CASE (\E sr \in Sharpes : Execute(sr)) \/ ExecuteFails
    BY <2>4 DEF Execute, ExecuteFails
  <2>5. CASE PassGates \/ FailGates \/ CriticKills \/ OOSRefused
    BY <2>5 DEF PassGates, FailGates, CriticKills, OOSRefused
  <2>6. CASE DecideDone \/ DecideNextAsset \/ DecideContinue \/ Report
    BY <2>6 DEF DecideDone, DecideNextAsset, DecideContinue, Report
  <2>7. CASE Environment
    BY <2>7 DEF Environment, SetControl, ExceedTimeOrCost, NewDay, OtherRunEvaluates
  <2>8. CASE UNCHANGED vars
    BY <2>8 DEF vars
  <2> QED
    BY <2>1, <2>2, <2>3, <2>4, <2>5, <2>6, <2>7, <2>8 DEF Next, Loop, Start, Returned
<1> QED
  BY <1>1, PassedSame, ValidatedSame

\* CompletedIffGoalMet is inductive together with: the goal is open from the
\* decision to continue until something is surfaced, and the reason of a
\* finished run says whether it was reached.
GoalOpen ==
    pc \in {"GOAL_RECEIVED", "LOOP_HEAD", "PROPOSING", "BUDGET_GUARD",
            "DATA_PREPARING", "GATING", "CRITIQUING"} => ~GoalMet
ReasonTold == pc = "REPORTING" => (stopReason = "goal_met" <=> GoalMet)

GoalInv == CompletedIffGoalMet /\ GoalOpen /\ ReasonTold

LEMMA InitGoal == Init => GoalInv
<1> SUFFICES ASSUME Init PROVE GoalInv
  OBVIOUS
<1>1. candidates = <<>> /\ pc = "GOAL_RECEIVED"
  BY DEF Init
<1>2. Len(candidates) = 0 /\ candidates \in Seq(Candidate)
  BY <1>1
<1>3. Validated = 0
  BY <1>2, ValidatedBound
<1>4. ~GoalMet
  BY <1>3, GoalAssumption DEF GoalMet
<1> QED
  BY <1>1, <1>4 DEF GoalInv, CompletedIffGoalMet, GoalOpen, ReasonTold, Terminal

LEMMA GoalStep == TInv /\ GoalInv /\ [Next]_vars => GoalInv'
<1> SUFFICES ASSUME TInv, GoalInv, [Next]_vars PROVE GoalInv'
  OBVIOUS
<1> USE DEF GoalInv, CompletedIffGoalMet, GoalOpen, ReasonTold, Terminal
<1>1. CASE CriticAccepts \/ TestHoldout \/ HoldoutTooThin
  <2>1. pc' \in {"OOS_EVALUATING", "DECIDING"}
    BY <1>1 DEF CriticAccepts, TestHoldout, HoldoutTooThin
  <2> QED
    BY <2>1
<1>2. CASE OOSRecover \/ OOSTerminal \/ OOSUnevaluated
  <2>1. pc' = "DECIDING"
    BY <1>2 DEF OOSRecover, OOSTerminal, OOSUnevaluated, RecordOOS
  <2> QED
    BY <2>1
<1>3. CASE ~(CriticAccepts \/ TestHoldout \/ HoldoutTooThin)
           /\ ~(OOSRecover \/ OOSTerminal \/ OOSUnevaluated)
  <2>0. (GoalMet' <=> GoalMet)
        /\ (GoalMet <=> Validated >= TargetCandidates)
        /\ (GoalMet' <=> Validated' >= TargetCandidates)
    BY <1>3, QuietStep DEF GoalMet
  <2>1. CASE StartWithoutAssets \/ StartOnFirstAsset
    BY <2>0, <2>1 DEF StartWithoutAssets, StartOnFirstAsset
  <2>2. CASE HitIterationCap \/ StopOnRequest \/ BeginIteration
    BY <2>0, <2>2 DEF HitIterationCap, StopOnRequest, BeginIteration
  <2>3. CASE (\E s \in Strategies : Propose(s)) \/ ProposeFails
    BY <2>0, <2>3 DEF Propose, ProposeFails
  <2>4. CASE Admit \/ Skip \/ DataFails
    BY <2>0, <2>4 DEF Admit, Skip, DataFails
  <2>5. CASE (\E sr \in Sharpes : Execute(sr)) \/ ExecuteFails
    BY <2>0, <2>5 DEF Execute, ExecuteFails
  <2>6. CASE PassGates \/ FailGates \/ CriticKills \/ OOSRefused
    BY <2>0, <2>6 DEF PassGates, FailGates, CriticKills, OOSRefused
  <2>7. CASE DecideDone
    <3>1. Decision.decision = "done" => (Decision.reason = "goal_met" <=> GoalMet)
      BY DEF Decision, Done, LeaveAsset
    <3> QED
      BY <2>0, <2>7, <3>1 DEF DecideDone
  <2>8. CASE DecideNextAsset \/ DecideContinue
    <3>1. ~GoalMet
      BY <2>8 DEF DecideNextAsset, DecideContinue, Decision, Done
    <3> QED
      BY <2>0, <2>8, <3>1 DEF DecideNextAsset, DecideContinue
  <2>9. CASE Report
    BY <2>0, <2>9 DEF Report
  <2>10. CASE Environment
    BY <2>0, <2>10 DEF Environment, SetControl, ExceedTimeOrCost, NewDay, OtherRunEvaluates
  <2>11. CASE UNCHANGED vars
    BY <2>0, <2>11 DEF vars
  <2> QED
    BY <1>3, <2>1, <2>2, <2>3, <2>4, <2>5, <2>6, <2>7, <2>8, <2>9, <2>10, <2>11
       DEF Next, Loop, Start, Returned
<1> QED
  BY <1>1, <1>2, <1>3

LEMMA GoalInvariant == Spec => []GoalInv
BY InitGoal, GoalStep, TInvInvariant, PTL DEF Spec

\* A finished run is COMPLETED exactly when enough candidates were validated,
\* whichever rule, breaker, backstop or user request ended it.
THEOREM CompletionIsHonest == Spec => []CompletedIffGoalMet
<1>1. GoalInv => CompletedIffGoalMet
  BY DEF GoalInv
<1> QED
  BY GoalInvariant, <1>1, PTL

-----------------------------------------------------------------------------
(* A strategy has one verdict, for ever *)

LEMMA AppendIndex ==
    ASSUME NEW S, NEW s \in Seq(S), NEW e \in S
    PROVE  /\ Append(s, e) \in Seq(S)
           /\ DOMAIN Append(s, e) = DOMAIN s \cup {Len(s) + 1}
           /\ Append(s, e)[Len(s) + 1] = e
           /\ \A i \in DOMAIN s : Append(s, e)[i] = s[i]
OBVIOUS

\* If the goal is reached when the OOS step begins, it was reached by surfacing
\* a strategy that had passed before: then the step recovers that verdict.
GoalByRecovery == pc = "OOS_EVALUATING" /\ GoalMet => OOSHash \in Passed

\* A recorded outcome that agrees with the lockbox keeps VerdictsStand.
LEMMA RecordKeepsVerdicts ==
    ASSUME TInv, VerdictsStand, pc = "OOS_EVALUATING",
           NEW o \in {"PASS", "FAIL", "UNEVALUATED"}, RecordOOS(o),
           o # "UNEVALUATED" => verdicts'[OOSHash] = o,
           \A h \in Hashes : verdicts[h] # "none" => verdicts'[h] = verdicts[h]
    PROVE  VerdictsStand'
<1> DEFINE r == [hash |-> OOSHash, outcome |-> o]
<1>1. r \in OOSResult /\ oosResults \in Seq(OOSResult)
  BY OOSHashType DEF OOSResult, TInv, TypeOK, LockboxType
<1>2. oosResults' = Append(oosResults, r)
  BY DEF RecordOOS
<1>3. r.hash = OOSHash /\ r.outcome = o
  OBVIOUS
<1> HIDE DEF r
<1> SUFFICES ASSUME NEW i \in DOMAIN oosResults', oosResults'[i].outcome # "UNEVALUATED"
             PROVE  verdicts'[oosResults'[i].hash] = oosResults'[i].outcome
  BY DEF VerdictsStand
<1>4. CASE i = Len(oosResults) + 1
  BY <1>1, <1>2, <1>3, <1>4, AppendIndex
<1>5. CASE i \in DOMAIN oosResults
  <2>1. oosResults'[i] = oosResults[i]
    BY <1>1, <1>2, <1>5, AppendIndex
  <2>2. oosResults[i] \in OOSResult
    BY <1>1, <1>5
  <2>3. oosResults[i].hash \in Hashes /\ oosResults[i].outcome # "none"
    BY <2>2 DEF OOSResult
  <2>4. verdicts[oosResults[i].hash] = oosResults[i].outcome
    BY <1>5, <2>1 DEF VerdictsStand
  <2> QED
    BY <2>1, <2>3, <2>4
<1> QED
  BY <1>1, <1>2, <1>4, <1>5, AppendIndex

\* What leaves the outcomes alone keeps it, if recorded verdicts stay.
LEMMA OthersKeepVerdicts ==
    ASSUME TInv, VerdictsStand, oosResults' = oosResults,
           \A h \in Hashes : verdicts[h] # "none" => verdicts'[h] = verdicts[h]
    PROVE  VerdictsStand'
<1> SUFFICES ASSUME NEW i \in DOMAIN oosResults, oosResults[i].outcome # "UNEVALUATED"
             PROVE  verdicts'[oosResults[i].hash] = oosResults[i].outcome
  BY DEF VerdictsStand
<1>1. oosResults[i] \in OOSResult
  BY DEF TInv, TypeOK, LockboxType
<1>2. oosResults[i].hash \in Hashes /\ oosResults[i].outcome # "none"
  BY <1>1 DEF OOSResult
<1>3. verdicts[oosResults[i].hash] = oosResults[i].outcome
  BY DEF VerdictsStand
<1> QED
  BY <1>2, <1>3

LEMMA VerdictsStep == TInv /\ VerdictsStand /\ [Next]_vars => VerdictsStand'
<1> SUFFICES ASSUME TInv, VerdictsStand, [Next]_vars PROVE VerdictsStand'
  OBVIOUS
<1>0. verdicts \in [Hashes -> {"none", "PASS", "FAIL"}]
  BY DEF TInv, TypeOK, LockboxType
<1>1. CASE OOSRecover
  <2>1. verdicts[OOSHash] \in {"PASS", "FAIL"} /\ RecordOOS(verdicts[OOSHash])
        /\ verdicts' = verdicts
    BY <1>0, <1>1, OOSHashType DEF OOSRecover
  <2> QED
    BY <1>1, <2>1, RecordKeepsVerdicts DEF OOSRecover
<1>2. CASE OOSTerminal
  <2>1. PICK o \in {"PASS", "FAIL"} :
          RecordOOS(o) /\ verdicts' = [verdicts EXCEPT ![OOSHash] = o]
    BY <1>2 DEF OOSTerminal
  <2>2. pc = "OOS_EVALUATING" /\ verdicts[OOSHash] = "none"
    BY <1>2 DEF OOSTerminal, NoVerdictYet
  <2>3. verdicts'[OOSHash] = o
    BY <1>0, <2>1, <2>2, OOSHashType
  <2>4. \A h \in Hashes : verdicts[h] # "none" => verdicts'[h] = verdicts[h]
    BY <1>0, <2>1, <2>2
  <2> QED
    BY <2>1, <2>2, <2>3, <2>4, RecordKeepsVerdicts
<1>3. CASE OOSUnevaluated
  <2>1. RecordOOS("UNEVALUATED") /\ pc = "OOS_EVALUATING" /\ verdicts' = verdicts
    BY <1>3 DEF OOSUnevaluated, NoVerdictYet
  <2> QED
    BY <2>1, RecordKeepsVerdicts
<1>4. CASE OtherRunEvaluates
  <2>1. PICK h \in Hashes, o \in {"PASS", "FAIL"} :
          verdicts[h] = "none" /\ verdicts' = [verdicts EXCEPT ![h] = o]
    BY <1>4 DEF OtherRunEvaluates
  <2>2. \A g \in Hashes : verdicts[g] # "none" => verdicts'[g] = verdicts[g]
    BY <1>0, <2>1
  <2>3. oosResults' = oosResults
    BY <1>4 DEF OtherRunEvaluates
  <2> QED
    BY <2>2, <2>3, OthersKeepVerdicts
<1>5. CASE ~OOSRecover /\ ~OOSTerminal /\ ~OOSUnevaluated /\ ~OtherRunEvaluates
  <2> SUFFICES oosResults' = oosResults /\ verdicts' = verdicts
    BY OthersKeepVerdicts
  <2>1. CASE StartWithoutAssets \/ StartOnFirstAsset \/ HitIterationCap \/ StopOnRequest
    BY <2>1 DEF StartWithoutAssets, StartOnFirstAsset, HitIterationCap, StopOnRequest
  <2>2. CASE BeginIteration \/ (\E s \in Strategies : Propose(s)) \/ ProposeFails
    BY <2>2 DEF BeginIteration, Propose, ProposeFails
  <2>3. CASE Admit \/ Skip \/ DataFails
    BY <2>3 DEF Admit, Skip, DataFails
  <2>4. CASE (\E sr \in Sharpes : Execute(sr)) \/ ExecuteFails
    BY <2>4 DEF Execute, ExecuteFails
  <2>5. CASE PassGates \/ FailGates \/ CriticKills \/ OOSRefused
    BY <2>5 DEF PassGates, FailGates, CriticKills, OOSRefused
  <2>6. CASE CriticAccepts \/ TestHoldout \/ HoldoutTooThin
    BY <2>6 DEF CriticAccepts, TestHoldout, HoldoutTooThin, Surface
  <2>7. CASE DecideDone \/ DecideNextAsset \/ DecideContinue \/ Report
    BY <2>7 DEF DecideDone, DecideNextAsset, DecideContinue, Report
  <2>8. CASE SetControl \/ ExceedTimeOrCost \/ NewDay
    BY <2>8 DEF SetControl, ExceedTimeOrCost, NewDay
  <2>9. CASE UNCHANGED vars
    BY <2>9 DEF vars
  <2> QED
    BY <1>5, <2>1, <2>2, <2>3, <2>4, <2>5, <2>6, <2>7, <2>8, <2>9
       DEF Next, Loop, Start, Environment, Returned
<1> QED
  BY <1>1, <1>2, <1>3, <1>4, <1>5

LEMMA InitVerdicts == Init => VerdictsStand
<1> SUFFICES ASSUME Init PROVE VerdictsStand
  OBVIOUS
<1>1. oosResults = <<>>
  BY DEF Init
<1>2. DOMAIN oosResults = {}
  BY <1>1
<1> QED
  BY <1>2 DEF VerdictsStand

\* Every terminal verdict the run reports is, and stays, the one in the lockbox,
\* however many other runs use it.
THEOREM VerdictsAreFinal == Spec => []VerdictsStand
BY InitVerdicts, VerdictsStep, TInvInvariant, PTL DEF Spec

-----------------------------------------------------------------------------
(* The loop implements ResearchSession *)

\* A surfaced candidate whose strategy has not passed adds nothing, and no
\* surfaced candidate takes anything away.
LEMMA SurfaceCounts ==
    ASSUME TInv, CriticAccepts \/ TestHoldout \/ HoldoutTooThin
    PROVE  /\ Validated <= Validated'
           /\ OOSEnabled /\ OOSHash' \notin Passed' => Validated' = Validated
<1>1. PICK meets \in BOOLEAN, status \in StatusSet, peek \in Nat :
          Surface(meets, status, peek)
  <2>1. CASE TestHoldout
    <3>1. AssetPool[current] \in Assets /\ holdoutPeeks \in [Assets -> Nat]
      BY <2>1, PoolAssumption DEF TestHoldout, TInv, PhaseInv, TypeOK, RecordType
    <3>2. NextPeek \in Nat
      BY <3>1 DEF NextPeek
    <3> QED
      BY <2>1, <3>2 DEF TestHoldout, StatusSet
  <2> QED
    BY <2>1 DEF CriticAccepts, HoldoutTooThin, StatusSet
<1> DEFINE c == [strategy |-> proposal, visit |-> current, sharpe |-> sharpe,
                 meets |-> meets, status |-> status, peek |-> peek]
<1>2. pc = "CRITIQUING"
  BY DEF CriticAccepts, TestHoldout, HoldoutTooThin
<1>3. c \in Candidate
  BY <1>2 DEF Candidate, TInv, TypeOK, PhaseInv
<1>4. candidates' = Append(candidates, c) /\ oosResults' = oosResults
  BY <1>1 DEF Surface
<1>5. candidates \in Seq(Candidate)
  BY DEF TInv, TypeOK, RecordType
<1> HIDE DEF c
<1>6. Passed' = Passed
  BY <1>4, PassedSame
<1>7. /\ candidates' \in Seq(Candidate)
      /\ DOMAIN candidates' = DOMAIN candidates \cup {Len(candidates) + 1}
      /\ candidates'[Len(candidates) + 1] = c
      /\ \A i \in DOMAIN candidates : candidates'[i] = candidates[i]
      /\ Len(candidates') = Len(candidates) + 1
  BY <1>3, <1>4, <1>5, AppendIndex
<1>8. ValidatedAt \subseteq ValidatedAt'
  BY <1>6, <1>7 DEF ValidatedAt, HashOf
<1>9. ValidatedAt' \subseteq ValidatedAt \cup {Len(candidates) + 1}
  BY <1>6, <1>7 DEF ValidatedAt, HashOf
<1>10. IsFiniteSet(ValidatedAt')
  <2>1. ValidatedAt' \subseteq 1..(Len(candidates) + 1)
    BY <1>5, <1>7 DEF ValidatedAt
  <2>2. IsFiniteSet(1..(Len(candidates) + 1))
    BY <1>5, FS_Interval
  <2> QED
    BY <2>1, <2>2, FS_Subset
<1>11. Validated <= Validated'
  BY <1>8, <1>10, FS_Subset DEF Validated
<1>12. ASSUME OOSEnabled, OOSHash' \notin Passed'
       PROVE  Validated' = Validated
  <2>1. Len(candidates) + 1 \notin ValidatedAt'
    BY <1>7, <1>12 DEF ValidatedAt, OOSHash
  <2>2. ValidatedAt' = ValidatedAt
    BY <1>8, <1>9, <2>1
  <2> QED
    BY <2>2 DEF Validated
<1> QED
  BY <1>11, <1>12

LEMMA RecoveryStep ==
    TInv /\ GoalInv /\ GoalByRecovery /\ [Next]_vars => GoalByRecovery'
<1> SUFFICES ASSUME TInv, GoalInv, [Next]_vars, pc' = "OOS_EVALUATING", GoalMet',
                    GoalByRecovery, OOSHash' \notin Passed'
             PROVE  FALSE
  BY DEF GoalByRecovery
<1>1. CASE CriticAccepts
  <2>1. OOSEnabled /\ ~GoalMet
    BY <1>1 DEF CriticAccepts, GoalInv, GoalOpen
  <2>2. Validated' = Validated
    BY <1>1, <2>1, SurfaceCounts
  <2> QED
    BY <2>1, <2>2 DEF GoalMet
<1>2. CASE UNCHANGED vars
  <2>1. UNCHANGED <<pc, candidates, oosResults>>
    BY <1>2 DEF vars
  <2>2. Passed' = Passed /\ Validated' = Validated
    BY <2>1, PassedSame, ValidatedSame
  <2>3. OOSHash' = OOSHash
    BY <2>1 DEF OOSHash, HashOf
  <2> QED
    BY <2>1, <2>2, <2>3 DEF GoalByRecovery, GoalMet
<1>3. CASE Environment
  <2>1. pc # "OOS_EVALUATING" /\ pc' = pc
    BY <1>3 DEF Environment, SetControl, ExceedTimeOrCost, NewDay, OtherRunEvaluates,
       Suspended
  <2> QED
    BY <2>1
<1>4. CASE Loop /\ ~CriticAccepts
  <2>1. CASE StartWithoutAssets \/ StartOnFirstAsset \/ HitIterationCap \/ StopOnRequest
    BY <2>1 DEF StartWithoutAssets, StartOnFirstAsset, HitIterationCap, StopOnRequest
  <2>2. CASE BeginIteration \/ (\E s \in Strategies : Propose(s)) \/ ProposeFails
    BY <2>2 DEF BeginIteration, Propose, ProposeFails
  <2>3. CASE Admit \/ Skip \/ DataFails
    BY <2>3 DEF Admit, Skip, DataFails
  <2>4. CASE (\E sr \in Sharpes : Execute(sr)) \/ ExecuteFails
    BY <2>4 DEF Execute, ExecuteFails
  <2>5. CASE PassGates \/ FailGates \/ CriticKills \/ TestHoldout \/ HoldoutTooThin
    BY <2>5 DEF PassGates, FailGates, CriticKills, TestHoldout, HoldoutTooThin
  <2>6. CASE OOSRecover \/ OOSTerminal \/ OOSUnevaluated \/ OOSRefused
    BY <2>6 DEF OOSRecover, OOSTerminal, OOSUnevaluated, OOSRefused, RecordOOS
  <2>7. CASE DecideDone \/ DecideNextAsset \/ DecideContinue \/ Report
    BY <2>7 DEF DecideDone, DecideNextAsset, DecideContinue, Report
  <2> QED
    BY <1>4, <2>1, <2>2, <2>3, <2>4, <2>5, <2>6, <2>7 DEF Loop, Start
<1> QED
  BY <1>1, <1>2, <1>3, <1>4 DEF Next, Returned

\* An OOS outcome never takes a validated candidate away, and recovering a PASS
\* that is already known changes nothing.
LEMMA RecordCounts ==
    ASSUME TInv, pc = "OOS_EVALUATING",
           NEW o \in {"PASS", "FAIL", "UNEVALUATED"}, RecordOOS(o)
    PROVE  /\ Validated <= Validated'
           /\ o = "PASS" /\ OOSHash \in Passed => Validated' = Validated
<1> DEFINE r == [hash |-> OOSHash, outcome |-> o]
<1>1. r \in OOSResult /\ oosResults \in Seq(OOSResult) /\ candidates \in Seq(Candidate)
  BY OOSHashType DEF OOSResult, TInv, TypeOK, LockboxType, RecordType
<1>2. oosResults' = Append(oosResults, r) /\ candidates' = candidates
  BY DEF RecordOOS
<1>3. r.hash = OOSHash /\ r.outcome = o
  OBVIOUS
<1> HIDE DEF r
<1>4. /\ DOMAIN oosResults' = DOMAIN oosResults \cup {Len(oosResults) + 1}
      /\ oosResults'[Len(oosResults) + 1] = r
      /\ \A i \in DOMAIN oosResults : oosResults'[i] = oosResults[i]
  BY <1>1, <1>2, AppendIndex
<1>5. Passed \subseteq Passed' /\ Passed' \subseteq Passed \cup {OOSHash}
  BY <1>3, <1>4 DEF Passed
<1>6. ValidatedAt \subseteq ValidatedAt'
  BY <1>2, <1>5 DEF ValidatedAt, HashOf
<1>7. IsFiniteSet(ValidatedAt')
  <2>1. ValidatedAt' \subseteq 1..Len(candidates)
    BY <1>1, <1>2 DEF ValidatedAt
  <2>2. IsFiniteSet(1..Len(candidates))
    BY <1>1, FS_Interval
  <2> QED
    BY <2>1, <2>2, FS_Subset
<1>8. Validated <= Validated'
  BY <1>6, <1>7, FS_Subset DEF Validated
<1>9. OOSHash \in Passed => Validated' = Validated
  BY <1>2, <1>5, ValidatedSame
<1> QED
  BY <1>8, <1>9

SessionInv == TInv /\ AccountInv /\ GoalInv /\ VerdictsStand /\ GoalByRecovery

LEMMA SessionInvariant == Spec => []SessionInv
<1>1. Init => GoalByRecovery
  BY DEF Init, GoalByRecovery
<1> QED
  BY <1>1, RecoveryStep, TInvInvariant, AccountInvariant, GoalInvariant, VerdictsAreFinal,
     PTL DEF Spec, SessionInv

LEMMA SessionStarts == Init => Session!SessionInit
<1> SUFFICES ASSUME Init PROVE Session!SessionInit
  OBVIOUS
<1>1. pc = "GOAL_RECEIVED" /\ usedRuns = 0 /\ candidates = <<>>
  BY DEF Init
<1>2. Len(candidates) = 0 /\ candidates \in Seq(Candidate)
  BY <1>1
<1>3. Validated = 0
  BY <1>2, ValidatedBound
<1> QED
  BY <1>1, <1>3 DEF Session!SessionInit

\* Every step of the loop is a step of the session, or leaves it alone.
LEMMA SessionStep ==
    SessionInv /\ SessionInv' /\ [Next]_vars => [Session!SessionNext]_Session!sessionVars
<1> SUFFICES ASSUME SessionInv, SessionInv', [Next]_vars
             PROVE  [Session!SessionNext]_Session!sessionVars
  OBVIOUS
<1> DEFINE Status == IF pc = "COMPLETED" THEN "completed"
                     ELSE IF pc = "STOPPED" THEN "stopped" ELSE "running"
<1>a. /\ Validated \in Nat /\ Validated' \in Nat /\ Validated' <= usedRuns'
      /\ usedRuns' \in Nat
  <2>1. candidates \in Seq(Candidate) /\ (candidates \in Seq(Candidate))'
    BY DEF SessionInv, TInv, TypeOK, RecordType
  <2>2. Validated \in Nat
    BY <2>1, ValidatedBound
  <2>3. Validated' \in Nat /\ Validated' <= Len(candidates')
    <3>1. (Validated \in Nat /\ Validated <= Len(candidates))'
      BY <2>1, ValidatedBound, PTL
    <3> QED
      BY <3>1
  <2>4. /\ usedRuns' = allFailures' + Len(candidates') + InFlight'
        /\ InFlight' \in Nat
    BY DEF SessionInv, AccountInv, RunAccounting, InFlight
  <2>5. usedRuns' \in Nat /\ allFailures' \in Nat /\ Len(candidates') \in Nat
    BY <2>1 DEF SessionInv, TInv, TypeOK, CounterType
  <2> QED
    BY <2>2, <2>3, <2>4, <2>5
\* A step that keeps the status and the runs, and does not lower the count,
\* certifies while the goal is open, or changes nothing.
<1>b. ASSUME Status = "running", Status' = "running", usedRuns' = usedRuns,
             Validated <= Validated', ~GoalMet \/ Validated' = Validated
      PROVE  [Session!SessionNext]_Session!sessionVars
  <2>1. CASE Validated' = Validated
    BY <1>b, <2>1 DEF Session!sessionVars
  <2>2. CASE Validated' # Validated
    <3>1. Validated' \in (Validated + 1)..usedRuns
      BY <1>a, <1>b, <2>2
    <3>2. Session!Certify
      BY <1>b, <2>2, <3>1 DEF Session!Certify, Session!GoalReached, GoalMet
    <3> QED
      BY <3>2 DEF Session!SessionNext
  <2> QED
    BY <2>1, <2>2
\* A step that ends the run finishes the session.
<1>c. ASSUME Status = "running", usedRuns' = usedRuns, Validated' = Validated,
             pc' = IF GoalMet THEN "COMPLETED" ELSE "STOPPED"
      PROVE  [Session!SessionNext]_Session!sessionVars
  <2>1. Session!Finish
    BY <1>c DEF Session!Finish, Session!GoalReached, GoalMet
  <2> QED
    BY <2>1 DEF Session!SessionNext
\* A step that keeps status, runs and count is a stutter.
<1>d. ASSUME Status' = Status, usedRuns' = usedRuns, Validated' = Validated
      PROVE  [Session!SessionNext]_Session!sessionVars
  BY <1>d DEF Session!sessionVars
<1>1. CASE CriticAccepts \/ TestHoldout \/ HoldoutTooThin
  <2>1. /\ pc = "CRITIQUING" /\ pc' \in {"OOS_EVALUATING", "DECIDING"}
        /\ usedRuns' = usedRuns
    BY <1>1 DEF CriticAccepts, TestHoldout, HoldoutTooThin, Surface
  <2>2. ~GoalMet
    BY <2>1 DEF SessionInv, GoalInv, GoalOpen
  <2>3. Validated <= Validated'
    BY <1>1, SurfaceCounts DEF SessionInv
  <2> QED
    BY <1>b, <2>1, <2>2, <2>3
<1>2. CASE OOSRecover \/ OOSTerminal \/ OOSUnevaluated
  <2>1. /\ pc = "OOS_EVALUATING" /\ pc' = "DECIDING" /\ usedRuns' = usedRuns
    BY <1>2 DEF OOSRecover, OOSTerminal, OOSUnevaluated, RecordOOS, NoVerdictYet
  <2>2. verdicts \in [Hashes -> {"none", "PASS", "FAIL"}] /\ OOSHash \in Hashes
    BY <2>1, OOSHashType DEF SessionInv, TInv, TypeOK, LockboxType
  <2>3. \E o \in {"PASS", "FAIL", "UNEVALUATED"} : RecordOOS(o)
    BY <1>2, <2>2 DEF OOSRecover, OOSTerminal, OOSUnevaluated
  <2>4. Validated <= Validated'
    BY <2>1, <2>3, RecordCounts DEF SessionInv
  <2>5. CASE ~GoalMet
    BY <1>b, <2>1, <2>4, <2>5
  <2>6. CASE GoalMet
    <3>1. OOSHash \in Passed
      BY <2>1, <2>6 DEF SessionInv, GoalByRecovery
    <3>2. PICK i \in DOMAIN oosResults :
            oosResults[i].outcome = "PASS" /\ oosResults[i].hash = OOSHash
      BY <3>1 DEF Passed
    <3>3. verdicts[OOSHash] = "PASS"
      BY <3>2 DEF SessionInv, VerdictsStand
    <3>4. RecordOOS("PASS")
      BY <1>2, <3>3 DEF OOSRecover, OOSTerminal, OOSUnevaluated, NoVerdictYet
    <3>5. Validated' = Validated
      BY <2>1, <3>1, <3>4, RecordCounts DEF SessionInv
    <3> QED
      BY <1>b, <2>1, <2>4, <3>5
  <2> QED
    BY <2>5, <2>6
<1>3. CASE ~(CriticAccepts \/ TestHoldout \/ HoldoutTooThin)
           /\ ~(OOSRecover \/ OOSTerminal \/ OOSUnevaluated)
  <2>0. Validated' = Validated
    BY <1>3, QuietStep
  <2>1. CASE (\E sr \in Sharpes : Execute(sr)) \/ ExecuteFails
    <3>1. /\ pc = "DATA_PREPARING" /\ pc' \in {"GATING", "DECIDING"}
          /\ usedRuns' = usedRuns + 1
      BY <2>1 DEF Execute, ExecuteFails, ConsumeRun
    <3>2. ~GoalMet /\ usedRuns < MaxRuns
      BY <3>1 DEF SessionInv, GoalInv, GoalOpen, AccountInv, BudgetOpen
    <3>3. Session!Spend
      BY <2>0, <3>1, <3>2 DEF Session!Spend, Session!GoalReached, GoalMet
    <3> QED
      BY <3>3 DEF Session!SessionNext
  <2>2. CASE StartWithoutAssets
    <3>1. pc = "GOAL_RECEIVED" /\ pc' = "STOPPED" /\ usedRuns' = usedRuns
      BY <2>2 DEF StartWithoutAssets
    <3>2. ~GoalMet
      BY <3>1 DEF SessionInv, GoalInv, GoalOpen
    <3> QED
      BY <1>c, <2>0, <3>1, <3>2
  <2>3. CASE Report
    <3>1. /\ pc = "REPORTING" /\ usedRuns' = usedRuns
          /\ pc' = IF stopReason = "goal_met" THEN "COMPLETED" ELSE "STOPPED"
      BY <2>3 DEF Report
    <3>2. stopReason = "goal_met" <=> GoalMet
      BY <3>1 DEF SessionInv, GoalInv, ReasonTold
    <3> QED
      BY <1>c, <2>0, <3>1, <3>2
  <2>4. CASE StartOnFirstAsset \/ HitIterationCap \/ StopOnRequest \/ BeginIteration
    <3>1. Status' = Status /\ usedRuns' = usedRuns
      BY <2>4 DEF StartOnFirstAsset, HitIterationCap, StopOnRequest, BeginIteration
    <3> QED
      BY <1>d, <2>0, <3>1
  <2>5. CASE (\E s \in Strategies : Propose(s)) \/ ProposeFails \/ Admit \/ Skip
    <3>1. Status' = Status /\ usedRuns' = usedRuns
      BY <2>5 DEF Propose, ProposeFails, Admit, Skip
    <3> QED
      BY <1>d, <2>0, <3>1
  <2>6. CASE DataFails \/ PassGates \/ FailGates \/ CriticKills \/ OOSRefused
    <3>1. Status' = Status /\ usedRuns' = usedRuns
      BY <2>6 DEF DataFails, PassGates, FailGates, CriticKills, OOSRefused, NoVerdictYet
    <3> QED
      BY <1>d, <2>0, <3>1
  <2>7. CASE DecideDone \/ DecideNextAsset \/ DecideContinue
    <3>1. Status' = Status /\ usedRuns' = usedRuns
      BY <2>7 DEF DecideDone, DecideNextAsset, DecideContinue
    <3> QED
      BY <1>d, <2>0, <3>1
  <2>8. CASE Environment
    <3>1. pc' = pc /\ usedRuns' = usedRuns
      BY <2>8 DEF Environment, SetControl, ExceedTimeOrCost, NewDay, OtherRunEvaluates
    <3> QED
      BY <1>d, <2>0, <3>1
  <2>9. CASE UNCHANGED vars
    <3>1. pc' = pc /\ usedRuns' = usedRuns
      BY <2>9 DEF vars
    <3> QED
      BY <1>d, <2>0, <3>1
  <2> QED
    BY <1>3, <2>1, <2>2, <2>3, <2>4, <2>5, <2>6, <2>7, <2>8, <2>9
       DEF Next, Loop, Start, Returned
<1> QED
  BY <1>1, <1>2, <1>3

\* The loop keeps the promise of ResearchSession: it never spends a backtest
\* beyond its budget or after its goal is reached, what is validated stays
\* validated, and it ends completed exactly when the goal was reached.
THEOREM LoopImplementsSession == Spec => KeepsSessionPromise
BY SessionStarts, SessionStep, SessionInvariant, PTL
   DEF Spec, KeepsSessionPromise, Session!SessionSpec

-----------------------------------------------------------------------------
(***************************************************************************)
(* What bounds the research loop, for every value of its constants: the    *)
(* share of an asset, the breakers, the anti-brute-force caps, the OOS     *)
(* allowances, and the two records that must survive, or not survive, the  *)
(* visit that made them: the plateau watermark and the hold-out peeks.     *)
(***************************************************************************)

USE DEF flow, counters, streaks, inflight, lineage, records, lockbox, oosVars, progress

\* The actions that neither surface a candidate nor move to another asset.
Surfacing == CriticAccepts \/ TestHoldout \/ HoldoutTooThin

\* The records change only where a candidate surfaces or the asset is left.
LEMMA RecordsStay ==
    ASSUME [Next]_vars, ~Surfacing, ~DecideNextAsset
    PROVE  UNCHANGED <<candidates, bestSharpe, holdoutPeeks>>
<1>1. CASE StartWithoutAssets \/ StartOnFirstAsset \/ HitIterationCap \/ StopOnRequest
  BY <1>1 DEF StartWithoutAssets, StartOnFirstAsset, HitIterationCap, StopOnRequest
<1>2. CASE BeginIteration \/ (\E s \in Strategies : Propose(s)) \/ ProposeFails
  BY <1>2 DEF BeginIteration, Propose, ProposeFails
<1>3. CASE Admit \/ Skip \/ DataFails
  BY <1>3 DEF Admit, Skip, DataFails
<1>4. CASE (\E sr \in Sharpes : Execute(sr)) \/ ExecuteFails
  BY <1>4 DEF Execute, ExecuteFails
<1>5. CASE PassGates \/ FailGates \/ CriticKills
  BY <1>5 DEF PassGates, FailGates, CriticKills
<1>6. CASE OOSRecover \/ OOSTerminal \/ OOSUnevaluated \/ OOSRefused
  BY <1>6 DEF OOSRecover, OOSTerminal, OOSUnevaluated, OOSRefused, RecordOOS
<1>7. CASE DecideDone \/ DecideContinue \/ Report
  BY <1>7 DEF DecideDone, DecideContinue, Report
<1>8. CASE Environment
  BY <1>8 DEF Environment, SetControl, ExceedTimeOrCost, NewDay, OtherRunEvaluates
<1>9. CASE UNCHANGED vars
  BY <1>9 DEF vars
<1> QED
  BY <1>1, <1>2, <1>3, <1>4, <1>5, <1>6, <1>7, <1>8, <1>9
     DEF Next, Loop, Start, Returned, Surfacing

\* The asset changes only at the start and where it is left.
LEMMA AssetStays ==
    ASSUME [Next]_vars, ~StartOnFirstAsset, ~DecideNextAsset
    PROVE  current' = current
<1>1. CASE StartWithoutAssets \/ HitIterationCap \/ StopOnRequest
  BY <1>1 DEF StartWithoutAssets, HitIterationCap, StopOnRequest
<1>2. CASE BeginIteration \/ (\E s \in Strategies : Propose(s)) \/ ProposeFails
  BY <1>2 DEF BeginIteration, Propose, ProposeFails
<1>3. CASE Admit \/ Skip \/ DataFails
  BY <1>3 DEF Admit, Skip, DataFails
<1>4. CASE (\E sr \in Sharpes : Execute(sr)) \/ ExecuteFails
  BY <1>4 DEF Execute, ExecuteFails
<1>5. CASE PassGates \/ FailGates \/ CriticKills
  BY <1>5 DEF PassGates, FailGates, CriticKills
<1>6. CASE CriticAccepts \/ TestHoldout \/ HoldoutTooThin
  BY <1>6 DEF CriticAccepts, TestHoldout, HoldoutTooThin, Surface
<1>7. CASE OOSRecover \/ OOSTerminal \/ OOSUnevaluated \/ OOSRefused
  BY <1>7 DEF OOSRecover, OOSTerminal, OOSUnevaluated, OOSRefused, RecordOOS
<1>8. CASE DecideDone \/ DecideContinue \/ Report
  BY <1>8 DEF DecideDone, DecideContinue, Report
<1>9. CASE Environment
  BY <1>9 DEF Environment, SetControl, ExceedTimeOrCost, NewDay, OtherRunEvaluates
<1>10. CASE UNCHANGED vars
  BY <1>10 DEF vars
<1> QED
  BY <1>1, <1>2, <1>3, <1>4, <1>5, <1>6, <1>7, <1>8, <1>9, <1>10
     DEF Next, Loop, Start, Returned

\* No step returns to the beginning.
LEMMA StartIsLeft ==
    ASSUME [Next]_vars, pc' = "GOAL_RECEIVED"
    PROVE  pc = "GOAL_RECEIVED"
<1>1. ~StartWithoutAssets /\ ~StartOnFirstAsset /\ ~HitIterationCap /\ ~StopOnRequest
      /\ ~BeginIteration /\ ~(\E s \in Strategies : Propose(s)) /\ ~ProposeFails
  BY DEF StartWithoutAssets, StartOnFirstAsset, HitIterationCap, StopOnRequest,
         BeginIteration, Propose, ProposeFails
<1>2. ~Admit /\ ~Skip /\ ~DataFails /\ ~(\E sr \in Sharpes : Execute(sr)) /\ ~ExecuteFails
      /\ ~PassGates /\ ~FailGates /\ ~CriticKills
  BY DEF Admit, Skip, DataFails, Execute, ExecuteFails, PassGates, FailGates, CriticKills
<1>3. ~CriticAccepts /\ ~TestHoldout /\ ~HoldoutTooThin
      /\ ~OOSRecover /\ ~OOSTerminal /\ ~OOSUnevaluated /\ ~OOSRefused
  BY DEF CriticAccepts, TestHoldout, HoldoutTooThin, OOSRecover, OOSTerminal,
         OOSUnevaluated, OOSRefused, RecordOOS
<1>4. ~DecideDone /\ ~DecideNextAsset /\ ~DecideContinue /\ ~Report
  BY DEF DecideDone, DecideNextAsset, DecideContinue, Report
<1>5. Environment \/ UNCHANGED vars
  BY <1>1, <1>2, <1>3, <1>4 DEF Next, Loop, Start, Returned
<1> QED
  BY <1>5 DEF Environment, SetControl, ExceedTimeOrCost, NewDay, OtherRunEvaluates, vars

-----------------------------------------------------------------------------
(* The share of an asset *)

\* The share is checked after an attempt, so at the head there is room for one.
RoomForOne ==
    /\ pc = "GOAL_RECEIVED" => attempts = 0
    /\ pc = "LOOP_HEAD" /\ QueueNonEmpty => attempts < PerAssetCap

ShareInv == FairShare /\ RoomForOne

LEMMA InitShare == Init => ShareInv
<1> SUFFICES ASSUME Init PROVE ShareInv
  OBVIOUS
<1>1. pc = "GOAL_RECEIVED" /\ attempts = 0
  BY DEF Init
<1> QED
  BY <1>1, DirectorAssumption DEF ShareInv, FairShare, RoomForOne

LEMMA ShareStep ==
    ASSUME PerAssetCap > 0, TInv, ShareInv, [Next]_vars
    PROVE  ShareInv'
<1>0. attempts \in Nat /\ PerAssetCap \in Nat
  BY DirectorAssumption DEF TInv, TypeOK, CounterType
<1> USE <1>0 DEF ShareInv, FairShare, RoomForOne, QueueNonEmpty
<1>1. CASE StartWithoutAssets \/ StartOnFirstAsset
  BY <1>1 DEF StartWithoutAssets, StartOnFirstAsset
<1>2. CASE BeginIteration
  BY <1>2 DEF BeginIteration
<1>3. CASE DecideNextAsset
  BY <1>3 DEF DecideNextAsset
<1>4. CASE DecideContinue
  <2>1. ~CapReached
    BY <1>4 DEF DecideContinue, Decision, Done, LeaveAsset
  <2> QED
    BY <1>4, <2>1 DEF DecideContinue, CapReached
<1>5. CASE HitIterationCap \/ StopOnRequest \/ (\E s \in Strategies : Propose(s)) \/ ProposeFails
  BY <1>5 DEF HitIterationCap, StopOnRequest, Propose, ProposeFails
<1>6. CASE Admit \/ Skip \/ DataFails \/ (\E sr \in Sharpes : Execute(sr)) \/ ExecuteFails
  BY <1>6 DEF Admit, Skip, DataFails, Execute, ExecuteFails
<1>7. CASE PassGates \/ FailGates \/ CriticKills
  BY <1>7 DEF PassGates, FailGates, CriticKills
<1>8. CASE CriticAccepts \/ TestHoldout \/ HoldoutTooThin
  BY <1>8 DEF CriticAccepts, TestHoldout, HoldoutTooThin, Surface
<1>9. CASE OOSRecover \/ OOSTerminal \/ OOSUnevaluated \/ OOSRefused
  BY <1>9 DEF OOSRecover, OOSTerminal, OOSUnevaluated, OOSRefused, RecordOOS
<1>10. CASE DecideDone \/ Report
  BY <1>10 DEF DecideDone, Report
<1>11. CASE Environment
  BY <1>11 DEF Environment, SetControl, ExceedTimeOrCost, NewDay, OtherRunEvaluates
<1>12. CASE UNCHANGED vars
  BY <1>12 DEF vars
<1> QED
  BY <1>1, <1>2, <1>3, <1>4, <1>5, <1>6, <1>7, <1>8, <1>9, <1>10, <1>11, <1>12
     DEF Next, Loop, Start, Returned

\* While other assets wait no asset takes more than its share, whatever its
\* attempts came to; a cap of zero would be overrun by the first attempt.
THEOREM ShareIsFair ==
    ASSUME PerAssetCap > 0
    PROVE  Spec => []FairShare
<1>1. TInv /\ ShareInv /\ [Next]_vars => ShareInv'
  BY ShareStep
<1>2. ShareInv => FairShare
  BY DEF ShareInv
<1> QED
  BY <1>1, <1>2, InitShare, TInvInvariant, PTL DEF Spec

-----------------------------------------------------------------------------
(* The breakers *)

\* From the decision to continue up to the outcome of the next trial no breaker
\* has tripped.
Open == pc \in {"GOAL_RECEIVED", "LOOP_HEAD", "PROPOSING", "BUDGET_GUARD",
                "DATA_PREPARING", "GATING", "CRITIQUING"}

\* The history counters against the code's own: the failures are the same, and
\* a round of skips fits between two errors.
BreakerInv ==
    /\ fruitless = consecutiveFailures
    /\ consecutiveFailures <= MaxConsecutiveFailures
    /\ barren <= consecutiveErrors * SkipBreaker + consecutiveSkips
    /\ barren <= ErrorBreaker * SkipBreaker
    /\ Open => /\ consecutiveFailures < MaxConsecutiveFailures
               /\ consecutiveErrors < ErrorBreaker
               /\ consecutiveSkips < SkipBreaker

LEMMA Multiples ==
    ASSUME NEW a \in Nat, NEW b \in Nat, NEW k \in Nat, a < b
    PROVE  a * k + k <= b * k
<1>1. PICK d \in Nat : b = a + 1 + d
  <2>1. b - a - 1 \in Nat /\ b = a + 1 + (b - a - 1)
    OBVIOUS
  <2> QED
    BY <2>1
<1>2. b * k = a * k + k + d * k
  BY <1>1
<1>3. d * k \in Nat /\ a * k \in Nat
  OBVIOUS
<1> QED
  BY <1>2, <1>3

LEMMA InitBreaker == Init => BreakerInv
<1> SUFFICES ASSUME Init PROVE BreakerInv
  OBVIOUS
<1>1. /\ consecutiveFailures = 0 /\ consecutiveErrors = 0 /\ consecutiveSkips = 0
      /\ barren = 0 /\ fruitless = 0
  BY DEF Init
<1>2. 0 <= ErrorBreaker * SkipBreaker /\ 0 * SkipBreaker = 0
  BY DirectorAssumption
<1> QED
  BY <1>1, <1>2, DirectorAssumption DEF BreakerInv

\* An iteration that ends without a metric, or with one.
LEMMA BookkeepingStep ==
    ASSUME TInv, BreakerInv, Open, NEW o, Bookkeeping(o)
    PROVE  /\ barren' <= consecutiveErrors' * SkipBreaker + consecutiveSkips'
           /\ barren' <= ErrorBreaker * SkipBreaker
<1>0. /\ consecutiveErrors \in Nat /\ consecutiveSkips \in Nat /\ barren \in Nat
      /\ ErrorBreaker \in Nat /\ SkipBreaker \in Nat
      /\ consecutiveErrors < ErrorBreaker /\ consecutiveSkips < SkipBreaker
      /\ barren <= consecutiveErrors * SkipBreaker + consecutiveSkips
  BY DirectorAssumption DEF TInv, TypeOK, CounterType, BreakerInv
<1>1. consecutiveErrors * SkipBreaker + SkipBreaker <= ErrorBreaker * SkipBreaker
  BY <1>0, Multiples
<1>2. PICK m \in Nat : m = consecutiveErrors * SkipBreaker
  BY <1>0
<1>3. PICK n \in Nat : n = ErrorBreaker * SkipBreaker
  BY <1>0
<1>4. barren <= m + consecutiveSkips /\ m + SkipBreaker <= n
  BY <1>0, <1>1, <1>2, <1>3
<1>5. CASE o = "error"
  <2>1. /\ consecutiveErrors' = consecutiveErrors + 1
        /\ consecutiveSkips' = 0 /\ barren' = barren + 1
    BY <1>5 DEF Bookkeeping
  <2>2. consecutiveErrors' * SkipBreaker = m + SkipBreaker
    BY <1>0, <1>2, <2>1
  <2>3. barren' <= m + SkipBreaker + 0 /\ barren' <= n
    BY <1>0, <1>4, <2>1
  <2> QED
    BY <1>3, <2>1, <2>2, <2>3
<1>6. CASE o = "skipped"
  <2>1. /\ consecutiveErrors' = consecutiveErrors
        /\ consecutiveSkips' = consecutiveSkips + 1 /\ barren' = barren + 1
    BY <1>6 DEF Bookkeeping
  <2>2. barren' <= m + consecutiveSkips' /\ barren' <= n
    BY <1>0, <1>4, <2>1
  <2> QED
    BY <1>2, <1>3, <2>1, <2>2
<1>7. CASE o \notin {"error", "skipped"}
  <2>1. consecutiveErrors' = 0 /\ consecutiveSkips' = 0 /\ barren' = 0
    BY <1>7 DEF Bookkeeping
  <2>2. consecutiveErrors' * SkipBreaker = 0
    BY <1>0, <2>1
  <2> QED
    BY <1>3, <2>1, <2>2
<1> QED
  BY <1>5, <1>6, <1>7

LEMMA BreakerStep ==
    ASSUME TInv, BreakerInv, [Next]_vars
    PROVE  BreakerInv'
<1>0. /\ consecutiveFailures \in Nat /\ consecutiveErrors \in Nat
      /\ consecutiveSkips \in Nat /\ barren \in Nat
      /\ MaxConsecutiveFailures \in Nat /\ ErrorBreaker \in Nat /\ SkipBreaker \in Nat
      /\ MaxConsecutiveFailures > 0 /\ ErrorBreaker > 0 /\ SkipBreaker > 0
  BY DirectorAssumption DEF TInv, TypeOK, CounterType
<1>1. CASE StartWithoutAssets \/ StartOnFirstAsset \/ HitIterationCap \/ StopOnRequest
  BY <1>1 DEF StartWithoutAssets, StartOnFirstAsset, HitIterationCap, StopOnRequest,
              BreakerInv, Open
<1>2. CASE BeginIteration \/ (\E s \in Strategies : Propose(s)) \/ Admit
  BY <1>2 DEF BeginIteration, Propose, Admit, BreakerInv, Open
<1>3. CASE (\E sr \in Sharpes : Execute(sr)) \/ PassGates
  BY <1>3 DEF Execute, PassGates, BreakerInv, Open
<1>4. CASE ProposeFails \/ DataFails \/ ExecuteFails
  <2>1. /\ Open /\ Bookkeeping("error") /\ pc' = "DECIDING"
        /\ UNCHANGED <<consecutiveFailures, fruitless>>
    BY <1>4 DEF ProposeFails, DataFails, ExecuteFails, Open
  <2> QED
    BY <2>1, BookkeepingStep DEF BreakerInv, Open
<1>5. CASE Skip
  <2>1. /\ Open /\ Bookkeeping("skipped") /\ pc' = "DECIDING"
        /\ UNCHANGED <<consecutiveFailures, fruitless>>
    BY <1>5 DEF Skip, Open
  <2> QED
    BY <2>1, BookkeepingStep DEF BreakerInv, Open
<1>6. CASE FailGates \/ CriticKills
  <2>1. /\ Open /\ \E o : Bookkeeping(o)
        /\ pc' = "DECIDING" /\ CountFailure
    BY <1>6 DEF FailGates, CriticKills, Open
  <2>2. /\ barren' <= consecutiveErrors' * SkipBreaker + consecutiveSkips'
        /\ barren' <= ErrorBreaker * SkipBreaker
    BY <2>1, BookkeepingStep
  <2> QED
    BY <1>0, <2>1, <2>2 DEF CountFailure, BreakerInv, Open
<1>7. CASE CriticAccepts \/ TestHoldout \/ HoldoutTooThin
  <2>1. /\ Open /\ Bookkeeping("candidate")
        /\ \E status : /\ consecutiveFailures' = StreakAfter(status)
                       /\ fruitless' = IF status = "regime_failed" THEN fruitless + 1 ELSE 0
        /\ pc' \in {"DECIDING", "OOS_EVALUATING"}
    BY <1>7 DEF CriticAccepts, TestHoldout, HoldoutTooThin, Surface, Open
  <2>2. /\ barren' <= consecutiveErrors' * SkipBreaker + consecutiveSkips'
        /\ barren' <= ErrorBreaker * SkipBreaker
    BY <2>1, BookkeepingStep
  <2>3. /\ fruitless' = consecutiveFailures'
        /\ consecutiveFailures' <= MaxConsecutiveFailures
    BY <1>0, <2>1 DEF StreakAfter, BreakerInv
  <2> QED
    BY <2>1, <2>2, <2>3 DEF BreakerInv, Open
<1>8. CASE OOSRecover \/ OOSTerminal \/ OOSUnevaluated \/ OOSRefused
  BY <1>8 DEF OOSRecover, OOSTerminal, OOSUnevaluated, OOSRefused, RecordOOS,
              BreakerInv, Open
<1>9. CASE DecideDone \/ Report
  BY <1>9 DEF DecideDone, Report, BreakerInv, Open
<1>10. CASE DecideContinue
  <2>1. ~ErrorsTripped /\ ~SkipsTripped /\ ~AssetExhausted
    BY <1>10 DEF DecideContinue, Decision, Done, LeaveAsset
  <2> QED
    BY <1>0, <1>10, <2>1
       DEF DecideContinue, ErrorsTripped, SkipsTripped, AssetExhausted, BreakerInv
<1>11. CASE DecideNextAsset
  <2>1. /\ consecutiveFailures' = 0 /\ consecutiveErrors' = 0 /\ consecutiveSkips' = 0
        /\ barren' = 0 /\ fruitless' = 0
    BY <1>11 DEF DecideNextAsset
  <2>2. 0 * SkipBreaker = 0 /\ 0 <= ErrorBreaker * SkipBreaker
    BY <1>0
  <2> QED
    BY <1>0, <2>1, <2>2 DEF BreakerInv
<1>12. CASE Environment
  BY <1>12 DEF Environment, SetControl, ExceedTimeOrCost, NewDay, OtherRunEvaluates,
               BreakerInv, Open
<1>13. CASE UNCHANGED vars
  BY <1>13 DEF vars, BreakerInv, Open
<1> QED
  BY <1>1, <1>2, <1>3, <1>4, <1>5, <1>6, <1>7, <1>8, <1>9, <1>10, <1>11, <1>12, <1>13
     DEF Next, Loop, Start, Returned

\* An asset that yields nothing is left: no mix of errors and skips outlasts the
\* product of the two breakers, and no run of trials without a success outlasts
\* max_consecutive_failures.
THEOREM DeadAssetsAreLeft == Spec => []DeadAssetIsLeft
<1>1. TInv /\ BreakerInv /\ [Next]_vars => BreakerInv'
  BY BreakerStep
<1>2. BreakerInv => DeadAssetIsLeft
  BY DEF BreakerInv, DeadAssetIsLeft
<1> QED
  BY <1>1, <1>2, InitBreaker, TInvInvariant, PTL DEF Spec

-----------------------------------------------------------------------------
(* The anti-brute-force caps *)

\* The strategist's usage record counts the family of its hypothesis; when that
\* is no longer the current root, nothing of the current family was admitted.
FamilyInv ==
    /\ usage.hypothesis = usage.lineage
    /\ usage.trials <= MaxTrialsPerHypothesis
    /\ usage.mutations <= MaxMutationsAfterFailedGate
    /\ usage.lineageToday <= usage.trials
    /\ IF usage.hypothesis = root
       THEN admitted = usage.trials /\ admittedMutations = usage.mutations
       ELSE admitted = 0 /\ admittedMutations = 0

LEMMA NewRootIsFresh ==
    ASSUME NewRoot
    PROVE  root' # usage.hypothesis /\ admitted' = 0 /\ admittedMutations' = 0
<1>1. \E r \in RootIds : r \notin {root, usage.hypothesis}
  BY DEF RootIds
<1> QED
  BY <1>1 DEF NewRoot

LEMMA InitFamily == Init => FamilyInv
<1> SUFFICES ASSUME Init PROVE FamilyInv
  OBVIOUS
<1>1. usage = FreshUsage /\ root = 0 /\ admitted = 0 /\ admittedMutations = 0
  BY DEF Init
<1>2. /\ FreshUsage.hypothesis = 0 /\ FreshUsage.lineage = 0 /\ FreshUsage.trials = 0
      /\ FreshUsage.mutations = 0 /\ FreshUsage.lineageToday = 0
  BY DEF FreshUsage
<1> QED
  BY <1>1, <1>2, LimitsAssumption DEF FamilyInv

LEMMA FamilyStep ==
    ASSUME TInv, FamilyInv, [Next]_vars
    PROVE  FamilyInv'
<1>0. /\ usage \in Usage /\ admitted \in Nat /\ admittedMutations \in Nat
      /\ MaxTrialsPerHypothesis \in Nat /\ MaxMutationsAfterFailedGate \in Nat
  BY LimitsAssumption DEF TInv, TypeOK, LineageType
<1>1. CASE UNCHANGED lineage
  BY <1>1 DEF FamilyInv
<1>2. CASE StartOnFirstAsset \/ DecideNextAsset
  <2>1. NewRoot /\ usage' = usage
    BY <1>2 DEF StartOnFirstAsset, DecideNextAsset
  <2> QED
    BY <2>1, NewRootIsFresh DEF FamilyInv
<1>3. CASE \E s \in Strategies : Propose(s)
  <2>1. /\ usage' = usage
        /\ NewRoot \/ UNCHANGED <<root, admitted, admittedMutations>>
    BY <1>3 DEF Propose
  <2> QED
    BY <2>1, NewRootIsFresh DEF FamilyInv
<1>4. CASE Admit
  <2>1. /\ usage' = Consume(Switched, MutationAfterFailure)
        /\ ~Refuses(Switched, MutationAfterFailure)
        /\ root' = root /\ admitted' = admitted + 1
        /\ admittedMutations' = IF MutationAfterFailure THEN admittedMutations + 1
                                ELSE admittedMutations
    BY <1>4 DEF Admit
  <2>2. /\ Switched.hypothesis = root /\ Switched.lineage = root
        /\ Switched.trials = admitted /\ Switched.mutations = admittedMutations
        /\ Switched.lineageToday <= Switched.trials
        /\ Switched.lineageToday \in Nat
    BY <1>0 DEF Switched, SwitchFamily, FamilyKey, FamilyInv, Usage
  <2>3. /\ Switched.trials < MaxTrialsPerHypothesis
        /\ MutationAfterFailure => Switched.mutations < MaxMutationsAfterFailedGate
    BY <1>0, <2>1, <2>2 DEF Refuses
  <2>4. Switched.mutations <= MaxMutationsAfterFailedGate
    BY <1>0 DEF Switched, SwitchFamily, FamilyInv
  <2>5. /\ usage'.hypothesis = Switched.hypothesis /\ usage'.lineage = Switched.lineage
        /\ usage'.trials = Switched.trials + 1
        /\ usage'.lineageToday = Switched.lineageToday + 1
        /\ usage'.mutations = IF MutationAfterFailure THEN Switched.mutations + 1
                              ELSE Switched.mutations
    BY <2>1 DEF Consume, Switched, SwitchFamily
  <2> QED
    BY <1>0, <2>1, <2>2, <2>3, <2>4, <2>5 DEF FamilyInv
<1>5. CASE Skip
  <2>1. usage' = Switched /\ UNCHANGED <<root, admitted, admittedMutations>>
    BY <1>5 DEF Skip
  <2> QED
    BY <1>0, <2>1 DEF Switched, SwitchFamily, FamilyKey, FamilyInv, Usage
<1>6. CASE NewDay
  <2>1. usage' = NewDayUsage(usage) /\ UNCHANGED <<root, admitted, admittedMutations>>
    BY <1>6 DEF NewDay
  <2> QED
    BY <1>0, <2>1 DEF NewDayUsage, FamilyInv, Usage
<1>7. [Next]_vars => \/ UNCHANGED lineage \/ StartOnFirstAsset \/ DecideNextAsset
                     \/ (\E s \in Strategies : Propose(s)) \/ Admit \/ Skip \/ NewDay
  <2>1. StartWithoutAssets \/ HitIterationCap \/ StopOnRequest \/ BeginIteration
          => UNCHANGED lineage
    BY DEF StartWithoutAssets, HitIterationCap, StopOnRequest, BeginIteration
  <2>2. ProposeFails \/ DataFails \/ (\E sr \in Sharpes : Execute(sr)) \/ ExecuteFails
          => UNCHANGED lineage
    BY DEF ProposeFails, DataFails, Execute, ExecuteFails
  <2>3. PassGates \/ FailGates \/ CriticKills \/ CriticAccepts \/ TestHoldout
          \/ HoldoutTooThin => UNCHANGED lineage
    BY DEF PassGates, FailGates, CriticKills, CriticAccepts, TestHoldout,
           HoldoutTooThin, Surface
  <2>4. OOSRecover \/ OOSTerminal \/ OOSUnevaluated \/ OOSRefused => UNCHANGED lineage
    BY DEF OOSRecover, OOSTerminal, OOSUnevaluated, OOSRefused, RecordOOS
  <2>5. DecideDone \/ DecideContinue \/ Report => UNCHANGED lineage
    BY DEF DecideDone, DecideContinue, Report
  <2>6. SetControl \/ ExceedTimeOrCost \/ OtherRunEvaluates \/ UNCHANGED vars
          => UNCHANGED lineage
    BY DEF SetControl, ExceedTimeOrCost, OtherRunEvaluates, vars
  <2> QED
    BY <2>1, <2>2, <2>3, <2>4, <2>5, <2>6 DEF Next, Loop, Start, Environment, Returned
<1> QED
  BY <1>1, <1>2, <1>3, <1>4, <1>5, <1>6, <1>7

\* No hypothesis family is backtested, or mutated after failures, more often
\* than its cap allows, however the strategist switches between templates and
\* whenever midnight falls.
THEOREM FamiliesAreCapped == Spec => []FamilyCaps
<1>1. TInv /\ FamilyInv /\ [Next]_vars => FamilyInv'
  BY FamilyStep
<1>2. FamilyInv => FamilyCaps
  BY LimitsAssumption DEF FamilyInv, FamilyCaps
<1> QED
  BY <1>1, <1>2, InitFamily, TInvInvariant, PTL DEF Spec

-----------------------------------------------------------------------------
(* The OOS allowances *)

\* Rows is finite: each run of the coroutine or of another run adds one.
AllowanceInv == IsFiniteSet(Rows) /\ ChargesBuyVerdicts

LEMMA InitAllowance == Init => AllowanceInv
<1> SUFFICES ASSUME Init PROVE AllowanceInv
  OBVIOUS
<1>1. Rows = {} /\ familySpent = 0 /\ campaignSpent = 0
  BY DEF Init, Rows
<1> QED
  BY <1>1, FS_EmptySet, DirectorAssumption DEF AllowanceInv, ChargesBuyVerdicts

\* A first verdict for a strategy is one more row.
LEMMA NewRow ==
    ASSUME TInv, IsFiniteSet(Rows), NEW h \in Hashes, NEW o \in {"PASS", "FAIL"},
           verdicts[h] = "none", verdicts' = [verdicts EXCEPT ![h] = o]
    PROVE  IsFiniteSet(Rows') /\ Cardinality(Rows') = Cardinality(Rows) + 1
<1>1. verdicts \in [Hashes -> {"none", "PASS", "FAIL"}]
  BY DEF TInv, TypeOK, LockboxType
<1>2. Rows' = Rows \cup {h} /\ h \notin Rows
  BY <1>1 DEF Rows
<1> QED
  BY <1>2, FS_AddElement

LEMMA AllowanceStep ==
    ASSUME TInv, AllowanceInv, [Next]_vars
    PROVE  AllowanceInv'
<1>0. /\ familySpent \in Nat /\ campaignSpent \in Nat
      /\ LineageOOSBudget \in Nat /\ CampaignOOSBudget \in Nat
      /\ Cardinality(Rows) \in Nat
  BY DirectorAssumption, FS_CardinalityType
     DEF TInv, TypeOK, LockboxType, AllowanceInv
<1>1. CASE OOSTerminal
  <2>1. PICK o \in {"PASS", "FAIL"} : verdicts' = [verdicts EXCEPT ![OOSHash] = o]
    BY <1>1 DEF OOSTerminal
  <2>2. /\ verdicts[OOSHash] = "none" /\ pc = "OOS_EVALUATING"
        /\ familySpent < LineageOOSBudget /\ campaignSpent < CampaignOOSBudget
        /\ familySpent' = familySpent + 1 /\ campaignSpent' = campaignSpent + 1
    BY <1>1 DEF OOSTerminal, NoVerdictYet, OOSBudgetLeft
  <2>3. OOSHash \in Hashes
    BY <2>2, OOSHashType
  <2>4. IsFiniteSet(Rows') /\ Cardinality(Rows') = Cardinality(Rows) + 1
    BY <2>1, <2>2, <2>3, NewRow DEF AllowanceInv
  <2> QED
    BY <1>0, <2>2, <2>4 DEF AllowanceInv, ChargesBuyVerdicts
<1>2. CASE OtherRunEvaluates
  <2>1. PICK h \in Hashes, o \in {"PASS", "FAIL"}, sameScope \in BOOLEAN :
            /\ verdicts[h] = "none"
            /\ verdicts' = [verdicts EXCEPT ![h] = o]
            /\ sameScope => campaignSpent < CampaignOOSBudget
            /\ campaignSpent' = IF sameScope THEN campaignSpent + 1 ELSE campaignSpent
    BY <1>2 DEF OtherRunEvaluates
  <2>2. IsFiniteSet(Rows') /\ Cardinality(Rows') = Cardinality(Rows) + 1
    BY <2>1, NewRow DEF AllowanceInv
  <2>3. familySpent' = familySpent
    BY <1>2 DEF OtherRunEvaluates
  <2> QED
    BY <1>0, <2>1, <2>2, <2>3 DEF AllowanceInv, ChargesBuyVerdicts
<1>3. CASE /\ UNCHANGED <<verdicts, campaignSpent>>
           /\ familySpent' = familySpent \/ familySpent' = 0
  <2>1. Rows' = Rows
    BY <1>3 DEF Rows
  <2> QED
    BY <1>0, <1>3, <2>1 DEF AllowanceInv, ChargesBuyVerdicts
<1>4. [Next]_vars => \/ OOSTerminal \/ OtherRunEvaluates
                     \/ /\ UNCHANGED <<verdicts, campaignSpent>>
                        /\ familySpent' = familySpent \/ familySpent' = 0
  <2>1. StartOnFirstAsset \/ DecideNextAsset \/ (\E s \in Strategies : Propose(s))
          => /\ UNCHANGED <<verdicts, campaignSpent>>
             /\ familySpent' = familySpent \/ familySpent' = 0
    BY DEF StartOnFirstAsset, DecideNextAsset, Propose, NewRoot
  <2>2. StartWithoutAssets \/ HitIterationCap \/ StopOnRequest \/ BeginIteration
          \/ ProposeFails => UNCHANGED lockbox
    BY DEF StartWithoutAssets, HitIterationCap, StopOnRequest, BeginIteration, ProposeFails
  <2>3. Admit \/ Skip \/ DataFails \/ (\E sr \in Sharpes : Execute(sr)) \/ ExecuteFails
          => UNCHANGED lockbox
    BY DEF Admit, Skip, DataFails, Execute, ExecuteFails
  <2>4. PassGates \/ FailGates \/ CriticKills \/ CriticAccepts \/ TestHoldout
          \/ HoldoutTooThin => UNCHANGED lockbox
    BY DEF PassGates, FailGates, CriticKills, CriticAccepts, TestHoldout,
           HoldoutTooThin, Surface
  <2>5. OOSRecover \/ OOSUnevaluated \/ OOSRefused => UNCHANGED lockbox
    BY DEF OOSRecover, OOSUnevaluated, OOSRefused
  <2>6. DecideDone \/ DecideContinue \/ Report => UNCHANGED lockbox
    BY DEF DecideDone, DecideContinue, Report
  <2>7. SetControl \/ ExceedTimeOrCost \/ NewDay \/ UNCHANGED vars => UNCHANGED lockbox
    BY DEF SetControl, ExceedTimeOrCost, NewDay, vars
  <2> QED
    BY <2>1, <2>2, <2>3, <2>4, <2>5, <2>6, <2>7 DEF Next, Loop, Start, Environment, Returned
<1> QED
  BY <1>1, <1>2, <1>3, <1>4

\* Neither OOS allowance is overdrawn and every charge of the campaign bought a
\* terminal row, whatever the other runs on the lockbox do meanwhile.
THEOREM AllowancesBuyVerdicts == Spec => []ChargesBuyVerdicts
<1>1. TInv /\ AllowanceInv /\ [Next]_vars => AllowanceInv'
  BY AllowanceStep
<1>2. AllowanceInv => ChargesBuyVerdicts
  BY DEF AllowanceInv
<1> QED
  BY <1>1, <1>2, InitAllowance, TInvInvariant, PTL DEF Spec

-----------------------------------------------------------------------------
(* The plateau watermark *)

\* Before the first asset nothing is recorded; no candidate is of a later visit.
WatermarkInv ==
    /\ WatermarkEarned
    /\ \A i \in DOMAIN candidates : candidates[i].visit <= current
    /\ pc = "GOAL_RECEIVED" => candidates = <<>> /\ bestSharpe = <<>>

LEMMA InitWatermark == Init => WatermarkInv
<1> SUFFICES ASSUME Init PROVE WatermarkInv
  OBVIOUS
<1>1. candidates = <<>> /\ bestSharpe = <<>>
  BY DEF Init
<1>2. Earned = {}
  BY <1>1 DEF Earned
<1> QED
  BY <1>1, <1>2, FS_EmptySet DEF WatermarkInv, WatermarkEarned

\* What every surfacing does: one candidate of this visit more.
LEMMA Surfaces ==
    ASSUME TInv, Surfacing
    PROVE  \E c \in Candidate :
             /\ c.visit = current /\ c.sharpe = sharpe
             /\ candidates' = Append(candidates, c) /\ current' = current
             /\ bestSharpe' = IF MovesWatermark(c.status) THEN Append(bestSharpe, NewBest)
                              ELSE bestSharpe
             /\ \/ c.peek = 0 /\ holdoutPeeks' = holdoutPeeks
                \/ /\ c.peek = NextPeek
                   /\ holdoutPeeks' = [holdoutPeeks EXCEPT ![AssetPool[current]] = NextPeek]
             /\ sharpe \in Sharpes /\ pc = "CRITIQUING" /\ pc' # "GOAL_RECEIVED"
<1>1. PICK meets \in BOOLEAN, status \in StatusSet, peek \in Nat :
          /\ Surface(meets, status, peek)
          /\ \/ peek = 0 /\ holdoutPeeks' = holdoutPeeks
             \/ /\ peek = NextPeek
                /\ holdoutPeeks' = [holdoutPeeks EXCEPT ![AssetPool[current]] = NextPeek]
  <2>1. CASE TestHoldout
    <3>1. AssetPool[current] \in Assets /\ holdoutPeeks \in [Assets -> Nat]
      BY <2>1, PoolAssumption DEF TestHoldout, TInv, PhaseInv, TypeOK, RecordType
    <3>2. NextPeek \in Nat
      BY <3>1 DEF NextPeek
    <3> QED
      BY <2>1, <3>2 DEF TestHoldout, StatusSet
  <2> QED
    BY <2>1 DEF Surfacing, CriticAccepts, HoldoutTooThin, StatusSet
<1> DEFINE c == [strategy |-> proposal, visit |-> current, sharpe |-> sharpe,
                 meets |-> meets, status |-> status, peek |-> peek]
<1>2. pc = "CRITIQUING" /\ pc' # "GOAL_RECEIVED"
  BY DEF Surfacing, CriticAccepts, TestHoldout, HoldoutTooThin
<1>3. c \in Candidate /\ sharpe \in Sharpes
  BY <1>2 DEF Candidate, TInv, TypeOK, PhaseInv
<1>4. /\ c.visit = current /\ c.sharpe = sharpe /\ c.status = status /\ c.peek = peek
      /\ candidates' = Append(candidates, c) /\ current' = current
      /\ bestSharpe' = IF MovesWatermark(status) THEN Append(bestSharpe, NewBest)
                       ELSE bestSharpe
  BY <1>1 DEF Surface
<1> HIDE DEF c
<1> QED
  BY <1>1, <1>2, <1>3, <1>4

LEMMA WatermarkSurfaces ==
    ASSUME TInv, WatermarkInv, Surfacing
    PROVE  WatermarkInv'
<1>1. PICK c \in Candidate :
        /\ c.visit = current /\ c.sharpe = sharpe
        /\ candidates' = Append(candidates, c) /\ current' = current
        /\ bestSharpe' = IF MovesWatermark(c.status) THEN Append(bestSharpe, NewBest)
                         ELSE bestSharpe
        /\ sharpe \in Sharpes /\ pc' # "GOAL_RECEIVED"
  BY Surfaces
<1>2. /\ candidates \in Seq(Candidate) /\ bestSharpe \in Seq(Sharpes)
      /\ Sharpes \subseteq Int /\ current \in Nat
  BY GoalAssumption, PoolLength DEF TInv, TypeOK, RecordType, FlowType
<1> DEFINE n == Len(candidates)
<1>3. /\ DOMAIN candidates' = DOMAIN candidates \cup {n + 1}
      /\ n + 1 \notin DOMAIN candidates
      /\ candidates'[n + 1] = c
      /\ \A i \in DOMAIN candidates : candidates'[i] = candidates[i]
  BY <1>1, <1>2, AppendIndex
<1>4. \A i \in DOMAIN candidates' : candidates'[i].visit <= current'
  BY <1>1, <1>2, <1>3 DEF WatermarkInv
<1>5. IsFiniteSet(Earned)
  <2>1. Earned \subseteq 1..n
    BY <1>2 DEF Earned
  <2>2. IsFiniteSet(1..n)
    BY <1>2, FS_Interval
  <2> QED
    BY <2>1, <2>2, FS_Subset
<1>6. CASE c.status = "regime_failed"
  <2>1. Earned' = Earned
    BY <1>1, <1>3, <1>6 DEF Earned
  <2>2. bestSharpe' = bestSharpe
    BY <1>1, <1>6 DEF MovesWatermark
  <2>3. \A i \in Earned : candidates'[i].sharpe = candidates[i].sharpe
    BY <1>3 DEF Earned
  <2>4. WatermarkEarned'
    BY <2>1, <2>2, <2>3 DEF WatermarkInv, WatermarkEarned
  <2> QED
    BY <1>1, <1>4, <2>4 DEF WatermarkInv
<1>7. CASE c.status # "regime_failed"
  <2>1. Earned' = Earned \cup {n + 1} /\ n + 1 \notin Earned
    BY <1>1, <1>3, <1>7 DEF Earned
  <2>2. Cardinality(Earned') = Cardinality(Earned) + 1
    BY <1>5, <2>1, FS_AddElement
  <2>3. bestSharpe' = Append(bestSharpe, NewBest)
    BY <1>1, <1>7 DEF MovesWatermark
  <2>4. NewBest \in Sharpes
    BY <1>1, <1>2 DEF NewBest
  <2>5. Len(bestSharpe') = Len(bestSharpe) + 1 /\ bestSharpe'[Len(bestSharpe')] = NewBest
    BY <1>2, <2>3, <2>4
  <2>6. /\ \A i \in Earned : candidates'[i].sharpe = candidates[i].sharpe
        /\ \A i \in Earned : candidates[i].sharpe \in Int
    <3>1. \A i \in Earned : i \in DOMAIN candidates /\ candidates[i] \in Candidate
      BY <1>2 DEF Earned
    <3>2. \A i \in Earned : candidates[i].sharpe \in Sharpes
      BY <3>1 DEF Candidate
    <3> QED
      BY <1>2, <1>3, <3>1, <3>2
  <2>7. ASSUME bestSharpe = <<>>
        PROVE  /\ \E i \in Earned' : candidates'[i].sharpe = NewBest
               /\ \A i \in Earned' : candidates'[i].sharpe <= NewBest
    <3>1. Earned = {}
      BY <1>5, <2>7, FS_EmptySet DEF WatermarkInv, WatermarkEarned
    <3>2. NewBest = sharpe
      BY <2>7 DEF NewBest
    <3> QED
      BY <1>1, <1>2, <1>3, <2>1, <3>1, <3>2
  <2>8. ASSUME bestSharpe # <<>>
        PROVE  /\ \E i \in Earned' : candidates'[i].sharpe = NewBest
               /\ \A i \in Earned' : candidates'[i].sharpe <= NewBest
    <3> DEFINE best == bestSharpe[Len(bestSharpe)]
    <3>1. /\ \E i \in Earned : candidates[i].sharpe = best
          /\ \A i \in Earned : candidates[i].sharpe <= best
      BY <2>8 DEF WatermarkInv, WatermarkEarned
    <3>2. best \in Sharpes
      BY <1>2, <2>8
    <3>3. NewBest = IF best > sharpe THEN best ELSE sharpe
      BY <2>8 DEF NewBest
    <3> HIDE DEF best
    <3>4. best \in Int /\ sharpe \in Int
      BY <1>1, <1>2, <3>2
    <3>5. best <= NewBest /\ sharpe <= NewBest /\ NewBest \in Int
      BY <3>3, <3>4
    <3>6. \A i \in Earned : candidates'[i].sharpe <= NewBest
      BY <2>6, <3>1, <3>4, <3>5
    <3>7. \A i \in Earned' : candidates'[i].sharpe <= NewBest
      BY <1>1, <1>3, <2>1, <3>5, <3>6
    <3>8. \E i \in Earned' : candidates'[i].sharpe = NewBest
      BY <1>1, <1>3, <2>1, <2>6, <3>1, <3>3
    <3> QED
      BY <3>7, <3>8
  <2>9. Len(bestSharpe') = Cardinality(Earned')
    BY <2>2, <2>5 DEF WatermarkInv, WatermarkEarned
  <2>10. WatermarkEarned'
    BY <2>5, <2>7, <2>8, <2>9 DEF WatermarkEarned
  <2> QED
    BY <1>1, <1>4, <2>10 DEF WatermarkInv
<1> QED
  BY <1>6, <1>7

LEMMA WatermarkStep ==
    ASSUME TInv, WatermarkInv, [Next]_vars
    PROVE  WatermarkInv'
<1>0. candidates \in Seq(Candidate) /\ current \in Nat
  BY PoolLength DEF TInv, TypeOK, RecordType, FlowType
<1>1. CASE Surfacing
  BY <1>1, WatermarkSurfaces
<1>2. CASE StartOnFirstAsset
  <2>1. candidates' = <<>> /\ bestSharpe' = <<>>
    BY <1>2 DEF StartOnFirstAsset, WatermarkInv
  <2>2. Earned' = {}
    BY <2>1 DEF Earned
  <2> QED
    BY <2>1, <2>2, FS_EmptySet DEF WatermarkInv, WatermarkEarned
<1>3. CASE DecideNextAsset
  <2>1. /\ current' = current + 1 /\ bestSharpe' = <<>> /\ candidates' = candidates
        /\ pc' = "LOOP_HEAD"
    BY <1>3 DEF DecideNextAsset
  <2>2. \A i \in DOMAIN candidates : candidates[i].visit \in Nat
    <3>1. \A i \in DOMAIN candidates : candidates[i] \in Candidate
      BY <1>0
    <3> QED
      BY <3>1, PoolLength DEF Candidate
  <2>3. \A i \in DOMAIN candidates : candidates[i].visit < current'
    BY <1>0, <2>1, <2>2 DEF WatermarkInv
  <2>4. Earned' = {}
    BY <1>0, <2>1, <2>2, <2>3 DEF Earned
  <2> QED
    BY <1>0, <2>1, <2>2, <2>3, <2>4, FS_EmptySet DEF WatermarkInv, WatermarkEarned
<1>4. CASE ~Surfacing /\ ~DecideNextAsset /\ ~StartOnFirstAsset
  <2>1. UNCHANGED <<candidates, bestSharpe, current>>
    BY <1>4, RecordsStay, AssetStays
  <2>2. pc' = "GOAL_RECEIVED" => pc = "GOAL_RECEIVED"
    BY StartIsLeft
  <2>3. WatermarkEarned'
    BY <2>1 DEF WatermarkInv, WatermarkEarned, Earned
  <2> QED
    BY <2>1, <2>2, <2>3 DEF WatermarkInv
<1> QED
  BY <1>1, <1>2, <1>3, <1>4

\* The watermark the plateau rule reads is the best Sharpe ratio of the ideas of
\* this visit that held up out of sample: nothing collapsed, and nothing of an
\* earlier asset, is in it.
THEOREM WatermarkIsEarned == Spec => []WatermarkEarned
<1>1. TInv /\ WatermarkInv /\ [Next]_vars => WatermarkInv'
  BY WatermarkStep
<1>2. WatermarkInv => WatermarkEarned
  BY DEF WatermarkInv
<1> QED
  BY <1>1, <1>2, InitWatermark, TInvInvariant, PTL DEF Spec

-----------------------------------------------------------------------------
(* The hold-out peeks *)

PeekInv ==
    /\ PeeksTighten
    /\ \A a \in Assets : \A i \in TestsOn(a) : candidates[i].peek <= holdoutPeeks[a]

LEMMA InitPeek == Init => PeekInv
<1> SUFFICES ASSUME Init PROVE PeekInv
  OBVIOUS
<1>1. candidates = <<>> /\ holdoutPeeks = [a \in Assets |-> 0]
  BY DEF Init
<1>2. \A a \in Assets : TestsOn(a) = {}
  BY <1>1 DEF TestsOn
<1> QED
  BY <1>1, <1>2, FS_EmptySet DEF PeekInv, PeeksTighten

LEMMA PeekSurfaces ==
    ASSUME TInv, PeekInv, Surfacing
    PROVE  PeekInv'
<1>1. PICK c \in Candidate :
        /\ c.visit = current
        /\ candidates' = Append(candidates, c)
        /\ \/ c.peek = 0 /\ holdoutPeeks' = holdoutPeeks
           \/ /\ c.peek = NextPeek
              /\ holdoutPeeks' = [holdoutPeeks EXCEPT ![AssetPool[current]] = NextPeek]
        /\ pc = "CRITIQUING"
  BY Surfaces
<1>2. /\ candidates \in Seq(Candidate) /\ holdoutPeeks \in [Assets -> Nat]
      /\ current \in 1..Len(AssetPool) /\ AssetPool[current] \in Assets
  BY <1>1, PoolAssumption DEF TInv, TypeOK, RecordType, PhaseInv
<1> DEFINE n == Len(candidates)
           b == AssetPool[current]
<1>3. /\ DOMAIN candidates' = DOMAIN candidates \cup {n + 1}
      /\ candidates'[n + 1] = c
      /\ \A i \in DOMAIN candidates : candidates'[i] = candidates[i]
      /\ \A i \in DOMAIN candidates : i < n + 1 /\ i \in Nat
      /\ n \in Nat
  BY <1>1, <1>2, AppendIndex
<1>4. \A i \in DOMAIN candidates : candidates[i].peek \in Nat
  <2>1. \A i \in DOMAIN candidates : candidates[i] \in Candidate
    BY <1>2
  <2> QED
    BY <2>1 DEF Candidate
<1> SUFFICES ASSUME NEW a \in Assets
             PROVE  /\ holdoutPeeks'[a] = Cardinality(TestsOn(a)')
                    /\ \A i, j \in TestsOn(a)' :
                         i < j => candidates'[i].peek < candidates'[j].peek
                    /\ \A i \in TestsOn(a)' : candidates'[i].peek <= holdoutPeeks'[a]
  BY DEF PeekInv, PeeksTighten, TestsOn
<1>5. /\ TestsOn(a) \subseteq DOMAIN candidates
      /\ IsFiniteSet(TestsOn(a))
      /\ holdoutPeeks[a] = Cardinality(TestsOn(a)) /\ holdoutPeeks[a] \in Nat
      /\ \A i, j \in TestsOn(a) : i < j => candidates[i].peek < candidates[j].peek
      /\ \A i \in TestsOn(a) : candidates[i].peek <= holdoutPeeks[a]
  <2>1. TestsOn(a) \subseteq 1..n /\ TestsOn(a) \subseteq DOMAIN candidates
    BY <1>2 DEF TestsOn
  <2>2. IsFiniteSet(1..n)
    BY <1>3, FS_Interval
  <2>3. IsFiniteSet(TestsOn(a))
    BY <2>1, <2>2, FS_Subset
  <2> QED
    BY <1>2, <2>1, <2>3 DEF PeekInv, PeeksTighten
<1>6. CASE c.peek = 0 \/ a # b
  <2>1. TestsOn(a)' = TestsOn(a)
    BY <1>1, <1>3, <1>6 DEF TestsOn
  <2>2. holdoutPeeks'[a] = holdoutPeeks[a]
    BY <1>1, <1>2, <1>6 DEF NextPeek
  <2> QED
    BY <1>3, <1>5, <2>1, <2>2
<1>7. CASE c.peek # 0 /\ a = b
  <2>1. c.peek = holdoutPeeks[a] + 1 /\ holdoutPeeks'[a] = holdoutPeeks[a] + 1
    BY <1>1, <1>2, <1>7 DEF NextPeek
  <2>2. TestsOn(a)' = TestsOn(a) \cup {n + 1} /\ n + 1 \notin TestsOn(a)
    BY <1>1, <1>3, <1>5, <1>7, <2>1 DEF TestsOn
  <2>3. Cardinality(TestsOn(a)') = Cardinality(TestsOn(a)) + 1
    BY <1>5, <2>2, FS_AddElement
  <2>4. /\ \A i \in TestsOn(a) : candidates'[i].peek = candidates[i].peek
        /\ \A i \in TestsOn(a) : candidates'[i].peek \in Nat
        /\ \A i \in TestsOn(a) : i < n + 1 /\ i \in Nat
    BY <1>3, <1>4, <1>5
  <2>5. \A i \in TestsOn(a) : candidates'[i].peek < candidates'[n + 1].peek
    BY <1>3, <1>5, <2>1, <2>4
  <2>6. \A i, j \in TestsOn(a)' : i < j => candidates'[i].peek < candidates'[j].peek
    BY <1>3, <1>5, <2>2, <2>4, <2>5
  <2>7. \A i \in TestsOn(a)' : candidates'[i].peek <= holdoutPeeks'[a]
    BY <1>3, <1>5, <2>1, <2>2, <2>4
  <2> QED
    BY <1>5, <2>1, <2>3, <2>6, <2>7
<1> QED
  BY <1>6, <1>7

LEMMA PeekStep ==
    ASSUME TInv, PeekInv, [Next]_vars
    PROVE  PeekInv'
<1>1. CASE Surfacing
  BY <1>1, PeekSurfaces
<1>2. CASE ~Surfacing
  <2>1. UNCHANGED <<candidates, holdoutPeeks>>
    BY <1>2, RecordsStay DEF DecideNextAsset
  <2> QED
    BY <2>1 DEF PeekInv, PeeksTighten, TestsOn
<1> QED
  BY <1>1, <1>2

\* Each significance test on the hold-out of an asset faces a later Sidak peek
\* than every earlier one, on whichever visit it was made, and the peeks count
\* exactly the tests.
THEOREM HoldoutPeeksTighten == Spec => []PeeksTighten
<1>1. TInv /\ PeekInv /\ [Next]_vars => PeekInv'
  BY PeekStep
<1>2. PeekInv => PeeksTighten
  BY DEF PeekInv
<1> QED
  BY <1>1, <1>2, InitPeek, TInvInvariant, PTL DEF Spec
=============================================================================
