--------------------------- MODULE RunReport_proofs ---------------------------
(***************************************************************************)
(* What a launcher finds and what it reports, proved for any number of     *)
(* overlapping invocations, signals, killed launchers and host crashes: a  *)
(* training that starts over starts on a clean directory, a run that is    *)
(* reported without a failure is saved, and a suspended one is not         *)
(* reported complete.  All three rest on the lock (LockInv): between its   *)
(* decision and its report nobody else's trainer touches the directory.    *)
(***************************************************************************)
EXTENDS RunLifecycle_proofs

\* The launcher decided to start over and its trainer has not loaded yet.
StartsOver(l) ==
    \/ plan[l] = "reuse" /\ lpc[l] \in {"resumecfg", "stopcheck1"}
    \/ plan[l] \in {"fresh", "reuse"} /\
         lpc[l] \in {"preparing", "baseline", "stopcheck2", "clear", "spawn"}
    \/ plan[l] \in {"fresh", "reuse"} /\ dpc[l] \in {"boot", "init", "start"}
    \/ plan[l] \in {"fresh", "reuse"} /\ tpc[l] = "load"

\* Checkpoints only come after a prepared model, every launcher that passes
\* prepare has one, and one that starts over has met no checkpoint.
CleanInv ==
    /\ index # NoIndex \/ stepDir => prepared # "absent"
    /\ \A l \in Launchers : lpc[l] \in {"resumecfg", "stopcheck1"} =>
         /\ plan[l] # "none"
         /\ plan[l] # "fresh" => prepared # "absent"
    /\ \A l \in Launchers :
         \/ lpc[l] \in {"baseline", "stopcheck2", "clear", "spawn"}
         \/ dpc[l] \in DriverAlive
         => prepared # "absent"
    /\ \A l \in Launchers : StartsOver(l) => index = NoIndex /\ ~stepDir

\* How the exit code, the status and the verdict of fit belong together.
CodesInv ==
    /\ \A l \in Launchers : lpc[l] \in BeforeSpawn => dpc[l] = "none"
    /\ \A l \in Launchers :
         dpc[l] \in {"none", "boot", "init", "start"} => tpc[l] = "none" /\ verdict[l] = "none"
    /\ \A l \in Launchers : dpc[l] = "closing" => tpc[l] = "returned"
    /\ \A l \in Launchers : dpc[l] = "exited" /\ exitCode[l] = 0 => tpc[l] = "returned"
    /\ \A l \in Launchers : lpc[l] \in Running /\ runner[l] = "gone" => dpc[l] = "exited"
    /\ \A l \in Launchers :
         lpc[l] \in {"check", "cleanup", "report"} /\ status[l] = 0 => tpc[l] = "returned"

\* What fit knows to be saved, and that its verdict stays true as long as its
\* launcher's processes hold the lock.
SavedInv ==
    /\ \A l \in Launchers : tpc[l] = "before" /\ gstep[l] > 0 => index = gstep[l]
    /\ \A l \in Launchers : tpc[l] = "validated" => gstep[l] < LastStep
    /\ \A l \in Launchers : tpc[l] = "end" =>
         /\ savedNow[l] => index = gstep[l]
         /\ gstep[l] >= LastStep => savedNow[l]
    /\ \A l \in Launchers : Holds(l) /\ tpc[l] = "returned" =>
         /\ verdict[l] # "none"
         /\ verdict[l] = "suspended" => index = gstep[l]
         /\ verdict[l] = "complete" => index >= LastStep
         /\ verdict[l] = "exhausted" => epochSteps < LastStep
    /\ \A l \in Launchers : Holds(l) /\ verdict[l] = "suspended" => suspendFile
    /\ \A l \in Launchers : lpc[l] = "complete" =>
         verdict[l] \in {"complete", "exhausted"} /\ tpc[l] = "returned"

-----------------------------------------------------------------------------
(* A clean start                                                           *)

\* Nobody else's trainer works while a launcher's processes have the lock.
LEMMA HolderAlone ==
    ASSUME LockInv, NEW l \in Launchers, Holds(l), NEW m \in Launchers, tpc[m] \in TrainerAlive
    PROVE  m = l
BY TrainerHolds DEF LockInv

\* A launcher that starts over has the lock, and no trainer past the load.
LEMMA StartsOverHolds ==
    ASSUME TypeOK, LockInv, NEW l \in Launchers, StartsOver(l)
    PROVE  Holds(l) /\ (tpc[l] \in TrainerAlive => tpc[l] = "load")
<1>1. CASE lpc[l] \in {"resumecfg", "stopcheck1", "preparing", "baseline", "stopcheck2", "clear", "spawn"}
  BY <1>1 DEF LockInv, Holds, BeforeSpawn, Running, Trapped, DriverAlive, TrainerAlive
<1>2. CASE dpc[l] \in {"boot", "init", "start"}
  BY <1>2 DEF LockInv, Holds, DriverAlive, TrainerAlive
<1>3. CASE tpc[l] = "load"
  BY <1>3, TrainerHolds DEF TrainerAlive
<1>4. QED
  BY <1>1, <1>2, <1>3 DEF StartsOver

\* The launcher decides on what it finds under the lock.
LEMMA LauncherClean ==
    ASSUME TypeOK, LockInv, CleanInv, CodesInv, NEW l \in Launchers, LauncherStep(l)
    PROVE  CleanInv'
<1> USE DEF TypeOK, CleanInv, StartsOver, DriverAlive, TrainerAlive, files, launcherVars, childVars,
    driverVars, trainerVars, Goto, TGoto
<1>1. CASE MakeRunDir(l)
  BY <1>1 DEF MakeRunDir
<1>2. CASE TakeLock(l)
  BY <1>2 DEF TakeLock
<1>3. CASE Preflight(l)
  <2>1. CASE Dies(l)
    BY <2>1 DEF Dies
  <2>2. CASE ~Dies(l)
    <3> DEFINE chosen == Decide(request[l], viaResume[l], existed[l])
    <3>1. /\ chosen # "die" /\ lpc[l] = "preflight"
          /\ plan' = [plan EXCEPT ![l] = chosen] /\ lpc' = [lpc EXCEPT ![l] = "resumecfg"]
          /\ UNCHANGED <<index, stepDir, prepared, dpc, tpc>>
      BY <1>3, <2>2 DEF Preflight
    <3>2. /\ chosen \in {"fresh", "reuse", "resume"}
          /\ chosen # "fresh" => prepared # "absent"
          /\ chosen = "reuse" => index = NoIndex /\ ~stepDir
      BY <3>1 DEF Decide, Wanted
    <3> HIDE DEF chosen
    <3>3. dpc[l] \notin DriverAlive /\ tpc[l] # "load"
      BY <3>1 DEF LockInv, BeforeSpawn
    <3>4. QED
      BY <3>1, <3>2, <3>3
  <2>3. QED
    BY <2>1, <2>2
<1>4. CASE WriteResumeConfig(l)
  BY <1>4 DEF WriteResumeConfig
<1>5. CASE StopCheck1(l)
  BY <1>5 DEF StopCheck1
<1>6. CASE StartPrepare(l)
  BY <1>6 DEF StartPrepare, Dies
<1>7. CASE Baseline(l)
  BY <1>7 DEF Baseline, Dies
<1>8. CASE StopCheck2(l)
  BY <1>8 DEF StopCheck2
<1>9. CASE ClearStop(l)
  BY <1>9 DEF ClearStop
<1>10. CASE Spawn(l)
  BY <1>10 DEF Spawn, CodesInv, BeforeSpawn
<1>11. CASE RecordPid(l)
  BY <1>11 DEF RecordPid
<1>12. CASE PublishStop(l)
  BY <1>12 DEF PublishStop
<1>13. CASE WaitReturns(l)
  BY <1>13 DEF WaitReturns
<1>14. CASE CheckAlive(l)
  BY <1>14 DEF CheckAlive
<1>15. CASE Cleanup(l)
  BY <1>15 DEF Cleanup
<1>16. CASE Report(l)
  BY <1>16 DEF Report, Result
<1>17. QED
  BY <1>1, <1>2, <1>3, <1>4, <1>5, <1>6, <1>7, <1>8, <1>9, <1>10, <1>11, <1>12, <1>13, <1>14, <1>15, <1>16 DEF LauncherStep

\* The driver starts fit on the directory as the launcher left it.
LEMMA DriverClean ==
    ASSUME TypeOK, LockInv, CleanInv, NEW l \in Launchers, DriverStep(l)
    PROVE  CleanInv'
<1> USE DEF TypeOK, CleanInv, StartsOver, DriverAlive, TrainerAlive, files, launcherVars, childVars,
    driverVars, trainerVars, Goto, TGoto
<1>1. CASE DriverFails(l)
  BY <1>1 DEF DriverFails, DriverEnds
<1>2. CASE DriverBoots(l)
  BY <1>2 DEF DriverBoots
<1>3. CASE DropStaleSuspend(l)
  BY <1>3 DEF DropStaleSuspend
<1>4. CASE StartTask(l)
  BY <1>4 DEF StartTask
<1>5. CASE FirstCheck(l)
  BY <1>5 DEF FirstCheck
<1>6. CASE PollTask(l)
  BY <1>6 DEF PollTask, DriverEnds
<1>7. CASE PassOnStop(l)
  BY <1>7 DEF PassOnStop
<1>8. CASE DriverCloses(l)
  BY <1>8 DEF DriverCloses, DriverEnds
<1>9. QED
  BY <1>1, <1>2, <1>3, <1>4, <1>5, <1>6, <1>7, <1>8 DEF DriverStep

\* Only a trainer past its load writes checkpoints, and it is alone.
LEMMA TrainerClean ==
    ASSUME TypeOK, LockInv, CleanInv, NEW l \in Launchers, TrainerStep(l)
    PROVE  CleanInv'
<1> USE DEF TypeOK, CleanInv, StartsOver, DriverAlive, TrainerAlive, files, launcherVars, childVars,
    driverVars, trainerVars, Goto, TGoto
<1>1. CASE Load(l)
  BY <1>1 DEF Load
<1>2. CASE BeforeValidation(l)
  BY <1>2 DEF BeforeValidation, StartSave, Returns
<1>3. CASE BeforeTraining(l)
  BY <1>3 DEF BeforeTraining, NextStep, Returns, StartSave
<1>4. CASE TrainOne(l)
  BY <1>4 DEF TrainOne, StartSave
<1>5. CASE SaveFiles(l)
  <2>1. tpc[l] \in TrainerAlive /\ tpc[l] # "load" /\ prepared # "absent"
    BY <1>5 DEF SaveFiles, LockInv
  <2>2. \A m \in Launchers : ~StartsOver(m)
    BY <2>1, HolderAlone, StartsOverHolds
  <2>3. \A m \in Launchers : ~StartsOver(m)'
    BY <1>5, <2>2 DEF SaveFiles
  <2>4. QED
    BY <1>5, <2>1, <2>3 DEF SaveFiles
<1>6. CASE SaveIndex(l)
  <2>1. tpc[l] \in TrainerAlive /\ tpc[l] # "load" /\ prepared # "absent"
    BY <1>6 DEF SaveIndex, LockInv
  <2>2. \A m \in Launchers : ~StartsOver(m)
    BY <2>1, HolderAlone, StartsOverHolds
  <2>3. \A m \in Launchers : ~StartsOver(m)'
    BY <1>6, <2>2 DEF SaveIndex
  <2>4. QED
    BY <1>6, <2>1, <2>3 DEF SaveIndex
<1>7. CASE StepEnd(l)
  BY <1>7 DEF StepEnd, NextStep, StartSave, Returns
<1>8. CASE TrainerFails(l)
  BY <1>8 DEF TrainerFails
<1>9. QED
  BY <1>1, <1>2, <1>3, <1>4, <1>5, <1>6, <1>7, <1>8 DEF TrainerStep

\* Children that end and launchers that are killed decide nothing.
LEMMA OtherClean ==
    ASSUME TypeOK, LockInv, CleanInv, NEW l \in Launchers, Invoke(l) \/ PrepareStep(l) \/ RunnerExits(l)
               \/ SignalRunner(l) \/ KillLauncher(l) \/ OutputLost(l)
    PROVE  CleanInv'
<1> USE DEF TypeOK, CleanInv, StartsOver, DriverAlive, TrainerAlive, files, launcherVars, childVars,
    driverVars, trainerVars, Goto, TGoto
<1>1. CASE Invoke(l)
  BY <1>1 DEF Invoke
<1>2. CASE PrepareStep(l)
  BY <1>2 DEF PrepareStep
<1>3. CASE RunnerExits(l)
  BY <1>3 DEF RunnerExits
<1>4. CASE SignalRunner(l)
  BY <1>4 DEF SignalRunner, DriverEnds
<1>5. CASE KillLauncher(l)
  BY <1>5 DEF KillLauncher
<1>6. CASE OutputLost(l)
  BY <1>6 DEF OutputLost
<1>7. QED
  BY <1>1, <1>2, <1>3, <1>4, <1>5, <1>6

\* Neither does a signal to the launcher, nor a crash of the host.
LEMMA SignalClean ==
    ASSUME TypeOK, CleanInv, NEW l \in Launchers, NEW kind \in Signals, SignalLauncher(l, kind)
    PROVE  CleanInv'
BY DEF SignalLauncher, TypeOK, CleanInv, StartsOver, DriverAlive, TrainerAlive, driverVars,
   trainerVars, Goto

LEMMA CrashClean == TypeOK /\ CleanInv /\ HostCrash => CleanInv'
BY DEF HostCrash, TypeOK, CleanInv, StartsOver, DriverAlive, TrainerAlive, Running, Untrapped,
   Trapped, files

-----------------------------------------------------------------------------
(* Exit codes                                                              *)

\* The status that the launcher keeps is the code of a run_logged.py that is gone.
LEMMA LauncherCodes ==
    ASSUME TypeOK, LockInv, CodesInv, NEW l \in Launchers, LauncherStep(l)
    PROVE  CodesInv'
<1> USE DEF TypeOK, LockInv, CodesInv, BeforeSpawn, Running, Untrapped, Trapped, DriverAlive, TrainerAlive,
    files, launcherVars, childVars, driverVars, trainerVars, Goto, TGoto
<1>1. CASE MakeRunDir(l)
  BY <1>1 DEF MakeRunDir
<1>2. CASE TakeLock(l)
  BY <1>2 DEF TakeLock
<1>3. CASE Preflight(l)
  BY <1>3 DEF Preflight, Dies
<1>4. CASE WriteResumeConfig(l)
  BY <1>4 DEF WriteResumeConfig
<1>5. CASE StopCheck1(l)
  BY <1>5 DEF StopCheck1
<1>6. CASE StartPrepare(l)
  BY <1>6 DEF StartPrepare, Dies
<1>7. CASE Baseline(l)
  BY <1>7 DEF Baseline, Dies
<1>8. CASE StopCheck2(l)
  BY <1>8 DEF StopCheck2
<1>9. CASE ClearStop(l)
  BY <1>9 DEF ClearStop
<1>10. CASE Spawn(l)
  BY <1>10 DEF Spawn
<1>11. CASE RecordPid(l)
  BY <1>11 DEF RecordPid
<1>12. CASE PublishStop(l)
  BY <1>12 DEF PublishStop
<1>13. CASE WaitReturns(l)
  BY <1>13 DEF WaitReturns
<1>14. CASE CheckAlive(l)
  BY <1>14 DEF CheckAlive
<1>15. CASE Cleanup(l)
  BY <1>15 DEF Cleanup
<1>16. CASE Report(l)
  BY <1>16 DEF Report, Result
<1>17. QED
  BY <1>1, <1>2, <1>3, <1>4, <1>5, <1>6, <1>7, <1>8, <1>9, <1>10, <1>11, <1>12, <1>13, <1>14, <1>15, <1>16 DEF LauncherStep

\* The driver exits with 0 only after fit has returned.
LEMMA DriverCodes ==
    ASSUME TypeOK, LockInv, CodesInv, NEW l \in Launchers, DriverStep(l)
    PROVE  CodesInv'
<1> USE DEF TypeOK, LockInv, CodesInv, BeforeSpawn, Running, Untrapped, Trapped, DriverAlive, TrainerAlive,
    files, launcherVars, childVars, driverVars, trainerVars, Goto, TGoto
<1>1. CASE DriverFails(l)
  BY <1>1 DEF DriverFails, DriverEnds
<1>2. CASE DriverBoots(l)
  BY <1>2 DEF DriverBoots
<1>3. CASE DropStaleSuspend(l)
  BY <1>3 DEF DropStaleSuspend
<1>4. CASE StartTask(l)
  BY <1>4 DEF StartTask
<1>5. CASE FirstCheck(l)
  BY <1>5 DEF FirstCheck, StopSeen
<1>6. CASE PollTask(l)
  BY <1>6 DEF PollTask, DriverEnds
<1>7. CASE PassOnStop(l)
  BY <1>7 DEF PassOnStop, StopSeen
<1>8. CASE DriverCloses(l)
  BY <1>8 DEF DriverCloses, DriverEnds
<1>9. QED
  BY <1>1, <1>2, <1>3, <1>4, <1>5, <1>6, <1>7, <1>8 DEF DriverStep

\* fit has no part in the codes.
LEMMA TrainerCodes ==
    ASSUME TypeOK, LockInv, CodesInv, NEW l \in Launchers, TrainerStep(l)
    PROVE  CodesInv'
<1> USE DEF TypeOK, LockInv, CodesInv, BeforeSpawn, Running, Untrapped, Trapped, DriverAlive, TrainerAlive,
    files, launcherVars, childVars, driverVars, trainerVars, Goto, TGoto
<1>1. CASE Load(l)
  BY <1>1 DEF Load
<1>2. CASE BeforeValidation(l)
  BY <1>2 DEF BeforeValidation, StartSave, Returns
<1>3. CASE BeforeTraining(l)
  BY <1>3 DEF BeforeTraining, NextStep, Returns, StartSave
<1>4. CASE TrainOne(l)
  BY <1>4 DEF TrainOne, StartSave
<1>5. CASE SaveFiles(l)
  BY <1>5 DEF SaveFiles
<1>6. CASE SaveIndex(l)
  BY <1>6 DEF SaveIndex
<1>7. CASE StepEnd(l)
  BY <1>7 DEF StepEnd, NextStep, StartSave, Returns
<1>8. CASE TrainerFails(l)
  BY <1>8 DEF TrainerFails
<1>9. QED
  BY <1>1, <1>2, <1>3, <1>4, <1>5, <1>6, <1>7, <1>8 DEF TrainerStep

\* A driver that a signal ends does not exit with 0.
LEMMA OtherCodes ==
    ASSUME TypeOK, LockInv, CodesInv, NEW l \in Launchers, Invoke(l) \/ PrepareStep(l) \/ RunnerExits(l)
               \/ SignalRunner(l) \/ KillLauncher(l) \/ OutputLost(l)
    PROVE  CodesInv'
<1> USE DEF TypeOK, LockInv, CodesInv, BeforeSpawn, Running, Untrapped, Trapped, DriverAlive, TrainerAlive,
    files, launcherVars, childVars, driverVars, trainerVars, Goto, TGoto
<1>1. CASE Invoke(l)
  BY <1>1 DEF Invoke
<1>2. CASE PrepareStep(l)
  BY <1>2 DEF PrepareStep
<1>3. CASE RunnerExits(l)
  BY <1>3 DEF RunnerExits
<1>4. CASE SignalRunner(l)
  BY <1>4 DEF SignalRunner, DriverEnds
<1>5. CASE KillLauncher(l)
  BY <1>5 DEF KillLauncher
<1>6. CASE OutputLost(l)
  BY <1>6 DEF OutputLost
<1>7. QED
  BY <1>1, <1>2, <1>3, <1>4, <1>5, <1>6

\* A signal interrupts wait with a status that is not 0.
LEMMA SignalCodes ==
    ASSUME TypeOK, LockInv, CodesInv, NEW l \in Launchers, NEW kind \in Signals,
           SignalLauncher(l, kind)
    PROVE  CodesInv'
BY DEF SignalLauncher, TypeOK, LockInv, CodesInv, BeforeSpawn, Running, Untrapped, Trapped, Ended,
   DriverAlive, TrainerAlive, driverVars, trainerVars, Goto

LEMMA CrashCodes == TypeOK /\ LockInv /\ CodesInv /\ HostCrash => CodesInv'
BY DEF HostCrash, TypeOK, LockInv, CodesInv, BeforeSpawn, Running, Untrapped, Trapped, Ended,
   DriverAlive, TrainerAlive, files

-----------------------------------------------------------------------------
(* What is saved when the launcher reports                                 *)

\* The report says complete only when there is no .suspend_requested.
LEMMA LauncherSaved ==
    ASSUME TypeOK, LockInv, CodesInv, SavedInv, NEW l \in Launchers, LauncherStep(l)
    PROVE  SavedInv'
<1> USE LifecycleAssumption, HolderAlone DEF TypeOK, LockInv, CodesInv, SavedInv, Holds, BeforeSpawn, Running, Untrapped,
    Trapped, DriverAlive, TrainerAlive, files, launcherVars, childVars, driverVars, trainerVars, Goto, TGoto
<1>1. CASE MakeRunDir(l)
  BY <1>1 DEF MakeRunDir
<1>2. CASE TakeLock(l)
  BY <1>2 DEF TakeLock
<1>3. CASE Preflight(l)
  BY <1>3 DEF Preflight, Dies
<1>4. CASE WriteResumeConfig(l)
  BY <1>4 DEF WriteResumeConfig
<1>5. CASE StopCheck1(l)
  BY <1>5 DEF StopCheck1
<1>6. CASE StartPrepare(l)
  BY <1>6 DEF StartPrepare, Dies
<1>7. CASE Baseline(l)
  BY <1>7 DEF Baseline, Dies
<1>8. CASE StopCheck2(l)
  BY <1>8 DEF StopCheck2
<1>9. CASE ClearStop(l)
  BY <1>9 DEF ClearStop
<1>10. CASE Spawn(l)
  BY <1>10 DEF Spawn
<1>11. CASE RecordPid(l)
  BY <1>11 DEF RecordPid
<1>12. CASE PublishStop(l)
  BY <1>12 DEF PublishStop
<1>13. CASE WaitReturns(l)
  BY <1>13 DEF WaitReturns
<1>14. CASE CheckAlive(l)
  BY <1>14 DEF CheckAlive
<1>15. CASE Cleanup(l)
  BY <1>15 DEF Cleanup
<1>16. CASE Report(l)
  BY <1>16 DEF Report, Result
<1>17. QED
  BY <1>1, <1>2, <1>3, <1>4, <1>5, <1>6, <1>7, <1>8, <1>9, <1>10, <1>11, <1>12, <1>13, <1>14, <1>15, <1>16 DEF LauncherStep

\* A driver that drops .suspend_requested has the lock, so no verdict relies on it.
LEMMA DriverSaved ==
    ASSUME TypeOK, LockInv, CodesInv, SavedInv, NEW l \in Launchers, DriverStep(l)
    PROVE  SavedInv'
<1> USE LifecycleAssumption, HolderAlone DEF TypeOK, LockInv, CodesInv, SavedInv, Holds, BeforeSpawn, Running, Untrapped,
    Trapped, DriverAlive, TrainerAlive, files, launcherVars, childVars, driverVars, trainerVars, Goto, TGoto
<1>1. CASE DriverFails(l)
  BY <1>1 DEF DriverFails, DriverEnds
<1>2. CASE DriverBoots(l)
  BY <1>2 DEF DriverBoots
<1>3. CASE DropStaleSuspend(l)
  BY <1>3 DEF DropStaleSuspend
<1>4. CASE StartTask(l)
  BY <1>4 DEF StartTask
<1>5. CASE FirstCheck(l)
  BY <1>5 DEF FirstCheck, StopSeen
<1>6. CASE PollTask(l)
  BY <1>6 DEF PollTask, DriverEnds
<1>7. CASE PassOnStop(l)
  BY <1>7 DEF PassOnStop, StopSeen
<1>8. CASE DriverCloses(l)
  BY <1>8 DEF DriverCloses, DriverEnds
<1>9. QED
  BY <1>1, <1>2, <1>3, <1>4, <1>5, <1>6, <1>7, <1>8 DEF DriverStep

\* A trainer that works is the only one, and has the lock: whatever it does,
\* only the clauses about itself are at stake.
LEMMA OwnClauses ==
    ASSUME TypeOK, LockInv, SavedInv, NEW l \in Launchers, tpc[l] \in TrainerAlive,
           UNCHANGED <<lpc, locked, prep, runner, suspendFile, epochSteps>>,
           \A x \in Launchers \ {l} : tpc'[x] = tpc[x] /\ verdict'[x] = verdict[x],
           tpc'[l] = "before" /\ gstep'[l] > 0 => index' = gstep'[l],
           tpc'[l] = "validated" => gstep'[l] < LastStep,
           tpc'[l] = "end" => (savedNow'[l] => index' = gstep'[l])
                              /\ (gstep'[l] >= LastStep => savedNow'[l]),
           tpc'[l] = "returned" =>
               /\ verdict'[l] # "none"
               /\ verdict'[l] = "suspended" => index' = gstep'[l]
               /\ verdict'[l] = "complete" => index' >= LastStep
               /\ verdict'[l] = "exhausted" => epochSteps < LastStep,
           verdict'[l] = "suspended" => suspendFile
    PROVE  SavedInv'
<1>1. Holds(l) /\ \A x \in Launchers \ {l} : ~Holds(x) /\ tpc[x] \notin TrainerAlive
  BY TrainerHolds DEF LockInv
<1>2. \A x \in Launchers : Holds(x)' = Holds(x)
  BY DEF Holds
<1>3. lpc[l] # "complete" /\ lpc' = lpc
  BY DEF SavedInv, TrainerAlive
<1>4. \A x \in Launchers \ {l} : tpc'[x] \notin {"before", "validated", "end"}
  BY <1>1 DEF TrainerAlive
<1>5. QED
  BY <1>1, <1>2, <1>3, <1>4 DEF SavedInv

\* fit returns only with its work in the index, or after it has put it there.
LEMMA TrainerSaved ==
    ASSUME TypeOK, LockInv, CodesInv, SavedInv, NEW l \in Launchers, TrainerStep(l)
    PROVE  SavedInv'
<1>0. /\ tpc[l] \in {"none", "returned", "raised", "dead"} \cup TrainerAlive
      /\ gstep[l] \in 0..StepCap /\ index \in 0..StepCap \cup {-1}
      /\ LastStep \in Nat \ {0} /\ StepCap \in Nat \ {0} /\ epochSteps \in Nat
      /\ tpc[l] \in TrainerAlive /\ verdict[l] = "suspended" => suspendFile
      /\ tpc[l] = "before" /\ gstep[l] > 0 => index = gstep[l]
      /\ tpc[l] = "validated" => gstep[l] < LastStep
      /\ tpc[l] = "end" => (savedNow[l] => index = gstep[l])
                           /\ (gstep[l] >= LastStep => savedNow[l])
      /\ DOMAIN tpc = Launchers /\ DOMAIN gstep = Launchers /\ DOMAIN savedNow = Launchers
      /\ DOMAIN verdict = Launchers
  <2>1. tpc[l] \in TrainerAlive => Holds(l)
    BY TrainerHolds
  <2>2. /\ tpc[l] \in {"none", "returned", "raised", "dead"} \cup TrainerAlive
        /\ DOMAIN tpc = Launchers /\ DOMAIN gstep = Launchers /\ DOMAIN savedNow = Launchers
        /\ DOMAIN verdict = Launchers
        /\ gstep[l] \in 0..StepCap /\ index \in 0..StepCap \cup {-1}
    BY DEF TypeOK, Steps, NoIndex
  <2>3. LastStep \in Nat \ {0} /\ StepCap \in Nat \ {0} /\ epochSteps \in Nat
    BY LifecycleAssumption DEF TypeOK
  <2>4. /\ tpc[l] \in TrainerAlive /\ verdict[l] = "suspended" => suspendFile
        /\ tpc[l] = "before" /\ gstep[l] > 0 => index = gstep[l]
        /\ tpc[l] = "validated" => gstep[l] < LastStep
        /\ tpc[l] = "end" => (savedNow[l] => index = gstep[l])
                             /\ (gstep[l] >= LastStep => savedNow[l])
    BY <2>1 DEF SavedInv
  <2>5. QED
    BY <2>2, <2>3, <2>4
<1> DEFINE Own == /\ tpc[l] \in TrainerAlive
                  /\ UNCHANGED <<lpc, locked, prep, runner, suspendFile, epochSteps>>
                  /\ \A x \in Launchers \ {l} : tpc'[x] = tpc[x] /\ verdict'[x] = verdict[x]
                  /\ tpc'[l] = "before" /\ gstep'[l] > 0 => index' = gstep'[l]
                  /\ tpc'[l] = "validated" => gstep'[l] < LastStep
                  /\ tpc'[l] = "end" => (savedNow'[l] => index' = gstep'[l])
                                        /\ (gstep'[l] >= LastStep => savedNow'[l])
                  /\ tpc'[l] = "returned" =>
                       /\ verdict'[l] # "none"
                       /\ verdict'[l] = "suspended" => index' = gstep'[l]
                       /\ verdict'[l] = "complete" => index' >= LastStep
                       /\ verdict'[l] = "exhausted" => epochSteps < LastStep
                  /\ verdict'[l] = "suspended" => suspendFile
<1>own. SUFFICES Own
  <2>1. Own => SavedInv'
    BY OwnClauses
  <2>2. QED
    BY <2>1
<1> USE DEF TrainerAlive, files, launcherVars, childVars, driverVars, trainerVars, TGoto
<1>1. CASE Load(l)
  BY <1>0, <1>1 DEF Load
<1>2. CASE BeforeValidation(l)
  BY <1>0, <1>2 DEF BeforeValidation, StartSave, Returns
<1>3. CASE BeforeTraining(l)
  BY <1>0, <1>3 DEF BeforeTraining, NextStep, Returns, StartSave
<1>4. CASE TrainOne(l)
  BY <1>0, <1>4 DEF TrainOne, StartSave
<1>5. CASE SaveFiles(l)
  BY <1>0, <1>5 DEF SaveFiles
<1>6. CASE SaveIndex(l)
  BY <1>0, <1>6 DEF SaveIndex
<1>7. CASE StepEnd(l)
  BY <1>0, <1>7 DEF StepEnd, NextStep, StartSave, Returns
<1>8. CASE TrainerFails(l)
  BY <1>0, <1>8 DEF TrainerFails
<1>9. QED
  BY <1>1, <1>2, <1>3, <1>4, <1>5, <1>6, <1>7, <1>8 DEF TrainerStep

\* A process that ends only lets go of the lock.
LEMMA OtherSaved ==
    ASSUME TypeOK, LockInv, CodesInv, SavedInv, NEW l \in Launchers, Invoke(l) \/ PrepareStep(l) \/ RunnerExits(l)
               \/ SignalRunner(l) \/ KillLauncher(l) \/ OutputLost(l)
    PROVE  SavedInv'
<1> USE LifecycleAssumption, HolderAlone DEF TypeOK, LockInv, CodesInv, SavedInv, Holds, BeforeSpawn, Running, Untrapped,
    Trapped, DriverAlive, TrainerAlive, files, launcherVars, childVars, driverVars, trainerVars, Goto, TGoto
<1>1. CASE Invoke(l)
  BY <1>1 DEF Invoke
<1>2. CASE PrepareStep(l)
  BY <1>2 DEF PrepareStep
<1>3. CASE RunnerExits(l)
  BY <1>3 DEF RunnerExits
<1>4. CASE SignalRunner(l)
  BY <1>4 DEF SignalRunner, DriverEnds
<1>5. CASE KillLauncher(l)
  BY <1>5 DEF KillLauncher
<1>6. CASE OutputLost(l)
  BY <1>6 DEF OutputLost
<1>7. QED
  BY <1>1, <1>2, <1>3, <1>4, <1>5, <1>6

LEMMA SignalSaved ==
    ASSUME TypeOK, LockInv, CodesInv, SavedInv, NEW l \in Launchers, NEW kind \in Signals,
           SignalLauncher(l, kind)
    PROVE  SavedInv'
BY DEF SignalLauncher, TypeOK, LockInv, SavedInv, Holds, Running, Untrapped, Trapped, Ended,
   DriverAlive, TrainerAlive, driverVars, trainerVars, Goto

LEMMA CrashSaved == TypeOK /\ LockInv /\ SavedInv /\ HostCrash => SavedInv'
BY DEF HostCrash, TypeOK, LockInv, SavedInv, Holds, Running, Untrapped, Trapped, Ended,
   DriverAlive, TrainerAlive, files

-----------------------------------------------------------------------------
(* The theorems                                                            *)

ReportInv == TypeOK /\ LockInv /\ CodesInv /\ CleanInv /\ SavedInv

LEMMA ReportInit == Init => ReportInv
<1> SUFFICES ASSUME Init PROVE ReportInv
  OBVIOUS
<1>1. TypeOK /\ LockInv
  BY TypeInit, LockInit
<1>2. CodesInv
  BY DEF Init, ProcessesInit, CodesInv, BeforeSpawn, Running, Untrapped, Trapped
<1>3. CleanInv
  BY DEF Init, ProcessesInit, CleanInv, StartsOver, DriverAlive
<1>4. SavedInv
  BY DEF Init, ProcessesInit, SavedInv, Holds
<1>5. QED
  BY <1>1, <1>2, <1>3, <1>4 DEF ReportInv

LEMMA ReportNext ==
    ASSUME "runner" \notin Kills, ReportInv, [Next]_vars
    PROVE  ReportInv'
<1>1. TypeOK' /\ LockInv'
  BY TypeNext, LockNext DEF ReportInv
<1>2. CASE UNCHANGED vars
  BY <1>1, <1>2 DEF vars, ReportInv, CodesInv, CleanInv, StartsOver, SavedInv, Holds
<1>3. CASE Next
  <2> USE DEF ReportInv
  <2>1. ASSUME NEW l \in Launchers PROVE ~KillRunner(l)
    BY DEF KillRunner
  <2>2. CodesInv'
    BY <1>3, <2>1, LauncherCodes, DriverCodes, TrainerCodes, OtherCodes, SignalCodes,
       CrashCodes DEF Next
  <2>3. CleanInv'
    BY <1>3, <2>1, LauncherClean, DriverClean, TrainerClean, OtherClean, SignalClean,
       CrashClean DEF Next
  <2>4. SavedInv'
    BY <1>3, <2>1, LauncherSaved, DriverSaved, TrainerSaved, OtherSaved, SignalSaved,
       CrashSaved DEF Next
  <2>5. QED
    BY <1>1, <2>2, <2>3, <2>4
<1>4. QED
  BY <1>2, <1>3

LEMMA ReportInvariance == ASSUME "runner" \notin Kills PROVE Spec => []ReportInv
BY ReportInit, ReportNext, PTL DEF Spec

\* A trainer that starts over finds neither an index nor a step directory:
\* between the decision, made on a RUN_DIR_EXISTED that was read before the
\* lock, and the load no other invocation can have saved anything.
THEOREM FreshStartSafe == ASSUME "runner" \notin Kills PROVE Spec => []FreshStartsClean
<1>1. ReportInv => FreshStartsClean
  BY DEF ReportInv, CleanInv, StartsOver, FreshStartsClean
<1>2. QED
  BY <1>1, ReportInvariance, PTL

\* A launcher that is about to report without a failure has its progress on
\* disk: status 0 means that fit returned, and since then only its own
\* processes have had the lock.
THEOREM ReportSafe == ASSUME "runner" \notin Kills PROVE Spec => []ReportedWorkIsSaved
<1>1. ReportInv => ReportedWorkIsSaved
  BY DEF ReportInv, LockInv, CodesInv, SavedInv, Holds, Running, Untrapped, ReportedWorkIsSaved
<1>2. QED
  BY <1>1, ReportInvariance, PTL

\* A run that fit left because of a suspension is never reported complete: as
\* long as the launcher holds the lock nobody drops .suspend_requested.
THEOREM SuspensionReported == ASSUME "runner" \notin Kills PROVE Spec => []SuspendNeverComplete
<1>1. ReportInv => SuspendNeverComplete
  BY DEF ReportInv, SavedInv, SuspendNeverComplete
<1>2. QED
  BY <1>1, ReportInvariance, PTL

=============================================================================
