------------------------- MODULE RunLifecycle_proofs -------------------------
(***************************************************************************)
(* Proofs about RunLifecycle for any number of invocations, any number of  *)
(* steps, and every set of signals and kills.                              *)
(***************************************************************************)
EXTENDS RunLifecycle, TLAPS

USE DEF Steps, NoIndex

LEMMA TypeInit == Init => TypeOK
<1> SUFFICES ASSUME Init PROVE TypeOK
  OBVIOUS
<1> USE LifecycleAssumption DEF Init, ProcessesInit
<1>1. /\ runDir \in BOOLEAN /\ resumeSh \in BOOLEAN
      /\ prepared \in {"absent", "partial", "ready"}
      /\ stepDir \in BOOLEAN /\ index \in Steps \cup {NoIndex}
      /\ stopFile \in BOOLEAN /\ suspendFile \in BOOLEAN
  OBVIOUS
<1>2. /\ lpc \in [Launchers -> {"idle"} \cup Running \cup Ended]
      /\ viaResume \in [Launchers -> BOOLEAN]
      /\ request \in [Launchers -> {"auto", "fresh", "resume"}]
      /\ existed \in [Launchers -> BOOLEAN]
      /\ locked \in [Launchers -> BOOLEAN]
      /\ plan \in [Launchers -> {"none", "fresh", "reuse", "resume"}]
      /\ stopReq \in [Launchers -> BOOLEAN]
      /\ status \in [Launchers -> Nat]
  OBVIOUS
<1>3. /\ prep \in [Launchers -> {"none", "loading", "writing", "gone"}]
      /\ runner \in [Launchers -> {"none", "alive", "gone"}]
      /\ exitCode \in [Launchers -> Nat]
      /\ dpc \in [Launchers -> {"none", "exited", "dead"} \cup DriverAlive]
      /\ stopFlag \in [Launchers -> BOOLEAN]
      /\ written \in [Launchers -> BOOLEAN]
      /\ tpc \in [Launchers -> {"none", "returned", "raised", "dead"} \cup TrainerAlive]
      /\ gstep \in [Launchers -> Steps]
      /\ savedNow \in [Launchers -> BOOLEAN]
      /\ verdict \in [Launchers -> {"none", "suspended", "complete", "exhausted"}]
      /\ epochSteps \in EpochSteps
  OBVIOUS
<1>4. QED
  BY <1>1, <1>2, <1>3 DEF TypeOK

LEMMA LauncherType ==
    ASSUME TypeOK, NEW l \in Launchers, LauncherStep(l)
    PROVE  TypeOK'
<1> USE LifecycleAssumption DEF TypeOK, Running, Untrapped, Trapped, Ended, DriverAlive, TrainerAlive,
    files, launcherVars, childVars, driverVars, trainerVars, Goto, TGoto
<1>1. CASE MakeRunDir(l)
  BY <1>1 DEF MakeRunDir
<1>2. CASE TakeLock(l)
  <2>1. /\ lpc' \in {[lpc EXCEPT ![l] = "rejected"], [lpc EXCEPT ![l] = "preflight"]}
        /\ locked' \in {locked, [locked EXCEPT ![l] = TRUE]}
    BY <1>2 DEF TakeLock
  <2>2. /\ lpc' \in [Launchers -> {"idle"} \cup Running \cup Ended]
        /\ locked' \in [Launchers -> BOOLEAN]
    <3>1. lpc' \in [Launchers -> {"idle"} \cup Running \cup Ended]
      BY <2>1
    <3>2. locked' \in [Launchers -> BOOLEAN]
      <4>1. CASE UNCHANGED locked
        BY <4>1
      <4>2. CASE locked' = [locked EXCEPT ![l] = TRUE]
        BY <4>2
      <4>3. QED
        BY <2>1, <4>1, <4>2
    <3>3. QED
      BY <3>1, <3>2
  <2>3. UNCHANGED <<files, viaResume, request, existed, plan, stopReq, status,
                    childVars, driverVars, trainerVars>>
    BY <1>2 DEF TakeLock
  <2>4. QED
    BY <2>2, <2>3
<1>3. CASE Preflight(l)
  <2>1. CASE Dies(l)
    BY <2>1 DEF Dies
  <2>2. CASE ~Dies(l)
    <3> DEFINE chosen == Decide(request[l], viaResume[l], existed[l])
    <3>1. chosen # "die" => chosen \in {"fresh", "reuse", "resume"}
      BY DEF Decide
    <3> HIDE DEF chosen
    <3>2. /\ chosen \in {"fresh", "reuse", "resume"}
          /\ plan' = [plan EXCEPT ![l] = chosen]
      BY <1>3, <2>2, <3>1 DEF Preflight, chosen
    <3>3. /\ Goto(l, "resumecfg")
          /\ UNCHANGED <<files, viaResume, request, existed, locked, stopReq,
                         status, childVars, driverVars, trainerVars>>
      BY <1>3, <2>2 DEF Preflight
    <3>4. QED
      BY <3>2, <3>3
  <2>3. QED
    BY <2>1, <2>2
<1>4. CASE WriteResumeConfig(l)
  BY <1>4 DEF WriteResumeConfig
<1>5. CASE StopCheck1(l)
  BY <1>5 DEF StopCheck1
<1>6. CASE StartPrepare(l)
  <2>1. CASE Dies(l)
    BY <2>1 DEF Dies
  <2>2. CASE ~Dies(l)
    <3>1. /\ prep' = [prep EXCEPT ![l] = "loading"]
          /\ lpc' = [lpc EXCEPT ![l] = "preparing"]
          /\ UNCHANGED <<files, viaResume, request, existed, locked, plan, stopReq, status,
                         runner, exitCode, driverVars, trainerVars>>
      BY <1>6, <2>2 DEF StartPrepare
    <3>2. QED
      BY <3>1
  <2>3. QED
    BY <2>1, <2>2
<1>7. CASE Baseline(l)
  BY <1>7 DEF Baseline, Dies
<1>8. CASE StopCheck2(l)
  BY <1>8 DEF StopCheck2
<1>9. CASE ClearStop(l)
  BY <1>9 DEF ClearStop
<1>10. CASE Spawn(l)
  BY <1>10 DEF Spawn
<1>11. CASE RecordPid(l)
  BY <1>11 DEF RecordPid
<1>12. CASE PublishStop(l)
  BY <1>12 DEF PublishStop
<1>13. CASE WaitReturns(l)
  BY <1>13 DEF WaitReturns
<1>14. CASE CheckAlive(l)
  BY <1>14 DEF CheckAlive
<1>15. CASE Cleanup(l)
  BY <1>15 DEF Cleanup
<1>16. CASE Report(l)
  BY <1>16 DEF Report, Result
<1>17. QED
  BY <1>1, <1>2, <1>3, <1>4, <1>5, <1>6, <1>7, <1>8, <1>9, <1>10, <1>11, <1>12, <1>13, <1>14, <1>15, <1>16 DEF LauncherStep

\* The end of the driver's process keeps the types of what it changes.
LEMMA EndsType ==
    ASSUME TypeOK, NEW l \in Launchers, NEW code \in Nat, DriverEnds(l, code),
           UNCHANGED <<files, launcherVars, prep, runner, stopFlag, written, trainerVars>>
    PROVE  TypeOK'
<1> USE DEF TypeOK, files, launcherVars, trainerVars
<1>1. /\ dpc' = [dpc EXCEPT ![l] = "exited"]
      /\ exitCode' \in {exitCode, [exitCode EXCEPT ![l] = code]}
  BY DEF DriverEnds
<1>2. /\ dpc' \in [Launchers -> {"none", "exited", "dead"} \cup DriverAlive]
      /\ exitCode' \in [Launchers -> Nat]
  BY <1>1
<1>3. QED
  BY <1>2

LEMMA DriverType ==
    ASSUME TypeOK, NEW l \in Launchers, DriverStep(l)
    PROVE  TypeOK'
<1> USE LifecycleAssumption DEF TypeOK, Running, Untrapped, Trapped, Ended, DriverAlive, TrainerAlive,
    files, launcherVars, childVars, driverVars, trainerVars, Goto, TGoto
<1>1. CASE DriverFails(l)
  BY <1>1, EndsType DEF DriverFails
<1>2. CASE DriverBoots(l)
  BY <1>2 DEF DriverBoots
<1>3. CASE DropStaleSuspend(l)
  BY <1>3 DEF DropStaleSuspend
<1>4. CASE StartTask(l)
  BY <1>4 DEF StartTask
<1>5. CASE FirstCheck(l)
  BY <1>5 DEF FirstCheck, StopSeen
<1>6. CASE PollTask(l)
  <2>1. CASE tpc[l] = "returned"
    <3>1. /\ dpc' = [dpc EXCEPT ![l] = "closing"]
          /\ UNCHANGED <<files, launcherVars, childVars, stopFlag, written, trainerVars>>
      BY <1>6, <2>1 DEF PollTask
    <3>2. QED
      BY <3>1
  <2>2. CASE tpc[l] = "raised"
    <3>1. dpc[l] = "poll" /\ DriverEnds(l, 1)
      BY <1>6, <2>2 DEF PollTask
    <3>2. UNCHANGED <<files, launcherVars, prep, runner, stopFlag, written, trainerVars>>
      BY <1>6 DEF PollTask
    <3>3. QED
      BY <3>1, <3>2, EndsType
  <2>3. CASE tpc[l] \in TrainerAlive
    <3>1. /\ dpc' = [dpc EXCEPT ![l] = "polled"]
          /\ UNCHANGED <<files, launcherVars, childVars, stopFlag, written, trainerVars>>
      BY <1>6, <2>3 DEF PollTask
    <3>2. QED
      BY <3>1
  <2>4. QED
    BY <1>6, <2>1, <2>2, <2>3 DEF PollTask
<1>7. CASE PassOnStop(l)
  BY <1>7 DEF PassOnStop, StopSeen
<1>8. CASE DriverCloses(l)
  BY <1>8, EndsType DEF DriverCloses
<1>9. QED
  BY <1>1, <1>2, <1>3, <1>4, <1>5, <1>6, <1>7, <1>8 DEF DriverStep

\* The next step or the end of the epochs keep the types of what they change.
LEMMA NextStepType ==
    ASSUME TypeOK, NEW l \in Launchers, NEW done, NextStep(l, done)
    PROVE  /\ tpc' \in [Launchers -> {"none", "returned", "raised", "dead"} \cup TrainerAlive]
           /\ verdict' \in [Launchers -> {"none", "suspended", "complete", "exhausted"}]
<1>1. CASE TGoto(l, "step") /\ UNCHANGED verdict
  BY <1>1 DEF TGoto, TypeOK, TrainerAlive
<1>2. CASE Returns(l, "exhausted")
  BY <1>2 DEF Returns, TGoto, TypeOK
<1>3. QED
  BY <1>1, <1>2 DEF NextStep

LEMMA TrainerType ==
    ASSUME TypeOK, NEW l \in Launchers, TrainerStep(l)
    PROVE  TypeOK'
<1> USE LifecycleAssumption DEF TypeOK, Running, Untrapped, Trapped, Ended, DriverAlive, TrainerAlive,
    files, launcherVars, childVars, driverVars, trainerVars, Goto, TGoto
<1>1. CASE Load(l)
  BY <1>1 DEF Load
<1>2. CASE BeforeValidation(l)
  <2>1. /\ \E w \in {"save", "returned", "validated"} : tpc' = [tpc EXCEPT ![l] = w]
        /\ \/ UNCHANGED verdict
           \/ \E w \in {"suspended", "complete"} : verdict' = [verdict EXCEPT ![l] = w]
    BY <1>2 DEF BeforeValidation, StartSave, Returns
  <2>2. /\ tpc' \in [Launchers -> {"none", "returned", "raised", "dead"} \cup TrainerAlive]
        /\ verdict' \in [Launchers -> {"none", "suspended", "complete", "exhausted"}]
    BY <2>1
  <2>3. UNCHANGED <<files, launcherVars, childVars, driverVars, gstep, savedNow, epochSteps>>
    BY <1>2 DEF BeforeValidation
  <2>4. QED
    BY <2>2, <2>3
<1>3. CASE BeforeTraining(l)
  <2>1. CASE suspendFile
    <3>1. /\ tpc' = [tpc EXCEPT ![l] = "save"] /\ verdict' = [verdict EXCEPT ![l] = "suspended"]
          /\ UNCHANGED <<files, launcherVars, childVars, driverVars, gstep, savedNow, epochSteps>>
      BY <1>3, <2>1 DEF BeforeTraining, StartSave
    <3>2. QED
      BY <3>1
  <2>2. CASE ~suspendFile
    <3>1. gstep' \in [Launchers -> Steps]
      BY <1>3, <2>2 DEF BeforeTraining, Bump
    <3>2. NextStep(l, gstep[l])
      BY <1>3, <2>2 DEF BeforeTraining
    <3>3. UNCHANGED <<files, launcherVars, childVars, driverVars, savedNow, epochSteps>>
      BY <1>3 DEF BeforeTraining
    <3>4. QED
      BY <3>1, <3>2, <3>3, NextStepType
  <2>3. QED
    BY <2>1, <2>2
<1>4. CASE TrainOne(l)
  BY <1>4 DEF TrainOne, StartSave
<1>5. CASE SaveFiles(l)
  BY <1>5 DEF SaveFiles
<1>6. CASE SaveIndex(l)
  BY <1>6 DEF SaveIndex
<1>7. CASE StepEnd(l)
  <2>1. CASE suspendFile
    <3>1. CASE savedNow[l]
      BY <1>7, <2>1, <3>1 DEF StepEnd, Returns
    <3>2. CASE ~savedNow[l]
      BY <1>7, <2>1, <3>2 DEF StepEnd, StartSave
    <3>3. QED
      BY <3>1, <3>2
  <2>2. CASE ~suspendFile
    <3>1. NextStep(l, gstep[l]) \/ Returns(l, "complete")
      BY <1>7, <2>2 DEF StepEnd
    <3>2. /\ tpc' \in [Launchers -> {"none", "returned", "raised", "dead"} \cup TrainerAlive]
          /\ verdict' \in [Launchers -> {"none", "suspended", "complete", "exhausted"}]
      BY <3>1, NextStepType DEF Returns
    <3>3. gstep' \in [Launchers -> Steps]
      BY <1>7, <2>2 DEF StepEnd, Bump
    <3>4. UNCHANGED <<files, launcherVars, childVars, driverVars, savedNow, epochSteps>>
      BY <1>7 DEF StepEnd
    <3>5. QED
      BY <3>2, <3>3, <3>4
  <2>3. QED
    BY <2>1, <2>2
<1>8. CASE TrainerFails(l)
  BY <1>8 DEF TrainerFails
<1>9. QED
  BY <1>1, <1>2, <1>3, <1>4, <1>5, <1>6, <1>7, <1>8 DEF TrainerStep

LEMMA OtherType ==
    ASSUME TypeOK, NEW l \in Launchers, Invoke(l) \/ PrepareStep(l) \/ RunnerExits(l)
               \/ SignalRunner(l) \/ KillLauncher(l) \/ KillRunner(l) \/ OutputLost(l)
    PROVE  TypeOK'
<1> USE LifecycleAssumption DEF TypeOK, Running, Untrapped, Trapped, Ended, DriverAlive, TrainerAlive,
    files, launcherVars, childVars, driverVars, trainerVars, Goto, TGoto
<1>1. CASE Invoke(l)
  <2>1. viaResume' \in [Launchers -> BOOLEAN]
    <3>1. CASE UNCHANGED viaResume
      BY <3>1
    <3>2. CASE viaResume' = [viaResume EXCEPT ![l] = TRUE]
      BY <3>2
    <3>3. QED
      BY <1>1, <3>1, <3>2 DEF Invoke
  <2>2. request' \in [Launchers -> {"auto", "fresh", "resume"}]
    <3>1. CASE UNCHANGED request
      BY <3>1
    <3>2. CASE \E req \in {"auto", "fresh", "resume"} : request' = [request EXCEPT ![l] = req]
      BY <3>2
    <3>3. QED
      BY <1>1, <3>1, <3>2 DEF Invoke
  <2>3. /\ existed' = [existed EXCEPT ![l] = runDir]
        /\ lpc' = [lpc EXCEPT ![l] = "mkdir"]
        /\ UNCHANGED <<files, locked, plan, stopReq, status, childVars, driverVars,
                       trainerVars>>
    BY <1>1 DEF Invoke
  <2>4. QED
    BY <2>1, <2>2, <2>3
<1>2. CASE PrepareStep(l)
  BY <1>2 DEF PrepareStep
<1>3. CASE RunnerExits(l)
  BY <1>3 DEF RunnerExits
<1>4. CASE SignalRunner(l)
  <2>1. CASE dpc[l] \in {"boot", "closing"}
    <3>1. DriverEnds(l, 1) /\ UNCHANGED <<files, launcherVars, prep, runner, stopFlag,
                                          written, trainerVars>>
      BY <1>4, <2>1 DEF SignalRunner
    <3>2. QED
      BY <3>1, EndsType
  <2>2. CASE dpc[l] \notin {"boot", "closing"}
    <3>1. /\ stopFlag' = [stopFlag EXCEPT ![l] = TRUE]
          /\ UNCHANGED <<files, launcherVars, prep, runner, exitCode, dpc, written,
                         trainerVars>>
      BY <1>4, <2>2 DEF SignalRunner
    <3>2. QED
      BY <3>1
  <2>3. QED
    BY <2>1, <2>2
<1>5. CASE KillLauncher(l)
  BY <1>5 DEF KillLauncher
<1>6. CASE KillRunner(l)
  BY <1>6 DEF KillRunner
<1>7. CASE OutputLost(l)
  BY <1>7 DEF OutputLost
<1>8. QED
  BY <1>1, <1>2, <1>3, <1>4, <1>5, <1>6, <1>7

LEMMA SignalType ==
    ASSUME TypeOK, NEW l \in Launchers, NEW kind \in Signals, SignalLauncher(l, kind)
    PROVE  TypeOK'
<1> USE DEF TypeOK, Running, Untrapped, Trapped, Ended, Goto, driverVars, trainerVars
<1>1. /\ lpc' \in {lpc} \cup {[lpc EXCEPT ![l] = e] : e \in {"killed", "died", "check"}}
      /\ stopReq' \in {stopReq, [stopReq EXCEPT ![l] = TRUE]}
      /\ status' \in {status} \cup {[status EXCEPT ![l] = n] : n \in {130, 143}}
      /\ prep' \in {prep, [prep EXCEPT ![l] = "gone"]}
  BY DEF SignalLauncher
<1>2. stopFile' \in BOOLEAN
  BY DEF SignalLauncher
<1>3. /\ lpc' \in [Launchers -> {"idle"} \cup Running \cup Ended]
      /\ stopReq' \in [Launchers -> BOOLEAN]
      /\ status' \in [Launchers -> Nat]
      /\ prep' \in [Launchers -> {"none", "loading", "writing", "gone"}]
  <2>1. lpc' \in [Launchers -> {"idle"} \cup Running \cup Ended]
    BY <1>1
  <2>2. stopReq' \in [Launchers -> BOOLEAN]
    BY <1>1
  <2>3. status' \in [Launchers -> Nat]
    BY <1>1
  <2>4. prep' \in [Launchers -> {"none", "loading", "writing", "gone"}]
    BY <1>1
  <2>5. QED
    BY <2>1, <2>2, <2>3, <2>4
<1>4. UNCHANGED <<runDir, resumeSh, prepared, stepDir, index, suspendFile,
                  viaResume, request, existed, locked, plan, runner, exitCode,
                  driverVars, trainerVars>>
  BY DEF SignalLauncher
<1>5. QED
  BY <1>2, <1>3, <1>4

LEMMA CrashType == TypeOK /\ HostCrash => TypeOK'
BY DEF HostCrash, TypeOK, Running, Untrapped, Trapped, Ended, DriverAlive, TrainerAlive, files

LEMMA TypeNext == TypeOK /\ [Next]_vars => TypeOK'
<1> SUFFICES ASSUME TypeOK, [Next]_vars PROVE TypeOK'
  OBVIOUS
<1>1. CASE UNCHANGED vars
  BY <1>1 DEF vars, TypeOK
<1>2. CASE Next
  BY <1>2, LauncherType, DriverType, TrainerType, OtherType, SignalType, CrashType DEF Next
<1>3. QED
  BY <1>1, <1>2

\* The variables of every process have their types in every reachable state.
THEOREM TypeCorrect == Spec => []TypeOK
BY TypeInit, TypeNext, PTL DEF Spec

-----------------------------------------------------------------------------
(* The lock                                                                *)

\* Where the launcher is until it starts run_logged.py.
BeforeSpawn == {"idle", "mkdir", "lock", "preflight", "resumecfg", "stopcheck1",
                "prepare", "preparing", "baseline", "stopcheck2", "clear", "spawn"}

\* Who has the lock, and that a trainer never outlives the processes that hold
\* it for its launcher.
LockInv ==
    /\ \A l \in Launchers : lpc[l] \in Trapped \cup {"report"} => locked[l]
    /\ \A l \in Launchers : lpc[l] \in {"idle", "mkdir", "lock"} => ~locked[l]
    /\ \A l \in Launchers : lpc[l] \in BeforeSpawn => runner[l] = "none"
    /\ \A l \in Launchers : lpc[l] = "cleanup" => runner[l] # "alive"
    /\ \A l \in Launchers : runner[l] = "alive" => locked[l]
    /\ \A l \in Launchers : dpc[l] \in DriverAlive => runner[l] = "alive"
    /\ \A l \in Launchers : tpc[l] \in TrainerAlive => dpc[l] \in {"first", "poll", "polled"}
    /\ \A l, m \in Launchers : Holds(l) /\ Holds(m) => l = m

\* Only TakeLock makes a new holder, and only when there is none.
LEMMA LauncherLock ==
    ASSUME TypeOK, LockInv, NEW l \in Launchers, LauncherStep(l)
    PROVE  LockInv'
<1> USE DEF TypeOK, LockInv, BeforeSpawn, Holds, Running, Untrapped, Trapped, Ended, DriverAlive,
    TrainerAlive, files, launcherVars, childVars, driverVars, trainerVars, Goto, TGoto
<1>1. CASE MakeRunDir(l)
  BY <1>1 DEF MakeRunDir
<1>2. CASE TakeLock(l)
  <2>1. CASE \E m \in Launchers \ {l} : Holds(m)
    <3>1. /\ lpc[l] = "lock" /\ lpc' = [lpc EXCEPT ![l] = "rejected"]
          /\ UNCHANGED <<locked, prep, runner, dpc, tpc>>
      BY <1>2, <2>1 DEF TakeLock
    <3>2. QED
      BY <3>1
  <2>2. CASE ~\E m \in Launchers \ {l} : Holds(m)
    <3>1. /\ lpc[l] = "lock" /\ lpc' = [lpc EXCEPT ![l] = "preflight"]
          /\ locked' = [locked EXCEPT ![l] = TRUE]
          /\ UNCHANGED <<prep, runner, dpc, tpc>>
      BY <1>2, <2>2 DEF TakeLock
    <3>2. QED
      BY <2>2, <3>1
  <2>3. QED
    BY <2>1, <2>2
<1>3. CASE Preflight(l)
  BY <1>3 DEF Preflight, Dies
<1>4. CASE WriteResumeConfig(l)
  BY <1>4 DEF WriteResumeConfig
<1>5. CASE StopCheck1(l)
  BY <1>5 DEF StopCheck1
<1>6. CASE StartPrepare(l)
  BY <1>6 DEF StartPrepare, Dies
<1>7. CASE Baseline(l)
  BY <1>7 DEF Baseline, Dies
<1>8. CASE StopCheck2(l)
  BY <1>8 DEF StopCheck2
<1>9. CASE ClearStop(l)
  BY <1>9 DEF ClearStop
<1>10. CASE Spawn(l)
  <2>1. locked[l] /\ Holds(l)
    BY <1>10 DEF Spawn
  <2>2. /\ \A x \in Launchers \ {l} : lpc'[x] = lpc[x] /\ runner'[x] = runner[x]
                                      /\ dpc'[x] = dpc[x]
        /\ lpc'[l] = "pid" /\ runner'[l] = "alive" /\ dpc'[l] = "boot"
        /\ tpc' = tpc /\ locked' = locked /\ prep' = prep
    BY <1>10 DEF Spawn
  <2>3. \A x \in Launchers : Holds(x)' => Holds(x)
    BY <2>1, <2>2
  <2>4. tpc[l] \notin TrainerAlive
    BY <1>10 DEF Spawn
  <2>5. \A x, y \in Launchers : Holds(x)' /\ Holds(y)' => x = y
    <3> HIDE DEF Holds
    <3>1. QED
      BY <2>3
  <2>6. \A x \in Launchers :
          /\ lpc'[x] \in Trapped \cup {"report"} => locked'[x]
          /\ lpc'[x] \in {"idle", "mkdir", "lock"} => ~locked'[x]
          /\ lpc'[x] \in BeforeSpawn => runner'[x] = "none"
          /\ lpc'[x] = "cleanup" => runner'[x] # "alive"
          /\ runner'[x] = "alive" => locked'[x]
          /\ dpc'[x] \in DriverAlive => runner'[x] = "alive"
          /\ tpc'[x] \in TrainerAlive => dpc'[x] \in {"first", "poll", "polled"}
    BY <2>1, <2>2, <2>4
  <2>7. QED
    <3> HIDE DEF Holds, TypeOK, BeforeSpawn, Trapped, DriverAlive, TrainerAlive
    <3>1. QED
      BY <2>5, <2>6
<1>11. CASE RecordPid(l)
  BY <1>11 DEF RecordPid
<1>12. CASE PublishStop(l)
  BY <1>12 DEF PublishStop
<1>13. CASE WaitReturns(l)
  BY <1>13 DEF WaitReturns
<1>14. CASE CheckAlive(l)
  BY <1>14 DEF CheckAlive
<1>15. CASE Cleanup(l)
  BY <1>15 DEF Cleanup
<1>16. CASE Report(l)
  BY <1>16 DEF Report, Result
<1>17. QED
  BY <1>1, <1>2, <1>3, <1>4, <1>5, <1>6, <1>7, <1>8, <1>9, <1>10, <1>11, <1>12, <1>13, <1>14, <1>15, <1>16 DEF LauncherStep

\* The driver never leaves a trainer behind.
LEMMA DriverLock ==
    ASSUME TypeOK, LockInv, NEW l \in Launchers, DriverStep(l)
    PROVE  LockInv'
<1> USE DEF TypeOK, LockInv, BeforeSpawn, Holds, Running, Untrapped, Trapped, Ended, DriverAlive,
    TrainerAlive, files, launcherVars, childVars, driverVars, trainerVars, Goto, TGoto
<1>1. CASE DriverFails(l)
  BY <1>1 DEF DriverFails, DriverEnds
<1>2. CASE DriverBoots(l)
  BY <1>2 DEF DriverBoots
<1>3. CASE DropStaleSuspend(l)
  BY <1>3 DEF DropStaleSuspend
<1>4. CASE StartTask(l)
  BY <1>4 DEF StartTask
<1>5. CASE FirstCheck(l)
  BY <1>5 DEF FirstCheck
<1>6. CASE PollTask(l)
  BY <1>6 DEF PollTask, DriverEnds
<1>7. CASE PassOnStop(l)
  BY <1>7 DEF PassOnStop
<1>8. CASE DriverCloses(l)
  BY <1>8 DEF DriverCloses, DriverEnds
<1>9. QED
  BY <1>1, <1>2, <1>3, <1>4, <1>5, <1>6, <1>7, <1>8 DEF DriverStep

\* fit itself changes nobody's hold on the lock.
LEMMA TrainerLock ==
    ASSUME TypeOK, LockInv, NEW l \in Launchers, TrainerStep(l)
    PROVE  LockInv'
<1> USE DEF TypeOK, LockInv, BeforeSpawn, Holds, Running, Untrapped, Trapped, Ended, DriverAlive,
    TrainerAlive, files, launcherVars, childVars, driverVars, trainerVars, Goto, TGoto
<1>1. CASE Load(l)
  BY <1>1 DEF Load
<1>2. CASE BeforeValidation(l)
  BY <1>2 DEF BeforeValidation, StartSave, Returns
<1>3. CASE BeforeTraining(l)
  BY <1>3 DEF BeforeTraining, NextStep, Returns, StartSave
<1>4. CASE TrainOne(l)
  BY <1>4 DEF TrainOne, StartSave
<1>5. CASE SaveFiles(l)
  BY <1>5 DEF SaveFiles
<1>6. CASE SaveIndex(l)
  BY <1>6 DEF SaveIndex
<1>7. CASE StepEnd(l)
  BY <1>7 DEF StepEnd, NextStep, StartSave, Returns
<1>8. CASE TrainerFails(l)
  BY <1>8 DEF TrainerFails
<1>9. QED
  BY <1>1, <1>2, <1>3, <1>4, <1>5, <1>6, <1>7, <1>8 DEF TrainerStep

\* Children that end and launchers that are killed only let go of the lock.
LEMMA OtherLock ==
    ASSUME TypeOK, LockInv, NEW l \in Launchers, Invoke(l) \/ PrepareStep(l) \/ RunnerExits(l)
               \/ SignalRunner(l) \/ KillLauncher(l) \/ OutputLost(l)
    PROVE  LockInv'
<1> USE DEF TypeOK, LockInv, BeforeSpawn, Holds, Running, Untrapped, Trapped, Ended, DriverAlive,
    TrainerAlive, files, launcherVars, childVars, driverVars, trainerVars, Goto, TGoto
<1>1. CASE Invoke(l)
  BY <1>1 DEF Invoke
<1>2. CASE PrepareStep(l)
  BY <1>2 DEF PrepareStep
<1>3. CASE RunnerExits(l)
  BY <1>3 DEF RunnerExits
<1>4. CASE SignalRunner(l)
  BY <1>4 DEF SignalRunner, DriverEnds
<1>5. CASE KillLauncher(l)
  BY <1>5 DEF KillLauncher
<1>6. CASE OutputLost(l)
  BY <1>6 DEF OutputLost
<1>7. QED
  BY <1>1, <1>2, <1>3, <1>4, <1>5, <1>6

LEMMA SignalLock ==
    ASSUME TypeOK, LockInv, NEW l \in Launchers, NEW kind \in Signals, SignalLauncher(l, kind)
    PROVE  LockInv'
BY DEF SignalLauncher, TypeOK, LockInv, BeforeSpawn, Holds, Running, Untrapped, Trapped, Ended,
   DriverAlive, TrainerAlive, driverVars, trainerVars, Goto

LEMMA CrashLock == TypeOK /\ LockInv /\ HostCrash => LockInv'
BY DEF HostCrash, TypeOK, LockInv, BeforeSpawn, Holds, Running, Untrapped, Trapped, Ended,
   DriverAlive, TrainerAlive, files

\* The lock is kept by every step but the kill of run_logged.py.
LEMMA LockNext ==
    ASSUME "runner" \notin Kills, TypeOK, LockInv, [Next]_vars
    PROVE  LockInv'
<1>1. CASE UNCHANGED vars
  BY <1>1 DEF vars, LockInv, Holds
<1>2. CASE Next
  <2>1. ASSUME NEW l \in Launchers PROVE ~KillRunner(l)
    BY DEF KillRunner
  <2>2. QED
    BY <1>2, <2>1, LauncherLock, DriverLock, TrainerLock, OtherLock, SignalLock,
       CrashLock DEF Next
<1>3. QED
  BY <1>1, <1>2

LEMMA LockInit == Init => LockInv
BY DEF Init, ProcessesInit, LockInv, BeforeSpawn, Holds, Running, Untrapped, Trapped,
   DriverAlive, TrainerAlive

\* A working trainer means that its launcher's processes have the lock.
LEMMA TrainerHolds ==
    ASSUME LockInv, NEW l \in Launchers, tpc[l] \in TrainerAlive
    PROVE  runner[l] = "alive" /\ Holds(l)
BY DEF LockInv, Holds, DriverAlive

\* Unless run_logged.py is killed under a running trainer, any number of
\* overlapping invocations, signals, killed launchers and host crashes leave at
\* most one trainer working on the run directory.
THEOREM LockExcludes == ASSUME "runner" \notin Kills PROVE Spec => []OneTrainer
<1>1. LockInv => OneTrainer
  BY TrainerHolds DEF LockInv, OneTrainer
<1>2. QED
  BY <1>1, LockInit, LockNext, TypeInit, TypeNext, PTL DEF Spec

\* Under the same condition no launcher removes .stop_after_step while a
\* trainer works, its own or another's: a stop request once made is not lost.
THEOREM StopMarkerSafe == ASSUME "runner" \notin Kills PROVE Spec => StopMarkerKept
<1>1. ASSUME TypeOK, LockInv, [Next]_vars
      PROVE  [stopFile /\ ~stopFile' => \A l \in Launchers : tpc[l] \notin TrainerAlive]_vars
  <2> SUFFICES ASSUME Next, stopFile, ~stopFile', NEW m \in Launchers,
                      tpc[m] \in TrainerAlive
               PROVE  FALSE
    BY <1>1
  <2>1. PICK l \in Launchers : ClearStop(l) \/ Cleanup(l)
    <3> USE DEF files, launcherVars, childVars, driverVars, trainerVars
    <3>1. ~HostCrash
      BY DEF HostCrash
    <3>2. ASSUME NEW l \in Launchers, LauncherStep(l) PROVE ClearStop(l) \/ Cleanup(l)
      BY <3>2 DEF LauncherStep, MakeRunDir, TakeLock, Preflight, WriteResumeConfig,
         StopCheck1, StartPrepare, Baseline, StopCheck2, Spawn, RecordPid, PublishStop,
         WaitReturns, CheckAlive, Report, Dies
    <3>3. ASSUME NEW l \in Launchers PROVE ~DriverStep(l) /\ ~TrainerStep(l)
      BY DEF DriverStep, DriverFails, DriverBoots, DropStaleSuspend, StartTask,
         FirstCheck, PollTask, PassOnStop, DriverCloses, TrainerStep, Load,
         BeforeValidation, BeforeTraining, TrainOne, SaveFiles, SaveIndex, StepEnd,
         TrainerFails
    <3>4. ASSUME NEW l \in Launchers
          PROVE  /\ ~Invoke(l) /\ ~PrepareStep(l) /\ ~RunnerExits(l)
                 /\ ~SignalRunner(l) /\ ~KillLauncher(l) /\ ~KillRunner(l)
                 /\ ~OutputLost(l)
      BY DEF Invoke, PrepareStep, RunnerExits, SignalRunner, KillLauncher, KillRunner,
         OutputLost
    <3>5. ASSUME NEW l \in Launchers, NEW kind \in Signals PROVE ~SignalLauncher(l, kind)
      BY DEF SignalLauncher
    <3>6. QED
      BY <3>1, <3>2, <3>3, <3>4, <3>5 DEF Next
  <2>2. locked[l] /\ Holds(l) /\ runner[l] # "alive"
    BY <1>1, <2>1 DEF ClearStop, Cleanup, LockInv, BeforeSpawn, Holds, Running, Trapped
  <2>3. runner[m] = "alive" /\ Holds(m)
    BY <1>1, TrainerHolds
  <2>4. QED
    BY <1>1, <2>2, <2>3 DEF LockInv
<1>2. QED
  BY <1>1, LockInit, LockNext, TypeInit, TypeNext, PTL DEF Spec, StopMarkerKept

=============================================================================
