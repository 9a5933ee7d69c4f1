----------------------------- MODULE RunLifecycle -----------------------------
(***************************************************************************)
(* One run directory and the processes of the invocations that use it: the *)
(* launcher (run_b200_growmtp_lora.sh), the logger it starts in a session  *)
(* of its own (run_logged.py), the Ray driver (run_ppo) and the trainer    *)
(* (RayPPOTrainer.fit).  They talk through files only: .run.lock keeps a   *)
(* second launcher out, .stop_after_step carries a stop request from the   *)
(* launcher to the driver, .suspend_requested from the driver to the       *)
(* trainer and back to the launcher's final report.                        *)
(*                                                                         *)
(* Signals, kills and host crashes arrive at any moment, and any number of *)
(* invocations, by hand or through config/resume.sh, may overlap.          *)
(***************************************************************************)
EXTENDS Integers, FiniteSets

CONSTANTS
    Launchers,  \* the invocations of the launcher with this RUN_DIR
    LastStep,   \* trainer.total_training_steps
    EpochSteps, \* the steps that total_epochs passes over the data may hold
    StepCap,    \* bound: steps beyond it are not told apart
    Kills,      \* what may be killed without notice: subset of KillTargets
    Signals     \* which signals may arrive: subset of SignalKinds

KillTargets == {"launcher", "runner", "host"}

\* SIGINT (Ctrl-C) and SIGTERM to the launcher, and either to run_logged.py.
SignalKinds == {"INT", "TERM", "logger"}

ASSUME LifecycleAssumption ==
    /\ Launchers # {}
    /\ LastStep \in Nat \ {0}
    /\ EpochSteps # {} /\ EpochSteps \subseteq Nat \ {0}
    /\ StepCap \in Nat \ {0}
    /\ Kills \subseteq KillTargets
    /\ Signals \subseteq SignalKinds

NoIndex == -1
Steps == 0..StepCap

VARIABLES
    \* The run directory.
    runDir,       \* RUN_DIR exists
    resumeSh,     \* config/resume.sh exists
    prepared,     \* prepared_model/: "absent", "partial" or "ready"
    stepDir,      \* some checkpoints/global_step_* exists
    index,        \* checkpoints/latest_checkpointed_iteration.txt
    stopFile,     \* checkpoints/.stop_after_step exists
    suspendFile,  \* checkpoints/.suspend_requested exists
    \* Each launcher.
    lpc,          \* where the script is, or how it ended
    viaResume,    \* started by config/resume.sh (GROWMTP_RESUME_CONFIG is set)
    request,      \* RUN_ACTION as given: "auto", "fresh" or "resume"
    existed,      \* RUN_DIR_EXISTED
    locked,       \* flock succeeded; held while a process keeps the descriptor
    plan,         \* the action chosen: "none", "fresh", "reuse" or "resume"
    stopReq,      \* STOP_REQUESTED
    status,       \* TRAIN_STATUS
    \* The processes each launcher starts.
    prep,         \* prepare_model.sh: "none", "loading", "writing" or "gone"
    runner,       \* run_logged.py: "none", "alive" or "gone"
    exitCode,     \* what run_logged.py returns
    dpc,          \* where run_ppo is
    stopFlag,     \* the driver's stop_requested
    written,      \* suspend_request_written
    tpc,          \* where fit is
    gstep,        \* self.global_steps
    savedNow,     \* checkpoint_saved
    verdict,      \* why fit returned: "none", "suspended", "complete" or
                  \* "exhausted" (no epoch left before the last step)
    epochSteps    \* len(train_dataloader) * total_epochs; never changes

files == <<runDir, resumeSh, prepared, stepDir, index, stopFile, suspendFile>>
launcherVars == <<lpc, viaResume, request, existed, locked, plan, stopReq, status>>
childVars == <<prep, runner, exitCode>>
driverVars == <<dpc, stopFlag, written>>
trainerVars == <<tpc, gstep, savedNow, verdict, epochSteps>>
vars == <<runDir, resumeSh, prepared, stepDir, index, stopFile, suspendFile,
          lpc, viaResume, request, existed, locked, plan, stopReq, status,
          prep, runner, exitCode, dpc, stopFlag, written,
          tpc, gstep, savedNow, verdict, epochSteps>>

\* Where the script can be: before the trap is installed, under the trap, and
\* after `trap - INT TERM`; then the ways an invocation ends.
Untrapped == {"mkdir", "lock", "report"}
Trapped == {"preflight", "resumecfg", "stopcheck1", "prepare", "preparing",
            "baseline", "stopcheck2", "clear", "spawn", "pid", "publish",
            "wait", "check", "cleanup"}
Running == Untrapped \cup Trapped
Ended == {"rejected", "died", "killed", "cancelled", "failed", "suspended",
          "complete"}

DriverAlive == {"boot", "init", "start", "first", "poll", "polled", "closing"}
TrainerAlive == {"load", "before", "validated", "step", "save", "saving", "end"}

TypeOK ==
    /\ runDir \in BOOLEAN /\ resumeSh \in BOOLEAN
    /\ prepared \in {"absent", "partial", "ready"}
    /\ stepDir \in BOOLEAN
    /\ index \in Steps \cup {NoIndex}
    /\ stopFile \in BOOLEAN /\ suspendFile \in BOOLEAN
    /\ lpc \in [Launchers -> {"idle"} \cup Running \cup Ended]
    /\ viaResume \in [Launchers -> BOOLEAN]
    /\ request \in [Launchers -> {"auto", "fresh", "resume"}]
    /\ existed \in [Launchers -> BOOLEAN]
    /\ locked \in [Launchers -> BOOLEAN]
    /\ plan \in [Launchers -> {"none", "fresh", "reuse", "resume"}]
    /\ stopReq \in [Launchers -> BOOLEAN]
    /\ status \in [Launchers -> Nat]
    /\ prep \in [Launchers -> {"none", "loading", "writing", "gone"}]
    /\ runner \in [Launchers -> {"none", "alive", "gone"}]
    /\ exitCode \in [Launchers -> Nat]
    /\ dpc \in [Launchers -> {"none", "exited", "dead"} \cup DriverAlive]
    /\ stopFlag \in [Launchers -> BOOLEAN]
    /\ written \in [Launchers -> BOOLEAN]
    /\ tpc \in [Launchers -> {"none", "returned", "raised", "dead"} \cup TrainerAlive]
    /\ gstep \in [Launchers -> Steps]
    /\ savedNow \in [Launchers -> BOOLEAN]
    /\ verdict \in [Launchers -> {"none", "suspended", "complete", "exhausted"}]
    /\ epochSteps \in EpochSteps

\* No invocation has begun yet.
ProcessesInit ==
    /\ lpc = [l \in Launchers |-> "idle"]
    /\ viaResume = [l \in Launchers |-> FALSE]
    /\ request = [l \in Launchers |-> "auto"]
    /\ existed = [l \in Launchers |-> FALSE]
    /\ locked = [l \in Launchers |-> FALSE]
    /\ plan = [l \in Launchers |-> "none"]
    /\ stopReq = [l \in Launchers |-> FALSE]
    /\ status = [l \in Launchers |-> 0]
    /\ prep = [l \in Launchers |-> "none"]
    /\ runner = [l \in Launchers |-> "none"]
    /\ exitCode = [l \in Launchers |-> 0]
    /\ dpc = [l \in Launchers |-> "none"]
    /\ stopFlag = [l \in Launchers |-> FALSE]
    /\ written = [l \in Launchers |-> FALSE]
    /\ tpc = [l \in Launchers |-> "none"]
    /\ gstep = [l \in Launchers |-> 0]
    /\ savedNow = [l \in Launchers |-> FALSE]
    /\ verdict = [l \in Launchers |-> "none"]
    /\ epochSteps \in EpochSteps

\* RUN_DIR does not exist.
Init ==
    /\ runDir = FALSE /\ resumeSh = FALSE /\ prepared = "absent"
    /\ stepDir = FALSE /\ index = NoIndex
    /\ stopFile = FALSE /\ suspendFile = FALSE
    /\ ProcessesInit

-----------------------------------------------------------------------------
(* The launcher, up to the moment it starts the trainer.                   *)

Goto(l, where) == lpc' = [lpc EXCEPT ![l] = where]

\* An invocation by hand with any RUN_ACTION, or by config/resume.sh, which
\* exports RUN_ACTION=auto.  Whether RUN_DIR exists is read before the lock.
Invoke(l) ==
    /\ lpc[l] = "idle"
    /\ \/ /\ resumeSh
          /\ viaResume' = [viaResume EXCEPT ![l] = TRUE]
          /\ UNCHANGED request
       \/ \E req \in {"auto", "fresh", "resume"} :
          /\ request' = [request EXCEPT ![l] = req]
          /\ UNCHANGED viaResume
    /\ existed' = [existed EXCEPT ![l] = runDir]
    /\ Goto(l, "mkdir")
    /\ UNCHANGED <<files, locked, plan, stopReq, status, childVars, driverVars,
                   trainerVars>>

MakeRunDir(l) ==
    /\ lpc[l] = "mkdir"
    /\ runDir' = TRUE
    /\ Goto(l, "lock")
    /\ UNCHANGED <<resumeSh, prepared, stepDir, index, stopFile, suspendFile,
                   viaResume, request, existed, locked, plan, stopReq, status,
                   childVars, driverVars, trainerVars>>

\* Mutant: the descriptor is closed in the script's children.
HoldsCloexec(l) == locked[l] /\ lpc[l] \in Running

\* The flock lives as long as a process has its descriptor: the script, and the
\* children that inherit it.  run_logged.py starts the trainer with Popen, which
\* closes it: the driver and the trainer do not hold the lock themselves.
Holds(l) ==
    /\ locked[l]
    /\ \/ lpc[l] \in Running
       \/ prep[l] \in {"loading", "writing"}
       \/ runner[l] = "alive"

\* flock -n: taken at once or the invocation ends.
TakeLock(l) ==
    /\ lpc[l] = "lock"
    /\ IF \E m \in Launchers \ {l} : Holds(m)
       THEN Goto(l, "rejected") /\ UNCHANGED locked
       ELSE Goto(l, "preflight") /\ locked' = [locked EXCEPT ![l] = TRUE]
    /\ UNCHANGED <<files, viaResume, request, existed, plan, stopReq, status,
                   childVars, driverVars, trainerVars>>

\* The script does not carry on: a check calls die, or a command fails under
\* set -e.
Dies(l) ==
    /\ Goto(l, "died")
    /\ UNCHANGED <<files, viaResume, request, existed, locked, plan, stopReq,
                   status, childVars, driverVars, trainerVars>>

\* RUN_ACTION=auto looks at what the trainer left behind.
Wanted(req, ex) ==
    CASE req = "auto" /\ index # NoIndex -> "resume"
      [] req = "auto" /\ index = NoIndex /\ ex /\ prepared # "absent" /\ ~stepDir -> "reuse"
      [] req = "auto" /\ index = NoIndex /\ ~(ex /\ prepared # "absent" /\ ~stepDir) -> "fresh"
      [] OTHER -> req

\* The chosen action, or "die" when the directory does not allow it.
Decide(req, via, ex) ==
    CASE Wanted(req, ex) = "resume" /\ via /\ index # NoIndex /\ stepDir
            /\ prepared # "absent" -> "resume"
      [] Wanted(req, ex) = "reuse" -> "reuse"
      [] Wanted(req, ex) = "fresh" /\ ~ex -> "fresh"
      [] OTHER -> "die"

\* Preflight, the choice of action and the validation of the settings.
Preflight(l) ==
    /\ lpc[l] = "preflight"
    /\ \/ Dies(l)
       \/ LET chosen == Decide(request[l], viaResume[l], existed[l]) IN
          /\ chosen # "die"
          /\ plan' = [plan EXCEPT ![l] = chosen]
          /\ Goto(l, "resumecfg")
          /\ UNCHANGED <<files, viaResume, request, existed, locked, stopReq,
                         status, childVars, driverVars, trainerVars>>

\* write_resume_config, launch.txt and the banner.
WriteResumeConfig(l) ==
    /\ lpc[l] = "resumecfg"
    /\ resumeSh' = TRUE
    /\ Goto(l, "stopcheck1")
    /\ UNCHANGED <<runDir, prepared, stepDir, index, stopFile, suspendFile,
                   viaResume, request, existed, locked, plan, stopReq, status,
                   childVars, driverVars, trainerVars>>

\* A stop that arrived during the preflight ends the run here.
StopCheck1(l) ==
    /\ lpc[l] = "stopcheck1"
    /\ Goto(l, CASE stopReq[l] -> "cancelled"
                 [] ~stopReq[l] /\ plan[l] = "fresh" -> "prepare"
                 [] OTHER -> "baseline")
    /\ UNCHANGED <<files, viaResume, request, existed, locked, plan, stopReq,
                   status, childVars, driverVars, trainerVars>>

\* Mutant: prepare writes over what it finds.
StartPrepareAnyway(l) ==
    /\ lpc[l] = "prepare"
    /\ prep' = [prep EXCEPT ![l] = "loading"]
    /\ Goto(l, "preparing")
    /\ UNCHANGED <<files, viaResume, request, existed, locked, plan, stopReq,
                   status, runner, exitCode, driverVars, trainerVars>>

\* prepare_model.sh as a foreground child; it refuses a non-empty directory.
StartPrepare(l) ==
    /\ lpc[l] = "prepare"
    /\ \/ prepared # "absent" /\ Dies(l)
       \/ /\ prepared = "absent"
          /\ prep' = [prep EXCEPT ![l] = "loading"]
          /\ Goto(l, "preparing")
          /\ UNCHANGED <<files, viaResume, request, existed, locked, plan,
                         stopReq, status, runner, exitCode, driverVars,
                         trainerVars>>

\* The base model is read, then save_pretrained writes file after file; the
\* child may fail in between.  It outlives a killed launcher.
PrepareStep(l) ==
    /\ \/ /\ prep[l] = "loading"
          /\ prep' = [prep EXCEPT ![l] = "writing"]
          /\ prepared' = "partial"
          /\ UNCHANGED lpc
       \/ /\ prep[l] = "writing"
          /\ prep' = [prep EXCEPT ![l] = "gone"]
          /\ prepared' = "ready"
          /\ lpc' = [lpc EXCEPT ![l] = IF @ = "preparing" THEN "baseline" ELSE @]
       \/ /\ prep[l] \in {"loading", "writing"}
          /\ prep' = [prep EXCEPT ![l] = "gone"]
          /\ lpc' = [lpc EXCEPT ![l] = IF @ = "preparing" THEN "died" ELSE @]
          /\ UNCHANGED prepared
    /\ UNCHANGED <<runDir, resumeSh, stepDir, index, stopFile, suspendFile,
                   viaResume, request, existed, locked, plan, stopReq, status,
                   runner, exitCode, driverVars, trainerVars>>

\* The autoregressive baseline: measured, reused or skipped, or it fails.
Baseline(l) ==
    /\ lpc[l] = "baseline"
    /\ \/ Dies(l)
       \/ /\ Goto(l, "stopcheck2")
          /\ UNCHANGED <<files, viaResume, request, existed, locked, plan,
                         stopReq, status, childVars, driverVars, trainerVars>>

\* Last look at STOP_REQUESTED before the trainer.
StopCheck2(l) ==
    /\ lpc[l] = "stopcheck2"
    /\ Goto(l, IF stopReq[l] THEN "cancelled" ELSE "clear")
    /\ UNCHANGED <<files, viaResume, request, existed, locked, plan, stopReq,
                   status, childVars, driverVars, trainerVars>>

\* rm -f .stop_after_step: a request left by an earlier session is dropped.
ClearStop(l) ==
    /\ lpc[l] = "clear"
    /\ stopFile' = FALSE
    /\ Goto(l, "spawn")
    /\ UNCHANGED <<runDir, resumeSh, prepared, stepDir, index, suspendFile,
                   viaResume, request, existed, locked, plan, stopReq, status,
                   childVars, driverVars, trainerVars>>

-----------------------------------------------------------------------------
(* The launcher from setsid run_logged.py to its report.                   *)

Spawn(l) ==
    /\ lpc[l] = "spawn"
    /\ runner' = [runner EXCEPT ![l] = "alive"]
    /\ dpc' = [dpc EXCEPT ![l] = "boot"]
    /\ Goto(l, "pid")
    /\ UNCHANGED <<files, viaResume, request, existed, locked, plan, stopReq,
                   status, prep, exitCode, stopFlag, written, trainerVars>>

\* TRAIN_PID=$!: from here on the handler writes .stop_after_step itself.
RecordPid(l) ==
    /\ lpc[l] = "pid"
    /\ Goto(l, "publish")
    /\ UNCHANGED <<files, viaResume, request, existed, locked, plan, stopReq,
                   status, childVars, driverVars, trainerVars>>

\* Mutant: a stop without TRAIN_PID is never published.
PublishNothing(l) ==
    /\ lpc[l] = "publish"
    /\ Goto(l, "wait")
    /\ UNCHANGED <<files, viaResume, request, existed, locked, plan, stopReq,
                   status, childVars, driverVars, trainerVars>>

\* A stop that came while there was no TRAIN_PID is published now.
PublishStop(l) ==
    /\ lpc[l] = "publish"
    /\ stopFile' = (stopFile \/ stopReq[l])
    /\ Goto(l, "wait")
    /\ UNCHANGED <<runDir, resumeSh, prepared, stepDir, index, suspendFile,
                   viaResume, request, existed, locked, plan, stopReq, status,
                   childVars, driverVars, trainerVars>>

\* wait returns with the status of run_logged.py once it is gone.
WaitReturns(l) ==
    /\ lpc[l] = "wait" /\ runner[l] = "gone"
    /\ status' = [status EXCEPT ![l] = exitCode[l]]
    /\ Goto(l, "check")
    /\ UNCHANGED <<files, viaResume, request, existed, locked, plan, stopReq,
                   childVars, driverVars, trainerVars>>

\* Mutant: an interrupted wait ends the loop.
CheckNothing(l) ==
    /\ lpc[l] = "check"
    /\ Goto(l, "cleanup")
    /\ UNCHANGED <<files, viaResume, request, existed, locked, plan, stopReq,
                   status, childVars, driverVars, trainerVars>>

\* kill -0: wait again as long as the process exists.
CheckAlive(l) ==
    /\ lpc[l] = "check"
    /\ Goto(l, IF runner[l] = "alive" THEN "wait" ELSE "cleanup")
    /\ UNCHANGED <<files, viaResume, request, existed, locked, plan, stopReq,
                   status, childVars, driverVars, trainerVars>>

\* Mutant: both markers are removed.
CleanupBoth(l) ==
    /\ lpc[l] = "cleanup"
    /\ stopFile' = FALSE /\ suspendFile' = FALSE
    /\ Goto(l, "report")
    /\ UNCHANGED <<runDir, resumeSh, prepared, stepDir, index, viaResume,
                   request, existed, locked, plan, stopReq, status, childVars,
                   driverVars, trainerVars>>

\* trap - INT TERM; rm -f .stop_after_step
Cleanup(l) ==
    /\ lpc[l] = "cleanup"
    /\ stopFile' = FALSE
    /\ Goto(l, "report")
    /\ UNCHANGED <<runDir, resumeSh, prepared, stepDir, index, suspendFile,
                   viaResume, request, existed, locked, plan, stopReq, status,
                   childVars, driverVars, trainerVars>>

\* A non-zero status is a failure; else .suspend_requested tells the result.
Result(l) ==
    IF status[l] # 0 THEN "failed"
    ELSE IF suspendFile THEN "suspended" ELSE "complete"

Report(l) ==
    /\ lpc[l] = "report"
    /\ Goto(l, Result(l))
    /\ UNCHANGED <<files, viaResume, request, existed, locked, plan, stopReq,
                   status, childVars, driverVars, trainerVars>>

LauncherStep(l) ==
    \/ MakeRunDir(l) \/ TakeLock(l) \/ Preflight(l) \/ WriteResumeConfig(l)
    \/ StopCheck1(l) \/ StartPrepare(l) \/ Baseline(l) \/ StopCheck2(l)
    \/ ClearStop(l) \/ Spawn(l) \/ RecordPid(l) \/ PublishStop(l)
    \/ WaitReturns(l) \/ CheckAlive(l) \/ Cleanup(l) \/ Report(l)

-----------------------------------------------------------------------------
(* run_logged.py and the driver.                                           *)

\* run_logged.py reads the trainer's output to its end, and passes on its code.
RunnerExits(l) ==
    /\ runner[l] = "alive" /\ dpc[l] = "exited"
    /\ runner' = [runner EXCEPT ![l] = "gone"]
    /\ UNCHANGED <<files, launcherVars, prep, exitCode, driverVars, trainerVars>>

\* The driver's process ends; only a live run_logged.py sees its code.
DriverEnds(l, code) ==
    /\ dpc' = [dpc EXCEPT ![l] = "exited"]
    /\ exitCode' = [exitCode EXCEPT ![l] = IF runner[l] = "alive" THEN code ELSE @]

\* A failure before fit: launch.py refuses the model directory, or ray.init or
\* the creation of the task raises.
DriverFails(l) ==
    /\ dpc[l] \in {"boot", "init", "start"}
    /\ DriverEnds(l, 1)
    /\ UNCHANGED <<files, launcherVars, prep, runner, stopFlag, written, trainerVars>>

\* launch.py train execs main_ppo, and run_ppo installs its handlers.  The
\* launcher's trainer.resume_mode override is not the quoted "auto" that the
\* already-finished shortcut of train looks for.
DriverBoots(l) ==
    /\ dpc[l] = "boot"
    /\ dpc' = [dpc EXCEPT ![l] = "init"]
    /\ UNCHANGED <<files, launcherVars, childVars, stopFlag, written, trainerVars>>

\* A .suspend_requested of an earlier session is removed; .stop_after_step is not.
DropStaleSuspend(l) ==
    /\ dpc[l] = "init"
    /\ suspendFile' = FALSE
    /\ dpc' = [dpc EXCEPT ![l] = "start"]
    /\ UNCHANGED <<runDir, resumeSh, prepared, stepDir, index, stopFile,
                   launcherVars, childVars, stopFlag, written, trainerVars>>

\* runner.run.remote(config): fit begins in a process of its own.
StartTask(l) ==
    /\ dpc[l] = "start"
    /\ tpc' = [tpc EXCEPT ![l] = "load"]
    /\ dpc' = [dpc EXCEPT ![l] = "first"]
    /\ UNCHANGED <<files, launcherVars, childVars, stopFlag, written, gstep,
                   savedNow, verdict, epochSteps>>

StopSeen(l) == stopFlag[l] \/ stopFile

\* The check made once, right after the task was started.
FirstCheck(l) ==
    /\ dpc[l] = "first"
    /\ suspendFile' = (suspendFile \/ StopSeen(l))
    /\ written' = [written EXCEPT ![l] = StopSeen(l)]
    /\ dpc' = [dpc EXCEPT ![l] = "poll"]
    /\ UNCHANGED <<runDir, resumeSh, prepared, stepDir, index, stopFile,
                   launcherVars, childVars, stopFlag, trainerVars>>

\* ray.wait with a one second timeout: the result, an exception, or neither.
PollTask(l) ==
    /\ dpc[l] = "poll"
    /\ \/ /\ tpc[l] = "returned"
          /\ dpc' = [dpc EXCEPT ![l] = "closing"]
          /\ UNCHANGED exitCode
       \/ /\ tpc[l] = "raised"
          /\ DriverEnds(l, 1)
       \/ /\ tpc[l] \in TrainerAlive
          /\ dpc' = [dpc EXCEPT ![l] = "polled"]
          /\ UNCHANGED exitCode
    /\ UNCHANGED <<files, launcherVars, prep, runner, stopFlag, written, trainerVars>>

\* After a timeout: a stop seen for the first time becomes .suspend_requested.
PassOnStop(l) ==
    /\ dpc[l] = "polled"
    /\ LET passOn == StopSeen(l) /\ ~written[l] IN
       /\ suspendFile' = (suspendFile \/ passOn)
       /\ written' = [written EXCEPT ![l] = @ \/ passOn]
    /\ dpc' = [dpc EXCEPT ![l] = "poll"]
    /\ UNCHANGED <<runDir, resumeSh, prepared, stepDir, index, stopFile,
                   launcherVars, childVars, stopFlag, trainerVars>>

\* The handlers are restored and the driver's process ends.
DriverCloses(l) ==
    /\ dpc[l] = "closing"
    /\ DriverEnds(l, 0)
    /\ UNCHANGED <<files, launcherVars, prep, runner, stopFlag, written, trainerVars>>

DriverStep(l) ==
    \/ DriverFails(l) \/ DriverBoots(l) \/ DropStaleSuspend(l) \/ StartTask(l)
    \/ FirstCheck(l) \/ PollTask(l) \/ PassOnStop(l) \/ DriverCloses(l)

-----------------------------------------------------------------------------
(* fit, as far as the other processes can see it.                          *)

Bump(n) == IF n < StepCap THEN n + 1 ELSE StepCap

TGoto(l, where) == tpc' = [tpc EXCEPT ![l] = where]

Returns(l, why) ==
    /\ TGoto(l, "returned")
    /\ verdict' = [verdict EXCEPT ![l] = why]

\* Mutant: the index is read whatever the resume mode.
LoadIndex(l) ==
    /\ tpc[l] = "load"
    /\ gstep' = [gstep EXCEPT ![l] = index]
    /\ TGoto(l, "before")
    /\ UNCHANGED <<files, launcherVars, childVars, driverVars, savedNow, verdict,
                   epochSteps>>

\* resume_mode auto continues from the index; disable ignores it.
Load(l) ==
    /\ tpc[l] = "load"
    /\ gstep' = [gstep EXCEPT ![l] =
                    IF plan[l] = "resume" /\ index # NoIndex THEN index ELSE 0]
    /\ TGoto(l, "before")
    /\ UNCHANGED <<files, launcherVars, childVars, driverVars, savedNow, verdict,
                   epochSteps>>

\* _save_checkpoint followed by a return when then is "suspended", by the rest
\* of the step when then is "none".
StartSave(l, then) ==
    /\ TGoto(l, "save")
    /\ verdict' = [verdict EXCEPT ![l] = then]

\* Suspended before validation, already finished, or on to the validation.
BeforeValidation(l) ==
    /\ tpc[l] = "before"
    /\ \/ suspendFile /\ StartSave(l, "suspended")
       \/ ~suspendFile /\ gstep[l] >= LastStep /\ Returns(l, "complete")
       \/ /\ ~suspendFile /\ gstep[l] < LastStep
          /\ TGoto(l, "validated")
          /\ UNCHANGED verdict
    /\ UNCHANGED <<files, launcherVars, childVars, driverVars, gstep, savedNow,
                   epochSteps>>

\* After done steps: the next one, or fit returns without a save because
\* range(current_epoch, total_epochs) has nothing left.
NextStep(l, done) ==
    \/ done < epochSteps /\ TGoto(l, "step") /\ UNCHANGED verdict
    \/ done >= epochSteps /\ Returns(l, "exhausted")

\* Suspended before the first step, or into the loop, which may be empty.
BeforeTraining(l) ==
    /\ tpc[l] = "validated"
    /\ \/ suspendFile /\ StartSave(l, "suspended") /\ UNCHANGED gstep
       \/ /\ ~suspendFile
          /\ gstep' = [gstep EXCEPT ![l] = Bump(@)]
          /\ NextStep(l, gstep[l])
    /\ UNCHANGED <<files, launcherVars, childVars, driverVars, savedNow, epochSteps>>

\* Mutant: the last step is saved only when save_freq picks it.
TrainOneByFrequency(l) ==
    /\ tpc[l] = "step"
    /\ savedNow' = [savedNow EXCEPT ![l] = FALSE]
    /\ \/ StartSave(l, "none")
       \/ TGoto(l, "end") /\ UNCHANGED verdict
    /\ UNCHANGED <<files, launcherVars, childVars, driverVars, gstep, epochSteps>>

\* One step of training; the checkpoint is due on the last step and on any
\* other that save_freq picks.
TrainOne(l) ==
    /\ tpc[l] = "step"
    /\ savedNow' = [savedNow EXCEPT ![l] = FALSE]
    /\ \/ StartSave(l, "none")
       \/ gstep[l] < LastStep /\ TGoto(l, "end") /\ UNCHANGED verdict
    /\ UNCHANGED <<files, launcherVars, childVars, driverVars, gstep, epochSteps>>

\* global_step_N and its files, then the index.
SaveFiles(l) ==
    /\ tpc[l] = "save"
    /\ stepDir' = TRUE
    /\ TGoto(l, "saving")
    /\ UNCHANGED <<runDir, resumeSh, prepared, index, stopFile, suspendFile,
                   launcherVars, childVars, driverVars, gstep, savedNow, verdict,
                   epochSteps>>

SaveIndex(l) ==
    /\ tpc[l] = "saving"
    /\ index' = gstep[l]
    /\ savedNow' = [savedNow EXCEPT ![l] = TRUE]
    /\ TGoto(l, IF verdict[l] = "suspended" THEN "returned" ELSE "end")
    /\ UNCHANGED <<runDir, resumeSh, prepared, stepDir, stopFile, suspendFile,
                   launcherVars, childVars, driverVars, gstep, verdict, epochSteps>>

\* The suspend check at the end of a step, then the return after the last step,
\* the next step, or the end of the epochs.
StepEnd(l) ==
    /\ tpc[l] = "end"
    /\ \/ /\ suspendFile
          /\ IF savedNow[l] THEN Returns(l, "suspended") ELSE StartSave(l, "suspended")
          /\ UNCHANGED gstep
       \/ /\ ~suspendFile
          /\ gstep' = [gstep EXCEPT ![l] = Bump(@)]
          /\ IF gstep[l] >= LastStep THEN Returns(l, "complete") ELSE NextStep(l, gstep[l])
    /\ UNCHANGED <<files, launcherVars, childVars, driverVars, savedNow, epochSteps>>

\* An exception anywhere in fit (a worker lost, out of memory, disk full, a
\* prepared model that is not whole).
TrainerFails(l) ==
    /\ tpc[l] \in TrainerAlive
    /\ TGoto(l, "raised")
    /\ UNCHANGED <<files, launcherVars, childVars, driverVars, gstep, savedNow,
                   verdict, epochSteps>>

TrainerStep(l) ==
    \/ Load(l) \/ BeforeValidation(l) \/ BeforeTraining(l) \/ TrainOne(l)
    \/ SaveFiles(l) \/ SaveIndex(l) \/ StepEnd(l) \/ TrainerFails(l)

-----------------------------------------------------------------------------
(* Signals, kills and crashes.                                             *)

\* forward_graceful_stop writes the marker only while TRAIN_PID is set and
\* alive, and records the stop in any case.
HandlerTouches(l) == lpc[l] \in {"publish", "wait", "check"} /\ runner[l] = "alive"

\* A signal to the launcher.  Without the trap it dies.  Under the trap wait
\* returns at once with 128 + n; Ctrl-C also reaches the foreground child that
\* prepares the model, whose failure ends the script.
SignalLauncher(l, kind) ==
    /\ lpc[l] \in Running
    /\ \/ /\ lpc[l] \in Untrapped
          /\ Goto(l, "killed")
          /\ UNCHANGED <<stopReq, stopFile, status, prep>>
       \/ /\ lpc[l] \in Trapped
          /\ stopReq' = [stopReq EXCEPT ![l] = TRUE]
          /\ stopFile' = (stopFile \/ HandlerTouches(l))
          /\ \/ /\ lpc[l] = "preparing" /\ kind = "INT"
                /\ prep' = [prep EXCEPT ![l] = "gone"]
                /\ Goto(l, "died")
                /\ UNCHANGED status
             \/ /\ lpc[l] = "wait" /\ runner[l] = "alive"
                /\ status' = [status EXCEPT ![l] = IF kind = "INT" THEN 130 ELSE 143]
                /\ Goto(l, "check")
                /\ UNCHANGED prep
             \/ /\ ~(lpc[l] = "preparing" /\ kind = "INT")
                /\ ~(lpc[l] = "wait" /\ runner[l] = "alive")
                /\ UNCHANGED <<lpc, status, prep>>
    /\ UNCHANGED <<runDir, resumeSh, prepared, stepDir, index, suspendFile,
                   viaResume, request, existed, locked, plan, runner, exitCode,
                   driverVars, trainerVars>>

\* forward_signal: a signal to run_logged.py goes on to the driver, whose
\* handler counts it once it is installed and until it is restored.
SignalRunner(l) ==
    /\ "logger" \in Signals
    /\ runner[l] = "alive" /\ dpc[l] \in DriverAlive
    /\ IF dpc[l] \in {"boot", "closing"}
       THEN DriverEnds(l, 1) /\ UNCHANGED stopFlag
       ELSE /\ stopFlag' = [stopFlag EXCEPT ![l] = TRUE]
            /\ UNCHANGED <<dpc, exitCode>>
    /\ UNCHANGED <<files, launcherVars, prep, runner, written, trainerVars>>

\* SIGKILL on the launcher: its children go on.
KillLauncher(l) ==
    /\ "launcher" \in Kills /\ lpc[l] \in Running
    /\ Goto(l, "killed")
    /\ UNCHANGED <<files, viaResume, request, existed, locked, plan, stopReq,
                   status, childVars, driverVars, trainerVars>>

\* SIGKILL on run_logged.py: the driver and the trainer go on.
KillRunner(l) ==
    /\ "runner" \in Kills /\ runner[l] = "alive"
    /\ runner' = [runner EXCEPT ![l] = "gone"]
    /\ exitCode' = [exitCode EXCEPT ![l] = 137]
    /\ UNCHANGED <<files, launcherVars, prep, driverVars, trainerVars>>

\* Without run_logged.py the driver's output pipe has no reader.  A print of
\* the driver may raise, and Ray takes the trainer down with its driver.
OutputLost(l) ==
    /\ runner[l] = "gone" /\ dpc[l] \in DriverAlive
    /\ dpc' = [dpc EXCEPT ![l] = "dead"]
    /\ tpc' = [tpc EXCEPT ![l] = IF @ \in TrainerAlive THEN "dead" ELSE @]
    /\ UNCHANGED <<files, launcherVars, childVars, stopFlag, written, gstep,
                   savedNow, verdict, epochSteps>>

\* The host goes down: every process ends, the files stay.
HostCrash ==
    /\ "host" \in Kills
    /\ \E l \in Launchers : lpc[l] \in Running \/ runner[l] = "alive"
    /\ lpc' = [l \in Launchers |-> IF lpc[l] \in Running THEN "killed" ELSE lpc[l]]
    /\ prep' = [l \in Launchers |->
                   IF prep[l] \in {"loading", "writing"} THEN "gone" ELSE prep[l]]
    /\ runner' = [l \in Launchers |-> IF runner[l] = "alive" THEN "gone" ELSE runner[l]]
    /\ dpc' = [l \in Launchers |-> IF dpc[l] \in DriverAlive THEN "dead" ELSE dpc[l]]
    /\ tpc' = [l \in Launchers |-> IF tpc[l] \in TrainerAlive THEN "dead" ELSE tpc[l]]
    /\ UNCHANGED <<files, viaResume, request, existed, locked, plan, stopReq,
                   status, exitCode, stopFlag, written, gstep, savedNow, verdict,
                   epochSteps>>

-----------------------------------------------------------------------------
Next ==
    \/ HostCrash
    \/ \E l \in Launchers :
        \/ Invoke(l) \/ LauncherStep(l) \/ PrepareStep(l)
        \/ RunnerExits(l) \/ DriverStep(l) \/ TrainerStep(l)
        \/ \E kind \in Signals \ {"logger"} : SignalLauncher(l, kind)
        \/ SignalRunner(l) \/ KillLauncher(l) \/ KillRunner(l) \/ OutputLost(l)

Spec == Init /\ [][Next]_vars

\* Every process that was started is scheduled; nobody has to signal, kill or
\* invoke anything.
Fairness ==
    \A l \in Launchers :
        /\ WF_vars(LauncherStep(l)) /\ WF_vars(PrepareStep(l))
        /\ WF_vars(RunnerExits(l))
        /\ WF_vars(DriverStep(l)) /\ WF_vars(TrainerStep(l))

-----------------------------------------------------------------------------
(* What the processes promise each other.                                  *)

\* However invocations overlap and are signalled or killed, at most one trainer
\* works on the run directory, and only under the lock (flock, and the
\* descriptor that run_logged.py inherits).
OneTrainer ==
    \A l, m \in Launchers :
        tpc[l] \in TrainerAlive /\ tpc[m] \in TrainerAlive => l = m

\* A trainer that starts over never meets a checkpoint of an earlier training,
\* although RUN_DIR_EXISTED was read before the lock was taken: the action
\* selection and prepare's refusal together exclude it.
FreshStartsClean ==
    \A l \in Launchers :
        tpc[l] = "load" /\ plan[l] \in {"fresh", "reuse"} =>
            index = NoIndex /\ ~stepDir

\* A run that the launcher is about to report without a failure has its
\* progress on disk: the step it was suspended at, or the last one.  The one
\* exception is a configuration whose epochs hold fewer steps than
\* total_training_steps: fit then returns without a save, the driver exits with
\* 0, and the launcher reports the run complete with an older index.
ReportedWorkIsSaved ==
    \A l \in Launchers :
        lpc[l] = "report" /\ status[l] = 0 =>
            /\ verdict[l] = "suspended" => index = gstep[l]
            /\ verdict[l] = "complete" => index >= LastStep
            /\ verdict[l] = "exhausted" => epochSteps < LastStep
            /\ verdict[l] # "none"

\* However many signals arrive, a run that fit left because of a suspension is
\* not reported complete.
SuspendNeverComplete ==
    \A l \in Launchers : lpc[l] = "complete" => verdict[l] \in {"complete", "exhausted"}

\* .stop_after_step is never removed while a trainer that should see it works:
\* neither by its own launcher nor by a later one.
StopMarkerKept ==
    [][stopFile /\ ~stopFile' => \A l \in Launchers : tpc[l] \notin TrainerAlive]_vars

\* A stop requested at any moment, also in the windows around the start of the
\* trainer, ends the invocation, although the training would not end by itself.
StopHonoured ==
    \A l \in Launchers : stopReq[l] ~> lpc[l] \in Ended

\* "Ctrl-C or SIGTERM results in a checkpointed, cleanly exited run with a
\* working resume command": after a stop that the launcher
\* acknowledged, config/resume.sh is not refused.
ResumeCommandWorks ==
    (\E l \in Launchers : lpc[l] = "cancelled") /\ (\A l \in Launchers : ~Holds(l)) =>
        Decide("auto", TRUE, TRUE) # "die"

=============================================================================
