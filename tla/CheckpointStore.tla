--------------------------- MODULE CheckpointStore ---------------------------
(***************************************************************************)
(* The checkpoint directory of one run, the trainer that writes it and the *)
(* sessions that resume from it.                                           *)
(*                                                                         *)
(* RayPPOTrainer.fit loads the checkpoint that                             *)
(* latest_checkpointed_iteration.txt names, trains step by step, and calls *)
(* _save_checkpoint on its save frequency and when .suspend_requested      *)
(* exists.  A save is many file operations: room is made for it, every     *)
(* rank writes its shards into global_step_N/actor, rank 0 registers the   *)
(* directory with the retention list, data.pt is written, and the index is *)
(* truncated and rewritten.  The host may crash between any two of them,   *)
(* and the next session finds whatever is on disk.                         *)
(***************************************************************************)
EXTENDS Integers, Sequences, FiniteSets

CONSTANTS
    Ranks,          \* the FSDP ranks; each writes its own shard files
    Total,          \* trainer.total_training_steps
    SaveFreq,       \* trainer.save_freq; 0 stands for a disabled frequency
    Keep,           \* trainer.max_actor_ckpt_to_keep; 0 stands for None
    StepsPerEpoch,  \* len(train_dataloader)
    TotalEpochs,    \* trainer.total_epochs
    MaxSessions     \* bound on the number of times the run is launched

ASSUME ConstantsAssumption ==
    /\ Ranks # {} /\ IsFiniteSet(Ranks)
    /\ Total \in Nat \ {0}
    /\ SaveFreq \in Nat
    /\ Keep \in Nat
    /\ StepsPerEpoch \in Nat \ {0}
    /\ TotalEpochs \in Nat \ {0}
    /\ MaxSessions \in Nat

Steps == 0..Total

\* Contents of a shard file: the weights it holds (how many updates they have
\* seen and the session that made the last one), or no weights at all.
Weights == [step : Steps, session : 0..MaxSessions]
Absent == [step |-> -1, session |-> 0]
Torn == [step |-> -2, session |-> 0]
ShardContents == Weights \cup {Absent, Torn}

\* Contents of data.pt: how many batches of the epoch were handed out.
NoData == -1
TornData == -2
DataContents == (0..StepsPerEpoch) \cup {NoData, TornData}

\* Contents of the index file: a step, or no readable number.
NoIndex == -1
EmptyIndex == -2
IndexContents == Steps \cup {NoIndex, EmptyIndex}

VARIABLES
    \* On disk: survives a crash.
    folders,     \* the N for which global_step_N exists
    actorDirs,   \* the N for which global_step_N/actor exists
    shard,       \* shard[N][r]: rank r's files under global_step_N/actor
    dataFile,    \* dataFile[N]: global_step_N/data.pt
    index,       \* latest_checkpointed_iteration.txt
    suspend,     \* .suspend_requested exists
    \* In the trainer's memory: lost in a crash.
    pc,          \* where fit or _save_checkpoint is
    resumeMode,  \* trainer.resume_mode: "disable" or "auto"
    globalSteps, \* self.global_steps
    weights,     \* the model and optimizer state of the ranks
    epoch,       \* the loop's epoch
    cursor,      \* batches the dataloader has handed out in this epoch
    savedNow,    \* checkpoint_saved
    saveThen,    \* where fit continues after _save_checkpoint
    rankPc,      \* each rank's progress through save_checkpoint
    savedPaths,  \* previous_saved_paths, as step numbers
    \* About the history of the run; the code keeps none of these.
    session,     \* how many sessions were launched
    outcome,     \* how the last session ended
    committed,   \* the step of the last index write that completed
    rewriting,   \* the indexed checkpoint was reopened for writing since
    lateSteps    \* steps begun since .suspend_requested appeared

disk == <<folders, actorDirs, shard, dataFile, index>>
loop == <<resumeMode, globalSteps, weights, epoch, cursor, savedNow>>
history == <<session, outcome, committed, rewriting, lateSteps>>
vars == <<folders, actorDirs, shard, dataFile, index, suspend, pc, resumeMode,
          globalSteps, weights, epoch, cursor, savedNow, saveThen, rankPc,
          savedPaths, session, outcome, committed, rewriting, lateSteps>>

SavePhases == {"capacity", "mkdir", "shards", "register", "dataOpen",
               "dataClose", "indexOpen", "indexWrite"}
FitPhases == {"load", "beforeValidation", "beforeTraining", "fetch", "update",
              "stepEnd"}

TypeOK ==
    /\ folders \subseteq Steps /\ actorDirs \subseteq Steps
    /\ shard \in [Steps -> [Ranks -> ShardContents]]
    /\ dataFile \in [Steps -> DataContents]
    /\ index \in IndexContents
    /\ suspend \in BOOLEAN
    /\ pc \in {"down"} \cup SavePhases \cup FitPhases
    /\ resumeMode \in {"disable", "auto"}
    /\ globalSteps \in 0..(Total + 1)
    /\ weights \in Weights
    /\ epoch \in Nat
    /\ cursor \in 0..StepsPerEpoch
    /\ savedNow \in BOOLEAN
    /\ saveThen \in {"exit", "stepEnd"}
    /\ rankPc \in [Ranks -> {"idle", "open", "writing", "done"}]
    /\ savedPaths \in Seq(Steps)
    /\ session \in 0..MaxSessions
    /\ outcome \in {"none", "suspended", "complete", "exhausted", "failed",
                    "crashed"}
    /\ committed \in Steps \cup {NoIndex}
    /\ rewriting \in BOOLEAN
    /\ lateSteps \in Nat

Init ==
    /\ folders = {} /\ actorDirs = {}
    /\ shard = [n \in Steps |-> [r \in Ranks |-> Absent]]
    /\ dataFile = [n \in Steps |-> NoData]
    /\ index = NoIndex
    /\ suspend = FALSE
    /\ pc = "down"
    /\ resumeMode = "disable"
    /\ globalSteps = 0
    /\ weights = [step |-> 0, session |-> 0]
    /\ epoch = 0 /\ cursor = 0
    /\ savedNow = FALSE /\ saveThen = "exit"
    /\ rankPc = [r \in Ranks |-> "idle"]
    /\ savedPaths = <<>>
    /\ session = 0 /\ outcome = "none" /\ committed = NoIndex
    /\ rewriting = FALSE /\ lateSteps = 0

-----------------------------------------------------------------------------
(* Launching a session.                                                    *)

\* Mutant: an index that cannot be used counts as no index.
LauncherActionIgnoringBadIndex ==
    IF index \in actorDirs THEN "auto" ELSE "disable"

\* What the launcher (RUN_ACTION=auto) does with the directory it finds: an
\* index file means resume, and then it must hold a number and name a directory
\* with actor/; without an index a run may start over only if the trainer has
\* left no global_step_* folder.
LauncherAction ==
    CASE index \in actorDirs -> "auto"
      [] index = NoIndex /\ folders = {} -> "disable"
      [] OTHER -> "refuse"

\* scripts/train.sh without the launcher, with the configured resume_mode auto:
\* an unreadable index is refused; when the requested steps are done the
\* directory must exist, and train returns at once unless the last session was
\* asked to suspend.
TrainAction ==
    CASE index = NoIndex -> "auto"
      [] index \in Steps /\ index < Total -> "auto"
      [] index \in folders /\ index >= Total /\ suspend -> "auto"
      [] OTHER -> "refuse"

\* The entry point accepts the directory, the driver removes a stale
\* .suspend_requested, and the trainer process starts with an empty memory.
Launch(action) ==
    /\ pc = "down" /\ session < MaxSessions
    /\ action # "refuse"
    /\ pc' = "load"
    /\ resumeMode' = action
    /\ suspend' = FALSE
    /\ globalSteps' = 0
    /\ weights' = [step |-> 0, session |-> 0]
    /\ epoch' = 0 /\ cursor' = 0
    /\ savedNow' = FALSE /\ saveThen' = "exit"
    /\ rankPc' = [r \in Ranks |-> "idle"]
    /\ savedPaths' = <<>>
    /\ session' = session + 1
    /\ outcome' = "none" /\ lateSteps' = 0
    /\ UNCHANGED <<disk, committed, rewriting>>

\* The driver touches .suspend_requested at a moment of its own choosing.
RequestSuspend ==
    /\ pc # "down" /\ ~suspend
    /\ suspend' = TRUE
    /\ UNCHANGED <<disk, pc, loop, saveThen, rankPc, savedPaths, history>>

Exit(how) ==
    /\ pc' = "down"
    /\ outcome' = how

-----------------------------------------------------------------------------
(* _load_checkpoint                                                        *)

\* find_latest_ckpt_path: int() of the tracker, then the folder must exist.
FoundCheckpoint == index \in folders

AtEpochBoundary(n) == n % StepsPerEpoch = 0

\* Mutant: data.pt is restored at an epoch boundary too.
RestoredCursorAtBoundary(n) == IF dataFile[n] = NoData THEN 0 ELSE dataFile[n]

\* The dataloader position a session starts from when it loads step n.
RestoredCursor(n) ==
    IF AtEpochBoundary(n) \/ dataFile[n] = NoData THEN 0 ELSE dataFile[n]

\* torch.load reads every rank's shard and data.pt back.
Loadable(n) ==
    /\ \A r \in Ranks : shard[n][r] \in Weights
    /\ RestoredCursor(n) # TornData

\* resume_mode disable, no index, or an index naming no folder: from scratch.
LoadNothing ==
    /\ pc = "load"
    /\ resumeMode = "disable" \/ index \notin folders \cup {EmptyIndex}
    /\ pc' = "beforeValidation"
    /\ UNCHANGED <<disk, suspend, loop, saveThen, rankPc, savedPaths, history>>

\* Every rank loads its shard; the epoch is recomputed from the step.
LoadCheckpoint ==
    /\ pc = "load" /\ resumeMode = "auto"
    /\ FoundCheckpoint /\ Loadable(index)
    /\ \E r \in Ranks : weights' = shard[index][r]
    /\ globalSteps' = index
    /\ cursor' = RestoredCursor(index)
    /\ epoch' = index \div StepsPerEpoch
    /\ pc' = "beforeValidation"
    /\ UNCHANGED <<disk, suspend, resumeMode, savedNow, saveThen, rankPc,
                   savedPaths, history>>

\* int("") raises on an empty index; torch.load raises on a missing or
\* truncated file.
LoadFails ==
    /\ pc = "load" /\ resumeMode = "auto"
    /\ index = EmptyIndex \/ (FoundCheckpoint /\ ~Loadable(index))
    /\ Exit("failed")
    /\ UNCHANGED <<disk, suspend, loop, saveThen, rankPc, savedPaths, session,
                   committed, rewriting, lateSteps>>

-----------------------------------------------------------------------------
(* fit                                                                     *)

StartSave(then) ==
    /\ pc' = "capacity"
    /\ saveThen' = then

\* First look at .suspend_requested, then the already-finished case.
BeforeValidation ==
    /\ pc = "beforeValidation"
    /\ \/ /\ suspend
          /\ StartSave("exit")
          /\ UNCHANGED history
       \/ /\ ~suspend /\ globalSteps >= Total
          /\ Exit("complete")
          /\ UNCHANGED <<saveThen, session, committed, rewriting, lateSteps>>
       \/ /\ ~suspend /\ globalSteps < Total
          /\ pc' = "beforeTraining"
          /\ UNCHANGED <<saveThen, history>>
    /\ UNCHANGED <<disk, suspend, loop, rankPc, savedPaths>>

\* Second look, after the initial validation; then global_steps += 1.
BeforeTraining ==
    /\ pc = "beforeTraining"
    /\ \/ /\ suspend
          /\ StartSave("exit")
          /\ UNCHANGED globalSteps
       \/ /\ ~suspend
          /\ pc' = "fetch"
          /\ globalSteps' = globalSteps + 1
          /\ UNCHANGED saveThen
    /\ UNCHANGED <<disk, suspend, resumeMode, weights, epoch, cursor, savedNow,
                   rankPc, savedPaths, history>>

\* Mutant: checkpoint_saved is not reset for the new step.
FetchBatchKeepingFlag ==
    /\ pc = "fetch" /\ epoch < TotalEpochs /\ cursor < StepsPerEpoch
    /\ pc' = "update"
    /\ cursor' = cursor + 1
    /\ lateSteps' = lateSteps + (IF suspend THEN 1 ELSE 0)
    /\ UNCHANGED <<disk, suspend, resumeMode, globalSteps, weights, epoch,
                   savedNow, saveThen, rankPc, savedPaths, session, outcome,
                   committed, rewriting>>

\* The for loops: the next batch of this epoch, or the next epoch, or neither.
\* A session that loaded a step behind the last epoch has no epoch to begin.
FetchBatch ==
    /\ pc = "fetch" /\ epoch < TotalEpochs /\ cursor < StepsPerEpoch
    /\ pc' = "update"
    /\ cursor' = cursor + 1
    /\ savedNow' = FALSE
    /\ lateSteps' = lateSteps + (IF suspend THEN 1 ELSE 0)
    /\ UNCHANGED <<disk, suspend, resumeMode, globalSteps, weights, epoch,
                   saveThen, rankPc, savedPaths, session, outcome, committed,
                   rewriting>>

NextEpoch ==
    /\ pc = "fetch" /\ cursor = StepsPerEpoch /\ epoch + 1 < TotalEpochs
    /\ epoch' = epoch + 1 /\ cursor' = 0
    /\ UNCHANGED <<disk, suspend, pc, resumeMode, globalSteps, weights, savedNow,
                   saveThen, rankPc, savedPaths, history>>

\* fit returns behind its loops, without a save.
EpochsExhausted ==
    /\ pc = "fetch"
    /\ epoch >= TotalEpochs \/ (cursor = StepsPerEpoch /\ epoch + 1 >= TotalEpochs)
    /\ Exit("exhausted")
    /\ UNCHANGED <<disk, suspend, loop, saveThen, rankPc, savedPaths, session,
                   committed, rewriting, lateSteps>>

\* Mutant: off by one.
IsLastStepLate == globalSteps > Total

IsLastStep == globalSteps >= Total

\* Mutant: the last step is not special.
SaveDueByFrequency(esi) ==
    SaveFreq > 0 /\ (globalSteps % SaveFreq = 0 \/ esi)

SaveDue(esi) ==
    /\ SaveFreq > 0
    /\ IsLastStep \/ globalSteps % SaveFreq = 0 \/ esi

\* One optimizer pass over the batch, then the periodic checkpoint.  esi is
\* should_save_ckpt_esi: the capacity block is about to expire.
Update(esi) ==
    /\ pc = "update"
    /\ weights' = [step |-> weights.step + 1, session |-> session]
    /\ IF SaveDue(esi)
       THEN StartSave("stepEnd")
       ELSE pc' = "stepEnd" /\ UNCHANGED saveThen
    /\ UNCHANGED <<disk, suspend, resumeMode, globalSteps, epoch, cursor,
                   savedNow, rankPc, savedPaths, history>>

\* Mutant: a suspension waits for the next periodic checkpoint.
StepEndAfterPeriodicSave ==
    /\ pc = "stepEnd"
    /\ \/ /\ suspend /\ savedNow
          /\ Exit("suspended")
          /\ UNCHANGED globalSteps
       \/ /\ ~(suspend /\ savedNow) /\ IsLastStep
          /\ globalSteps' = globalSteps + 1
          /\ Exit("complete")
       \/ /\ ~(suspend /\ savedNow) /\ ~IsLastStep
          /\ globalSteps' = globalSteps + 1
          /\ pc' = "fetch"
          /\ UNCHANGED outcome
    /\ UNCHANGED <<disk, suspend, resumeMode, weights, epoch, cursor, savedNow,
                   saveThen, rankPc, savedPaths, session, committed, rewriting,
                   lateSteps>>

\* Last look at .suspend_requested in a step.
StepEnd ==
    /\ pc = "stepEnd"
    /\ \/ /\ suspend /\ ~savedNow
          /\ StartSave("exit")
          /\ UNCHANGED <<globalSteps, outcome>>
       \/ /\ suspend /\ savedNow
          /\ Exit("suspended")
          /\ UNCHANGED <<globalSteps, saveThen>>
       \/ /\ ~suspend /\ IsLastStep
          /\ globalSteps' = globalSteps + 1
          /\ Exit("complete")
          /\ UNCHANGED saveThen
       \/ /\ ~suspend /\ ~IsLastStep
          /\ globalSteps' = globalSteps + 1
          /\ pc' = "fetch"
          /\ UNCHANGED <<saveThen, outcome>>
    /\ UNCHANGED <<disk, suspend, resumeMode, weights, epoch, cursor, savedNow,
                   rankPc, savedPaths, session, committed, rewriting,
                   lateSteps>>

-----------------------------------------------------------------------------
(* _save_checkpoint and the checkpoint manager                             *)

\* remove_previous_save_local_path: rmtree of the oldest k tracked actor/
\* directories.  Their global_step_N folders and data.pt stay.
Oldest(k) == {savedPaths[i] : i \in 1..k}

Remove(k) ==
    /\ actorDirs' = actorDirs \ Oldest(k)
    /\ shard' = [n \in Steps |-> IF n \in Oldest(k)
                                 THEN [r \in Ranks |-> Absent]
                                 ELSE shard[n]]

Surplus(paths, keep) ==
    IF Len(paths) > keep THEN Len(paths) - keep ELSE 0

\* Mutants: room is made for one checkpoint too many, or not at all.
CapacityExcessTwo == IF Keep > 1 THEN Surplus(savedPaths, Keep - 2) ELSE 0
CapacityExcessNone == 0

\* How many directories ensure_checkpoint_capacity removes before a save.
CapacityExcess ==
    IF Keep > 1 THEN Surplus(savedPaths, Keep - 1) ELSE 0

EnsureCheckpointCapacity ==
    /\ pc = "capacity"
    /\ Remove(CapacityExcess)
    /\ savedPaths' = SubSeq(savedPaths, CapacityExcess + 1, Len(savedPaths))
    /\ pc' = "mkdir"
    /\ UNCHANGED <<folders, dataFile, index, suspend, loop, saveThen, rankPc,
                   history>>

\* local_mkdir_safe on every rank and the barrier behind it.
MakeActorDir ==
    /\ pc = "mkdir"
    /\ folders' = folders \cup {globalSteps}
    /\ actorDirs' = actorDirs \cup {globalSteps}
    /\ rankPc' = [r \in Ranks |-> "open"]
    /\ rewriting' = (rewriting \/ index = globalSteps)
    /\ pc' = "shards"
    /\ UNCHANGED <<shard, dataFile, index, suspend, loop, saveThen, savedPaths,
                   session, outcome, committed, lateSteps>>

\* A rank opens its model, optimizer and extra-state files for writing ...
OpenShard(r) ==
    /\ pc = "shards" /\ rankPc[r] = "open"
    /\ shard' = [shard EXCEPT ![globalSteps][r] = Torn]
    /\ rankPc' = [rankPc EXCEPT ![r] = "writing"]
    /\ UNCHANGED <<folders, actorDirs, dataFile, index, suspend, pc, loop,
                   saveThen, savedPaths, history>>

\* ... and closes the last of them, at a time of its own.
CloseShard(r) ==
    /\ pc = "shards" /\ rankPc[r] = "writing"
    /\ shard' = [shard EXCEPT ![globalSteps][r] = weights]
    /\ rankPc' = [rankPc EXCEPT ![r] = "done"]
    /\ UNCHANGED <<folders, actorDirs, dataFile, index, suspend, pc, loop,
                   saveThen, savedPaths, history>>

\* Mutant: no barrier; the first rank that is done goes on for all.
OneRankDumped ==
    /\ pc = "shards" /\ \E r \in Ranks : rankPc[r] = "done"
    /\ pc' = "register"
    /\ rankPc' = [r \in Ranks |-> "idle"]
    /\ UNCHANGED <<disk, suspend, loop, saveThen, savedPaths, history>>

\* The barrier behind the dumps (and behind the rank-0 HF export).
AllRanksDumped ==
    /\ pc = "shards" /\ \A r \in Ranks : rankPc[r] = "done"
    /\ pc' = "register"
    /\ rankPc' = [r \in Ranks |-> "idle"]
    /\ UNCHANGED <<disk, suspend, loop, saveThen, savedPaths, history>>

\* How many directories register_checkpoint removes after a save.
RegisterExcess ==
    IF Keep > 0 THEN Surplus(Append(savedPaths, globalSteps), Keep) ELSE 0

RegisterCheckpoint ==
    /\ pc = "register"
    /\ Remove(RegisterExcess)
    /\ savedPaths' = SubSeq(Append(savedPaths, globalSteps),
                            RegisterExcess + 1, Len(savedPaths) + 1)
    /\ pc' = "dataOpen"
    /\ UNCHANGED <<folders, dataFile, index, suspend, loop, saveThen, rankPc,
                   history>>

\* torch.save(dataloader_state_dict, data.pt): open, then write and close.
OpenData ==
    /\ pc = "dataOpen"
    /\ dataFile' = [dataFile EXCEPT ![globalSteps] = TornData]
    /\ pc' = "dataClose"
    /\ UNCHANGED <<folders, actorDirs, shard, index, suspend, loop, saveThen,
                   rankPc, savedPaths, history>>

CloseData ==
    /\ pc = "dataClose"
    /\ dataFile' = [dataFile EXCEPT ![globalSteps] = cursor]
    /\ pc' = "indexOpen"
    /\ UNCHANGED <<folders, actorDirs, shard, index, suspend, loop, saveThen,
                   rankPc, savedPaths, history>>

\* open(latest_checkpointed_iteration.txt, "w") truncates the index ...
TruncateIndex ==
    /\ pc = "indexOpen"
    /\ index' = EmptyIndex
    /\ pc' = "indexWrite"
    /\ UNCHANGED <<folders, actorDirs, shard, dataFile, suspend, loop, saveThen,
                   rankPc, savedPaths, history>>

\* ... and only then is the new step written; _save_checkpoint returns.
WriteIndex ==
    /\ pc = "indexWrite"
    /\ index' = globalSteps
    /\ committed' = globalSteps
    /\ rewriting' = FALSE
    /\ IF saveThen = "exit"
       THEN Exit("suspended") /\ UNCHANGED savedNow
       ELSE pc' = "stepEnd" /\ savedNow' = TRUE /\ UNCHANGED outcome
    /\ UNCHANGED <<folders, actorDirs, shard, dataFile, suspend, resumeMode,
                   globalSteps, weights, epoch, cursor, saveThen, rankPc,
                   savedPaths, session, lateSteps>>

\* The host goes down, or every process of the session is killed.
Crash ==
    /\ pc # "down"
    /\ Exit("crashed")
    /\ UNCHANGED <<disk, suspend, loop, saveThen, rankPc, savedPaths, session,
                   committed, rewriting, lateSteps>>

-----------------------------------------------------------------------------
Next ==
    \/ Launch(LauncherAction) \/ Launch(TrainAction)
    \/ RequestSuspend \/ Crash
    \/ LoadNothing \/ LoadCheckpoint \/ LoadFails
    \/ BeforeValidation \/ BeforeTraining
    \/ FetchBatch \/ NextEpoch \/ EpochsExhausted
    \/ \E esi \in BOOLEAN : Update(esi)
    \/ StepEnd
    \/ EnsureCheckpointCapacity \/ MakeActorDir
    \/ \E r \in Ranks : OpenShard(r) \/ CloseShard(r)
    \/ AllRanksDumped \/ RegisterCheckpoint
    \/ OpenData \/ CloseData \/ TruncateIndex \/ WriteIndex

Spec == Init /\ [][Next]_vars

-----------------------------------------------------------------------------
(* What the store promises.                                                *)

\* Every shard of step n holds the weights after exactly n updates, all of one
\* training lineage.
SavedExactly(n) ==
    \E s \in 0..MaxSessions :
        \A r \in Ranks : shard[n][r] = [step |-> n, session |-> s]

\* Whatever crash interrupted whatever save, a readable index names the step
\* committed last, and its directory, every rank's shard and its data.pt are
\* complete: unless a session that was suspended before its first step had
\* reopened that same checkpoint to save it again.
ResumePointIntact ==
    index \in Steps =>
        /\ index = committed
        /\ ~rewriting => /\ index \in actorDirs
                         /\ SavedExactly(index)
                         /\ dataFile[index] \in 0..StepsPerEpoch

\* Even while the indexed checkpoint is written again, its shards never mix
\* two trainings of the step: each is either unreadable or of one lineage, so
\* a load that succeeds on every rank loads one model.
ResumePointUniform ==
    index \in Steps =>
        \E s \in 0..MaxSessions : \A r \in Ranks :
            shard[index][r] \in {[step |-> index, session |-> s], Torn}

\* A training step consumes the batch that follows the one of the previous
\* step in epoch order, across crashes and resumes at any point of an epoch,
\* and starts from weights that have seen all earlier steps once.
BatchOrder ==
    pc = "update" =>
        /\ globalSteps = epoch * StepsPerEpoch + cursor
        /\ weights.step = globalSteps - 1

\* A session that reports a safe suspension has committed every update it made.
SuspendedIsSaved ==
    pc = "down" /\ outcome = "suspended" =>
        index = weights.step /\ committed = weights.step

\* A session that reports completion has made all updates and, unless saving
\* is disabled, committed the last one.
CompleteIsSaved ==
    pc = "down" /\ outcome = "complete" =>
        weights.step = Total /\ (SaveFreq > 0 => index = Total)

\* Once .suspend_requested is visible at most one more step begins: the one a
\* check just before it had let through.
PromptSuspend == lateSteps <= 1

\* With room for two or more checkpoints, a session never holds more of its
\* own actor directories than max_actor_ckpt_to_keep, even during a save.
RetentionInSession ==
    Keep > 1 =>
        Cardinality({n \in actorDirs : \E r \in Ranks :
                        shard[n][r].session = session /\ session > 0}) <= Keep

\* The files, sessions and crashes implement resumable training: the weights
\* of a session are always the durable ones plus its own updates.
Promise == INSTANCE ResumableTraining WITH
    durable <- IF committed = NoIndex THEN 0 ELSE committed,
    running <- pc \notin {"down", "load"},
    done <- IF pc \in {"down", "load"} THEN 0 ELSE weights.step

\* No session silently restarts, repeats or skips an update, and no commit is
\* ever taken back: every step of the store is a step of ResumableTraining.
ImplementsResumable == Promise!RTSpec

\* A session suspended before its first step prints that the "checkpoint remains
\* at step" N: what a finished session leaves indexed can be loaded.
CheckpointRemains == pc = "down" /\ index \in Steps => Loadable(index)

\* With max_ckpt_to_keep=1 "we keep the existing checkpoint until the new save
\* completes successfully": what the index names stays on disk.
IndexedKept == index \in Steps => index \in actorDirs

=============================================================================
