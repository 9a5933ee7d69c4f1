# TLA+ verification of GrowMTP training runs

GrowMTP trains a language model together with its multi-token-prediction (MTP)
head by reinforcement learning. A run takes days on rented GPUs, so most of the
repository's own logic that is hard to get right is about *interrupting* a run:
stopping it gracefully, surviving a crash, resuming from whatever is on disk, and
never letting two trainers loose on one run directory. The other hard part is the
training signal of the head: recorded by the inference server while it retracts and
re-prefills requests, shipped in slices, packed, and used in a training step in
which every rank must make the same collective calls. This directory models both,
checks them with TLC and proves their central statements with TLAPS.

All paths below are relative to `src/`.

## Inventory

| Component | State | Operations | Interacts with |
|---|---|---|---|
| **Launcher** `scripts/run_b200_growmtp_lora.sh` | `RUN_DIR` (`.run.lock`, `config/resume.sh`, `prepared_model/`, `checkpoints/`), shell variables `RUN_DIR_EXISTED`, `STOP_REQUESTED`, `TRAIN_PID`, `TRAIN_STATUS` | lock, choose fresh/reuse/resume, write the resume script, prepare, baseline, start, wait, report; signal trap | starts prepare and the logger; writes `.stop_after_step`; reads `.suspend_requested` |
| **Logger** `scripts/run_logged.py` | child process, forwarded signals | run the trainer command, copy its output, pass on its status | holds the lock descriptor it inherits; its child does not |
| **Entry points** `verl/verl/trainer/mtp/launch.py` | none of their own | `prepare` (refuses a non-empty directory), `train` (already-finished shortcut, then exec) | read the checkpoint index and the suspend marker |
| **Driver** `verl/verl/trainer/main_ppo.py` `run_ppo` | `stop_requested`, `suspend_request_written` | install handlers, drop a stale `.suspend_requested`, start the Ray task, poll it every second | turns `.stop_after_step` or a signal into `.suspend_requested` |
| **Training loop** `verl/verl/trainer/ppo/ray_trainer.py` `fit` | `global_steps`, epoch, dataloader position, `checkpoint_saved` | load, validate, step, periodic save, suspend checks | polls `.suspend_requested` at three places |
| **Checkpoint managers** `verl/verl/utils/checkpoint/{checkpoint_manager,fsdp_checkpoint_manager}.py` | `global_step_N/actor`, per-rank shard files, `previous_saved_paths` | make room, dump shards, register, load | ranks meet at barriers |
| **Verification-signal capture** `sglang/.../speculative/eagle_*.py`, `managers/scheduler_output_processor_mixin.py`, `managers/tokenizer_manager.py`, `verl/.../mtp/signals.py` | a request's `output_mtp_*` lists, `_target_hidden_for_signal_per_req`, three streaming offsets, the tokenizer manager's copies | record a prefill, record a verification, stream, accumulate, pack | scheduler, tokenizer manager, agent loop |
| **Request scheduling** `sglang/.../managers/{scheduler,schedule_batch,schedule_policy}.py` | waiting queue, running batch and its order, the chunked request, retraction counts | prefill, decode, retract, abort | decides what is recorded and when |
| **Draft refresh and probe** `verl/.../mtp/{refresh,probe,engine}.py`, `workers/engine_workers.py`, `workers/engine/fsdp/transformer_impl.py` | probe cases, policy-shift snapshot and its cache file, deferred head update, gradients, learning rate | capture, train, score, select, one head step | collectives between ranks |
| Losses, metrics, rewards, data preparation, comparison scripts, wrappers, vendored SGLang/verl/DeepSpec/SpecForge | - | - | - |

What is hard: files and processes outlive each other in every combination; a save
is a dozen file operations on several ranks; signals arrive in every window of
the launcher; three processes pass a stop request on by polling; retention
deletes directories that something may still name; a request can be retracted
between any two verifications and its history is put together from three kinds of
records; ranks decide from their own data how many collectives they enter. What
makes each part correct:

- *launcher, logger, driver*: one trainer per directory; a fresh start never meets
  an old checkpoint; a stop is neither lost nor ignored; the report agrees with
  what the trainer did;
- *loop and store*: a readable index names a whole checkpoint; no update or batch
  is lost, repeated or mixed between sessions; what is reported saved is saved;
- *signal capture*: the packed signals of a request cover its positions once and
  in order, hidden states with the tokens that follow them; nothing is lost, repeated
  or misaligned on the way; targets are what the verifier emitted;
- *draft refresh*: every gradient is applied exactly once and at its own learning
  rate, the teachers replaced are those of the most valuable trajectories, and all
  ranks make the same collective calls.

`PROJECT.json` lists the hazards line by line.

## Modules

### CheckpointStore
The checkpoint directory, the loop that writes it and the sessions that resume.

- On disk: `folders` (`global_step_N`), `actorDirs` (`global_step_N/actor`),
  `shard[N][r]` (rank r's model, optimizer and extra-state files taken together),
  `dataFile[N]` (`data.pt`), `index` (`latest_checkpointed_iteration.txt`),
  `suspend` (`.suspend_requested`). A file that is open for writing is `Torn`.
- In memory: `globalSteps`, `epoch`, `cursor` (batches handed out), `weights` (how
  many updates they saw and in which session the last was made), `savedNow`
  (`checkpoint_saved`), `savedPaths` (`previous_saved_paths`).
- `Launch(LauncherAction)` and `Launch(TrainAction)` start a session through the
  launcher or through `train.sh`; each accepts or refuses the directory by its own
  rules. `LoadNothing`, `LoadCheckpoint`, `LoadFails` are `_load_checkpoint`;
  `BeforeValidation` ... `StepEnd` are the control points of `fit`;
  `EnsureCheckpointCapacity` ... `WriteIndex` are `_save_checkpoint`, one action per
  file operation that a crash can separate from the next; ranks dump their shards
  independently (`OpenShard`, `CloseShard`) between two barriers.
- `FetchBatch` needs an epoch below `TotalEpochs`, as `range(current_epoch, total_epochs)`
  does: a session that resumes where no epoch is left trains nothing. `EpochsExhausted` is
  `fit`'s return when the range is used up or empty, without a save.
- `Crash` ends a session between any two actions and keeps only the disk.
- `session`, `outcome`, `committed`, `rewriting`, `lateSteps` record history for the
  properties; no guard of the code's actions reads them except `session`, which
  bounds the number of launches.

### ResumableTraining
The abstract promise: a counter of updates with a durable prefix. A session starts
from exactly the durable prefix, adds one update at a time, may persist, and loses
the rest when it stops. `CheckpointStore!ImplementsResumable` is the refinement.

### RunLifecycle
One run directory and any number of invocations, each with a launcher (`lpc`), a
prepare child, a logger (`runner`), a driver (`dpc`) and a trainer (`tpc`).
Each command of the script that touches shared state is one action, in the
script's order. `Holds` says who keeps the flock: the script, and the children that
inherit the descriptor, which the trainer does not (`Popen` closes it).
`SignalLauncher` is the trap (or death, where no trap is installed), `SignalRunner`
the forwarding in `run_logged.py`; `KillLauncher`, `KillRunner` and `HostCrash` are
enabled by the constant `Kills`. When only the logger is killed the driver goes on
until a print finds its pipe closed (`OutputLost`). `fit` appears with the detail
other processes can see; CheckpointStore has the rest. `epochSteps` is the number of steps
that `total_epochs` passes over the data hold; it is one of `EpochSteps` and never changes.
When it is below `LastStep`, `fit` leaves by `NextStep`'s second way out (verdict
"exhausted"): no save, exit code 0, and the launcher prints that the run is complete.

### SignalCapture, SignalPacking, SignalPipeline
The way of the verification signals, from the forward pass to the training batch.

- SignalCapture is the server. `status`, `place`, `out`, `done`, `retracted` are what
  the scheduler knows of a request (`place` is its index in `running_batch.reqs`,
  from whose back requests are retracted); `sig` are the `output_mtp_*` lists, `seed`
  the saved hidden state, `sent` the offsets; `chan` and `abortReq` are what is under way to
  the tokenizer manager; `rid_to_state`, `received`, `finished` and `reply` are its request
  states (`state.mtp_*`, `state.finished`, the last entry of `state.out_list`); `outcome` is
  what the caller was given; `failed` says that a check raised.
- `Prefill` is one extend of a request (with `Chunking`, of a chunk) up to
  `process_batch_result_prefill`: it records (`RecordPrefill`), samples, may finish and
  streams. `Decode` is one iteration of the decode batch: retraction of requests behind
  some place, verification of the others (`RecordVerify`: accepted length before, blocks
  after the cut at EOS), `stream_output`, removal of the finished. `OutOfMemory` and
  `AbortWaiting` are the two aborts that are answered with an AbortReq, which has a socket
  of its own (also with `skip_tokenizer_init`, where both end in the tokenizer manager), so
  nothing orders it with outputs sent before. `Receive` and `ReceiveAbort` are the tokenizer
  manager's handlers: both set `state.finished`, and an abort does not delete the state, so
  a late output is still accumulated and clears the flag. `Wake` is the waiting coroutine
  in `_wait_one_response`, which runs when the event loop gets to it, possibly after several
  handlers: it takes the last output and returns it if `state.finished` holds *then*.
- When memory is short, which request is chosen, how a budget splits a prompt, how many
  drafts are accepted and where a response ends are choices of the environment.
- SignalPacking is `pack_signals` as operators: every check (`...Raises`), the prefix it
  assembles and the targets of the auxiliary cross-entropy.
- SignalPipeline composes the two and states the properties.

Data: a token is its index in prompt plus response; a hidden state is its position
and the number of response tokens known to the forward pass that computed it, because
the packer compares tensors bit by bit and two passes differ.

### DraftRefresh
One `train_mini_batch` on every data-parallel rank. A rank's program is a sequence of
stages (`pc`); on entering one it works out from what *it* knows which collectives it
will enter (`todo`), and a collective completes when it is the next one of every rank,
as NCCL matches them. So a rank that counts differently is not wrong by construction:
it waits in another operation and `CollectivesAgree` or `NobodyLeftWaiting` fails.
Rows are trajectories with cycles, advantage and divergence; gradients are the sets of
rows that contributed; `headLog` and `policyLog` are what the optimizer applied, with
the rate. The cache file of old distributions, read back by rank 0, is a sequence with
a position. A head step can be deferred, an optimizer step skipped for a non-finite
norm, and a non-finite distribution raises on every rank.
Sorted lists are given by the place of each element (`InOrder`) and cycles are counted
as the cardinality of a set (`CyclesOf`), so that the proofs can reason about both for
any number of rows.

### MCCheckpointStore, MCRunLifecycle, MCSignalPipeline, MCDraftRefresh
Symmetry sets, `LeftBehindInit` (the directories a killed session may leave), the
bound `RetractAssumption`, and the kinds of rows.

### The eight proof modules
`CheckpointStore_proofs`, extended by `CheckpointSession_proofs`, extended by
`CheckpointRetention_proofs`; `RunLifecycle_proofs`, extended by `RunReport_proofs`;
`SignalCapture_proofs`, extended by `SignalStream_proofs`; `DraftRefresh_proofs`. See "Proofs".

Definitions commented "Mutant" are wrong variants of the definition that follows
them (a dropped guard, a missing reset, an off-by-one). No specification uses them;
put in the place of the original, each makes TLC find the property violated that
`PROJECT.json` pairs it with.

## Runs

| Run | Instance | Shows |
|---|---|---|
| `store` | 2 ranks, 4 steps, epochs of 2, save every 3, keep 2, 3 sessions (754k states) | the eight invariants of the store |
| `refinement` | 5 steps but only 2 epochs of 2, 3 sessions (765k states); the third may resume at a step where no epoch is left | `ImplementsResumable` |
| `lifecycle` | 2 invocations, 2 steps, epochs that hold 1 or 2 of them, SIGTERM, launcher kills and host crashes (2.65M states) | mutual exclusion, clean fresh starts, truthful reports, marker kept |
| `stop` | 1 invocation on every left-behind directory, all signals, launcher and logger kills, training that never ends by itself (137k states) | `StopHonoured` (liveness) |
| `signals` | 2 requests, prompts of 2, up to 5 response tokens, 2 drafts per cycle, 2 retractions each, an output every 3 tokens (145k states) | no check raises, records complete, packed prefix and targets right, streams aligned, `EveryRequestAnswered` (liveness) |
| `refresh` | 2 ranks with 2 rows of 5 kinds, 2 mini-batches, plain, probe and refresh steps (297k states) | collectives agree, gradients once, rates, selection, `NobodyLeftWaiting` (liveness) |
| `resave`, `keep_one`, `resume_command`, `orphan`, `chunked_prefill`, `late_output` | smallest instance with the case | a statement of the repository that the code does not meet |

Bounds. Two ranks are the least that can disagree; no action relates three. Steps
and save frequency are chosen so that there are steps inside an epoch, at its
boundary, saved, unsaved and last, and so that the retention list overflows
(the expiration check may force a save at any step, so `Keep` + 1 saves happen). Three sessions allow a crash, a resume that crashes again and a
third that finds the result. `TotalEpochs` larger (`store`) and smaller (`refinement`) than needed covers both
ways out of the loop, and `EpochSteps = {1, 2}` with two steps does so for the report. `StepCap` is the step beyond which RunLifecycle does not
tell steps apart; in `stop` it is below `LastStep`, so the loop can only end because
of the stop. Two invocations are the least that overlap; sequences of more are
covered by proof (`LockExcludes`) and by `LeftBehindInit`.
Deadlock is not checked there: a run that is over, or out of sessions, may stop.

Signals: two requests are the least of which one is retracted while the other is
verified; five tokens allow two retractions with a verification before, between and
after them, and outputs in several slices. `MaxRetract < ForceInterval` is an
assumption of the run, not of the code: a request retracted fifty times before its first
verification would have its outdated prompt streamed, and the tokenizer manager keeps
the first one. Requests prefilled together are prefilled one after the other. Deadlock is
checked. Refresh: two ranks with two rows in two mini-batches give ranks with no record,
with records in one mini-batch only and with different numbers of forwards; a micro-batch
is one row, and there is one epoch. Priorities are equal, so that the ties decide; the
fraction is 1/2, and its product with the number of records is exact (the code's is a
float). Deadlock is not checked because the call returns; a rank left waiting violates
`NobodyLeftWaiting`.

Fairness. `signals` assumes that the event loop goes on (a decode or a prefill happens when
one is possible, and memory freed by finished requests lets the waiting ones in) and
that the tokenizer manager's event loop keeps reading and runs every coroutine it has woken. `refresh` assumes that every rank runs and that
a collective which all ranks have entered completes. `stop` assumes weak fairness of each process's own steps: the operating
system schedules the launcher, prepare, logger, driver and trainer. For the trainer
this includes that a step ends (generation and collectives do not hang): the code
has no timeout for it, and neither the launcher nor the driver enforces one. Signals,
kills and new invocations are never forced.

### What the violation runs show

1. `resave`: `fit` checks `.suspend_requested` right after loading and then calls
   `_save_checkpoint`, which rewrites the files it was just loaded from. A crash
   there loses the indexed checkpoint. The message "checkpoint remains" is printed after
   the save has returned, so it is true when it is read; what fails is that the checkpoint
   remains throughout, in a session that had nothing to save.
2. `keep_one`: with `max_actor_ckpt_to_keep=1` the indexed directory is removed
   before the index names the new one. This is why the theorem below assumes
   `Keep # 1`.
3. `resume_command`: a stop during preflight leaves a `resume.sh` that the launcher
   refuses ("Run directory already exists").
4. `orphan`: killing only `run_logged.py` frees the lock under a working trainer.
5. `chunked_prefill`: each chunk of a prompt overwrites the recorded prompt. Chunking is
   on in the training configuration, with a budget that the requests of a batch
   share, so a prompt shorter than the budget can be split too. Nothing is trained on
   wrong data: the packer refuses the record and the step fails.
6. `late_output`: a request that was retracted waits in the queue again while outputs it
   sent before may be under way. Aborted there, it gets an AbortReq, whose handler sets
   `state.finished` and leaves the state in `rid_to_state` (the note in
   `tokenizer_manager.py` says that it is deleted there). If a late output is handled
   before the waiting coroutine runs, the flag is cleared, the coroutine takes the abort for
   an intermediate output and waits for ever: `AbortAnswered` fails, under the same
   fairness as `signals`. `EveryRequestAnswered` therefore excepts exactly this case
   (`Overtaken`: the AbortReq has been handled and outputs of the request are still on
   their way) and shows that nothing else leaves a caller without an answer.

A request retracted before its first verification records its prompt again, one token
longer, although `schedule_batch.py` says "set once at prefill". The distillation records
stay consistent (`PackComplete`); with the auxiliary cross-entropy the packer refuses them,
which is why `TargetsMatchEmitted` is about requests whose prompt was not replaced
(`PromptDiffers`).

Two more things the store and lifecycle models contain that no property forbids: an index
left empty by a crash between truncation and write is refused by launcher and trainer
(nothing is lost silently, which `ImplementsResumable` shows, but the file needs a manual
repair), and the retention list is per session, so resumed runs keep more checkpoints
than the limit.

## Proofs

Constants are arbitrary within the modules' assumptions (finite non-empty `Ranks`,
positive `Total`, `StepsPerEpoch`, `TotalEpochs`; any `SaveFreq`, `Keep`,
`MaxSessions`; any non-empty `Launchers` and `EpochSteps`, any `LastStep`; finite `Reqs`, positive lengths and depth, any
number of retractions, chunking on or off; any number of data-parallel ranks, of rows and
of mini-batches that divide them, any kinds of rows and any refresh fraction up to one).
Hypotheses are added where they are needed and nowhere else:
- `Keep # 1` for the two theorems on the resume point. With one checkpoint, retention
  removes the indexed one before the next is complete; the run `keep_one` shows it.
- `"runner" \notin Kills`, `run_logged.py` is not killed by SIGKILL, for the theorems on
  the lock and the reports. The lock dies with the logger while its trainer lives on; the
  run `orphan` shows it.
- `~Chunking` and `MaxRetract < ForceInterval` for the theorem on the packer: the prefill of a
  prompt is one extend, and a request is retracted fewer times than the stream interval
  (50 in the code) is long, so no prompt has been sent that a later extend replaces. The
  run `chunked_prefill` shows that the first cannot be dropped; without the second a stale
  prompt would be streamed and kept (see "Bounds").

`CheckpointStore_proofs`
- `TypeCorrect`: `Spec => []TypeOK`. TypeOK is not inductive: that `weights.step` and
  `globalSteps` stay in range needs that they agree at each control point
  (`StepsAgree`) and that shards of step n hold n updates (`ShardsMatch`).
- `ResumePointSafe`: if `Keep # 1`, `Spec => []ResumePointIntact`. The inductive
  invariant adds `SaveProgress` (how far the present save has come: which files of the
  step being saved are complete at which phase, and that this step is not the indexed
  one unless `rewriting` says so) and `PathsOrdered` (the retention list is strictly
  increasing, and the indexed step, if tracked, is its last entry). The argument:
  a save touches only files of its own step; retention removes from the front of
  the list and, with room for two, never reaches the last entry; the index is
  written when everything of the step is complete. With `Keep = 1` the middle part
  fails, as `keep_one` shows.

`CheckpointSession_proofs`, for any `Keep`
- `SuspensionSafe` and `CompletionSafe` (`[]SuspendedIsSaved`, `[]CompleteIsSaved`). Added
  to the above: `IndexKnown` (the index is the committed step and names an existing folder
  whose data.pt was opened; no index, nothing committed) and `SavedFlag` (at each control
  point `checkpoint_saved` is true of the step just trained). `fit` relies on that flag
  where it leaves without saving again.
- `SuspensionPrompt` (`[]PromptSuspend`): a late step can begin only between the check
  and the step, where none was late before (`Prompt`).
- `BatchesInOrder` (`[]BatchOrder`): `Position` says that the step count is the epoch's
  first step plus the dataloader's cursor and that a saved data.pt records the
  position of its own step, so a resume re-establishes it.
- `StoreRefines` (`Spec => ImplementsResumable`): every action is a step of
  ResumableTraining or a stutter. `SessionInv` supplies what a mapping of the state
  alone does not give: a session that loads has the committed weights, and a commit
  stores those of the running session.

`CheckpointRetention_proofs`
- `ResumePointOneTraining` (if `Keep # 1`, `[]ResumePointUniform`): `Lineage` says that a
  session is never behind the index, and that at the indexed step its weights are the
  ones in the shards or the shards are torn; so a session that saves that step again
  writes what was there.
- `RetentionSafe` (`[]RetentionInSession`): the session's own directories are the tracked
  ones and the one being written, and room is made before it is opened (`Retained`).

`RunLifecycle_proofs`
- `TypeCorrect`: `Spec => []TypeOK`.
- `LockExcludes`: if `run_logged.py` is not killed, `Spec => []OneTrainer`. `LockInv`
  ties each process to the lock: a script past `flock` has it, a live logger has it,
  a live driver has a live logger, a live trainer has a driver at its poll loop, and
  two holders are equal. Only `TakeLock` makes a holder and only when there is none.
- `StopMarkerSafe`: under the same condition `Spec => StopMarkerKept`, from `LockInv`:
  who removes the marker holds the lock and has no live logger.

`RunReport_proofs`, on top of `LockInv`
- `FreshStartSafe` (`[]FreshStartsClean`): `CleanInv` follows the decision to start over
  from the action selection, which reads the run directory before the lock is taken, to
  `prepare`, which refuses what another invocation left in between.
- `ReportSafe` (`[]ReportedWorkIsSaved`) and `SuspensionReported`
  (`[]SuspendNeverComplete`): `CodesInv` and `SavedInv` follow an exit code from the
  trainer through driver and logger to the launcher, with what was on disk when it was
  produced; until the report no other trainer can change it, because of the lock. The
  statement names its one exception: if `fit` ran out of epochs, these hold fewer steps than
  `LastStep`. That needs `SavedInv`'s clause that a session past the already-finished check
  is before the last step.

`SignalCapture_proofs`
- `TypeCorrect`, `CaptureSafe` (`Spec => []CaptureNeverRaises`) and `RecordingComplete`
  (`Spec => []RecordedIsCommitted`), from one inductive invariant. `CaptureNeverRaises` is
  not inductive: that the next verification finds complete histories needs that the lists of
  a request have equal lengths and that its last cycle emitted a token (`Aligned`), and that
  messages under way are aligned at both ends (`chan` holds only `Messages`). That a re-prefill
  continues the history needs `Placed`: a request that is running or waiting has room for
  a token, a running one has KV entries for all but its last token, and the next position
  to record is the last token's. The argument: a verification moves that position by what
  it emits, a full re-prefill by the one token it samples, a chunk by nothing (its
  positions are recorded already), and a retraction leaves the lists alone. No assumption
  on the number of retractions or on chunking is needed.

`SignalStream_proofs`
- `StreamSafe` (`[]StreamIsPrefix`): the messages of a request in `chan` form a chain of
  offsets from what was received to what was sent (`Linked`), and each carries that part
  of the scheduler's lists, which only grow (`Prefix`). A final message closes the
  chain, which gives equality at the hand-over.
- `TargetsSafe` (`[]TargetsMatchEmitted`): each recorded block holds the tokens after its
  position and lies within the response (`Told`); one that is shorter than `accept_len` was
  cut at the end of a finished response (`Whole`, `Emitted`). So where the packer stops at
  the end of the response, no emitted depth is left.
- `PackSafe` (with the two hypotheses above, `[]PackComplete`): what is handed over is packed
  without an error. Two halves meet in the notion of a `Record`: the prompt
  reaches to the first cycle, each later cycle starts where the one before ended or at a
  position up to which re-prefills recorded everything in between, and its seed is the hidden
  state recorded there (`Joined`). `RecordPacks` shows
  that the packer accepts every record; its prefix is a recursive function of the cycle, and
  instead of an induction over cycles the proof takes the least cycle where a list would be
  wrong (`WFMin` on the naturals) and refutes it. `ResumeInv` says that the lists of every
  request are a record from which its next cycle can follow: verification (`VerifyRecords`),
  a first prefill (`PromptRecords`) and one after a retraction (`RefillRecords`) each keep
  that. `PromptInv` follows the prompt to the tokenizer manager, which keeps the first one
  sent; a forced output in the middle of a stream could carry one that is replaced later,
  which the second hypothesis excludes.

`DraftRefresh_proofs`
- `TypeCorrect` (`[]TypeOK`), with the lemmas that `InOrder` lists every element of a finite
  set once and in order.
- `HeadRateKept` (`[]HeadRate`).
- `CollectivesMatch` (`[]CollectivesAgree`), the main result here. Each rank works out its
  own list of collectives, so the invariant `SyncInv` compares paths: all ranks follow one
  common path of stages; ranks at the same place have the same list left; a rank that is
  ahead has passed only places without a collective and is still before its next; and what a rank knows of the
  others (gathered records and counts) is the same on all. Then two ranks that both
  wait are at the same place.
- `PolicyAppliedOnce` and `HeadAppliedOnce` (`[]PolicyGradientOnce`, `[]HeadTrainedOnce`).
  `LeftInv`: the passes a rank has left are distinct and of its present mini-batch;
  `CountInv`: the cycle count that decides whether a head step is due is that of all ranks;
  `GradInv`: the gradient holds just the rows whose pass is done; `AppliedInv`: a row was
  applied once if its step was taken and not skipped, else not at all.
- `RefreshedTop` (`[]RefreshedAreTop`): a chain of invariants follows the old
  distributions from the capture to the head step. `RecordInv`: every rank past the gather
  has all records in the same order. `LogInv`: the ranks have applied the same policy steps,
  none before the first mini-batch. `CacheInv`: the n-th entry of rank 0's file belongs to the
  n-th case and was taken before any policy step, and what is still to be captured are the
  cases after it. `ScoreInv`: reading starts at the front, so each new distribution is
  compared with the old one of its own case, and the scores of the cases read so far are
  their divergences (`Measured`). `HeadInv`: on a refresh step the head is stepped by nothing
  but the refresh, with the teachers each rank selected, which by `SyncInv` are the same
  rows. `SelectionTop` then says that the sorted list, cut at the fraction rounded up,
  is the top of the rows of positive worth.

Only model-checked: the liveness properties `StopHonoured`, `EveryRequestAnswered` and
`NobodyLeftWaiting`, which are outside the prover. Every invariant and every action property
that a passing run checks is also a theorem.

## Abstractions and what is not modelled

- A rank's three files are one, torn from the first open to the last close.
  `shutil.rmtree` is one step. A write that completed survives a crash (no model of
  the page cache).
- The rank-0 Hugging Face export happens before the second barrier and is not read
  back by a resume; it is part of `AllRanksDumped`.
- Asynchronous saves (Megatron only), HDFS, the critic and critic warm-up,
  `resume_path` and `del_local_ckpt_after_load` are left out; this project's runs leave
  them at their defaults or do not use them.
- Advantages, losses and the optimizer are one update; validation changes no state.
- Preflight, settings validation and the AR baseline pass or fail nondeterministically.
  The legacy split-path layout of the launcher is left out.
- A partially prepared model is reused by the launcher; that loading it fails is up
  to `from_pretrained` and is part of `TrainerFails`.
- Signals: `draft_tokens` stands for `topk_val`, `topk_idx` and itself, which are appended,
  sliced and extended together. Shapes and dtypes are left out, the response mask is all
  ones. The overlap scheduler, radix cache, priorities, LoRA limits and disaggregation are
  off in this project's rollouts. One rollout is packed at a time.
- `run_logged.py` installs its handlers a few lines after `Popen`; a signal to the logger
  in between kills it alone. `SignalRunner` has no such window; the effect is that of
  `KillRunner`, and the theorems that assume `"runner" \notin Kills` do not cover it.
- Refresh: the all_reduce of the loss and the allgather of the metrics after every
  mini-batch (`_postprocess_output`) are left out: every rank makes both, whatever its
  data. So are the ValueErrors of `select_cases` and `cycle_case` on a record whose cycle,
  prefix or seed do not fit together: one rank would raise them before the others'
  collective, but `pack_signals` has refused such records before (`PackComplete` and
  SignalPacking's checks). The loss inside `backward_head`, metrics and JSONL output are left out too, and the
  finite check of `compare_distributions`, which every rank makes on the same values.
  Closing the cache file changes nothing that is read later. An I/O error of the cache
  file, or an exception that one rank alone raises in a forward pass, would leave the other
  ranks in a collective until NCCL's timeout; the code has no handling for it.
- Losses, metrics and `replay.py` are floating-point; data preparation, comparison and
  wrapper scripts are sequential; vendored code is used as it is. Most of the repository's
  lines are vendored SGLang, verl, DeepSpec and SpecForge (kernels, model definitions,
  server front ends), which is why the map covers a small part of them: it covers the
  files that carry GrowMTP's own logic.

## Plan

1. *(done)* CheckpointStore, ResumableTraining, RunLifecycle, their runs, type
   correctness, `ResumePointSafe`, `LockExcludes`, `StopMarkerSafe`.
2. *(done)* SignalCapture, SignalPacking, SignalPipeline, their runs and the theorems of
   `SignalCapture_proofs`.
3. *(done)* DraftRefresh and its run.
4. *(done)* Proofs: the remaining invariants of the store and of the lifecycle, the
   refinement, `StreamIsPrefix`, `TargetsMatchEmitted`, and those of DraftRefresh for any
   number of ranks.
5. *(done)* Proofs: `PackComplete` and `RefreshedAreTop`.
6. Possible extensions: the agent loop's merging of several turns, asynchronous saves.
