----------------------- MODULE CheckpointSession_proofs -----------------------
(***************************************************************************)
(* What a session reports and where it resumes, proved for every instance: *)
(* that a reported suspension or completion is saved, that a suspension is *)
(* prompt, that the batches come in epoch order across resumes, and that   *)
(* the store implements ResumableTraining.  None of it needs an assumption *)
(* on the retention limit: it rests on the order of the writes to data.pt  *)
(* and the index (IndexKnown), on when checkpoint_saved is set (SavedFlag) *)
(* and on the position in the epoch that data.pt records (Position).       *)
(***************************************************************************)
EXTENDS CheckpointStore_proofs

\* A readable index names the commit, an existing folder and a data.pt that was
\* at least opened; without an index nothing was ever committed.
IndexKnown ==
    /\ index \in Steps => /\ index = committed /\ index \in folders
                          /\ dataFile[index] # NoData
    /\ index = NoIndex => committed = NoIndex
    /\ pc = "load" /\ resumeMode = "disable" => index = NoIndex
    /\ pc \in {"shards"} \cup AfterDump => globalSteps \in folders
    /\ pc \in {"dataClose", "indexOpen", "indexWrite"} => dataFile[globalSteps] # NoData

\* checkpoint_saved tells the truth about the step at whose end it is read, and
\* a session that loads a checkpoint validates the indexed step.
SavedFlag ==
    /\ pc = "update" => ~savedNow
    /\ pc = "stepEnd" /\ savedNow => index = globalSteps
    /\ pc = "stepEnd" /\ SaveFreq > 0 /\ globalSteps = Total => savedNow
    /\ pc = "beforeValidation" /\ globalSteps > 0 => index = globalSteps

\* No step begins between the request and the check that precedes it.
Prompt ==
    /\ lateSteps <= 1
    /\ ~suspend \/ pc = "fetch" => lateSteps = 0

\* The step counter is the position in the epochs, and a readable data.pt holds
\* the position of its step in some epoch.
Position ==
    /\ pc \in SavePhases \cup {"load", "beforeValidation", "beforeTraining", "update", "stepEnd"} =>
        globalSteps = epoch * StepsPerEpoch + cursor
    /\ pc = "fetch" => globalSteps = epoch * StepsPerEpoch + cursor + 1
    /\ \A n \in Steps : dataFile[n] \in 0..StepsPerEpoch =>
        \E e \in Nat : n = e * StepsPerEpoch + dataFile[n]

SessionInv == TypeInv /\ IndexKnown /\ SavedFlag /\ SuspendedIsSaved /\ CompleteIsSaved

-----------------------------------------------------------------------------
(* What is reported is saved                                               *)

USE DEF Steps, NoIndex, EmptyIndex, NoData, TornData

\* The index keeps naming a commit, and data.pt is written before the index.
LEMMA IndexKnownNext ==
    ASSUME TypeInv, IndexKnown, TypeInv', [Next]_vars
    PROVE  IndexKnown'
<1> USE ConstantsAssumption DEF IndexKnown, TypeInv, AfterDump, disk, loop, history
<1>1. ASSUME NEW action \in {LauncherAction, TrainAction}, Launch(action) PROVE IndexKnown'
  <2>1. action = "disable" => index = NoIndex
    BY <1>1 DEF Launch, LauncherAction, TrainAction
  <2>2. QED
    BY <1>1, <2>1 DEF Launch
<1>2. CASE RequestSuspend \/ Crash \/ LoadNothing \/ LoadCheckpoint \/ LoadFails
  BY <1>2 DEF RequestSuspend, Crash, LoadNothing, LoadCheckpoint, LoadFails, Exit
<1>3. CASE BeforeValidation \/ BeforeTraining \/ FetchBatch \/ NextEpoch \/ EpochsExhausted \/ StepEnd
  BY <1>3 DEF BeforeValidation, BeforeTraining, FetchBatch, NextEpoch, EpochsExhausted, StepEnd, StartSave, Exit
<1>4. ASSUME NEW esi \in BOOLEAN, Update(esi) PROVE IndexKnown'
  BY <1>4 DEF Update, StartSave
<1>5. CASE EnsureCheckpointCapacity \/ RegisterCheckpoint
  BY <1>5 DEF EnsureCheckpointCapacity, RegisterCheckpoint
<1>6. CASE MakeActorDir \/ AllRanksDumped
  BY <1>6 DEF MakeActorDir, AllRanksDumped
<1>7. ASSUME NEW r \in Ranks, OpenShard(r) \/ CloseShard(r) PROVE IndexKnown'
  BY <1>7 DEF OpenShard, CloseShard
<1>8. CASE OpenData \/ CloseData
  <2>1. globalSteps \in Steps /\ cursor # NoData /\ dataFile \in [Steps -> DataContents]
    BY <1>8 DEF OpenData, CloseData, TypeOK, StepsAgree, SavePhases
  <2>2. \A n \in Steps : dataFile[n] # NoData \/ n = globalSteps => dataFile'[n] # NoData
    BY <1>8, <2>1 DEF OpenData, CloseData
  <2>3. QED
    BY <1>8, <2>1, <2>2 DEF OpenData, CloseData
<1>9. CASE TruncateIndex
  BY <1>9 DEF TruncateIndex
<1>10. CASE WriteIndex
  BY <1>10 DEF WriteIndex, Exit, StepsAgree, SavePhases
<1>11. CASE UNCHANGED vars
  BY <1>11 DEF vars
<1>12. QED
  BY <1>1, <1>2, <1>3, <1>4, <1>5, <1>6, <1>7, <1>8, <1>9, <1>10, <1>11 DEF Next

\* checkpoint_saved is set by the save of the step and by nothing else.
LEMMA SavedFlagNext ==
    ASSUME TypeInv, IndexKnown, SavedFlag, TypeInv', [Next]_vars
    PROVE  SavedFlag'
<1> USE ConstantsAssumption DEF SavedFlag, TypeInv, disk, loop, history
<1>1. ASSUME NEW action \in {LauncherAction, TrainAction}, Launch(action) PROVE SavedFlag'
  BY <1>1 DEF Launch
<1>2. CASE RequestSuspend \/ Crash \/ LoadCheckpoint \/ LoadFails
  BY <1>2 DEF RequestSuspend, Crash, LoadCheckpoint, LoadFails, Exit
<1>3. CASE LoadNothing
  BY <1>3 DEF LoadNothing, StepsAgree
<1>4. CASE BeforeValidation \/ BeforeTraining \/ FetchBatch \/ NextEpoch \/ EpochsExhausted \/ StepEnd
  BY <1>4 DEF BeforeValidation, BeforeTraining, FetchBatch, NextEpoch, EpochsExhausted, StepEnd, StartSave, Exit
<1>5. ASSUME NEW esi \in BOOLEAN, Update(esi) PROVE SavedFlag'
  BY <1>5 DEF Update, StartSave, SaveDue, IsLastStep
<1>6. CASE EnsureCheckpointCapacity \/ RegisterCheckpoint \/ MakeActorDir \/ AllRanksDumped
  BY <1>6 DEF EnsureCheckpointCapacity, RegisterCheckpoint, MakeActorDir, AllRanksDumped
<1>7. ASSUME NEW r \in Ranks, OpenShard(r) \/ CloseShard(r) PROVE SavedFlag'
  BY <1>7 DEF OpenShard, CloseShard
<1>8. CASE OpenData \/ CloseData \/ TruncateIndex \/ WriteIndex
  BY <1>8 DEF OpenData, CloseData, TruncateIndex, WriteIndex, Exit
<1>9. CASE UNCHANGED vars
  BY <1>9 DEF vars
<1>10. QED
  BY <1>1, <1>2, <1>3, <1>4, <1>5, <1>6, <1>7, <1>8, <1>9 DEF Next

\* A session ends with outcome suspended or complete only in the three places
\* where the index holds the step of the weights.
LEMMA ReportsNext ==
    ASSUME TypeInv, IndexKnown, SavedFlag, SuspendedIsSaved, CompleteIsSaved, TypeInv', [Next]_vars
    PROVE  SuspendedIsSaved' /\ CompleteIsSaved'
<1> USE ConstantsAssumption
    DEF SuspendedIsSaved, CompleteIsSaved, TypeInv, StepsAgree, SavePhases, disk, loop, history
<1>1. ASSUME NEW action \in {LauncherAction, TrainAction}, Launch(action)
      PROVE  SuspendedIsSaved' /\ CompleteIsSaved'
  BY <1>1 DEF Launch
<1>2. CASE RequestSuspend \/ Crash \/ LoadNothing \/ LoadCheckpoint \/ LoadFails
  BY <1>2 DEF RequestSuspend, Crash, LoadNothing, LoadCheckpoint, LoadFails, Exit
<1>3. CASE BeforeValidation
  <2>1. pc = "beforeValidation" /\ globalSteps \in Steps /\ weights.step = globalSteps
    BY <1>3 DEF BeforeValidation
  <2>2. globalSteps >= Total => globalSteps = Total /\ index = Total
    BY <2>1 DEF SavedFlag
  <2>3. QED
    BY <1>3, <2>1, <2>2 DEF BeforeValidation, StartSave, Exit
<1>4. CASE BeforeTraining \/ FetchBatch \/ NextEpoch \/ EpochsExhausted
  BY <1>4 DEF BeforeTraining, FetchBatch, NextEpoch, EpochsExhausted, StartSave, Exit
<1>5. ASSUME NEW esi \in BOOLEAN, Update(esi) PROVE SuspendedIsSaved' /\ CompleteIsSaved'
  BY <1>5 DEF Update, StartSave
<1>6. CASE StepEnd
  <2>1. pc = "stepEnd" /\ globalSteps \in Steps /\ weights.step = globalSteps
    BY <1>6 DEF StepEnd
  <2>2. savedNow => index = weights.step /\ committed = weights.step
    BY <2>1 DEF SavedFlag, IndexKnown
  <2>3. IsLastStep => globalSteps = Total /\ (SaveFreq > 0 => index = Total)
    BY <2>1 DEF SavedFlag, IsLastStep
  <2>4. QED
    BY <1>6, <2>1, <2>2, <2>3 DEF StepEnd, StartSave, Exit
<1>7. CASE EnsureCheckpointCapacity \/ RegisterCheckpoint \/ MakeActorDir \/ AllRanksDumped
  BY <1>7 DEF EnsureCheckpointCapacity, RegisterCheckpoint, MakeActorDir, AllRanksDumped
<1>8. ASSUME NEW r \in Ranks, OpenShard(r) \/ CloseShard(r)
      PROVE  SuspendedIsSaved' /\ CompleteIsSaved'
  BY <1>8 DEF OpenShard, CloseShard
<1>9. CASE OpenData \/ CloseData \/ TruncateIndex
  BY <1>9 DEF OpenData, CloseData, TruncateIndex
<1>10. CASE WriteIndex
  BY <1>10 DEF WriteIndex, Exit
<1>11. CASE UNCHANGED vars
  BY <1>11 DEF vars
<1>12. QED
  BY <1>1, <1>2, <1>3, <1>4, <1>5, <1>6, <1>7, <1>8, <1>9, <1>10, <1>11 DEF Next

\* The session invariant holds initially and is kept by every step.
LEMMA SessionInvariance == Spec => []SessionInv
<1>1. Init => SessionInv
  BY TypeInvInit, ConstantsAssumption
  DEF Init, SessionInv, IndexKnown, SavedFlag, SuspendedIsSaved, CompleteIsSaved, AfterDump
<1>2. SessionInv /\ [Next]_vars => SessionInv'
  <2> SUFFICES ASSUME SessionInv, [Next]_vars PROVE SessionInv'
    OBVIOUS
  <2>1. TypeInv'
    BY TypeInvNext DEF SessionInv
  <2>2. QED
    BY <2>1, IndexKnownNext, SavedFlagNext, ReportsNext DEF SessionInv
<1>3. QED
  BY <1>1, <1>2, PTL DEF Spec

\* A session that reports a safe suspension ("exit suspended") has committed
\* every update it made, whichever of the three checks of .suspend_requested
\* ended it and whatever was saved or crashed before.
THEOREM SuspensionSafe == Spec => []SuspendedIsSaved
<1>1. SessionInv => SuspendedIsSaved
  BY DEF SessionInv
<1>2. QED
  BY <1>1, SessionInvariance, PTL

\* A session that reports completion has made every update, and has committed
\* the last one unless saving is disabled.
THEOREM CompletionSafe == Spec => []CompleteIsSaved
<1>1. SessionInv => CompleteIsSaved
  BY DEF SessionInv
<1>2. QED
  BY <1>1, SessionInvariance, PTL

-----------------------------------------------------------------------------
(* A suspension is prompt                                                  *)

\* Every way to the next step passes a check of .suspend_requested.
LEMMA PromptNext ==
    ASSUME TypeOK, Prompt, [Next]_vars
    PROVE  Prompt'
<1> USE DEF Prompt, TypeOK, disk, loop, history
<1>1. ASSUME NEW action \in {LauncherAction, TrainAction}, Launch(action) PROVE Prompt'
  BY <1>1 DEF Launch
<1>2. CASE RequestSuspend \/ Crash \/ LoadNothing \/ LoadCheckpoint \/ LoadFails
  BY <1>2 DEF RequestSuspend, Crash, LoadNothing, LoadCheckpoint, LoadFails, Exit
<1>3. CASE BeforeValidation \/ BeforeTraining \/ NextEpoch \/ EpochsExhausted \/ StepEnd
  BY <1>3 DEF BeforeValidation, BeforeTraining, NextEpoch, EpochsExhausted, StepEnd, StartSave, Exit
<1>4. CASE FetchBatch
  BY <1>4 DEF FetchBatch
<1>5. ASSUME NEW esi \in BOOLEAN, Update(esi) PROVE Prompt'
  BY <1>5 DEF Update, StartSave
<1>6. CASE EnsureCheckpointCapacity \/ RegisterCheckpoint \/ MakeActorDir \/ AllRanksDumped
  BY <1>6 DEF EnsureCheckpointCapacity, RegisterCheckpoint, MakeActorDir, AllRanksDumped
<1>7. ASSUME NEW r \in Ranks, OpenShard(r) \/ CloseShard(r) PROVE Prompt'
  BY <1>7 DEF OpenShard, CloseShard
<1>8. CASE OpenData \/ CloseData \/ TruncateIndex \/ WriteIndex
  BY <1>8 DEF OpenData, CloseData, TruncateIndex, WriteIndex, Exit
<1>9. CASE UNCHANGED vars
  BY <1>9 DEF vars
<1>10. QED
  BY <1>1, <1>2, <1>3, <1>4, <1>5, <1>6, <1>7, <1>8, <1>9 DEF Next

\* After .suspend_requested appears at most one more step begins, at whatever
\* moment the driver touches the file.
THEOREM SuspensionPrompt == Spec => []PromptSuspend
<1>1. Init => Prompt
  BY DEF Init, Prompt
<1>2. TypeOK /\ Prompt /\ [Next]_vars => Prompt'
  BY PromptNext
<1>3. Prompt => PromptSuspend
  BY DEF Prompt, PromptSuspend
<1>4. QED
  BY <1>1, <1>2, <1>3, TypeCorrect, PTL DEF Spec

-----------------------------------------------------------------------------
(* The batches come in order                                               *)

\* Quotient and remainder of a step by the length of an epoch.
LEMMA Quotient ==
    ASSUME NEW n \in Nat, NEW s \in Nat \ {0}
    PROVE  /\ n \div s \in Nat /\ n % s \in 0..(s - 1)
           /\ n = (n \div s) * s + (n % s)
<1>1. n \div s \in Int /\ n % s \in 0..(s - 1)
  OBVIOUS
<1>2. n = s * (n \div s) + (n % s)
  OBVIOUS
<1>3. n \div s >= 0
  BY <1>1, <1>2
<1>4. QED
  BY <1>1, <1>2, <1>3

\* They are the only ones.
LEMMA QuotientUnique ==
    ASSUME NEW s \in Nat \ {0}, NEW a \in Nat, NEW b \in Nat,
           NEW c \in 0..(s - 1), NEW d \in 0..(s - 1), a * s + c = b * s + d
    PROVE  a = b /\ c = d
<1>1. (a - b) * s = d - c /\ (b - a) * s = c - d
  OBVIOUS
<1>2. CASE a > b
  <2>1. (a - b) * s >= s
    BY <1>2
  <2>2. QED
    BY <1>1, <2>1
<1>3. CASE b > a
  <2>1. (b - a) * s >= s
    BY <1>3
  <2>2. QED
    BY <1>1, <2>1
<1>4. CASE a = b
  BY <1>1, <1>4
<1>5. QED
  BY <1>2, <1>3, <1>4

\* A whole number of epochs leaves no remainder.
LEMMA Multiple ==
    ASSUME NEW n \in Nat, NEW s \in Nat \ {0}, NEW q \in Nat, n = q * s
    PROVE  n % s = 0
<1>1. PICK a \in Nat, c \in 0..(s - 1) : a = n \div s /\ c = n % s
  BY Quotient
<1>2. q * s = a * s + c
  BY <1>1, Quotient
<1>3. (q - a) * s = c
  BY <1>2
<1>4. CASE q > a
  <2>1. (q - a) * s >= s
    BY <1>4
  <2>2. QED
    BY <1>3, <2>1
<1>5. CASE q < a
  <2>1. (q - a) * s < 0
    BY <1>5
  <2>2. QED
    BY <1>3, <2>1
<1>6. CASE q = a
  BY <1>1, <1>3, <1>6
<1>7. QED
  BY <1>4, <1>5, <1>6

\* A session that loads step n starts at n's position in its epoch: data.pt
\* says so inside an epoch, and at a boundary it is not consulted.
LEMMA RestoredPosition ==
    ASSUME NEW n \in Steps, NEW d, NEW e \in Nat, n = e * StepsPerEpoch + d,
           d \in 0..StepsPerEpoch, n % StepsPerEpoch # 0
    PROVE  n = (n \div StepsPerEpoch) * StepsPerEpoch + d
<1> DEFINE s == StepsPerEpoch
<1>1. n \in Nat /\ s \in Nat \ {0}
  BY ConstantsAssumption
<1> HIDE DEF s
<1>2. /\ n \div s \in Nat /\ n % s \in 0..(s - 1)
      /\ n = (n \div s) * s + (n % s)
  BY <1>1, Quotient
<1>3. d # s
  <2> SUFFICES ASSUME d = s PROVE FALSE
    OBVIOUS
  <2>1. n = (e + 1) * s
    BY <1>1 DEF s
  <2>2. n % s = 0
    <3>1. PICK q \in Nat : q = e + 1
      OBVIOUS
    <3>2. n = q * s
      BY <2>1, <3>1
    <3>3. QED
      BY <1>1, <3>2, Multiple
  <2>3. QED
    BY <2>2 DEF s
<1>4. n \div s = e
  BY <1>1, <1>2, <1>3, QuotientUnique DEF s
<1>5. QED
  BY <1>4 DEF s

\* The position survives a step that moves neither the counters nor data.pt.
LEMMA PositionFrame ==
    ASSUME Position, UNCHANGED <<globalSteps, epoch, cursor, dataFile>>,
           \/ pc' \in {pc, "down"}
           \/ pc \notin {"down", "fetch"} /\ pc' # "fetch",
           TypeOK
    PROVE  Position'
BY DEF Position, TypeOK, SavePhases, FitPhases

\* Every step keeps the position, and every data.pt it writes records it.
LEMMA PositionNext ==
    ASSUME TypeInv, IndexKnown, Position, TypeInv', [Next]_vars
    PROVE  Position'
<1> USE DEF TypeInv, disk, loop, history
<1>1. ASSUME NEW action \in {LauncherAction, TrainAction}, Launch(action) PROVE Position'
  <2>1. pc' = "load" /\ globalSteps' = 0 /\ epoch' = 0 /\ cursor' = 0 /\ dataFile' = dataFile
    BY <1>1 DEF Launch
  <2>2. 0 * StepsPerEpoch = 0
    BY ConstantsAssumption
  <2>3. QED
    BY <2>1, <2>2 DEF Position, SavePhases
<1>2. CASE RequestSuspend \/ Crash \/ LoadNothing \/ LoadFails \/ BeforeValidation
  BY <1>2, PositionFrame
  DEF RequestSuspend, Crash, LoadNothing, LoadFails, BeforeValidation, StartSave, Exit
<1>3. CASE LoadCheckpoint
  <2>1. /\ index \in Steps /\ index = globalSteps' /\ pc' = "beforeValidation"
        /\ epoch' = index \div StepsPerEpoch /\ dataFile' = dataFile
        /\ dataFile[index] # NoData /\ RestoredCursor(index) # TornData
        /\ cursor' = RestoredCursor(index)
    BY <1>3 DEF LoadCheckpoint, Loadable, FoundCheckpoint, IndexKnown, TypeOK
  <2>2. index = epoch' * StepsPerEpoch + cursor'
    <3>1. CASE index % StepsPerEpoch = 0
      <4>1. cursor' = 0
        BY <2>1, <3>1 DEF RestoredCursor, AtEpochBoundary
      <4>2. index = (index \div StepsPerEpoch) * StepsPerEpoch + (index % StepsPerEpoch)
        <5>1. index \in Nat /\ StepsPerEpoch \in Nat \ {0}
          BY <2>1, ConstantsAssumption
        <5>2. QED
          BY <5>1, Quotient
      <4>3. (index \div StepsPerEpoch) * StepsPerEpoch \in Nat
        <5>1. index \in Nat /\ StepsPerEpoch \in Nat \ {0}
          BY <2>1, ConstantsAssumption
        <5>2. index \div StepsPerEpoch \in Nat
          BY <5>1, Quotient
        <5>3. QED
          BY <5>1, <5>2
      <4>4. QED
        BY <2>1, <3>1, <4>1, <4>2, <4>3
    <3>2. CASE index % StepsPerEpoch # 0
      <4>1. cursor' = dataFile[index] /\ dataFile[index] \in 0..StepsPerEpoch
        BY <2>1, <3>2 DEF RestoredCursor, AtEpochBoundary, TypeOK, DataContents
      <4>2. PICK e \in Nat : index = e * StepsPerEpoch + dataFile[index]
        BY <2>1, <4>1 DEF Position
      <4>3. QED
        BY <2>1, <3>2, <4>1, <4>2, RestoredPosition
    <3>3. QED
      BY <3>1, <3>2
  <2>3. QED
    BY <2>1, <2>2 DEF Position, SavePhases
<1>4. CASE BeforeTraining
  <2>1. CASE pc' = "capacity"
    BY <1>4, <2>1, PositionFrame DEF BeforeTraining
  <2>2. CASE pc' = "fetch"
    BY <1>4, <2>2 DEF BeforeTraining, Position, SavePhases, StartSave
  <2>3. QED
    BY <1>4, <2>1, <2>2 DEF BeforeTraining, StartSave
<1>5. CASE FetchBatch
  <2>1. cursor \in Nat /\ globalSteps = epoch * StepsPerEpoch + cursor + 1
    BY <1>5 DEF FetchBatch, Position, TypeOK
  <2>2. epoch * StepsPerEpoch + cursor + 1 = epoch * StepsPerEpoch + (cursor + 1)
    BY <2>1, ConstantsAssumption DEF TypeOK
  <2>3. QED
    BY <1>5, <2>1, <2>2 DEF FetchBatch, Position, SavePhases
<1>6. CASE NextEpoch \/ EpochsExhausted
  <2>1. CASE EpochsExhausted
    BY <2>1 DEF EpochsExhausted, Position, SavePhases, Exit
  <2>2. CASE NextEpoch
    <3>1. epoch' = epoch + 1 /\ cursor' = 0 /\ cursor = StepsPerEpoch
          /\ UNCHANGED <<globalSteps, dataFile>> /\ pc = "fetch" /\ pc' = "fetch"
      BY <2>2 DEF NextEpoch, disk
    <3>2. epoch * StepsPerEpoch + StepsPerEpoch + 1 = (epoch + 1) * StepsPerEpoch + 0 + 1
      BY ConstantsAssumption DEF TypeOK
    <3>3. QED
      BY <3>1, <3>2 DEF Position, SavePhases
  <2>3. QED
    BY <1>6, <2>1, <2>2
<1>7. ASSUME NEW esi \in BOOLEAN, Update(esi) PROVE Position'
  BY <1>7, PositionFrame DEF Update, StartSave
<1>8. CASE StepEnd
  <2>1. CASE pc' = "fetch"
    BY <1>8, <2>1 DEF StepEnd, Position, SavePhases, StartSave, Exit
  <2>2. CASE pc' = "down"
    BY <1>8, <2>2 DEF StepEnd, Position, SavePhases
  <2>3. CASE pc' = "capacity"
    BY <1>8, <2>3, PositionFrame DEF StepEnd, StartSave, Exit
  <2>4. QED
    BY <1>8, <2>1, <2>2, <2>3 DEF StepEnd, StartSave, Exit
<1>9. CASE EnsureCheckpointCapacity \/ RegisterCheckpoint \/ MakeActorDir \/ AllRanksDumped
  BY <1>9, PositionFrame
  DEF EnsureCheckpointCapacity, RegisterCheckpoint, MakeActorDir, AllRanksDumped
<1>10. ASSUME NEW r \in Ranks, OpenShard(r) \/ CloseShard(r) PROVE Position'
  BY <1>10, PositionFrame DEF OpenShard, CloseShard
<1>11. CASE OpenData \/ CloseData
  <2>1. /\ globalSteps \in Steps /\ epoch \in Nat /\ dataFile \in [Steps -> DataContents]
        /\ globalSteps = epoch * StepsPerEpoch + cursor
        /\ pc' \in {"dataClose", "indexOpen"} /\ UNCHANGED <<globalSteps, epoch, cursor>>
    BY <1>11 DEF OpenData, CloseData, TypeOK, StepsAgree, Position, SavePhases
  <2>2. \/ dataFile' = [dataFile EXCEPT ![globalSteps] = TornData]
        \/ dataFile' = [dataFile EXCEPT ![globalSteps] = cursor]
    BY <1>11 DEF OpenData, CloseData
  <2>3. ASSUME NEW n \in Steps, dataFile'[n] \in 0..StepsPerEpoch
        PROVE  \E e \in Nat : n = e * StepsPerEpoch + dataFile'[n]
    <3>1. CASE n = globalSteps
      <4>1. dataFile'[n] = cursor
        BY <2>1, <2>2, <2>3, <3>1, ConstantsAssumption
      <4>2. QED
        BY <2>1, <3>1, <4>1
    <3>2. CASE n # globalSteps
      BY <2>1, <2>2, <2>3, <3>2 DEF Position
    <3>3. QED
      BY <3>1, <3>2
  <2>4. QED
    BY <2>1, <2>3 DEF Position
<1>12. CASE TruncateIndex \/ WriteIndex
  BY <1>12, PositionFrame DEF TruncateIndex, WriteIndex, Exit
<1>13. CASE UNCHANGED vars
  BY <1>13, PositionFrame DEF vars
<1>14. QED
  BY <1>1, <1>2, <1>3, <1>4, <1>5, <1>6, <1>7, <1>8, <1>9, <1>10, <1>11, <1>12, <1>13 DEF Next

\* Every training step consumes the batch after the one of the step before it,
\* however often the run crashed, was suspended and resumed, at epoch
\* boundaries and inside epochs, for every length of an epoch.
THEOREM BatchesInOrder == Spec => []BatchOrder
<1>1. Init => Position
  BY ConstantsAssumption DEF Init, Position, SavePhases
<1>2. SessionInv /\ SessionInv' /\ Position /\ [Next]_vars => Position'
  BY PositionNext DEF SessionInv
<1>3. SessionInv /\ Position => BatchOrder
  BY DEF SessionInv, TypeInv, StepsAgree, Position, BatchOrder
<1>4. QED
  BY <1>1, <1>2, <1>3, SessionInvariance, PTL DEF Spec

-----------------------------------------------------------------------------
(* The refinement                                                          *)

\* Every file operation, crash and launch is a step of ResumableTraining, or
\* one that it does not see.
LEMMA StepRefines ==
    ASSUME SessionInv, TypeInv', [Next]_vars
    PROVE  [Promise!RTNext]_(Promise!rtVars)
<1> USE ConstantsAssumption
    DEF SessionInv, TypeInv, disk, loop, history, Promise!RTNext, Promise!rtVars
<1>1. ASSUME NEW action \in {LauncherAction, TrainAction}, Launch(action)
      PROVE  UNCHANGED Promise!rtVars
  BY <1>1 DEF Launch
<1>2. CASE RequestSuspend
  BY <1>2 DEF RequestSuspend
<1>3. CASE LoadNothing
  <2>1. index = NoIndex
    BY <1>3 DEF LoadNothing, IndexKnown, TypeOK, IndexContents
  <2>2. Promise!Start
    BY <1>3, <2>1 DEF LoadNothing, IndexKnown, StepsAgree, Promise!Start
  <2>3. QED
    BY <2>2
<1>4. CASE LoadCheckpoint
  <2>1. index \in Steps /\ index = committed
    BY <1>4 DEF LoadCheckpoint, FoundCheckpoint, IndexKnown, TypeOK
  <2>2. weights'.step = index
    BY <1>4, <2>1 DEF LoadCheckpoint, Loadable, ShardsMatch
  <2>3. Promise!Start
    BY <1>4, <2>1, <2>2 DEF LoadCheckpoint, Promise!Start
  <2>4. QED
    BY <2>3
<1>5. CASE Crash \/ LoadFails
  BY <1>5 DEF Crash, LoadFails, Exit, Promise!Stop
<1>6. CASE BeforeValidation \/ BeforeTraining \/ FetchBatch \/ NextEpoch \/ EpochsExhausted \/ StepEnd
  BY <1>6
  DEF BeforeValidation, BeforeTraining, FetchBatch, NextEpoch, EpochsExhausted, StepEnd, StartSave, Exit, Promise!Stop
<1>7. ASSUME NEW esi \in BOOLEAN, Update(esi) PROVE Promise!Learn
  BY <1>7 DEF Update, StartSave, StepsAgree, Promise!Learn
<1>8. CASE EnsureCheckpointCapacity \/ RegisterCheckpoint \/ MakeActorDir \/ AllRanksDumped
  BY <1>8 DEF EnsureCheckpointCapacity, RegisterCheckpoint, MakeActorDir, AllRanksDumped
<1>9. ASSUME NEW r \in Ranks, OpenShard(r) \/ CloseShard(r) PROVE UNCHANGED Promise!rtVars
  BY <1>9 DEF OpenShard, CloseShard
<1>10. CASE OpenData \/ CloseData \/ TruncateIndex
  BY <1>10 DEF OpenData, CloseData, TruncateIndex
<1>11. CASE WriteIndex
  <2>1. /\ pc = "indexWrite" /\ committed' = weights.step /\ committed' # NoIndex
        /\ weights' = weights /\ pc' \in {"down", "stepEnd"}
    BY <1>11 DEF WriteIndex, Exit, StepsAgree, SavePhases
  <2>2. CASE pc' = "down"
    BY <2>1, <2>2 DEF Promise!Stop
  <2>3. CASE pc' = "stepEnd"
    BY <2>1, <2>3 DEF Promise!Persist
  <2>4. QED
    BY <2>1, <2>2, <2>3
<1>12. CASE UNCHANGED vars
  BY <1>12 DEF vars
<1>13. QED
  BY <1>1, <1>2, <1>3, <1>4, <1>5, <1>6, <1>7, <1>8, <1>9, <1>10, <1>11, <1>12 DEF Next

\* The files, sessions and crashes implement resumable training, for every
\* retention limit and save frequency: a session starts from exactly the
\* committed updates, and no commit is lost or taken back.
THEOREM StoreRefines == Spec => ImplementsResumable
<1>1. Init => Promise!RTInit
  BY DEF Init, Promise!RTInit
<1>2. SessionInv /\ SessionInv' /\ [Next]_vars => [Promise!RTNext]_(Promise!rtVars)
  BY StepRefines DEF SessionInv
<1>3. QED
  BY <1>1, <1>2, SessionInvariance, PTL DEF Spec, ImplementsResumable, Promise!RTSpec

=============================================================================
