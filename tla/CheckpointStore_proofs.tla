------------------------ MODULE CheckpointStore_proofs ------------------------
(***************************************************************************)
(* Proofs about CheckpointStore for every set of ranks, every number of    *)
(* steps and sessions, every save frequency and retention limit.           *)
(*                                                                         *)
(* ResumePointIntact is not inductive: that a commit names a complete      *)
(* checkpoint rests on what the save has written so far (SaveProgress), on *)
(* the weights being those of the step (StepsAgree), and on the removals   *)
(* sparing the indexed directory (PathsOrdered).                           *)
(***************************************************************************)
EXTENDS CheckpointStore, TLAPS

\* The weights have seen the steps that global_steps says they have.
StepsAgree ==
    /\ pc = "load" => globalSteps = 0 /\ weights.step = 0
    /\ pc = "beforeTraining" => globalSteps < Total
    /\ pc \in {"fetch", "update"} =>
        globalSteps \in 1..Total /\ weights.step = globalSteps - 1
    /\ pc \in SavePhases \cup {"beforeValidation", "beforeTraining", "stepEnd"} =>
        globalSteps \in Steps /\ weights.step = globalSteps

\* A readable shard of global_step_N holds weights of step N.
ShardsMatch ==
    \A n \in Steps, r \in Ranks :
        shard[n][r] \in Weights => shard[n][r].step = n

TypeInv == TypeOK /\ StepsAgree /\ ShardsMatch

\* From the barrier of the shard dumps to the end of the save.
AfterDump == {"register", "dataOpen", "dataClose", "indexOpen", "indexWrite"}
\* From the registration to the end of the save.
AfterRegister == {"dataOpen", "dataClose", "indexOpen", "indexWrite"}

\* What the running save has put on disk, and that it owns up to overwriting
\* the indexed checkpoint.
SaveProgress ==
    /\ pc \in {"shards"} \cup AfterDump => globalSteps \in actorDirs
    /\ pc = "shards" =>
        \A r \in Ranks : rankPc[r] = "done" => shard[globalSteps][r] = weights
    /\ pc \in AfterDump => \A r \in Ranks : shard[globalSteps][r] = weights
    /\ pc \in {"indexOpen", "indexWrite"} => dataFile[globalSteps] = cursor
    /\ pc \in {"shards"} \cup AfterDump /\ index = globalSteps => rewriting
    /\ pc = "indexWrite" => index = EmptyIndex

\* previous_saved_paths is in the order of the steps, below the step that is
\* being trained or saved, and ends with the indexed one between two saves.
PathsOrdered ==
    /\ \A i, j \in 1..Len(savedPaths) : i < j => savedPaths[i] < savedPaths[j]
    /\ pc \in {"load", "beforeValidation", "beforeTraining"} => savedPaths = <<>>
    /\ pc = "update" => ~savedNow
    /\ \/ pc \in {"fetch", "update", "capacity", "mkdir", "shards", "register"}
       \/ pc = "stepEnd" /\ ~savedNow
       => \A i \in 1..Len(savedPaths) : savedPaths[i] < globalSteps
    /\ pc \in AfterRegister \/ (pc = "stepEnd" /\ savedNow) =>
        /\ savedPaths # <<>>
        /\ savedPaths[Len(savedPaths)] = globalSteps
    /\ pc \notin AfterRegister \cup {"down"} /\ savedPaths # <<>> =>
        index = savedPaths[Len(savedPaths)]

IntactInv == TypeInv /\ SaveProgress /\ PathsOrdered /\ ResumePointIntact

-----------------------------------------------------------------------------
(* Types                                                                   *)

USE DEF Steps, NoIndex, EmptyIndex, NoData, TornData

\* Neither an absent nor a torn shard is readable; the initial weights are.
LEMMA ContentFacts ==
    /\ Absent \in ShardContents /\ Absent \notin Weights
    /\ Torn \in ShardContents /\ Torn \notin Weights
    /\ [step |-> 0, session |-> 0] \in Weights
    /\ Weights \subseteq ShardContents
BY ConstantsAssumption DEF Absent, Torn, ShardContents, Weights

\* A removal takes whole shard rows away and adds nothing.
LEMMA RemoveType ==
    ASSUME TypeOK, ShardsMatch, NEW k, Remove(k)
    PROVE  /\ actorDirs' \subseteq actorDirs
           /\ shard' \in [Steps -> [Ranks -> ShardContents]]
           /\ ShardsMatch'
BY ContentFacts DEF TypeOK, ShardsMatch, Remove

\* Writing one shard.
LEMMA ShardWriteType ==
    ASSUME TypeOK, ShardsMatch, NEW r \in Ranks, NEW c \in ShardContents,
           globalSteps \in Steps,
           c \in Weights => c.step = globalSteps,
           shard' = [shard EXCEPT ![globalSteps][r] = c]
    PROVE  /\ shard' \in [Steps -> [Ranks -> ShardContents]]
           /\ ShardsMatch'
BY DEF TypeOK, ShardsMatch

LEMMA TypeInvInit == Init => TypeInv
<1> SUFFICES ASSUME Init PROVE TypeInv
  OBVIOUS
<1>1. TypeOK
  <2>1. /\ shard \in [Steps -> [Ranks -> ShardContents]]
        /\ dataFile \in [Steps -> DataContents]
        /\ rankPc \in [Ranks -> {"idle", "open", "writing", "done"}]
    BY ContentFacts DEF Init, DataContents
  <2>2. <<>> \in Seq(Steps) /\ 0 \in 0..StepsPerEpoch /\ 0 \in 0..(Total + 1)
        /\ 0 \in 0..MaxSessions
    BY ConstantsAssumption
  <2>3. QED
    BY <2>1, <2>2, ContentFacts
    DEF Init, TypeOK, IndexContents, SavePhases, FitPhases
<1>2. StepsAgree /\ ShardsMatch
  BY ContentFacts DEF Init, StepsAgree, ShardsMatch, SavePhases
<1>3. QED
  BY <1>1, <1>2 DEF TypeInv

\* Every step keeps the types and the agreement of steps, weights and shards.
LEMMA TypeInvNext == TypeInv /\ [Next]_vars => TypeInv'
<1> SUFFICES ASSUME TypeInv, [Next]_vars PROVE TypeInv'
  OBVIOUS
<1> USE ConstantsAssumption DEF TypeInv, StepsAgree, SavePhases, FitPhases, disk, loop, history
<1>1. ASSUME NEW action \in {LauncherAction, TrainAction}, Launch(action) PROVE TypeInv'
  <2>1. action \in {"auto", "disable"}
    BY <1>1 DEF Launch, LauncherAction, TrainAction
  <2>2. session + 1 \in 0..MaxSessions /\ 0 \in 0..StepsPerEpoch
    BY <1>1 DEF Launch, TypeOK
  <2>3. /\ <<>> \in Seq(Steps)
        /\ [r \in Ranks |-> "idle"] \in [Ranks -> {"idle", "open", "writing", "done"}]
    OBVIOUS
  <2>4. TypeOK'
    <3>1. /\ folders' = folders /\ actorDirs' = actorDirs /\ shard' = shard
          /\ dataFile' = dataFile /\ index' = index
          /\ committed' = committed /\ rewriting' = rewriting
      BY <1>1 DEF Launch
    <3>2. /\ pc' = "load" /\ suspend' = FALSE /\ savedNow' = FALSE
          /\ resumeMode' \in {"disable", "auto"}
          /\ saveThen' = "exit" /\ outcome' = "none"
      BY <1>1, <2>1 DEF Launch
    <3>3. /\ globalSteps' = 0 /\ epoch' = 0 /\ lateSteps' = 0
          /\ cursor' \in 0..StepsPerEpoch
          /\ session' \in 0..MaxSessions
          /\ weights' \in Weights
          /\ savedPaths' \in Seq(Steps)
          /\ rankPc' \in [Ranks -> {"idle", "open", "writing", "done"}]
      BY <1>1, <2>2, <2>3, ContentFacts DEF Launch
    <3>4. /\ suspend' \in BOOLEAN /\ savedNow' \in BOOLEAN /\ rewriting' \in BOOLEAN
          /\ pc' \in {"down"} \cup SavePhases \cup FitPhases
          /\ committed' \in Steps \cup {NoIndex}
      BY <3>1, <3>2 DEF TypeOK
    <3>5. globalSteps' \in 0..(Total + 1) /\ epoch' \in Nat /\ lateSteps' \in Nat
      BY <3>3
    <3>6. QED
      BY <3>1, <3>2, <3>3, <3>4, <3>5 DEF TypeOK
  <2>5. ShardsMatch'
    BY <1>1 DEF Launch, ShardsMatch
  <2>6. StepsAgree'
    BY <1>1 DEF Launch
  <2>7. QED
    BY <2>4, <2>5, <2>6
<1>2. CASE RequestSuspend
  BY <1>2 DEF RequestSuspend, TypeOK, ShardsMatch
<1>3. CASE Crash
  BY <1>3 DEF Crash, TypeOK, ShardsMatch, Exit
<1>4. CASE LoadNothing
  BY <1>4 DEF LoadNothing, TypeOK, ShardsMatch
<1>5. CASE LoadFails
  BY <1>5 DEF LoadFails, TypeOK, ShardsMatch, Exit
<1>6. CASE BeforeValidation
  <2>1. /\ pc = "beforeValidation" /\ pc' \in {"capacity", "down", "beforeTraining"}
        /\ saveThen' \in {"exit", "stepEnd"} /\ outcome' \in {outcome, "complete"}
        /\ pc' = "beforeTraining" => globalSteps < Total
    BY <1>6 DEF BeforeValidation, TypeOK, Exit, StartSave
  <2>2. UNCHANGED <<disk, suspend, loop, rankPc, savedPaths, session, committed,
                    rewriting, lateSteps>>
    BY <1>6 DEF BeforeValidation
  <2>3. QED
    BY <2>1, <2>2 DEF TypeOK, ShardsMatch
<1>7. CASE BeforeTraining
  <2>1. /\ pc = "beforeTraining" /\ pc' \in {"capacity", "fetch"}
        /\ saveThen' \in {"exit", "stepEnd"}
        /\ pc' = "capacity" => globalSteps' = globalSteps
        /\ pc' = "fetch" => globalSteps' = globalSteps + 1
    BY <1>7 DEF BeforeTraining, TypeOK, StartSave
  <2>2. UNCHANGED <<disk, suspend, resumeMode, weights, epoch, cursor, savedNow, rankPc,
                    savedPaths, history>>
    BY <1>7 DEF BeforeTraining
  <2>3. globalSteps' \in 0..(Total + 1) /\ StepsAgree'
    BY <2>1, <2>2
  <2>4. QED
    BY <2>1, <2>2, <2>3 DEF TypeOK, ShardsMatch
<1>8. CASE FetchBatch
  <2>1. cursor + 1 \in 0..StepsPerEpoch
    BY <1>8 DEF FetchBatch, TypeOK
  <2>2. lateSteps' \in Nat
    BY <1>8 DEF FetchBatch, TypeOK
  <2>3. QED
    BY <1>8, <2>1, <2>2 DEF FetchBatch, TypeOK, ShardsMatch
<1>9. CASE NextEpoch \/ EpochsExhausted
  <2>1. /\ pc' \in {"fetch", "down"} /\ epoch' \in Nat /\ cursor' \in 0..StepsPerEpoch
        /\ outcome' \in {outcome, "exhausted"} /\ pc = "fetch"
    BY <1>9 DEF NextEpoch, EpochsExhausted, TypeOK, Exit, loop
  <2>2. UNCHANGED <<disk, suspend, resumeMode, globalSteps, weights, savedNow, saveThen,
                    rankPc, savedPaths, session, committed, rewriting, lateSteps>>
    BY <1>9 DEF NextEpoch, EpochsExhausted, loop, history
  <2>3. QED
    BY <2>1, <2>2 DEF TypeOK, ShardsMatch
<1>10. CASE StepEnd
  <2>1. /\ pc = "stepEnd" /\ pc' \in {"capacity", "down", "fetch"}
        /\ saveThen' \in {"exit", "stepEnd"}
        /\ outcome' \in {outcome, "suspended", "complete"}
    BY <1>10 DEF StepEnd, TypeOK, Exit, StartSave
  <2>2. /\ pc' = "capacity" => globalSteps' = globalSteps
        /\ pc' = "fetch" => globalSteps' = globalSteps + 1 /\ globalSteps < Total
        /\ globalSteps' \in {globalSteps, globalSteps + 1}
    BY <1>10 DEF StepEnd, TypeOK, Exit, StartSave, IsLastStep
  <2>3. UNCHANGED <<disk, suspend, resumeMode, weights, epoch, cursor, savedNow, rankPc,
                    savedPaths, session, committed, rewriting, lateSteps>>
    BY <1>10 DEF StepEnd
  <2>4. globalSteps' \in 0..(Total + 1)
    BY <2>1, <2>2
  <2>5. StepsAgree'
    BY <2>1, <2>2, <2>3
  <2>6. QED
    BY <2>1, <2>3, <2>4, <2>5 DEF TypeOK, ShardsMatch
<1>11. CASE OpenData
  BY <1>11 DEF OpenData, TypeOK, ShardsMatch, DataContents
<1>12. CASE CloseData
  BY <1>12 DEF CloseData, TypeOK, ShardsMatch, DataContents
<1>13. CASE TruncateIndex
  BY <1>13 DEF TruncateIndex, TypeOK, ShardsMatch, IndexContents
<1>14. CASE WriteIndex
  BY <1>14 DEF WriteIndex, TypeOK, ShardsMatch, Exit, IndexContents
<1>15. CASE MakeActorDir
  BY <1>15 DEF MakeActorDir, TypeOK, ShardsMatch
<1>16. CASE AllRanksDumped
  BY <1>16 DEF AllRanksDumped, TypeOK, ShardsMatch
<1>17. CASE LoadCheckpoint
  <2>1. index \in Steps
    BY <1>17 DEF LoadCheckpoint, FoundCheckpoint, TypeOK
  <2>2. weights' \in Weights /\ weights'.step = index
    BY <1>17, <2>1 DEF LoadCheckpoint, Loadable, ShardsMatch
  <2>3. RestoredCursor(index) \in 0..StepsPerEpoch
    BY <1>17, <2>1 DEF LoadCheckpoint, Loadable, RestoredCursor, TypeOK, DataContents
  <2>4. index \div StepsPerEpoch \in Nat
    BY <2>1
  <2>5. TypeOK'
    BY <1>17, <2>1, <2>2, <2>3, <2>4 DEF LoadCheckpoint, TypeOK
  <2>6. StepsAgree' /\ ShardsMatch'
    BY <1>17, <2>1, <2>2 DEF LoadCheckpoint, ShardsMatch
  <2>7. QED
    BY <2>5, <2>6
<1>18. ASSUME NEW esi \in BOOLEAN, Update(esi) PROVE TypeInv'
  BY <1>18 DEF Update, TypeOK, ShardsMatch, StartSave, Weights
<1>19. CASE EnsureCheckpointCapacity
  <2>1. savedPaths' \in Seq(Steps)
    <3>1. CapacityExcess \in 0..Len(savedPaths)
      BY DEF CapacityExcess, Surplus, TypeOK
    <3>2. QED
      BY <1>19, <3>1 DEF EnsureCheckpointCapacity, TypeOK
  <2>2. /\ actorDirs' \subseteq actorDirs
        /\ shard' \in [Steps -> [Ranks -> ShardContents]]
        /\ ShardsMatch'
    BY <1>19, RemoveType DEF EnsureCheckpointCapacity
  <2>3. /\ pc = "capacity" /\ pc' = "mkdir"
        /\ UNCHANGED <<folders, dataFile, index, suspend, loop, saveThen, rankPc, history>>
    BY <1>19 DEF EnsureCheckpointCapacity
  <2>4. QED
    BY <2>1, <2>2, <2>3 DEF TypeOK
<1>20. CASE RegisterCheckpoint
  <2>1. savedPaths' \in Seq(Steps)
    <3>1. /\ Append(savedPaths, globalSteps) \in Seq(Steps)
          /\ Len(Append(savedPaths, globalSteps)) = Len(savedPaths) + 1
      BY <1>20 DEF RegisterCheckpoint, TypeOK
    <3>2. RegisterExcess \in 0..Len(savedPaths)
      BY <3>1 DEF RegisterExcess, Surplus, TypeOK
    <3>3. QED
      BY <1>20, <3>1, <3>2 DEF RegisterCheckpoint
  <2>2. /\ actorDirs' \subseteq actorDirs
        /\ shard' \in [Steps -> [Ranks -> ShardContents]]
        /\ ShardsMatch'
    BY <1>20, RemoveType DEF RegisterCheckpoint
  <2>3. /\ pc = "register" /\ pc' = "dataOpen"
        /\ UNCHANGED <<folders, dataFile, index, suspend, loop, saveThen, rankPc, history>>
    BY <1>20 DEF RegisterCheckpoint
  <2>4. QED
    BY <2>1, <2>2, <2>3 DEF TypeOK
<1>21. ASSUME NEW r \in Ranks, OpenShard(r) PROVE TypeInv'
  <2>1. shard' \in [Steps -> [Ranks -> ShardContents]] /\ ShardsMatch'
    BY <1>21, ShardWriteType, ContentFacts DEF OpenShard
  <2>2. QED
    BY <1>21, <2>1 DEF OpenShard, TypeOK
<1>22. ASSUME NEW r \in Ranks, CloseShard(r) PROVE TypeInv'
  <2>1. shard' \in [Steps -> [Ranks -> ShardContents]] /\ ShardsMatch'
    BY <1>22, ShardWriteType, ContentFacts DEF CloseShard, TypeOK
  <2>2. QED
    BY <1>22, <2>1 DEF CloseShard, TypeOK
<1>23. CASE UNCHANGED vars
  BY <1>23 DEF vars, TypeOK, ShardsMatch
<1>24. QED
  BY <1>1, <1>2, <1>3, <1>4, <1>5, <1>6, <1>7, <1>8, <1>9, <1>10, <1>11, <1>12, <1>13, <1>14, <1>15, <1>16, <1>17, <1>18, <1>19, <1>20, <1>21, <1>22, <1>23 DEF Next

\* The store's variables have their types in every reachable state.
THEOREM TypeCorrect == Spec => []TypeOK
<1>1. TypeInv => TypeOK
  BY DEF TypeInv
<1>2. QED
  BY TypeInvInit, TypeInvNext, <1>1, PTL DEF Spec

-----------------------------------------------------------------------------
(* The resume point                                                        *)

LEMMA ElementsIn ==
    ASSUME NEW S, NEW s \in Seq(S)
    PROVE  Len(s) \in Nat /\ \A i \in 1..Len(s) : s[i] \in S
OBVIOUS

\* What is left of a list after its first k elements are dropped.
LEMMA Trimmed ==
    ASSUME NEW S, NEW s \in Seq(S), NEW k \in 0..Len(s)
    PROVE  /\ SubSeq(s, k + 1, Len(s)) \in Seq(S)
           /\ Len(SubSeq(s, k + 1, Len(s))) = Len(s) - k
           /\ \A i \in 1..(Len(s) - k) : SubSeq(s, k + 1, Len(s))[i] = s[i + k]
OBVIOUS

\* What previous_saved_paths is after ensure_checkpoint_capacity ...
LEMMA CapacityTrims ==
    ASSUME savedPaths \in Seq(Steps), CapacityExcess \in 0..Len(savedPaths),
           EnsureCheckpointCapacity
    PROVE  /\ savedPaths' \in Seq(Steps)
           /\ Len(savedPaths') = Len(savedPaths) - CapacityExcess
           /\ \A i \in 1..(Len(savedPaths) - CapacityExcess) :
                savedPaths'[i] = savedPaths[i + CapacityExcess]
<1>1. savedPaths' = SubSeq(savedPaths, CapacityExcess + 1, Len(savedPaths))
  BY DEF EnsureCheckpointCapacity
<1>2. QED
  BY <1>1, Trimmed, Zenon

\* ... and after register_checkpoint.
LEMMA RegisterTrims ==
    ASSUME savedPaths \in Seq(Steps), globalSteps \in Steps,
           RegisterExcess \in 0..Len(savedPaths), RegisterCheckpoint
    PROVE  /\ savedPaths' \in Seq(Steps)
           /\ Len(savedPaths') = Len(savedPaths) + 1 - RegisterExcess
           /\ \A i \in 1..(Len(savedPaths) + 1 - RegisterExcess) :
                savedPaths'[i] = Append(savedPaths, globalSteps)[i + RegisterExcess]
<1> DEFINE t == Append(savedPaths, globalSteps)
           k == RegisterExcess
<1>1. t \in Seq(Steps) /\ Len(t) = Len(savedPaths) + 1 /\ Len(savedPaths) \in Nat
  OBVIOUS
<1>2. savedPaths' = SubSeq(t, k + 1, Len(t))
  BY <1>1 DEF RegisterCheckpoint
<1>3. k \in 0..Len(t)
  BY <1>1
<1> HIDE DEF t, k
<1>4. /\ savedPaths' \in Seq(Steps) /\ Len(savedPaths') = Len(t) - k
      /\ \A i \in 1..(Len(t) - k) : savedPaths'[i] = t[i + k]
  BY <1>1, <1>2, <1>3, Trimmed, Zenon
<1>5. QED
  BY <1>1, <1>4 DEF t, k

\* A limit other than one never takes the newest tracked directory: neither
\* before a save nor after it.
LEMMA ExcessBounds ==
    ASSUME TypeOK, Keep # 1
    PROVE  /\ CapacityExcess \in 0..Len(savedPaths)
           /\ savedPaths = <<>> => CapacityExcess = 0
           /\ savedPaths # <<>> => CapacityExcess < Len(savedPaths)
           /\ globalSteps \in Steps => RegisterExcess \in 0..Len(savedPaths)
           /\ globalSteps \in Steps /\ savedPaths = <<>> => RegisterExcess = 0
           /\ globalSteps \in Steps /\ savedPaths # <<>> => RegisterExcess < Len(savedPaths)
<1>1. Len(savedPaths) \in Nat /\ (savedPaths # <<>> <=> Len(savedPaths) > 0)
  BY DEF TypeOK
<1>2. Keep \in Nat /\ Keep # 1
  BY ConstantsAssumption
<1>3. globalSteps \in Steps => Len(Append(savedPaths, globalSteps)) = Len(savedPaths) + 1
  BY DEF TypeOK
<1>4. QED
  BY <1>1, <1>2, <1>3 DEF CapacityExcess, RegisterExcess, Surplus

\* The directories that a removal does not name keep their contents.
LEMMA RemoveSpares ==
    ASSUME TypeOK, NEW k, Remove(k), NEW n \in Steps, n \notin Oldest(k)
    PROVE  (n \in actorDirs => n \in actorDirs') /\ shard'[n] = shard[n]
BY DEF Remove

\* While no save is between registration and index, the newest tracked
\* directory is the indexed one, and removing older ones does not touch it.
LEMMA IndexNotOldest ==
    ASSUME TypeOK, PathsOrdered, NEW k \in 0..Len(savedPaths),
           savedPaths = <<>> => k = 0,
           savedPaths # <<>> => k < Len(savedPaths),
           pc \notin AfterRegister \cup {"down"}
    PROVE  index \notin Oldest(k)
<1>0. Len(savedPaths) \in Nat /\ (savedPaths # <<>> <=> Len(savedPaths) > 0)
  BY DEF TypeOK
<1>1. \A i \in 1..Len(savedPaths) : savedPaths[i] \in Steps
  BY ElementsIn DEF TypeOK
<1>2. \A i \in 1..k : savedPaths[i] < savedPaths[Len(savedPaths)]
  BY <1>0, <1>1 DEF PathsOrdered
<1>3. \A i \in 1..k : savedPaths[i] # index
  BY <1>0, <1>1, <1>2, ConstantsAssumption DEF PathsOrdered
<1>4. QED
  BY <1>3 DEF Oldest

\* The resume point survives a step that leaves the index alone and either
\* admits to rewriting the checkpoint or leaves it alone too.
LEMMA IntactFrame ==
    ASSUME ResumePointIntact, index' = index, committed' = committed,
           rewriting => rewriting',
           index \in Steps /\ ~rewriting' =>
               /\ index \in actorDirs => index \in actorDirs'
               /\ shard'[index] = shard[index]
               /\ dataFile'[index] = dataFile[index]
    PROVE  ResumePointIntact'
BY DEF ResumePointIntact, SavedExactly

\* A save knows what it has written.
LEMMA SaveProgressNext ==
    ASSUME IntactInv, TypeInv', Keep # 1, [Next]_vars
    PROVE  SaveProgress'
<1> USE ConstantsAssumption DEF IntactInv, TypeInv, SaveProgress, StepsAgree, AfterDump, SavePhases, disk, loop, history
<1>1. ASSUME NEW action \in {LauncherAction, TrainAction}, Launch(action) PROVE SaveProgress'
  BY <1>1 DEF Launch
<1>2. CASE RequestSuspend
  BY <1>2 DEF RequestSuspend, Exit, StartSave
<1>3. CASE Crash
  BY <1>3 DEF Crash, Exit, StartSave
<1>4. CASE LoadNothing
  BY <1>4 DEF LoadNothing, Exit, StartSave
<1>5. CASE LoadFails
  BY <1>5 DEF LoadFails, Exit, StartSave
<1>6. CASE BeforeValidation
  BY <1>6 DEF BeforeValidation, Exit, StartSave
<1>7. CASE BeforeTraining
  BY <1>7 DEF BeforeTraining, Exit, StartSave
<1>8. CASE FetchBatch
  BY <1>8 DEF FetchBatch, Exit, StartSave
<1>9. CASE NextEpoch \/ EpochsExhausted
  BY <1>9 DEF NextEpoch, EpochsExhausted, Exit, StartSave
<1>10. CASE StepEnd
  BY <1>10 DEF StepEnd, Exit, StartSave
<1>11. CASE LoadCheckpoint
  BY <1>11 DEF LoadCheckpoint, Exit, StartSave
<1>12. CASE AllRanksDumped
  BY <1>12 DEF AllRanksDumped, Exit, StartSave
<1>13. ASSUME NEW esi \in BOOLEAN, Update(esi) PROVE SaveProgress'
  BY <1>13 DEF Update, StartSave
<1>14. CASE EnsureCheckpointCapacity
  BY <1>14 DEF EnsureCheckpointCapacity
<1>15. CASE MakeActorDir
  BY <1>15 DEF MakeActorDir
<1>16. ASSUME NEW r \in Ranks, OpenShard(r) PROVE SaveProgress'
  BY <1>16 DEF OpenShard, TypeOK
<1>17. ASSUME NEW r \in Ranks, CloseShard(r) PROVE SaveProgress'
  BY <1>17 DEF CloseShard, TypeOK
<1>18. CASE RegisterCheckpoint
  <2>1. globalSteps \notin Oldest(RegisterExcess)
    <3>1. RegisterExcess \in 0..Len(savedPaths) /\ Len(savedPaths) \in Nat
      BY <1>18, ExcessBounds, ElementsIn DEF RegisterCheckpoint, TypeOK
    <3>2. \A i \in 1..Len(savedPaths) : savedPaths[i] < globalSteps
      BY <1>18 DEF RegisterCheckpoint, PathsOrdered
    <3>3. \A i \in 1..RegisterExcess : i \in 1..Len(savedPaths)
      BY <3>1
    <3>4. \A i \in 1..Len(savedPaths) : savedPaths[i] # globalSteps
      <4>1. /\ globalSteps \in Int
            /\ \A i \in 1..Len(savedPaths) : savedPaths[i] \in Int
        BY ElementsIn DEF TypeOK
      <4>2. QED
        BY <3>2, <4>1
    <3>5. QED
      BY <3>3, <3>4 DEF Oldest
  <2>2. globalSteps \in actorDirs' /\ shard'[globalSteps] = shard[globalSteps]
    BY <1>18, <2>1, RemoveSpares DEF RegisterCheckpoint
  <2>3. QED
    BY <1>18, <2>2 DEF RegisterCheckpoint
<1>19. CASE OpenData
  BY <1>19 DEF OpenData, TypeOK
<1>20. CASE CloseData
  BY <1>20 DEF CloseData, TypeOK
<1>21. CASE TruncateIndex
  BY <1>21 DEF TruncateIndex, TypeOK
<1>22. CASE WriteIndex
  BY <1>22 DEF WriteIndex, Exit
<1>23. CASE UNCHANGED vars
  BY <1>23 DEF vars
<1>24. QED
  BY <1>1, <1>2, <1>3, <1>4, <1>5, <1>6, <1>7, <1>8, <1>9, <1>10, <1>11, <1>12, <1>13, <1>14, <1>15, <1>16, <1>17, <1>18, <1>19, <1>20, <1>21, <1>22, <1>23 DEF Next

\* The retention list stays in the order of the steps and ends with the index.
LEMMA PathsOrderedNext ==
    ASSUME IntactInv, TypeInv', Keep # 1, [Next]_vars
    PROVE  PathsOrdered'
<1> USE ConstantsAssumption
    DEF IntactInv, TypeInv, PathsOrdered, AfterRegister, disk, loop, history
<1>1. ASSUME NEW action \in {LauncherAction, TrainAction}, Launch(action) PROVE PathsOrdered'
  BY <1>1 DEF Launch
<1>2. CASE RequestSuspend \/ Crash \/ LoadNothing \/ LoadCheckpoint \/ LoadFails
  BY <1>2 DEF RequestSuspend, Crash, LoadNothing, LoadCheckpoint, LoadFails, Exit
<1>3. CASE BeforeValidation \/ BeforeTraining
  BY <1>3 DEF BeforeValidation, BeforeTraining, StartSave, Exit
<1>4. CASE FetchBatch \/ NextEpoch \/ EpochsExhausted
  BY <1>4 DEF FetchBatch, NextEpoch, EpochsExhausted, Exit
<1>5. ASSUME NEW esi \in BOOLEAN, Update(esi) PROVE PathsOrdered'
  BY <1>5 DEF Update, StartSave
<1>6. CASE StepEnd
  BY <1>6, ElementsIn DEF StepEnd, StartSave, Exit, IsLastStep, TypeOK
<1>7. CASE EnsureCheckpointCapacity
  <2> DEFINE k == CapacityExcess
             n == Len(savedPaths)
  <2>1. k \in 0..n /\ (savedPaths = <<>> => k = 0) /\ (savedPaths # <<>> => k < n)
    BY ExcessBounds
  <2>2. n \in Nat /\ \A i \in 1..n : savedPaths[i] \in Steps
    BY ElementsIn DEF TypeOK
  <2>3. /\ savedPaths' \in Seq(Steps) /\ Len(savedPaths') = n - k
        /\ \A i \in 1..(n - k) : savedPaths'[i] = savedPaths[i + k]
    <3>1. savedPaths \in Seq(Steps)
      BY DEF TypeOK
    <3>2. QED
      BY <1>7, <2>1, <3>1, CapacityTrims
  <2>4. pc = "capacity" /\ pc' = "mkdir" /\ UNCHANGED <<index, globalSteps, savedNow>>
    BY <1>7 DEF EnsureCheckpointCapacity
  <2> HIDE DEF k, n
  <2>5. \A i, j \in 1..Len(savedPaths') : i < j => savedPaths'[i] < savedPaths'[j]
    <3>1. \A i, j \in 1..n : i < j => savedPaths[i] < savedPaths[j]
      BY DEF n
    <3>2. \A i \in 1..(n - k) : i + k \in 1..n
      BY <2>1, <2>2
    <3>3. QED
      BY <2>1, <2>2, <2>3, <3>1, <3>2
  <2>6. \A i \in 1..Len(savedPaths') : savedPaths'[i] < globalSteps'
    <3>1. \A i \in 1..n : savedPaths[i] < globalSteps
      BY <2>4 DEF n
    <3>2. \A i \in 1..(n - k) : i + k \in 1..n
      BY <2>1, <2>2
    <3>3. QED
      BY <2>3, <2>4, <3>1, <3>2
  <2>7. savedPaths' # <<>> => index' = savedPaths'[Len(savedPaths')]
    <3> SUFFICES ASSUME savedPaths' # <<>>
                 PROVE  index' = savedPaths'[Len(savedPaths')]
      OBVIOUS
    <3>1. Len(savedPaths') # 0
      BY <2>3
    <3>2. n - k > 0 /\ savedPaths # <<>>
      BY <2>1, <2>2, <2>3, <3>1 DEF n
    <3>3. index = savedPaths[n]
      BY <2>4, <3>2 DEF n
    <3>4. savedPaths'[n - k] = savedPaths[n]
      BY <2>1, <2>2, <2>3, <3>2
    <3>5. QED
      BY <2>3, <2>4, <3>3, <3>4
  <2>8. QED
    BY <2>4, <2>5, <2>6, <2>7
<1>8. CASE MakeActorDir \/ AllRanksDumped
  BY <1>8 DEF MakeActorDir, AllRanksDumped
<1>9. ASSUME NEW r \in Ranks, OpenShard(r) \/ CloseShard(r) PROVE PathsOrdered'
  BY <1>9 DEF OpenShard, CloseShard
<1>10. CASE RegisterCheckpoint
  <2> DEFINE k == RegisterExcess
             n == Len(savedPaths)
             t == Append(savedPaths, globalSteps)
  <2>1. pc = "register" /\ pc' = "dataOpen" /\ UNCHANGED <<index, globalSteps, savedNow>>
    BY <1>10 DEF RegisterCheckpoint
  <2>2. globalSteps \in Steps
    BY <2>1 DEF StepsAgree, SavePhases
  <2>3. k \in 0..n
    BY <2>2, ExcessBounds
  <2>4. n \in Nat /\ \A i \in 1..n : savedPaths[i] \in Steps /\ savedPaths[i] < globalSteps
    BY <2>1, ElementsIn DEF TypeOK
  <2>5. /\ t \in Seq(Steps) /\ Len(t) = n + 1 /\ t[n + 1] = globalSteps
        /\ \A i \in 1..n : t[i] = savedPaths[i]
    BY <2>2 DEF TypeOK
  <2> HIDE DEF k, t
  <2>6. /\ savedPaths' \in Seq(Steps) /\ Len(savedPaths') = n + 1 - k
        /\ \A i \in 1..(n + 1 - k) : savedPaths'[i] = t[i + k]
    <3>1. savedPaths \in Seq(Steps)
      BY DEF TypeOK
    <3>2. QED
      BY <1>10, <2>2, <2>3, <3>1, RegisterTrims DEF k, t
  <2>7. \A i, j \in 1..(n + 1) : i < j => t[i] < t[j]
    <3>1. \A i, j \in 1..n : i < j => savedPaths[i] < savedPaths[j]
      OBVIOUS
    <3>2. SUFFICES ASSUME NEW i \in 1..(n + 1), NEW j \in 1..(n + 1), i < j
                   PROVE  t[i] < t[j]
      OBVIOUS
    <3>3. i \in 1..n /\ t[i] = savedPaths[i]
      BY <2>4, <2>5, <3>2
    <3>4. CASE j = n + 1
      BY <2>4, <2>5, <3>3, <3>4
    <3>5. CASE j \in 1..n
      BY <2>5, <3>1, <3>2, <3>3, <3>5
    <3>6. QED
      BY <2>4, <3>4, <3>5
  <2> HIDE DEF n
  <2>8. \A i, j \in 1..Len(savedPaths') : i < j => savedPaths'[i] < savedPaths'[j]
    <3>1. \A i \in 1..(n + 1 - k) : i + k \in 1..(n + 1)
      BY <2>3, <2>4
    <3>2. QED
      BY <2>3, <2>4, <2>6, <2>7, <3>1
  <2>9. savedPaths' # <<>> /\ savedPaths'[Len(savedPaths')] = globalSteps
    <3>1. n + 1 - k \in 1..(n + 1 - k) /\ (n + 1 - k) + k = n + 1
      BY <2>3, <2>4
    <3>2. QED
      BY <2>5, <2>6, <3>1
  <2>10. QED
    BY <2>1, <2>8, <2>9
<1>11. CASE OpenData \/ CloseData \/ TruncateIndex
  BY <1>11 DEF OpenData, CloseData, TruncateIndex
<1>12. CASE WriteIndex
  BY <1>12 DEF WriteIndex, Exit
<1>13. CASE UNCHANGED vars
  BY <1>13 DEF vars
<1>14. QED
  BY <1>1, <1>2, <1>3, <1>4, <1>5, <1>6, <1>7, <1>8, <1>9, <1>10, <1>11, <1>12,
     <1>13 DEF Next

\* No step of a session, and no crash, damages the resume point.
LEMMA IntactNext ==
    ASSUME IntactInv, TypeInv', Keep # 1, [Next]_vars
    PROVE  ResumePointIntact'
<1> USE DEF IntactInv, TypeInv, disk, loop, history
<1>1. ASSUME NEW action \in {LauncherAction, TrainAction}, Launch(action) PROVE ResumePointIntact'
  BY <1>1, IntactFrame DEF Launch
<1>2. CASE RequestSuspend \/ Crash \/ LoadNothing \/ LoadCheckpoint \/ LoadFails
  BY <1>2, IntactFrame DEF RequestSuspend, Crash, LoadNothing, LoadCheckpoint, LoadFails
<1>3. CASE BeforeValidation \/ BeforeTraining \/ FetchBatch \/ NextEpoch \/ EpochsExhausted \/ StepEnd
  BY <1>3, IntactFrame DEF BeforeValidation, BeforeTraining, FetchBatch, NextEpoch, EpochsExhausted, StepEnd
<1>4. ASSUME NEW esi \in BOOLEAN, Update(esi) PROVE ResumePointIntact'
  BY <1>4, IntactFrame DEF Update
<1>5. CASE EnsureCheckpointCapacity
  <2>1. index \notin Oldest(CapacityExcess)
    BY <1>5, ExcessBounds, IndexNotOldest DEF EnsureCheckpointCapacity, AfterRegister
  <2>2. index \in Steps => /\ index \in actorDirs => index \in actorDirs'
                           /\ shard'[index] = shard[index]
    BY <1>5, <2>1, RemoveSpares DEF EnsureCheckpointCapacity
  <2>3. QED
    BY <1>5, <2>2, IntactFrame DEF EnsureCheckpointCapacity
<1>6. CASE MakeActorDir \/ AllRanksDumped
  <2>1. rewriting => rewriting'
    BY <1>6 DEF MakeActorDir, AllRanksDumped, TypeOK
  <2>2. /\ index' = index /\ committed' = committed /\ shard' = shard
        /\ dataFile' = dataFile /\ actorDirs \subseteq actorDirs'
    BY <1>6 DEF MakeActorDir, AllRanksDumped
  <2>3. QED
    BY <2>1, <2>2, IntactFrame
<1>7. ASSUME NEW r \in Ranks, OpenShard(r) \/ CloseShard(r) PROVE ResumePointIntact'
  <2>1. index = globalSteps => rewriting
    BY <1>7 DEF OpenShard, CloseShard, SaveProgress
  <2>2. index \in Steps /\ index # globalSteps => shard'[index] = shard[index]
    BY <1>7 DEF OpenShard, CloseShard, TypeOK
  <2>3. QED
    BY <1>7, <2>1, <2>2, IntactFrame DEF OpenShard, CloseShard
<1>8. CASE RegisterCheckpoint
  <2>1. index \notin Oldest(RegisterExcess)
    BY <1>8, ExcessBounds, IndexNotOldest
    DEF RegisterCheckpoint, AfterRegister, StepsAgree, SavePhases
  <2>2. index \in Steps => /\ index \in actorDirs => index \in actorDirs'
                           /\ shard'[index] = shard[index]
    BY <1>8, <2>1, RemoveSpares DEF RegisterCheckpoint
  <2>3. QED
    BY <1>8, <2>2, IntactFrame DEF RegisterCheckpoint
<1>9. CASE OpenData \/ CloseData
  <2>1. index = globalSteps => rewriting
    BY <1>9 DEF OpenData, CloseData, SaveProgress, AfterDump
  <2>2. index \in Steps /\ index # globalSteps => dataFile'[index] = dataFile[index]
    BY <1>9 DEF OpenData, CloseData, TypeOK
  <2>3. QED
    BY <1>9, <2>1, <2>2, IntactFrame DEF OpenData, CloseData
<1>10. CASE TruncateIndex
  BY <1>10, ConstantsAssumption DEF TruncateIndex, ResumePointIntact
<1>11. CASE WriteIndex
  <2>1. /\ index' = globalSteps /\ committed' = globalSteps /\ pc = "indexWrite"
        /\ UNCHANGED <<actorDirs, shard, dataFile>>
    BY <1>11 DEF WriteIndex
  <2>2. /\ globalSteps \in actorDirs /\ dataFile[globalSteps] = cursor
        /\ \A r \in Ranks : shard[globalSteps][r] = weights
    BY <2>1 DEF SaveProgress, AfterDump
  <2>3. weights \in Weights /\ weights.step = globalSteps /\ cursor \in 0..StepsPerEpoch
    BY <2>1 DEF TypeOK, StepsAgree, SavePhases
  <2>4. weights.session \in 0..MaxSessions
        /\ weights = [step |-> globalSteps, session |-> weights.session]
    BY <2>3 DEF Weights
  <2>5. QED
    BY <2>1, <2>2, <2>3, <2>4 DEF ResumePointIntact, SavedExactly
<1>12. CASE UNCHANGED vars
  BY <1>12, IntactFrame DEF vars
<1>13. QED
  BY <1>1, <1>2, <1>3, <1>4, <1>5, <1>6, <1>7, <1>8, <1>9, <1>10, <1>11, <1>12
  DEF Next

\* The invariant behind the resume point, for every retention limit except one.
LEMMA IntactInvariance == ASSUME Keep # 1 PROVE Spec => []IntactInv
<1>1. Init => IntactInv
  BY TypeInvInit, ConstantsAssumption
  DEF Init, IntactInv, SaveProgress, PathsOrdered, ResumePointIntact, AfterDump,
      AfterRegister
<1>2. IntactInv /\ [Next]_vars => IntactInv'
  <2> SUFFICES ASSUME IntactInv, [Next]_vars PROVE IntactInv'
    OBVIOUS
  <2>1. TypeInv'
    BY TypeInvNext DEF IntactInv
  <2>2. QED
    BY <2>1, SaveProgressNext, PathsOrderedNext, IntactNext DEF IntactInv
<1>3. QED
  BY <1>1, <1>2, PTL DEF Spec

\* Whatever the crashes, suspensions and resumes, the index never names a
\* checkpoint that is not completely on disk, other than one that a session
\* suspended before its first step is saving again: for every retention limit
\* except one.
THEOREM ResumePointSafe == ASSUME Keep # 1 PROVE Spec => []ResumePointIntact
<1>1. IntactInv => ResumePointIntact
  BY DEF IntactInv
<1>2. QED
  BY <1>1, IntactInvariance, PTL

=============================================================================
