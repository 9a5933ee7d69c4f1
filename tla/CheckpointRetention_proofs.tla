---------------------- MODULE CheckpointRetention_proofs ----------------------
(***************************************************************************)
(* What the retention of previous_saved_paths guarantees about the disk:   *)
(* the shards of the resume point are of one training (Lineage), and a     *)
(* session keeps no more actor directories of its own than                 *)
(* max_actor_ckpt_to_keep (Retained).                                      *)
(***************************************************************************)
EXTENDS CheckpointSession_proofs, FiniteSetTheorems

USE DEF Steps, NoIndex, EmptyIndex, NoData, TornData

-----------------------------------------------------------------------------
(* One training                                                            *)

\* A session is never behind the index, and while it stands at the indexed step
\* its weights are the ones that the index's shards hold or will hold again.
Lineage ==
    pc \notin {"down", "load"} /\ index \in Steps =>
        /\ index <= weights.step
        /\ index = weights.step => \A r \in Ranks : shard[index][r] \in {weights, Torn}

UniformInv == Lineage /\ ResumePointUniform

\* Both survive a step that leaves the index, its shards and the weights alone,
\* or only tears shards or completes them with the weights.
LEMMA UniformFrame ==
    ASSUME TypeInv, UniformInv, index' = index, weights' = weights,
           pc' = "down" \/ pc \notin {"down", "load"} \/ pc' = pc,
           index \in Steps => \A r \in Ranks :
               \/ shard'[index][r] = shard[index][r]
               \/ shard'[index][r] = Torn
               \/ /\ shard'[index][r] = weights /\ index = weights.step
                  /\ pc \notin {"down", "load"}
    PROVE  UniformInv'
<1>1. Lineage'
  BY DEF UniformInv, Lineage, TypeInv, TypeOK
<1>2. ASSUME index \in Steps PROVE ResumePointUniform'
  <2>1. PICK s \in 0..MaxSessions : \A r \in Ranks :
            shard[index][r] \in {[step |-> index, session |-> s], Torn}
    BY <1>2 DEF UniformInv, ResumePointUniform
  <2>2. CASE index = weights.step /\ pc \notin {"down", "load"}
    <3>1. weights.session \in 0..MaxSessions
          /\ weights = [step |-> index, session |-> weights.session]
      BY <2>2 DEF TypeInv, TypeOK, Weights
    <3>2. \A r \in Ranks : shard'[index][r] \in {weights, Torn}
      BY <1>2, <2>2 DEF UniformInv, Lineage
    <3>3. QED
      BY <3>1, <3>2 DEF ResumePointUniform
  <2>3. CASE ~(index = weights.step /\ pc \notin {"down", "load"})
    BY <1>2, <2>1, <2>3 DEF ResumePointUniform
  <2>4. QED
    BY <2>2, <2>3
<1>3. index \notin Steps => ResumePointUniform'
  BY DEF ResumePointUniform
<1>4. QED
  BY <1>1, <1>2, <1>3 DEF UniformInv

\* Every step keeps the resume point of one training.
LEMMA UniformNext ==
    ASSUME IntactInv, SessionInv, UniformInv, TypeInv', Keep # 1, [Next]_vars
    PROVE  UniformInv'
<1> USE DEF IntactInv, TypeInv, disk, loop, history
<1>1. ASSUME NEW action \in {LauncherAction, TrainAction}, Launch(action) PROVE UniformInv'
  BY <1>1 DEF Launch, UniformInv, Lineage, ResumePointUniform
<1>2. CASE RequestSuspend \/ Crash \/ LoadFails
  BY <1>2, UniformFrame DEF RequestSuspend, Crash, LoadFails, Exit
<1>3. CASE LoadNothing
  <2>1. index = NoIndex
    BY <1>3 DEF LoadNothing, SessionInv, IndexKnown, TypeOK, IndexContents
  <2>2. QED
    BY <1>3, <2>1, ConstantsAssumption DEF LoadNothing, UniformInv, Lineage, ResumePointUniform
<1>4. CASE LoadCheckpoint
  <2>1. index \in Steps /\ UNCHANGED <<index, shard>>
    BY <1>4 DEF LoadCheckpoint, FoundCheckpoint, TypeOK
  <2>2. \A r \in Ranks : shard[index][r] \in Weights /\ shard[index][r] # Torn
    BY <1>4, ContentFacts DEF LoadCheckpoint, Loadable
  <2>3. PICK s \in 0..MaxSessions : \A r \in Ranks :
            shard[index][r] \in {[step |-> index, session |-> s], Torn}
    BY <2>1 DEF UniformInv, ResumePointUniform
  <2>4. weights' = [step |-> index, session |-> s]
    BY <1>4, <2>2, <2>3 DEF LoadCheckpoint
  <2>5. Lineage'
    BY <2>1, <2>2, <2>3, <2>4 DEF Lineage
  <2>6. QED
    BY <2>1, <2>5 DEF UniformInv, ResumePointUniform
<1>5. CASE BeforeValidation \/ BeforeTraining \/ FetchBatch \/ NextEpoch \/ EpochsExhausted \/ StepEnd
  BY <1>5, UniformFrame
  DEF BeforeValidation, BeforeTraining, FetchBatch, NextEpoch, EpochsExhausted, StepEnd
<1>6. ASSUME NEW esi \in BOOLEAN, Update(esi) PROVE UniformInv'
  <2>1. /\ pc = "update" /\ UNCHANGED <<index, shard>>
        /\ weights'.step = weights.step + 1 /\ weights.step \in Nat
    BY <1>6 DEF Update, TypeOK, Weights
  <2>2. index \in Steps => index <= weights.step
    BY <2>1 DEF UniformInv, Lineage
  <2>3. QED
    BY <2>1, <2>2 DEF UniformInv, Lineage, ResumePointUniform
<1>7. CASE EnsureCheckpointCapacity
  <2>1. index \notin Oldest(CapacityExcess)
    BY <1>7, ExcessBounds, IndexNotOldest DEF EnsureCheckpointCapacity, AfterRegister
  <2>2. index \in Steps => shard'[index] = shard[index]
    BY <1>7, <2>1, RemoveSpares DEF EnsureCheckpointCapacity
  <2>3. QED
    BY <1>7, <2>2, UniformFrame DEF EnsureCheckpointCapacity
<1>8. CASE RegisterCheckpoint
  <2>1. index \notin Oldest(RegisterExcess)
    BY <1>8, ExcessBounds, IndexNotOldest
    DEF RegisterCheckpoint, AfterRegister, StepsAgree, SavePhases
  <2>2. index \in Steps => shard'[index] = shard[index]
    BY <1>8, <2>1, RemoveSpares DEF RegisterCheckpoint
  <2>3. QED
    BY <1>8, <2>2, UniformFrame DEF RegisterCheckpoint
<1>9. CASE MakeActorDir \/ AllRanksDumped \/ OpenData \/ CloseData
  BY <1>9, UniformFrame DEF MakeActorDir, AllRanksDumped, OpenData, CloseData
<1>10. ASSUME NEW r \in Ranks, OpenShard(r) \/ CloseShard(r) PROVE UniformInv'
  <2>1. pc = "shards" /\ globalSteps \in Steps /\ weights.step = globalSteps
    BY <1>10 DEF OpenShard, CloseShard, StepsAgree, SavePhases
  <2>2. \A n \in Steps, q \in Ranks :
            \/ shard'[n][q] = shard[n][q] \/ shard'[n][q] = Torn
            \/ n = globalSteps /\ shard'[n][q] = weights
    BY <1>10, <2>1 DEF OpenShard, CloseShard, TypeOK
  <2>3. QED
    BY <1>10, <2>1, <2>2, UniformFrame DEF OpenShard, CloseShard
<1>11. CASE TruncateIndex
  BY <1>11, ConstantsAssumption DEF TruncateIndex, UniformInv, Lineage, ResumePointUniform
<1>12. CASE WriteIndex
  <2>1. /\ pc = "indexWrite" /\ index' = globalSteps /\ weights.step = globalSteps
        /\ UNCHANGED <<shard, weights>> /\ weights \in Weights
        /\ \A r \in Ranks : shard[globalSteps][r] = weights
    BY <1>12 DEF WriteIndex, TypeOK, StepsAgree, SavePhases, SaveProgress, AfterDump
  <2>2. weights.session \in 0..MaxSessions
        /\ weights = [step |-> globalSteps, session |-> weights.session]
    BY <2>1 DEF Weights
  <2>3. QED
    BY <2>1, <2>2 DEF UniformInv, Lineage, ResumePointUniform, Weights
<1>13. CASE UNCHANGED vars
  BY <1>13, UniformFrame DEF vars
<1>14. QED
  BY <1>1, <1>2, <1>3, <1>4, <1>5, <1>6, <1>7, <1>8, <1>9, <1>10, <1>11, <1>12, <1>13 DEF Next

\* Even a checkpoint that is written again in place never mixes the shards of
\* two trainings of its step: for every retention limit except one.
THEOREM ResumePointOneTraining == ASSUME Keep # 1 PROVE Spec => []ResumePointUniform
<1>1. Init => UniformInv
  BY ConstantsAssumption DEF Init, UniformInv, Lineage, ResumePointUniform
<1>2. IntactInv /\ IntactInv' /\ SessionInv /\ UniformInv /\ [Next]_vars => UniformInv'
  BY UniformNext DEF IntactInv
<1>3. UniformInv => ResumePointUniform
  BY DEF UniformInv
<1>4. QED
  BY <1>1, <1>2, <1>3, IntactInvariance, SessionInvariance, PTL DEF Spec

-----------------------------------------------------------------------------
(* Retention                                                               *)

\* The directories that hold work of the running session.
Own == {n \in actorDirs : \E r \in Ranks : shard[n][r].session = session /\ session > 0}
\* The directories that the session tracks.
Paths == {savedPaths[i] : i \in 1..Len(savedPaths)}

\* No shard is from a session yet to come, and the session's own directories
\* are tracked, but for the one that a save is writing: for it there is room.
Retained ==
    /\ weights.session <= session
    /\ \A n \in Steps, r \in Ranks : shard[n][r].session <= session
    /\ pc \notin {"mkdir", "shards", "register", "down"} =>
        Own \subseteq Paths /\ Len(savedPaths) <= Keep
    /\ pc = "mkdir" => Own \subseteq Paths /\ Len(savedPaths) <= Keep - 1
    /\ pc \in {"shards", "register"} =>
        Own \subseteq Paths \cup {globalSteps} /\ Len(savedPaths) <= Keep - 1
    /\ pc = "down" =>
        \/ Own \subseteq Paths /\ Len(savedPaths) <= Keep
        \/ \E n \in Steps : Own \subseteq Paths \cup {n} /\ Len(savedPaths) <= Keep - 1

\* Whatever a shard file holds, it is of a session number.
LEMMA ShardSession ==
    /\ \A c \in ShardContents : c.session \in Nat
    /\ Torn.session = 0 /\ Absent.session = 0
BY ConstantsAssumption DEF ShardContents, Weights, Torn, Absent

\* A list has at most as many different elements as it is long.
LEMMA PathsCardinality ==
    ASSUME NEW S, NEW s \in Seq(S)
    PROVE  /\ IsFiniteSet({s[i] : i \in 1..Len(s)})
           /\ Cardinality({s[i] : i \in 1..Len(s)}) <= Len(s)
<1> DEFINE D == 1..Len(s)
           T == {s[i] : i \in D}
           f == [i \in D |-> s[i]]
<1>1. IsFiniteSet(D) /\ Cardinality(D) = Len(s)
  <2>1. Len(s) \in Nat /\ Len(s) \in Int /\ 1 \in Int
    OBVIOUS
  <2>2. /\ IsFiniteSet(1..Len(s))
        /\ Cardinality(1..Len(s)) = IF 1 > Len(s) THEN 0 ELSE Len(s) - 1 + 1
    BY <2>1, FS_Interval, Zenon
  <2>3. QED
    BY <2>1, <2>2
<1>2. f \in Surjection(D, T)
  BY DEF Surjection
<1> HIDE DEF D, T, f
<1>3. IsFiniteSet(T) /\ Cardinality(T) <= Cardinality(D)
  BY <1>1, <1>2, FS_Surjection
<1>4. QED
  BY <1>1, <1>3 DEF T, D

\* The bound on the session's directories follows.
LEMMA RetainedBounds ==
    ASSUME TypeOK, Retained, Keep > 1
    PROVE  Cardinality(Own) <= Keep
<1>1. Len(savedPaths) \in Nat /\ IsFiniteSet(Paths) /\ Cardinality(Paths) <= Len(savedPaths)
  BY PathsCardinality DEF TypeOK, Paths
<1>2. Cardinality(Paths) \in Nat /\ Keep \in Nat
  BY <1>1, FS_CardinalityType, ConstantsAssumption
<1>3. CASE Own \subseteq Paths /\ Len(savedPaths) <= Keep
  <2>1. Cardinality(Own) <= Cardinality(Paths) /\ IsFiniteSet(Own)
    BY <1>1, <1>3, FS_Subset
  <2>2. QED
    BY <1>1, <1>2, <1>3, <2>1, FS_CardinalityType
<1>4. ASSUME NEW n, Own \subseteq Paths \cup {n}, Len(savedPaths) <= Keep - 1
      PROVE  Cardinality(Own) <= Keep
  <2>1. IsFiniteSet(Paths \cup {n}) /\ Cardinality(Paths \cup {n}) <= Cardinality(Paths) + 1
    BY <1>1, <1>2, FS_AddElement
  <2>2. Cardinality(Own) <= Cardinality(Paths \cup {n}) /\ IsFiniteSet(Own)
    BY <1>4, <2>1, FS_Subset
  <2>3. Cardinality(Own) \in Nat /\ Cardinality(Paths \cup {n}) \in Nat
    BY <2>1, <2>2, FS_CardinalityType
  <2>4. QED
    BY <1>1, <1>2, <1>4, <2>1, <2>2, <2>3
<1>5. QED
  BY <1>1, <1>2, <1>3, <1>4 DEF Retained

\* The invariant survives a step that leaves disk, list and session alone.
LEMMA RetainedFrame ==
    ASSUME Retained, TypeOK, Keep > 1,
           UNCHANGED <<shard, session, savedPaths, actorDirs>>,
           weights'.session <= session,
           \/ pc' = pc /\ globalSteps' = globalSteps
           \/ pc' = "down" /\ (pc \in {"shards", "register"} => globalSteps \in Steps)
           \/ /\ pc \notin {"mkdir", "shards", "register", "down"}
              /\ pc' \notin {"mkdir", "shards", "register"}
    PROVE  Retained'
<1>1. Own' = Own /\ Paths' = Paths /\ Len(savedPaths') = Len(savedPaths)
  BY DEF Own, Paths
<1>2. Len(savedPaths) \in Nat /\ Keep \in Nat
  BY ConstantsAssumption DEF TypeOK
<1>3. Len(savedPaths) <= Keep - 1 => Len(savedPaths) <= Keep
  BY <1>2
<1>4. QED
  BY <1>1, <1>3 DEF Retained

\* Dropping the k oldest removes their directories and leaves the rest tracked.
LEMMA RemoveOwn ==
    ASSUME TypeOK, NEW k \in 0..Len(savedPaths), Remove(k), session' = session
    PROVE  /\ Own' \subseteq Own \ Oldest(k)
           /\ Paths \ Oldest(k) \subseteq {savedPaths[i] : i \in (k + 1)..Len(savedPaths)}
<1>1. Own' \subseteq Own \ Oldest(k)
  BY DEF Own, Remove, TypeOK
<1>2. ASSUME NEW i \in 1..Len(savedPaths), savedPaths[i] \notin Oldest(k)
      PROVE  i \in (k + 1)..Len(savedPaths)
  BY <1>2 DEF Oldest, TypeOK
<1>3. QED
  BY <1>1, <1>2 DEF Paths

\* Every step of a session keeps its directories within the limit.
LEMMA RetainedNext ==
    ASSUME TypeInv, TypeInv', Retained, Keep > 1, [Next]_vars
    PROVE  Retained'
<1> USE DEF TypeInv, disk, loop, history
<1>0. /\ session \in Nat /\ weights.session \in Nat /\ Len(savedPaths) \in Nat /\ Keep \in Nat
      /\ weights.session <= session
  BY ConstantsAssumption DEF TypeOK, Weights, Retained
<1>1. ASSUME NEW action \in {LauncherAction, TrainAction}, Launch(action) PROVE Retained'
  <2>1. /\ pc' = "load" /\ session' = session + 1 /\ weights'.session = 0
        /\ savedPaths' = <<>> /\ UNCHANGED <<shard, actorDirs>>
    BY <1>1 DEF Launch
  <2>2. \A n \in Steps, r \in Ranks : shard[n][r].session \in Nat /\ shard[n][r].session <= session
    BY ShardSession DEF Retained, TypeOK
  <2>3. Own' = {}
    <3>1. \A n \in actorDirs, r \in Ranks : shard[n][r].session # session + 1
      BY <1>0, <2>2 DEF TypeOK
    <3>2. QED
      BY <2>1, <3>1 DEF Own
  <2>4. QED
    BY <1>0, <2>1, <2>2, <2>3 DEF Retained
<1>2. CASE RequestSuspend \/ Crash \/ LoadNothing \/ LoadFails
  BY <1>0, <1>2, RetainedFrame
  DEF RequestSuspend, Crash, LoadNothing, LoadFails, Exit, StepsAgree, SavePhases
<1>3. CASE LoadCheckpoint
  <2>1. weights'.session <= session
    BY <1>3 DEF LoadCheckpoint, FoundCheckpoint, Retained, TypeOK
  <2>2. QED
    BY <1>3, <2>1, RetainedFrame DEF LoadCheckpoint
<1>4. CASE BeforeValidation \/ BeforeTraining \/ FetchBatch \/ NextEpoch \/ EpochsExhausted \/ StepEnd
  BY <1>0, <1>4, RetainedFrame
  DEF BeforeValidation, BeforeTraining, FetchBatch, NextEpoch, EpochsExhausted, StepEnd, StartSave, Exit
<1>5. ASSUME NEW esi \in BOOLEAN, Update(esi) PROVE Retained'
  BY <1>0, <1>5, RetainedFrame DEF Update, StartSave
<1>6. CASE EnsureCheckpointCapacity
  <2> DEFINE k == CapacityExcess
  <2>1. k \in 0..Len(savedPaths) /\ Len(savedPaths) - k <= Keep - 1
    BY <1>0 DEF CapacityExcess, Surplus
  <2>2. /\ Len(savedPaths') = Len(savedPaths) - k
        /\ \A i \in 1..(Len(savedPaths) - k) : savedPaths'[i] = savedPaths[i + k]
    BY <1>6, <2>1, CapacityTrims DEF TypeOK
  <2> HIDE DEF k
  <2>3. Own \subseteq Paths /\ pc' = "mkdir" /\ Remove(k) /\ UNCHANGED <<session, weights>>
    BY <1>6 DEF EnsureCheckpointCapacity, Retained, k
  <2>4. \A i \in (k + 1)..Len(savedPaths) : savedPaths[i] \in Paths'
    <3>1. ASSUME NEW i \in (k + 1)..Len(savedPaths) PROVE savedPaths[i] \in Paths'
      <4>1. i - k \in 1..(Len(savedPaths) - k) /\ (i - k) + k = i
        BY <1>0, <2>1
      <4>2. savedPaths'[i - k] = savedPaths[i]
        BY <2>2, <4>1
      <4>3. QED
        BY <2>2, <4>1, <4>2 DEF Paths
    <3>2. QED
      BY <3>1
  <2>5. Own' \subseteq Paths'
    BY <2>1, <2>3, <2>4, RemoveOwn
  <2>6. \A n \in Steps, r \in Ranks : shard'[n][r].session <= session
    BY <1>0, <2>3, ShardSession DEF Remove, Retained
  <2>7. QED
    BY <1>0, <2>1, <2>2, <2>3, <2>5, <2>6 DEF Retained
<1>7. CASE MakeActorDir
  <2>1. /\ pc = "mkdir" /\ pc' = "shards" /\ actorDirs' = actorDirs \cup {globalSteps}
        /\ UNCHANGED <<shard, session, savedPaths, weights, globalSteps>>
    BY <1>7 DEF MakeActorDir
  <2>2. Own' \subseteq Own \cup {globalSteps} /\ Paths' = Paths
    BY <2>1 DEF Own, Paths
  <2>3. QED
    BY <2>1, <2>2 DEF Retained
<1>8. ASSUME NEW r \in Ranks, OpenShard(r) \/ CloseShard(r) PROVE Retained'
  <2>1. /\ pc = "shards" /\ pc' = "shards" /\ globalSteps \in Steps
        /\ UNCHANGED <<actorDirs, session, savedPaths, weights, globalSteps>>
    BY <1>8 DEF OpenShard, CloseShard, StepsAgree, SavePhases
  <2>2. \A n \in Steps : n # globalSteps => shard'[n] = shard[n]
    BY <1>8, <2>1 DEF OpenShard, CloseShard, TypeOK
  <2>3. Own' \subseteq Own \cup {globalSteps} /\ Paths' = Paths
    BY <2>1, <2>2 DEF Own, Paths, TypeOK
  <2>4. \A n \in Steps, q \in Ranks : shard'[n][q].session <= session
    <3>1. \A n \in Steps, q \in Ranks : shard'[n][q] \in {shard[n][q], Torn, weights}
      BY <1>8, <2>1 DEF OpenShard, CloseShard, TypeOK
    <3>2. QED
      BY <1>0, <3>1, ShardSession DEF Retained
  <2>5. QED
    BY <1>0, <2>1, <2>3, <2>4 DEF Retained
<1>9. CASE AllRanksDumped
  <2>1. /\ pc = "shards" /\ pc' = "register"
        /\ UNCHANGED <<shard, actorDirs, session, savedPaths, weights, globalSteps>>
    BY <1>9 DEF AllRanksDumped
  <2>2. Own' = Own /\ Paths' = Paths
    BY <2>1 DEF Own, Paths
  <2>3. QED
    BY <2>1, <2>2 DEF Retained
<1>10. CASE RegisterCheckpoint
  <2>1. /\ pc = "register" /\ pc' = "dataOpen" /\ globalSteps \in Steps
        /\ UNCHANGED <<session, weights>>
    BY <1>10 DEF RegisterCheckpoint, StepsAgree, SavePhases
  <2>2. Len(Append(savedPaths, globalSteps)) = Len(savedPaths) + 1 /\ Len(savedPaths) <= Keep - 1
    BY <2>1 DEF TypeOK, Retained
  <2>3. RegisterExcess = 0
    BY <1>0, <2>2 DEF RegisterExcess, Surplus
  <2>4. /\ Len(savedPaths') = Len(savedPaths) + 1
        /\ \A i \in 1..(Len(savedPaths) + 1) :
              savedPaths'[i] = Append(savedPaths, globalSteps)[i + 0]
    BY <1>0, <1>10, <2>1, <2>3, RegisterTrims DEF TypeOK
  <2>5. /\ savedPaths'[Len(savedPaths) + 1] = globalSteps
        /\ \A i \in 1..Len(savedPaths) : savedPaths'[i] = savedPaths[i]
    BY <1>0, <2>1, <2>4 DEF TypeOK
  <2>6. Paths \cup {globalSteps} \subseteq Paths'
    BY <1>0, <2>4, <2>5 DEF Paths
  <2>7. Own' \subseteq Own
    BY <1>0, <1>10, <2>1, <2>3, RemoveOwn DEF RegisterCheckpoint
  <2>8. \A n \in Steps, r \in Ranks : shard'[n][r].session <= session
    BY <1>0, <1>10, ShardSession DEF RegisterCheckpoint, Remove, Retained
  <2>9. QED
    BY <1>0, <2>1, <2>2, <2>4, <2>6, <2>7, <2>8 DEF Retained
<1>11. CASE OpenData \/ CloseData \/ TruncateIndex \/ WriteIndex
  BY <1>0, <1>11, RetainedFrame DEF OpenData, CloseData, TruncateIndex, WriteIndex, Exit
<1>12. CASE UNCHANGED vars
  BY <1>0, <1>12, RetainedFrame DEF vars
<1>13. QED
  BY <1>1, <1>2, <1>3, <1>4, <1>5, <1>6, <1>7, <1>8, <1>9, <1>10, <1>11, <1>12 DEF Next

\* With room for two or more checkpoints a session never holds more of its own
\* actor directories than max_actor_ckpt_to_keep, not even during a save, for
\* every limit, save frequency and length of training.
THEOREM RetentionSafe == Spec => []RetentionInSession
<1>1. CASE Keep > 1
  <2>1. Init => Retained
    BY <1>1, ConstantsAssumption, ShardSession DEF Init, Retained, Own, Paths
  <2>2. TypeInv /\ TypeInv' /\ Retained /\ [Next]_vars => Retained'
    BY <1>1, RetainedNext
  <2>3. TypeInv /\ Retained => RetentionInSession
    BY <1>1, RetainedBounds DEF TypeInv, RetentionInSession, Own
  <2>4. QED
    BY <2>1, <2>2, <2>3, TypeInvInit, TypeInvNext, PTL DEF Spec
<1>2. CASE ~(Keep > 1)
  <2>1. RetentionInSession
    BY <1>2 DEF RetentionInSession
  <2>2. QED
    BY <2>1, PTL
<1>3. QED
  BY <1>1, <1>2

=============================================================================
