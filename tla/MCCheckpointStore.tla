-------------------------- MODULE MCCheckpointStore --------------------------
(* Model-checking instances of CheckpointStore, and its refinement of        *)
(* ResumableTraining.                                                        *)
EXTENDS CheckpointStore, TLC

\* Ranks are interchangeable: no definition distinguishes them.
RankSymmetry == Permutations(Ranks)

=============================================================================
