-------------------------- MODULE MCSignalPipeline -------------------------
\* Two requests of one rollout batch.  MaxRetract < ForceInterval: the prompt
\* is not streamed before the last retraction that could still replace it.
EXTENDS SignalPipeline

ASSUME RetractAssumption == MaxRetract < ForceInterval
=============================================================================
