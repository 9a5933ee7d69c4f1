-------------------------- MODULE ResumableTraining --------------------------
(***************************************************************************)
(* What the checkpoint store and the trainer promise together, without any *)
(* file: training is a counter of updates, some prefix of which is         *)
(* durable.  A session starts from exactly the durable prefix, adds one    *)
(* update at a time, and may make its updates durable; when it ends or     *)
(* crashes only the durable ones remain.                                   *)
(***************************************************************************)
EXTENDS Naturals

CONSTANT Total  \* the number of updates of a whole run

VARIABLES
    durable,  \* updates that survive a crash
    done,     \* updates the running session's weights have seen
    running   \* a session has loaded its weights and has not ended

rtVars == <<durable, done, running>>

RTInit == durable = 0 /\ done = 0 /\ running = FALSE

Start == ~running /\ running' = TRUE /\ done' = durable /\ UNCHANGED durable

Learn == /\ running /\ done < Total
         /\ done' = done + 1
         /\ UNCHANGED <<durable, running>>

Persist == running /\ durable' = done /\ UNCHANGED <<done, running>>

\* A session ends, with or without a last commit.
Stop == /\ running /\ running' = FALSE
        /\ durable' \in {durable, done}
        /\ done' = 0

RTNext == Start \/ Learn \/ Persist \/ Stop

RTSpec == RTInit /\ [][RTNext]_rtVars

=============================================================================
