---------------------------- MODULE DraftRefresh ----------------------------
(***************************************************************************)
(* One call of train_mini_batch on every data-parallel rank: the policy    *)
(* update, the update of the draft head, and around them the probe and,    *)
(* on refresh steps, the selection of trajectories whose teacher is        *)
(* replaced before the one deferred head update.                           *)
(*                                                                         *)
(* Every rank runs its own program on its own rows and meets the others    *)
(* only in collectives (reductions, gathers, and every forward or backward *)
(* pass of the sharded model).  todo[k] holds the collectives rank k will  *)
(* enter next, worked out from what rank k knows; one completes when every *)
(* rank has reached it.                                                    *)
(*                                                                         *)
(* Data.  A row is a trajectory: its number of cycles, its advantage, and  *)
(* the divergence kl its verifier distributions show once the policy has   *)
(* changed; the first fit of its cycles are within the probe's context.  A *)
(* gradient is the set of rows that contributed to it; the weights are the *)
(* policy steps applied so far; a learning rate is the scheduler step it   *)
(* belongs to.                                                             *)
(***************************************************************************)
EXTENDS Integers, Sequences, FiniteSets, SequencesExt, FiniteSetsExt

CONSTANTS
    NumRanks,       \* data-parallel size
    NumRows,        \* rows in each rank's share
    NumMini,        \* mini-batches each share is split into; one epoch
    Kinds,          \* what a row may hold: [cycles, fit, advantage, finite, kl]
    Modes,          \* subset of {"plain", "probe", "refresh"}
    MaxCycles,      \* comparison_probe_max_cycles
    Priorities,     \* values the sampling priority of a probe case takes
    FracNum,        \* comparison_refresh_fraction is FracNum / FracDen
    FracDen

ASSUME RefreshAssumption ==
    /\ NumRanks \in Nat \ {0}
    /\ NumRows \in Nat \ {0}
    /\ NumMini \in Nat \ {0} /\ NumRows % NumMini = 0
    /\ Kinds \subseteq [cycles : Nat, fit : Nat, advantage : Int, finite : BOOLEAN, kl : Nat]
    /\ Modes \subseteq {"plain", "probe", "refresh"}
    /\ MaxCycles \in Nat \ {0}
    /\ Priorities \subseteq Nat
    /\ FracNum \in Nat /\ FracDen \in Nat \ {0} /\ FracNum <= FracDen

Ranks == 0 .. NumRanks - 1
\* trajectory_key: the source rank and the row's index in the rollout batch.
Keys == Ranks \X (1 .. NumRows)

VARIABLES
    mode,       \* no comparison_probe_step, one without or one with a refresh
    batch,      \* what each row holds
    pc,         \* where each rank is in train_mini_batch
    todo,       \* the collectives it is about to enter
    mini,       \* mini-batches it has started
    cases,      \* snapshot["cases"]
    records,    \* snapshot["records"], in order
    counts,     \* snapshot["global_trajectories"] and ["global_cycles"]
    cycles,     \* mtp_cycles of the mini-batch
    shift,      \* trajectory scores, measured by rank 0
    selected,   \* keys of the selected trajectories
    draftLr,    \* snapshot["draft_lr"]
    scheduledLr,\* refresh_draft_teacher's scheduled_lr
    headLr,     \* learning rate of the mtp parameter group
    policyGrad, \* .grad of the policy parameters, {} for None
    headGrad,   \* .grad of the head's parameters: rows with their teacher
    policyLog,  \* gradients the optimizer has applied to the policy
    headLog,    \* gradients it has applied to the head, each with its rate
    skipped,    \* optimizer steps skipped for a non-finite norm
    cache,      \* rank 0's file of old distributions
    at          \* position in it

control == <<pc, todo, mini>>
probing == <<cases, records, counts, draftLr>>
scoring == <<shift, selected, cache, at>>
optimizer == <<scheduledLr, headLr, policyGrad, headGrad, policyLog, headLog, skipped>>
vars == <<mode, batch, control, probing, cycles, scoring, optimizer>>

\* Order of pairs: by the first component, then by the second.
Before(a, b) == a[1] < b[1] \/ (a[1] = b[1] /\ a[2] < b[2])

\* sorted: the elements of S in an order that is total on S, each at its place
\* (written out, since the library's SortSeq is closed to the prover).
InOrder(S, before(_, _)) ==
    [i \in 1 .. Cardinality(S) |-> CHOOSE x \in S : Cardinality({y \in S : before(y, x)}) = i - 1]
Sorted(S) == InOrder(S, Before)

\* Rows of rank k that carry verification cycles, and those of them that
\* capture_comparison_probe keeps as records.
Recorded(k) == {r \in Keys : r[1] = k /\ batch[r].cycles > 0}
LocalRecords(k) == {r \in Recorded(k) : batch[r].finite}

MiniOf(i) == ((i - 1) * NumMini) \div NumRows + 1
MiniRows(m) == {r \in Keys : MiniOf(r[2]) = m}
\* Micro-batches of one row.
MicroBatches(m) == {i \in 1 .. NumRows : MiniOf(i) = m}

\* The cycles of a row set, and their number.
CyclesOf(rows) == UNION {{r} \X (1 .. batch[r].cycles) : r \in rows}
Cycles(rows) == Cardinality(CyclesOf(rows))

\* record_cases over the records of seq that are in rows: one verifier
\* forward per cycle, record after record.
RecordCases(seq, rows) ==
    LET kept == {i \in 1 .. Len(seq) : seq[i] \in rows}
        each == Sorted(UNION {{i} \X (1 .. batch[seq[i]].cycles) : i \in kept})
    IN  [n \in 1 .. Len(each) |-> <<seq[each[n][1]], each[n][2]>>]

\* The forwards that iter_evaluations makes for a list of cases.
Forwards(tag, seq) == [i \in 1 .. Len(seq) |-> <<tag, seq[i]>>]

\* The weights a forward pass uses are gathered from every rank's shard.
Weights == [k \in Ranks |-> Len(policyLog[k])]

Init ==
    /\ mode \in Modes
    /\ batch \in [Keys -> Kinds]
    /\ pc = [k \in Ranks |-> "begin"]
    /\ todo = [k \in Ranks |-> <<>>]
    /\ mini = [k \in Ranks |-> 0]
    /\ cases = [k \in Ranks |-> <<>>]
    /\ records = [k \in Ranks |-> <<>>]
    /\ counts = [k \in Ranks |-> [trajectories |-> 0, cycles |-> 0]]
    /\ cycles = [k \in Ranks |-> 0]
    /\ shift = [k \in Ranks |-> [r \in Keys |-> 0]]
    /\ selected = [k \in Ranks |-> <<>>]
    /\ draftLr = [k \in Ranks |-> 0]
    /\ scheduledLr = [k \in Ranks |-> 0]
    /\ headLr = [k \in Ranks |-> 0]
    /\ policyGrad = [k \in Ranks |-> {}]
    /\ headGrad = [k \in Ranks |-> {}]
    /\ policyLog = [k \in Ranks |-> <<>>]
    /\ headLog = [k \in Ranks |-> <<>>]
    /\ skipped = [k \in Ranks |-> {}]
    /\ cache = <<>>
    /\ at = 0

(***************************************************************************)
(* The ranks' own steps, between collectives.                              *)
(***************************************************************************)

\* Rank k, with no collective left to enter, goes on to stage to, where it
\* will enter those of ops.
Goto(k, from, to, ops) ==
    /\ pc[k] = from
    /\ todo[k] = <<>>
    /\ pc' = [pc EXCEPT ![k] = to]
    /\ todo' = [todo EXCEPT ![k] = ops]

Deferred == mode = "refresh"

\* Descending by priority, source rank, trajectory and cycle (heapq.nlargest).
Larger(a, b) ==
    \/ a.priority > b.priority
    \/ a.priority = b.priority /\ Before(b.row, a.row)

\* Mutant: the budget of the probe is not applied.
LargestAll(s) == InOrder(s, Larger)

Largest(s) ==
    LET sorted == InOrder(s, Larger)
    IN  SubSeq(sorted, 1, Min({MaxCycles, Len(sorted)}))

\* capture_comparison_probe up to the exchange of the probe cases: one cycle
\* of each record, with a random priority, at most MaxCycles in all.
CaptureProbe(k) ==
    /\ mode # "plain"
    /\ Goto(k, "begin", "probe", <<<<"coverage">>, <<"cases">>>>)
    /\ LET rows == {r \in LocalRecords(k) : batch[r].fit > 0}
       IN  \E c \in [rows -> UNION {1 .. batch[r].fit : r \in rows}], p \in [rows -> Priorities] :
             /\ \A r \in rows : c[r] <= batch[r].fit
             /\ cases' = [cases EXCEPT ![k] =
                   Largest({[row |-> r, cycle |-> c[r], priority |-> p[r]] : r \in rows})]
    /\ UNCHANGED <<mode, batch, mini, records, counts, draftLr, cycles, scoring, optimizer>>

\* evaluate_cases before the update, then gather_trajectories on a refresh step.
EvaluateOld(k) ==
    /\ Goto(k, "probe", "gather", Forwards("old", cases[k]) \o
                                  (IF Deferred THEN <<<<"gather">>>> ELSE <<>>))
    /\ UNCHANGED <<mode, batch, mini, probing, cycles, scoring, optimizer>>

Positive == {r \in Keys : batch[r].advantage > 0}

\* capture_shift over the records with a positive advantage.
CaptureShift(k) ==
    /\ Goto(k, "gather", "loop",
            IF Deferred THEN Forwards("capture", RecordCases(records[k], Positive)) ELSE <<>>)
    /\ draftLr' = IF Deferred THEN [draftLr EXCEPT ![k] = headLr[k]] ELSE draftLr
    /\ UNCHANGED <<mode, batch, mini, cases, records, counts, cycles, scoring, optimizer>>

\* train_mini_batch without a probe step.
SkipProbe(k) ==
    /\ mode = "plain"
    /\ Goto(k, "begin", "loop", <<>>)
    /\ UNCHANGED <<mode, batch, mini, probing, cycles, scoring, optimizer>>

\* train_batch: zero_grad, and the reductions that open forward_backward_batch.
TrainBatch(k) ==
    LET m == mini[k] + 1
    IN  /\ m <= NumMini
        /\ Goto(k, "loop", "backward",
                <<<<"tokens", m>>>> \o (IF Deferred THEN <<>> ELSE <<<<"cycles", m>>>>))
        /\ mini' = [mini EXCEPT ![k] = m]
        /\ policyGrad' = [policyGrad EXCEPT ![k] = {}]
        /\ headGrad' = [headGrad EXCEPT ![k] = {}]
        /\ cycles' = [cycles EXCEPT ![k] = 0]
        /\ UNCHANGED <<mode, batch, probing, scoring, scheduledLr, headLr, policyLog, headLog, skipped>>

\* Mutant: a rank without a cycle in its own mini-batch returns early.
HeadPassLocal(k, m) == cycles[k] # 0 /\ Cycles({r \in MiniRows(m) : r[1] = k}) > 0

\* Mutant: the head is trained in the mini-batches of a refresh step too.
HeadPassAlways(k, m) == TRUE

\* Whether backward_head reaches the head's reduce-scatter: it returns early
\* only when no rank has a cycle, and runs an empty graph when it has none.
HeadPass(k, m) == cycles[k] # 0

\* The passes of every micro-batch, then optimizer_step's gradient norm.
ForwardBackward(k) ==
    LET m == mini[k]
        models == IF HeadPass(k, m) THEN <<"policy", "head">> ELSE <<"policy">>
        each == Sorted(MicroBatches(m) \X DOMAIN models)
    IN  /\ Goto(k, "backward", "step",
                Append([n \in 1 .. Len(each) |-> <<models[each[n][2]], m, each[n][1]>>], <<"norm">>))
        /\ UNCHANGED <<mode, batch, mini, probing, cycles, scoring, optimizer>>

\* After the last mini-batch the scheduler sets the next rate.
EndBatch(k) ==
    /\ Goto(k, "step", "loop", <<>>)
    /\ headLr' = IF mini[k] = NumMini THEN [headLr EXCEPT ![k] = @ + 1] ELSE headLr
    /\ UNCHANGED <<mode, batch, mini, probing, cycles, scoring, scheduledLr, policyGrad, headGrad,
                   policyLog, headLog, skipped>>

\* Mutant: the cache is read from where it was last written.
ScoreShiftNoSeek(k) ==
    /\ Deferred
    /\ mini[k] = NumMini
    /\ Goto(k, "loop", "score",
            Append(Forwards("score", RecordCases(records[k], Positive)), <<"broadcast">>))
    /\ at' = IF k = 0 THEN Len(cache) ELSE at
    /\ UNCHANGED <<mode, batch, mini, probing, cycles, shift, selected, cache, optimizer>>

\* score_shift: rank 0 rewinds its cache, every rank replays the same cases.
ScoreShift(k) ==
    /\ Deferred
    /\ mini[k] = NumMini
    /\ Goto(k, "loop", "score",
            Append(Forwards("score", RecordCases(records[k], Positive)), <<"broadcast">>))
    /\ at' = IF k = 0 THEN 0 ELSE at
    /\ UNCHANGED <<mode, batch, mini, probing, cycles, shift, selected, cache, optimizer>>

Score(k, r) == Max({batch[r].advantage, 0}) * shift[k][r]

\* Mutant: the fraction is taken of the positive trajectories only.
SelectOfPositive(k) ==
    LET positive == {r \in ToSet(records[k]) : Score(k, r) > 0}
        count == (FracNum * Cardinality(positive) + FracDen - 1) \div FracDen
        better(a, b) == Score(k, a) > Score(k, b) \/ (Score(k, a) = Score(k, b) /\ Before(a, b))
    IN  SubSeq(InOrder(positive, better), 1, count)

\* select_trajectories: the highest positive scores, up to the fraction of
\* all records rounded up; ties go to the smaller key.
SelectTrajectories(k) ==
    LET positive == {r \in ToSet(records[k]) : Score(k, r) > 0}
        count == Min({Cardinality(positive), (FracNum * Len(records[k]) + FracDen - 1) \div FracDen})
        better(a, b) == Score(k, a) > Score(k, b) \/ (Score(k, a) = Score(k, b) /\ Before(a, b))
    IN  SubSeq(InOrder(positive, better), 1, count)

\* mixed_teacher_batch evaluates every cycle of the selected trajectories.
MixedTeacherBatch(k) ==
    /\ selected' = [selected EXCEPT ![k] = SelectTrajectories(k)]
    /\ Goto(k, "score", "teacher", Forwards("teacher", RecordCases(selected'[k], Keys)))
    /\ UNCHANGED <<mode, batch, mini, probing, cycles, shift, cache, at, optimizer>>

\* Mutant: the gradients of the last mini-batch are not reset.
RefreshKeepingGrad(k) ==
    /\ Goto(k, "teacher", "refresh",
            IF counts[k].cycles > 0 THEN <<<<"refresh">>, <<"norm">>>> ELSE <<>>)
    /\ scheduledLr' = [scheduledLr EXCEPT ![k] = headLr[k]]
    /\ headLr' = [headLr EXCEPT ![k] = draftLr[k]]
    /\ UNCHANGED <<mode, batch, mini, probing, cycles, scoring, policyGrad, headGrad, policyLog,
                   headLog, skipped>>

\* refresh_draft_teacher: one head step at the rate of the captured step.
RefreshDraftTeacher(k) ==
    /\ Goto(k, "teacher", "refresh",
            IF counts[k].cycles > 0 THEN <<<<"refresh">>, <<"norm">>>> ELSE <<>>)
    /\ policyGrad' = [policyGrad EXCEPT ![k] = {}]
    /\ headGrad' = [headGrad EXCEPT ![k] = {}]
    /\ scheduledLr' = [scheduledLr EXCEPT ![k] = headLr[k]]
    /\ headLr' = [headLr EXCEPT ![k] = draftLr[k]]
    /\ UNCHANGED <<mode, batch, mini, probing, cycles, scoring, policyLog, headLog, skipped>>

\* Mutant: the scheduled rate is not put back.
KeepDraftRate(k) ==
    /\ Goto(k, "refresh", "new", Forwards("new", cases[k]))
    /\ policyGrad' = [policyGrad EXCEPT ![k] = {}]
    /\ headGrad' = [headGrad EXCEPT ![k] = {}]
    /\ UNCHANGED <<mode, batch, mini, probing, cycles, scoring, scheduledLr, headLr, policyLog,
                   headLog, skipped>>

\* Its finally block: headLr is the scheduled rate again.
RestoreRate(k) ==
    /\ Goto(k, "refresh", "new", Forwards("new", cases[k]))
    /\ headLr' = [headLr EXCEPT ![k] = scheduledLr[k]]
    /\ policyGrad' = [policyGrad EXCEPT ![k] = {}]
    /\ headGrad' = [headGrad EXCEPT ![k] = {}]
    /\ UNCHANGED <<mode, batch, mini, probing, cycles, scoring, scheduledLr, policyLog, headLog, skipped>>

\* finish_comparison_probe without a refresh: only the probe is repeated.
EvaluateNew(k) ==
    /\ mode = "probe"
    /\ mini[k] = NumMini
    /\ Goto(k, "loop", "new", Forwards("new", cases[k]))
    /\ UNCHANGED <<mode, batch, mini, probing, cycles, scoring, optimizer>>

ReduceDurations(k) ==
    /\ mini[k] = NumMini
    /\ Goto(k, IF mode = "plain" THEN "loop" ELSE "new", "durations", <<<<"durations">>>>)
    /\ UNCHANGED <<mode, batch, mini, probing, cycles, scoring, optimizer>>

Return(k) ==
    /\ Goto(k, "durations", "done", <<>>)
    /\ UNCHANGED <<mode, batch, mini, probing, cycles, scoring, optimizer>>

(***************************************************************************)
(* The collectives: one completes when it is the next one of every rank.   *)
(***************************************************************************)

Entered(op) == \A k \in Ranks : todo[k] # <<>> /\ Head(todo[k]) = op

Complete(op) ==
    /\ Entered(op)
    /\ todo' = [k \in Ranks |-> Tail(todo[k])]
    /\ UNCHANGED <<mode, batch, mini>>

\* Every rank raises: the replicated distributions were not finite.
AllRaise(op) ==
    /\ Entered(op)
    /\ pc' = [k \in Ranks |-> "raised"]
    /\ todo' = [k \in Ranks |-> <<>>]
    /\ UNCHANGED <<mode, batch, mini, probing, cycles, scoring, optimizer>>

\* Collectives that leave nothing behind but metrics, counters of tokens, or
\* distributions that are only reported.
Passing == {"coverage", "old", "teacher", "new", "tokens", "durations"}

PassThrough ==
    /\ todo[0] # <<>>
    /\ Head(todo[0])[1] \in Passing
    /\ Complete(Head(todo[0]))
    /\ UNCHANGED <<pc, probing, cycles, scoring, optimizer>>

\* synchronized_cases: the largest of every rank's cases.
SynchronizedCases ==
    /\ Complete(<<"cases">>)
    /\ LET parts == UNION {ToSet(cases[k]) : k \in Ranks}
       IN  cases' = [k \in Ranks |-> Largest(parts)]
    /\ UNCHANGED <<pc, records, counts, draftLr, cycles, scoring, optimizer>>

\* gather_trajectories: every rank's records, sorted by key.
GatherTrajectories ==
    /\ Complete(<<"gather">>)
    /\ records' = [k \in Ranks |-> Sorted(UNION {LocalRecords(j) : j \in Ranks})]
    /\ counts' = [k \in Ranks |-> [trajectories |-> Cardinality(Keys), cycles |-> Cycles(Keys)]]
    /\ UNCHANGED <<pc, cases, draftLr, cycles, scoring, optimizer>>

\* A forward of capture_shift; rank 0 writes the old distribution.
WriteOld ==
    \E r \in Keys : \E c \in 1 .. batch[r].cycles :
        LET op == <<"capture", <<r, c>>>>
        IN  \/ /\ Complete(op)
               /\ cache' = Append(cache, [case |-> <<r, c>>, seen |-> Weights])
               /\ UNCHANGED <<pc, probing, cycles, shift, selected, at, optimizer>>
            \/ AllRaise(op)

\* The sum of the mini-batch's cycles over the ranks.
ReduceCycles ==
    \E m \in 1 .. NumMini :
        /\ Complete(<<"cycles", m>>)
        /\ cycles' = [k \in Ranks |-> Cycles(MiniRows(m))]
        /\ UNCHANGED <<pc, probing, scoring, optimizer>>

\* The policy's backward pass of micro-batch i; gradients are reduced over
\* the ranks and added to what .grad holds.
PolicyBackward ==
    \E m \in 1 .. NumMini, i \in 1 .. NumRows :
        /\ Complete(<<"policy", m, i>>)
        /\ policyGrad' = [k \in Ranks |-> policyGrad[k] \union {<<j, i>> : j \in Ranks}]
        /\ UNCHANGED <<pc, probing, cycles, scoring, scheduledLr, headLr, headGrad, policyLog,
                       headLog, skipped>>

Taught(rows, new) ==
    {[row |-> r, teacher |-> IF r \in new THEN "new" ELSE "old"] : r \in rows}

\* backward_head of micro-batch i, with the recorded teachers.
BackwardHead ==
    \E m \in 1 .. NumMini, i \in 1 .. NumRows :
        /\ Complete(<<"head", m, i>>)
        /\ headGrad' = [k \in Ranks |-> headGrad[k] \union
               Taught({<<j, i>> : j \in Ranks} \intersect UNION {Recorded(j) : j \in Ranks}, {})]
        /\ UNCHANGED <<pc, probing, cycles, scoring, scheduledLr, headLr, policyGrad, policyLog,
                       headLog, skipped>>

\* backward_head of refresh_draft_teacher: the whole batch, each rank having
\* replaced the teachers of its own selected rows.
BackwardRefresh ==
    /\ Complete(<<"refresh">>)
    /\ headGrad' = [k \in Ranks |-> headGrad[k] \union
           UNION {Taught(Recorded(j), ToSet(selected[j])) : j \in Ranks}]
    /\ UNCHANGED <<pc, probing, cycles, scoring, scheduledLr, headLr, policyGrad, policyLog,
                   headLog, skipped>>

\* The optimizer step a rank is in: that of a mini-batch, or of the refresh.
StepName(k) == IF pc[k] = "refresh" THEN 0 ELSE mini[k]

\* optimizer_step: every parameter group that has a gradient is stepped, and
\* .grad stays as it is; with a non-finite norm nothing is, and .grad is reset.
OptimizerStep ==
    /\ Complete(<<"norm">>)
    /\ \/ /\ policyLog' = [k \in Ranks |-> IF policyGrad[k] = {} THEN policyLog[k]
                                            ELSE Append(policyLog[k], policyGrad[k])]
          /\ headLog' = [k \in Ranks |-> IF headGrad[k] = {} THEN headLog[k]
                           ELSE Append(headLog[k], [lr |-> headLr[k], rows |-> headGrad[k]])]
          /\ UNCHANGED <<policyGrad, headGrad, skipped>>
       \/ /\ policyGrad' = [k \in Ranks |-> {}]
          /\ headGrad' = [k \in Ranks |-> {}]
          /\ skipped' = [k \in Ranks |-> skipped[k] \union {StepName(k)}]
          /\ UNCHANGED <<policyLog, headLog>>
    /\ UNCHANGED <<pc, probing, cycles, scoring, scheduledLr, headLr>>

\* KL of the new distribution of a case from the one read for it: that of
\* another case is far away, and unchanged weights give zero.
Divergence(case, old) ==
    IF old.case # case THEN 1 + Max({batch[r].kl : r \in Keys})
    ELSE IF old.seen = Weights THEN 0 ELSE batch[case[1]].kl

\* A forward of score_shift.  Rank 0 reads the next old distribution and
\* raises, alone, when there is none.  The mean over equal cycles is kept.
ReadOld ==
    \E r \in Keys : \E c \in 1 .. batch[r].cycles :
        LET op == <<"score", <<r, c>>>>
            missing == at >= Len(cache)
        IN  \/ /\ Entered(op)
               /\ pc' = IF missing THEN [pc EXCEPT ![0] = "raised"] ELSE pc
               /\ todo' = [k \in Ranks |-> IF missing /\ k = 0 THEN <<>> ELSE Tail(todo[k])]
               /\ at' = IF missing THEN at ELSE at + 1
               /\ shift' = IF missing THEN shift
                           ELSE [shift EXCEPT ![0][r] = Max({@, Divergence(<<r, c>>, cache[at + 1])})]
               /\ UNCHANGED <<mode, batch, mini, probing, cycles, selected, cache, optimizer>>
            \/ AllRaise(op)

\* Rank 0's scores replace everybody's.
BroadcastScores ==
    /\ Complete(<<"broadcast">>)
    /\ shift' = [k \in Ranks |-> shift[0]]
    /\ UNCHANGED <<pc, probing, cycles, selected, cache, at, optimizer>>

Local(k) ==
    \/ CaptureProbe(k) \/ EvaluateOld(k) \/ CaptureShift(k) \/ SkipProbe(k)
    \/ TrainBatch(k) \/ ForwardBackward(k) \/ EndBatch(k)
    \/ ScoreShift(k) \/ MixedTeacherBatch(k) \/ RefreshDraftTeacher(k) \/ RestoreRate(k)
    \/ EvaluateNew(k) \/ ReduceDurations(k) \/ Return(k)

Collective ==
    \/ PassThrough \/ SynchronizedCases \/ GatherTrajectories \/ WriteOld
    \/ ReduceCycles \/ PolicyBackward \/ BackwardHead \/ BackwardRefresh \/ OptimizerStep
    \/ ReadOld \/ BroadcastScores

Next == (\E k \in Ranks : Local(k)) \/ Collective

\* Every rank keeps running, and a collective that every rank has entered completes.
Fairness == WF_vars(Collective) /\ \A k \in Ranks : WF_vars(Local(k))

Spec == Init /\ [][Next]_vars /\ Fairness

(***************************************************************************)
(* Properties.                                                             *)
(***************************************************************************)

Operations ==
    {<<t>> : t \in {"coverage", "cases", "gather", "norm", "broadcast", "refresh", "durations"}}
    \union ({"tokens", "cycles"} \X (1 .. NumMini))
    \union ({"policy", "head"} \X (1 .. NumMini) \X (1 .. NumRows))

Finished == \A k \in Ranks : pc[k] = "done"

\* Typing of the ranks' state.
TypeOK ==
    /\ mode \in Modes
    /\ batch \in [Keys -> Kinds]
    /\ pc \in [Ranks -> {"begin", "probe", "gather", "loop", "backward", "step", "score", "teacher",
                         "refresh", "new", "durations", "done", "raised"}]
    /\ mini \in [Ranks -> 0 .. NumMini]
    /\ \A k \in Ranks :
         /\ \A i \in 1 .. Len(todo[k]) :
              todo[k][i] \in Operations \/ todo[k][i][1] \in {"old", "capture", "score", "teacher", "new"}
         /\ Len(cases[k]) <= MaxCycles
         /\ records[k] \in Seq(Keys) /\ selected[k] \in Seq(Keys)
         /\ policyLog[k] \in Seq(SUBSET Keys)
         /\ policyGrad[k] \subseteq Keys
         /\ headGrad[k] \subseteq [row : Keys, teacher : {"old", "new"}]
         /\ skipped[k] \subseteq 0 .. NumMini
    /\ headLr \in [Ranks -> Nat] /\ draftLr \in [Ranks -> Nat]
    /\ at \in 0 .. Len(cache)

\* Ranks that wait in a collective wait in the same one: with different shares
\* of the records, and with none, every rank issues the same passes.
CollectivesAgree ==
    \A j, k \in Ranks : todo[j] # <<>> /\ todo[k] # <<>> => Head(todo[j]) = Head(todo[k])

\* When the call returns, every row with cycles has trained the head exactly
\* once: in its mini-batch or, deferred, in the one refresh step.  Only a
\* skipped optimizer step leaves rows out.
HeadTrainedOnce ==
    Finished => \A k \in Ranks, r \in Keys :
        LET due == IF Deferred THEN 0 ELSE MiniOf(r[2])
        IN  Cardinality({i \in 1 .. Len(headLog[k]) : r \in {g.row : g \in headLog[k][i].rows}})
              = IF batch[r].cycles > 0 /\ due \notin skipped[k] THEN 1 ELSE 0

\* No row's policy gradient is applied twice, in particular not by the head
\* step that follows the policy's last one, and none is lost but by a skip.
PolicyGradientOnce ==
    Finished => \A k \in Ranks, r \in Keys :
        Cardinality({i \in 1 .. Len(policyLog[k]) : r \in policyLog[k][i]})
          = IF MiniOf(r[2]) \in skipped[k] THEN 0 ELSE 1

\* Every head step uses the rate of its own training step although a deferred
\* one comes after the scheduler has moved on, and the next rate is left set.
HeadRate ==
    /\ \A k \in Ranks : \A i \in 1 .. Len(headLog[k]) : headLog[k][i].lr = 0
    /\ Finished => \A k \in Ranks : headLr[k] = 1

\* What the selection should be, from the rows alone: the advantage times the
\* divergence that the policy steps of this call have caused.
Worth(k, r) ==
    IF batch[r].cycles > 0 /\ batch[r].finite /\ batch[r].advantage > 0 /\ policyLog[k] # <<>>
    THEN batch[r].advantage * batch[r].kl ELSE 0

\* The rows whose teacher is replaced are the most valuable ones, the same on
\* every rank, as many as the fraction allows and never one of no value.
RefreshedAreTop ==
    \A k \in Ranks : \A i \in 1 .. Len(headLog[k]) : Deferred =>
        LET new == {g.row : g \in {h \in headLog[k][i].rows : h.teacher = "new"}}
            worthy == {r \in Keys : Worth(k, r) > 0}
            all == Cardinality(UNION {LocalRecords(j) : j \in Ranks})
            limit == Min({n \in 0 .. all : n * FracDen >= FracNum * all})
        IN  /\ new \subseteq worthy
            /\ \A r \in worthy \ new, q \in new : Worth(k, r) <= Worth(k, q)
            /\ Cardinality(new) = Min({Cardinality(worthy), limit})

\* Every rank returns, or all of them raise: none is left in a collective that
\* another rank will not enter.
NobodyLeftWaiting == <>(Finished \/ \A k \in Ranks : pc[k] = "raised")
=============================================================================
