--------------------------- MODULE SignalCapture ---------------------------
(***************************************************************************)
(* Capture of verification signals by the speculative decoding server and  *)
(* their way to the rollout worker.  The scheduler prefills requests (the  *)
(* first time, or again after a retraction), verifies the drafts of the    *)
(* whole running batch, and streams what it recorded; the tokenizer        *)
(* manager puts the streamed slices together and wakes the coroutine that  *)
(* waits for the answer, in the same event loop.  Outputs and AbortReqs    *)
(* have a socket each, so an AbortReq may overtake outputs.                *)
(*                                                                         *)
(* Data.  The token at index p of prompt-plus-response is the number p.    *)
(* The target's hidden state at position p is the pair <<p, o>>, o being   *)
(* the number of response tokens before the forward pass that computed it: *)
(* two passes give bitwise different tensors, and the packer compares      *)
(* tensors exactly.  draft_tokens stands for topk_val, topk_idx and        *)
(* draft_tokens, which are appended, sliced and extended together; of a    *)
(* draft only its first token, the seed of the cycle, is kept.             *)
(***************************************************************************)
EXTENDS Integers, Sequences, FiniteSets

CONSTANTS
    Reqs,           \* requests of one rollout batch
    PromptLen,      \* tokens of every prompt
    Steps,          \* speculative_num_steps: drafted tokens per cycle
    MaxNew,         \* max_new_tokens
    ForceInterval,  \* SGLANG_FORCE_STREAM_INTERVAL (50 in the code)
    MaxRetract,     \* bound on the retractions of one request
    Chunking,       \* whether the prefill budget can split a request
    None            \* Python's None

ASSUME SignalAssumption ==
    /\ IsFiniteSet(Reqs)
    /\ PromptLen \in Nat \ {0}
    /\ Steps \in Nat \ {0}
    /\ MaxNew \in Nat \ {0}
    /\ ForceInterval \in Nat \ {0}
    /\ MaxRetract \in Nat
    /\ Chunking \in BOOLEAN
    /\ None \notin Int \X Int
    /\ None \notin Seq(Int \X Int)
    /\ None \notin Seq(Int)

VARIABLES
    status,     \* where the scheduler holds a request
    place,      \* a request's place in running_batch.reqs, 0 outside it
    out,        \* len(req.output_ids)
    done,       \* positions whose KV entries exist (prefix_lens, seq_lens)
    retracted,  \* req.retraction_count
    sig,        \* the req.output_mtp_* lists
    seed,       \* _target_hidden_for_signal_per_req
    sent,       \* the three send_output_mtp_* offsets
    chan,       \* outputs between scheduler and tokenizer manager
    abortReq,   \* the AbortReq under way: "none", "queue" or "memory"
    rid_to_state, \* the requests the tokenizer manager has a state of
    received,   \* state.mtp_* lists
    finished,   \* state.finished
    reply,      \* state.out_list[-1], "none" when the list is empty and state.event clear
    outcome,    \* what the caller of generate has been given
    failed      \* the scheduler or the tokenizer manager has raised

reqVars  == <<status, place, out, done, retracted>>
sigVars  == <<sig, seed, sent>>
recvVars == <<rid_to_state, received, finished, reply, outcome>>
vars == <<status, place, out, done, retracted, sig, seed, sent, chan, abortReq,
          rid_to_state, received, finished, reply, outcome, failed>>

Tok(p) == p
Hid(p, o) == <<p, o>>
\* The token sampled at the end of a chunk that is not the last: no token of the sequence.
Guess == -1

Maximum(a, b) == IF a >= b THEN a ELSE b

CycleFields   == {"hidden", "draft_tokens", "position", "accept_len"}
HistoryFields == {"accepted_hidden", "accepted_tokens"}
PrefillFields == {"prefill_hidden", "prefill_tokens", "prefill_position"}
Lists == CycleFields \union HistoryFields \union PrefillFields

EmptySignals ==
    [hidden |-> <<>>, draft_tokens |-> <<>>, position |-> <<>>, accept_len |-> <<>>,
     accepted_hidden |-> <<>>, accepted_tokens |-> <<>>,
     prefill_hidden |-> <<>>, prefill_tokens |-> <<>>, prefill_position |-> <<>>,
     prompt_hidden |-> None, prompt_ids |-> None, prefill_next |-> 0]

\* The tokenizer manager's copy; prefill_next stays with the scheduler.
EmptyState == [f \in DOMAIN EmptySignals \ {"prefill_next"} |-> EmptySignals[f]]

Init ==
    /\ status = [r \in Reqs |-> "waiting"]
    /\ place = [r \in Reqs |-> 0]
    /\ out = [r \in Reqs |-> 0]
    /\ done = [r \in Reqs |-> 0]
    /\ retracted = [r \in Reqs |-> 0]
    /\ sig = [r \in Reqs |-> EmptySignals]
    /\ seed = [r \in Reqs |-> None]
    /\ sent = [r \in Reqs |-> [mtp |-> 0, history |-> 0, prefill |-> 0]]
    /\ chan = [r \in Reqs |-> <<>>]
    /\ abortReq = [r \in Reqs |-> "none"]
    /\ rid_to_state = Reqs
    /\ received = [r \in Reqs |-> EmptyState]
    /\ finished = [r \in Reqs |-> FALSE]
    /\ reply = [r \in Reqs |-> "none"]
    /\ outcome = [r \in Reqs |-> "pending"]
    /\ failed = FALSE

(***************************************************************************)
(* Recording a prefill.                                                    *)
(***************************************************************************)

\* Mutant: earlier re-prefills are forgotten.
NextPositionVerified(s) ==
    LET n == Len(s.position)
    IN  s.position[n] + Len(s.accepted_tokens[n]) + 1

\* The first position that neither a verification nor a prefill has recorded.
NextPosition(s) ==
    LET n == Len(s.position)
    IN  Maximum(s.position[n] + Len(s.accepted_tokens[n]) + 1, s.prefill_next)

PrefillRaises(s) ==
    /\ s.position # <<>>
    /\ \/ Len(s.accepted_tokens) # Len(s.position)
       \/ s.accepted_tokens[Len(s.accepted_tokens)] = <<>>

\* Mutant: one position too many is skipped.
RecordPrefillSkipping(s, hid, tok, start) ==
    IF s.position = <<>>
    THEN [s EXCEPT !.prompt_hidden = hid, !.prompt_ids = tok]
    ELSE LET skip == Maximum(0, NextPosition(s) + 1 - start)
         IN  IF skip >= Len(tok)
             THEN s
             ELSE [s EXCEPT
                     !.prefill_hidden = Append(@, SubSeq(hid, skip + 1, Len(hid))),
                     !.prefill_tokens = Append(@, SubSeq(tok, skip + 1, Len(tok))),
                     !.prefill_position =
                         Append(@, [i \in 1 .. (Len(tok) - skip) |-> start + skip + i - 1]),
                     !.prefill_next = start + Len(tok)]

\* Before the first verification the extend is the prompt and replaces any
\* earlier one; after it, the part not yet recorded is kept with its positions.
RecordPrefill(s, hid, tok, start) ==
    IF s.position = <<>>
    THEN [s EXCEPT !.prompt_hidden = hid, !.prompt_ids = tok]
    ELSE LET skip == Maximum(0, NextPosition(s) - start)
         IN  IF skip >= Len(tok)
             THEN s
             ELSE [s EXCEPT
                     !.prefill_hidden = Append(@, SubSeq(hid, skip + 1, Len(hid))),
                     !.prefill_tokens = Append(@, SubSeq(tok, skip + 1, Len(tok))),
                     !.prefill_position =
                         Append(@, [i \in 1 .. (Len(tok) - skip) |-> start + skip + i - 1]),
                     !.prefill_next = start + Len(tok)]

(***************************************************************************)
(* Recording a verification cycle.  seq is the KV length before it, n the  *)
(* drafts' accepted length (the bonus token included), e how many of those *)
(* tokens were emitted before the request finished.                        *)
(***************************************************************************)

VerifyRaises(s) ==
    \/ Len(s.accepted_hidden) # Len(s.draft_tokens)
    \/ Len(s.accepted_tokens) # Len(s.draft_tokens)

\* Mutant: accept_len counts the drafts without the bonus token.
RecordVerifyNoBonus(s, seq, o, h, n, e) ==
    [s EXCEPT
        !.hidden = Append(@, h),
        !.draft_tokens = Append(@, Tok(seq)),
        !.position = Append(@, seq - 1),
        !.accept_len = Append(@, n - 1),
        !.accepted_hidden = Append(@, [i \in 1 .. e |-> Hid(seq + i - 1, o)]),
        !.accepted_tokens = Append(@, [i \in 1 .. e |-> Tok(seq + i)])]

\* Mutant: no accepted block is recorded when only the bonus token is.
RecordVerifyDraftsOnly(s, seq, o, h, n, e) ==
    [s EXCEPT
        !.hidden = Append(@, h),
        !.draft_tokens = Append(@, Tok(seq)),
        !.position = Append(@, seq - 1),
        !.accept_len = Append(@, n),
        !.accepted_hidden = Append(@, [i \in 1 .. e |-> Hid(seq + i - 1, o)]),
        !.accepted_tokens = IF n = 1 THEN @ ELSE Append(@, [i \in 1 .. e |-> Tok(seq + i)])]

RecordVerify(s, seq, o, h, n, e) ==
    [s EXCEPT
        !.hidden = Append(@, h),
        !.draft_tokens = Append(@, Tok(seq)),
        !.position = Append(@, seq - 1),
        !.accept_len = Append(@, n),
        !.accepted_hidden = Append(@, [i \in 1 .. e |-> Hid(seq + i - 1, o)]),
        !.accepted_tokens = Append(@, [i \in 1 .. e |-> Tok(seq + i)])]

(***************************************************************************)
(* Streaming.                                                              *)
(***************************************************************************)

Ends(s) == [mtp |-> Len(s.draft_tokens), history |-> Len(s.accepted_hidden),
            prefill |-> Len(s.prefill_hidden)]

Offset(off, f) == CASE f \in CycleFields   -> off.mtp
                    [] f \in HistoryFields -> off.history
                    [] f \in PrefillFields -> off.prefill

\* Python's s[a:b], which stops at the end of the list.
Slice(q, a, b) == SubSeq(q, a + 1, IF b <= Len(q) THEN b ELSE Len(q))

Slices(s, off) == [f \in Lists |-> Slice(s[f], Offset(off, f), Offset(Ends(s), f))]

\* Mutant: a request that finishes between two intervals is not streamed.
ShouldOutputAtInterval(o, fin) == o % ForceInterval = 0

ShouldOutput(o, fin) == fin \/ o % ForceInterval = 0

OutputRaises(s) ==
    \/ Len(s.prefill_tokens) # Len(s.prefill_hidden)
    \/ Len(s.prefill_position) # Len(s.prefill_hidden)

Message(s, off, fin) ==
    [lists |-> Slices(s, off), prompt_hidden |-> s.prompt_hidden,
     prompt_ids |-> s.prompt_ids, finished |-> fin]

\* Mutant: the offsets are not advanced.
StreamOutputAgain(reqs, s, o, fin) ==
    /\ chan' = [r \in Reqs |-> IF r \in reqs /\ ShouldOutput(o[r], fin[r])
                               THEN Append(chan[r], Message(s[r], sent[r], fin[r]))
                               ELSE chan[r]]
    /\ UNCHANGED sent

\* stream_output over the requests of a batch, with their new lists s,
\* output lengths o and finished flags fin.
StreamOutput(reqs, s, o, fin) ==
    LET going == {r \in reqs : ShouldOutput(o[r], fin[r])}
    IN  /\ chan' = [r \in Reqs |-> IF r \in going
                                   THEN Append(chan[r], Message(s[r], sent[r], fin[r]))
                                   ELSE chan[r]]
        /\ sent' = [r \in Reqs |-> IF r \in going THEN Ends(s[r]) ELSE sent[r]]

(***************************************************************************)
(* The scheduler's steps.                                                  *)
(***************************************************************************)

\* The request whose prefill has been split and is not finished.
MidChunk(r) == status[r] = "waiting" /\ done[r] > 0

\* running_batch.reqs, and its places when only the requests of rest remain.
Running == {r \in Reqs : status[r] = "running"}
FilterBatch(rest) ==
    [r \in Reqs |-> IF r \in rest THEN Cardinality({q \in rest : place[q] <= place[r]}) ELSE 0]

\* One extend of request r: the whole of prompt and response so far, or a
\* chunk of it.  The last one samples a response token and may finish.
Prefill(r) ==
    LET total == PromptLen + out[r]
        o == out[r]
    IN  /\ ~failed
        /\ status[r] = "waiting"
        /\ \A q \in Reqs : MidChunk(q) => q = r
        /\ \E len \in 1 .. (total - done[r]), eos \in BOOLEAN :
             LET start == done[r]
                 last  == start + len = total
                 hid   == [i \in 1 .. len |-> Hid(start + i - 1, o)]
                 tok   == [i \in 1 .. len |-> IF i < len \/ last THEN Tok(start + i) ELSE Guess]
                 fin   == last /\ (eos \/ o + 1 >= MaxNew)
                 s     == [sig EXCEPT ![r] = RecordPrefill(@, hid, tok, start)]
                 o1    == [out EXCEPT ![r] = IF last THEN o + 1 ELSE o]
             IN  /\ Chunking \/ last
                 /\ eos => last
                 /\ sig' = s
                 /\ seed' = [seed EXCEPT ![r] = hid[len]]
                 /\ done' = [done EXCEPT ![r] = start + len]
                 /\ out' = o1
                 /\ status' = [status EXCEPT ![r] = IF fin THEN "finished"
                                                    ELSE IF last THEN "running" ELSE @]
                 /\ place' = IF last /\ ~fin THEN [place EXCEPT ![r] = Cardinality(Running) + 1]
                                            ELSE place
                 /\ StreamOutput(IF last THEN {r} ELSE {}, s, o1, [q \in Reqs |-> q = r /\ fin])
                 /\ failed' = (PrefillRaises(sig[r]) \/ (last /\ OutputRaises(s[r])))
        /\ UNCHANGED <<retracted, abortReq, recvVars>>

\* What a verification can do to request r: accept n tokens, emit e of them,
\* and finish or not; it is cut short only by finishing.
VerifyOutcomes(r) ==
    {v \in [n : 1 .. Steps + 1, e : 1 .. Steps + 1, fin : BOOLEAN] :
        /\ v.e <= v.n
        /\ out[r] + v.e <= MaxNew
        /\ (v.e < v.n \/ out[r] + v.e = MaxNew) => v.fin}

\* retract_decode: requests leave from the back of the batch; their KV
\* entries are freed and they wait to be prefilled again.
Retract(gone) ==
    /\ \A r \in gone : retracted[r] < MaxRetract
    /\ retracted' = [r \in Reqs |-> IF r \in gone THEN retracted[r] + 1 ELSE retracted[r]]

\* One decode iteration: requests behind some last one are retracted when
\* memory is short, the others are verified together and streamed.
Decode ==
    /\ ~failed
    /\ \A q \in Reqs : ~MidChunk(q)
    /\ \E last \in Running :
         LET live == {r \in Running : place[r] <= place[last]}
             gone == Running \ live
             known == \A r \in live : seed[r] # None
         IN  \E v \in [live -> UNION {VerifyOutcomes(r) : r \in live}] :
               LET s  == [r \in Reqs |->
                            IF r \in live
                            THEN RecordVerify(sig[r], done[r], out[r],
                                              IF known THEN seed[r] ELSE None, v[r].n, v[r].e)
                            ELSE sig[r]]
                   o1 == [r \in Reqs |-> IF r \in live THEN out[r] + v[r].e ELSE out[r]]
                   ended == {r \in live : v[r].fin}
               IN  /\ \A r \in live : v[r] \in VerifyOutcomes(r)
                   /\ Retract(gone)
                   /\ sig' = s
                   /\ out' = o1
                   /\ seed' = [r \in Reqs |-> IF r \in ended THEN None
                                              ELSE IF r \in live THEN Hid(done[r] + v[r].e - 1, out[r])
                                              ELSE seed[r]]
                   /\ done' = [r \in Reqs |-> IF r \in live THEN done[r] + v[r].e
                                              ELSE IF r \in gone THEN 0 ELSE done[r]]
                   /\ status' = [r \in Reqs |-> IF r \in ended THEN "finished"
                                                ELSE IF r \in gone THEN "waiting" ELSE status[r]]
                   /\ place' = FilterBatch(live \ ended)
                   /\ StreamOutput(live, s, o1, [r \in Reqs |-> r \in ended])
                   /\ failed' = \E r \in live : VerifyRaises(sig[r]) \/ OutputRaises(s[r])
    /\ UNCHANGED <<abortReq, recvVars>>

\* Not even the first request of the batch fits: it is aborted, the others
\* are retracted and nothing is verified.
OutOfMemory ==
    /\ ~failed
    /\ \A q \in Reqs : ~MidChunk(q)
    /\ \E first \in Running :
         /\ place[first] = 1
         /\ Retract(Running \ {first})
         /\ status' = [r \in Reqs |-> IF r = first THEN "aborted"
                                      ELSE IF r \in Running THEN "waiting" ELSE status[r]]
         /\ done' = [r \in Reqs |-> IF r \in Running THEN 0 ELSE done[r]]
         /\ abortReq' = [abortReq EXCEPT ![first] = "memory"]
    /\ place' = FilterBatch({})
    /\ UNCHANGED <<out, sigVars, chan, recvVars, failed>>

\* abort_request on a request in the waiting queue.
AbortWaiting(r) ==
    /\ ~failed
    /\ status[r] = "waiting"
    /\ ~MidChunk(r)
    /\ status' = [status EXCEPT ![r] = "aborted"]
    /\ abortReq' = [abortReq EXCEPT ![r] = "queue"]
    /\ UNCHANGED <<place, out, done, retracted, sigVars, chan, recvVars, failed>>

(***************************************************************************)
(* The tokenizer manager's steps.                                          *)
(***************************************************************************)

Extend(t, m) ==
    LET some(f) == CASE f \in CycleFields   -> m.lists.draft_tokens # <<>>
                     [] f \in HistoryFields -> m.lists.accepted_hidden # <<>>
                     [] f \in PrefillFields -> TRUE
        first == t.prompt_hidden = None /\ m.prompt_hidden # None
    IN  [f \in DOMAIN t |->
            IF f \in Lists
            THEN IF some(f) THEN t[f] \o m.lists[f] ELSE t[f]
            ELSE IF first THEN m[f] ELSE t[f]]

ReceiveRaises(m) ==
    \E f, g \in PrefillFields : Len(m.lists[f]) # Len(m.lists[g])

\* _handle_batch_output for the oldest output of request r.  An output that
\* follows an AbortReq still finds the state and clears state.finished.
Receive(r) ==
    /\ ~failed
    /\ chan[r] # <<>>
    /\ LET m == Head(chan[r])
           t == Extend(received[r], m)
       IN  \/ /\ r \notin rid_to_state
              /\ UNCHANGED <<rid_to_state, received, finished, reply, failed>>
           \/ /\ r \in rid_to_state
              /\ received' = [received EXCEPT ![r] = t]
              /\ finished' = [finished EXCEPT ![r] = m.finished]
              /\ reply' = [reply EXCEPT ![r] = IF ~m.finished THEN @
                                               ELSE IF t.draft_tokens # <<>> THEN "signals" ELSE "empty"]
              /\ rid_to_state' = IF m.finished THEN rid_to_state \ {r} ELSE rid_to_state
              /\ failed' = ReceiveRaises(m)
    /\ chan' = [chan EXCEPT ![r] = Tail(@)]
    /\ UNCHANGED <<reqVars, sigVars, abortReq, outcome>>

\* _handle_abort_req: an unknown request raises; the state is kept.
ReceiveAbort(r) ==
    /\ ~failed
    /\ abortReq[r] # "none"
    /\ abortReq' = [abortReq EXCEPT ![r] = "none"]
    /\ finished' = [finished EXCEPT ![r] = TRUE]
    /\ reply' = [reply EXCEPT ![r] = IF abortReq[r] = "memory" THEN "error" ELSE "aborted"]
    /\ failed' = (r \notin rid_to_state)
    /\ UNCHANGED <<reqVars, sigVars, chan, rid_to_state, received, outcome>>

\* _wait_one_response after state.event: the outputs are taken and the event
\* cleared; the last of them is the answer if state.finished holds now.  An
\* internal server error is raised, and only then is the state deleted here.
Wake(r) ==
    /\ ~failed
    /\ outcome[r] = "pending"
    /\ reply[r] # "none"
    /\ reply' = [reply EXCEPT ![r] = "none"]
    /\ outcome' = IF finished[r] THEN [outcome EXCEPT ![r] = reply[r]] ELSE outcome
    /\ rid_to_state' = IF finished[r] /\ reply[r] = "error" THEN rid_to_state \ {r} ELSE rid_to_state
    /\ UNCHANGED <<reqVars, sigVars, chan, abortReq, received, finished, failed>>

\* The event loop with no request to prefill or decode.
Idle ==
    /\ \A r \in Reqs : status[r] \in {"finished", "aborted"}
    /\ UNCHANGED vars

Next ==
    \/ \E r \in Reqs : Prefill(r) \/ AbortWaiting(r) \/ Receive(r) \/ ReceiveAbort(r) \/ Wake(r)
    \/ Decode
    \/ OutOfMemory
    \/ Idle

\* The event loop prefills or decodes whenever there is a request, freed
\* memory goes to the waiting ones, and the tokenizer manager's event loop runs
\* its reader and every coroutine it has woken.
Fairness ==
    /\ WF_vars(Decode)
    /\ \A r \in Reqs : /\ WF_vars(Prefill(r)) /\ WF_vars(Receive(r))
                       /\ WF_vars(ReceiveAbort(r)) /\ WF_vars(Wake(r))

Spec == Init /\ [][Next]_vars
FairSpec == Spec /\ Fairness
=============================================================================
