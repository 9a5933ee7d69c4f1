--------------------------- MODULE SignalPipeline --------------------------
(***************************************************************************)
(* The signal path as a whole: what SignalCapture records and streams,     *)
(* judged by what SignalPacking accepts and makes of it.                   *)
(***************************************************************************)
EXTENDS SignalPacking

Handed == {r \in Reqs : outcome[r] = "signals"}

\* Hidden states are of a position and of a pass that saw fewer tokens.
Hidden == (0 .. PromptLen + MaxNew) \X (0 .. MaxNew)
Tokens == -1 .. PromptLen + MaxNew

Signals ==
    [hidden : Seq(Hidden \union {None}), draft_tokens : Seq(Tokens), position : Seq(Nat),
     accept_len : Seq(1 .. Steps + 1),
     accepted_hidden : Seq(Seq(Hidden)), accepted_tokens : Seq(Seq(Tokens)),
     prefill_hidden : Seq(Seq(Hidden)), prefill_tokens : Seq(Seq(Tokens)),
     prefill_position : Seq(Seq(Nat)),
     prompt_hidden : Seq(Hidden) \union {None}, prompt_ids : Seq(Tokens) \union {None},
     prefill_next : Nat]
Offsets == [mtp : Nat, history : Nat, prefill : Nat]

\* Typing of the scheduler's and the tokenizer manager's state; accept_len
\* counts the bonus token and is never zero.
TypeOK ==
    /\ status \in [Reqs -> {"waiting", "running", "finished", "aborted"}]
    /\ place \in [Reqs -> Nat]
    /\ out \in [Reqs -> 0 .. MaxNew]
    /\ done \in [Reqs -> 0 .. PromptLen + MaxNew]
    /\ retracted \in [Reqs -> 0 .. MaxRetract]
    /\ sig \in [Reqs -> Signals]
    /\ seed \in [Reqs -> Hidden \union {None}]
    /\ sent \in [Reqs -> Offsets]
    /\ abortReq \in [Reqs -> {"none", "queue", "memory"}]
    /\ rid_to_state \subseteq Reqs
    /\ finished \in [Reqs -> BOOLEAN]
    /\ reply \in [Reqs -> {"none", "signals", "empty", "aborted", "error"}]
    /\ outcome \in [Reqs -> {"pending", "signals", "empty", "aborted", "error"}]
    /\ failed \in BOOLEAN

\* No check of the capture path fails: verification and re-prefill find
\* complete histories, and streamed blocks are aligned at both ends, whatever
\* the interleaving of prefills, retractions, verifications and outputs.
CaptureNeverRaises == ~failed

\* A running or retracted request has recorded exactly the positions its
\* response has committed: the next one to record is the last token's, so a
\* re-prefill adds one position and no verification leaves a hole.
RecordedIsCommitted ==
    \A r \in Reqs :
        status[r] \in {"running", "waiting"} /\ sig[r].position # <<>>
            => NextPosition(sig[r]) = PromptLen + out[r] - 1

\* The signals handed over are accepted by the packer, and the prefix it
\* builds holds every committed position once, in order, each hidden state
\* with the token that follows it.
PackComplete ==
    \A r \in Handed :
        LET g == received[r]
        IN  /\ ~PackRaises(g)
            /\ PrefixIds(g) = [i \in 1 .. Len(PrefixIds(g)) |-> Tok(i)]
            /\ [i \in 1 .. Len(PrefixHidden(g)) |-> PrefixHidden(g)[i][1] + 1] = PrefixIds(g)

\* A target of the auxiliary cross-entropy is the token the verifier emitted
\* at that depth and no emitted depth is left out, although accept_len was
\* taken before the response was cut at its end; a prompt that a retraction
\* has replaced is refused, never mislabelled.
TargetsMatchEmitted ==
    \A r \in Handed :
        LET g == received[r]
        IN  ~PromptDiffers(g) =>
              /\ ~TargetsRaise(g, out[r])
              /\ \A c \in 1 .. Len(g.position) :
                   TargetDepths(g, c, out[r])
                       = {d \in 0 .. Steps - 1 : d < Len(g.accepted_tokens[c])}

\* What the tokenizer manager holds is an initial part of what the scheduler
\* recorded, field by field, and is all of it when the signals are handed over.
StreamIsPrefix ==
    \A r \in Reqs : \A f \in Lists :
        LET got == received[r][f]
        IN  /\ Len(got) <= Len(sig[r][f])
            /\ got = SubSeq(sig[r][f], 1, Len(got))
            /\ r \in Handed => Len(got) = Len(sig[r][f])

\* An AbortReq has been taken in while outputs sent before it are under way.
Overtaken(r) == status[r] = "aborted" /\ abortReq[r] = "none" /\ chan[r] # <<>>

\* Every request is answered, with its signals, without any, or with its abort,
\* however often it is retracted: the coroutine is woken after state.finished
\* was set and still finds it set, unless the abort overtakes an output.
EveryRequestAnswered == \A r \in Reqs : <>(outcome[r] # "pending" \/ Overtaken(r))

\* The note at the end of tokenizer_manager.py, "We should handle all of the
\* following cases correctly", on a request aborted in the waiting queue: whoever
\* waits for it gets the abort.
AbortAnswered == \A r \in Reqs : abortReq[r] = "queue" ~> outcome[r] # "pending"

\* The note in forward_draft_extend, "requires --disable-radix-cache so extend
\* covers the full prompt": the recorded prompt reaches from position 0 to
\* that of the first verification.
ExtendCoversPrompt ==
    \A r \in Reqs : sig[r].position # <<>> => Len(sig[r].prompt_ids) = sig[r].position[1] + 1
=============================================================================
