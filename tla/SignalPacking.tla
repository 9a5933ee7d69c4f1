--------------------------- MODULE SignalPacking ---------------------------
(***************************************************************************)
(* pack_signals: what the agent loop makes of the signals of one rollout.  *)
(* A signal is the record of lists the tokenizer manager hands over.  The  *)
(* operators named ...Raises hold when the code refuses the record, which  *)
(* ends the training step.  Python's indices start at 0, these at 1.       *)
(***************************************************************************)
EXTENDS SignalCapture

PrefillBlocks(g) == {b \in (1 .. Len(g.prefill_position)) \X (1 .. PromptLen + MaxNew) :
                        b[2] <= Len(g.prefill_position[b[1]])}

\* _prefill_pairs: fields of unequal length, or a position recorded twice.
PrefillPairsRaises(g) ==
    \/ \E f, h \in PrefillFields : Len(g[f]) # Len(g[h])
    \/ \E i \in 1 .. Len(g.prefill_position) :
          \/ Len(g.prefill_hidden[i]) # Len(g.prefill_tokens[i])
          \/ Len(g.prefill_tokens[i]) # Len(g.prefill_position[i])
    \/ \E b, c \in PrefillBlocks(g) :
          b # c /\ g.prefill_position[b[1]][b[2]] = g.prefill_position[c[1]][c[2]]

PrefillPositions(g) == {g.prefill_position[b[1]][b[2]] : b \in PrefillBlocks(g)}

\* The value that field f of the re-prefill blocks holds at position p.
PrefillAt(g, f, p) ==
    LET b == CHOOSE b \in PrefillBlocks(g) : g.prefill_position[b[1]][b[2]] = p
    IN  g[f][b[1]][b[2]]

\* Committed positions between cycle i and the next.
Advance(g, i) == g.position[i + 1] - g.position[i]

Missing(g, i) == g.position[i] + g.accept_len[i] + 1 .. g.position[i + 1]

HistoryRaises(g) ==
    LET n == Len(g.position)
        m == Len(g.accepted_hidden)
    IN  \/ g.prompt_hidden = None \/ g.prompt_ids = None
        \/ Len(g.prompt_hidden) # Len(g.prompt_ids)
        \/ g.position[1] # Len(g.prompt_ids) - 1
        \/ \E i \in 1 .. n - 1 : Advance(g, i) <= 0
        \/ m # Len(g.accepted_tokens)
        \/ m \notin {n - 1, n}
        \/ PrefillPairsRaises(g)
        \/ \E i \in 1 .. n - 1 :
              \/ ~(1 <= g.accept_len[i] /\ g.accept_len[i] <= Advance(g, i))
              \/ Len(g.accepted_hidden[i]) # g.accept_len[i]
              \/ Len(g.accepted_tokens[i]) # g.accept_len[i]
              \/ ~(Missing(g, i) \subseteq PrefillPositions(g))

\* The rows of one prefix field: the prompt, then per cycle the accepted block
\* and what re-prefills recorded up to the next cycle.
PrefixRows(g, prompt, accepted, prefill) ==
    LET gap(i) == [j \in 1 .. Advance(g, i) - g.accept_len[i] |->
                      PrefillAt(g, prefill, g.position[i] + g.accept_len[i] + j)]
        rows[i \in 0 .. Len(g.position) - 1] ==
            IF i = 0 THEN g[prompt] ELSE rows[i - 1] \o g[accepted][i] \o gap(i)
    IN  rows[Len(g.position) - 1]

PrefixHidden(g) == PrefixRows(g, "prompt_hidden", "accepted_hidden", "prefill_hidden")
PrefixIds(g) == PrefixRows(g, "prompt_ids", "accepted_tokens", "prefill_tokens")

\* The seed of every cycle must be the prefix's own row at its position.
SeedRaises(g) ==
    LET hidden == PrefixHidden(g)
        ids == PrefixIds(g)
    IN  \E i \in 1 .. Len(g.position) :
           \/ hidden[g.position[i] + 1] # g.hidden[i]
           \/ ids[g.position[i] + 1] # g.draft_tokens[i]

FieldsRaise(g) == \E f \in CycleFields : Len(g[f]) # Len(g.position)

PackRaises(g) == HistoryRaises(g) \/ SeedRaises(g) \/ FieldsRaise(g)

(***************************************************************************)
(* The target tokens of the auxiliary cross-entropy.  The response has     *)
(* total tokens; index j of it is token PromptLen + j of the sequence.     *)
(***************************************************************************)

Response(j) == Tok(PromptLen + j)

\* pack_signals with include_target_tokens compares the recorded prompt with
\* the rollout's: shifted by one, its last token being the first response.
PromptDiffers(g) ==
    g.prompt_ids # [i \in 1 .. PromptLen |-> IF i < PromptLen THEN Tok(i) ELSE Response(0)]

\* Mutant: the shift of the recorded prompt is not accounted for.
ResponseIndexUnshifted(g, c, d) == g.position[c] + d + 1 - Len(g.prompt_ids)

ResponseIndex(g, c, d) == g.position[c] + d + 2 - Len(g.prompt_ids)

\* Depths of cycle c that get a target (target_mask).
TargetDepths(g, c, total) ==
    {d \in 0 .. Steps - 1 :
        /\ d < g.accept_len[c]
        /\ ResponseIndex(g, c, d) >= 0
        /\ ResponseIndex(g, c, d) < total}

TargetToken(g, c, d) == Response(ResponseIndex(g, c, d))

TargetsRaise(g, total) ==
    \E c \in 1 .. Len(g.position) : \E d \in TargetDepths(g, c, total) :
        /\ c <= Len(g.accepted_tokens)
        /\ \/ d >= Len(g.accepted_tokens[c])
           \/ g.accepted_tokens[c][d + 1] # TargetToken(g, c, d)
=============================================================================
