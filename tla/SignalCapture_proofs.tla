----------------------- MODULE SignalCapture_proofs ------------------------
(***************************************************************************)
(* For any number of requests, any lengths and any number of retractions,  *)
(* with or without chunked prefills: the capture path never raises, and a  *)
(* request has recorded exactly the positions its response has committed.  *)
(***************************************************************************)
EXTENDS SignalPipeline, TLAPS, SequenceTheorems, FiniteSetTheorems

\* The lists of one request fit together: one entry of each kind per cycle,
\* one block of each kind per re-prefill, and the last cycle emitted a token.
Aligned(s) ==
    /\ Len(s.position) = Len(s.draft_tokens)
    /\ Len(s.accepted_hidden) = Len(s.draft_tokens)
    /\ Len(s.accepted_tokens) = Len(s.draft_tokens)
    /\ Len(s.prefill_tokens) = Len(s.prefill_hidden)
    /\ Len(s.prefill_position) = Len(s.prefill_hidden)
    /\ s.position # <<>> => Len(s.accepted_tokens[Len(s.position)]) > 0
    /\ s.position = <<>> => s.prefill_next = 0

\* Lemma: a slice of a list is a list of the same kind.
LEMMA SliceType ==
    ASSUME NEW S, NEW q \in Seq(S), NEW a \in Nat, NEW b \in Nat
    PROVE  /\ Slice(q, a, b) \in Seq(S)
           /\ Len(Slice(q, a, b)) =
                LET e == IF b <= Len(q) THEN b ELSE Len(q) IN IF a < e THEN e - a ELSE 0
  <1> DEFINE e == IF b <= Len(q) THEN b ELSE Len(q)
  <1>1. e \in Nat /\ e <= Len(q)
    BY LenProperties
  <1>2. \A i \in a + 1 .. e : q[i] \in S
    BY <1>1, ElementOfSeq
  <1>3. SubSeq(q, a + 1, e) \in Seq(S)
        /\ Len(SubSeq(q, a + 1, e)) = IF a + 1 <= e THEN e - (a + 1) + 1 ELSE 0
    BY <1>1, <1>2, SubSeqProperties
  <1>. QED BY <1>1, <1>3 DEF Slice

\* Lemma: recording a verification keeps the lists typed.
LEMMA RecordVerifyType ==
    ASSUME NEW s \in Signals, NEW seq \in Nat \ {0}, NEW o \in 0 .. MaxNew,
           NEW h \in Hidden \union {None}, NEW n \in 1 .. Steps + 1, NEW e \in Nat,
           seq + e <= PromptLen + MaxNew
    PROVE  RecordVerify(s, seq, o, h, n, e) \in Signals
  <1>1. PromptLen \in Nat /\ MaxNew \in Nat
    BY SignalAssumption
  <1>2. [i \in 1 .. e |-> Hid(seq + i - 1, o)] \in Seq(Hidden)
    <2>1. \A i \in 1 .. e : Hid(seq + i - 1, o) \in Hidden
      BY <1>1 DEF Hid, Hidden
    <2>. QED BY <2>1, IsASeq
  <1>3. [i \in 1 .. e |-> Tok(seq + i)] \in Seq(Tokens)
    <2>1. \A i \in 1 .. e : Tok(seq + i) \in Tokens
      BY <1>1 DEF Tok, Tokens
    <2>. QED BY <2>1, IsASeq
  <1>4. Tok(seq) \in Tokens /\ seq - 1 \in Nat
    BY <1>1 DEF Tok, Tokens
  <1>. HIDE DEF Hidden, Tokens
  <1>5. /\ Append(s.hidden, h) \in Seq(Hidden \union {None})
        /\ Append(s.draft_tokens, Tok(seq)) \in Seq(Tokens)
        /\ Append(s.position, seq - 1) \in Seq(Nat)
        /\ Append(s.accept_len, n) \in Seq(1 .. Steps + 1)
    BY <1>4, AppendProperties DEF Signals
  <1>6. Append(s.accepted_hidden, [i \in 1 .. e |-> Hid(seq + i - 1, o)]) \in Seq(Seq(Hidden))
    BY <1>2, AppendProperties DEF Signals
  <1>7. Append(s.accepted_tokens, [i \in 1 .. e |-> Tok(seq + i)]) \in Seq(Seq(Tokens))
    BY <1>3, AppendProperties DEF Signals
  <1>. QED BY <1>5, <1>6, <1>7 DEF RecordVerify, Signals

\* Lemma: a verification of a request whose KV entries reach to seq commits
\* the e positions after it: the lists stay aligned and the next position to
\* record is seq + e.
LEMMA RecordVerifyShape ==
    ASSUME NEW s \in Signals, Aligned(s), NEW seq \in Nat \ {0}, NEW o, NEW h, NEW n,
           NEW e \in Nat \ {0}, s.prefill_next <= seq
    PROVE  LET t == RecordVerify(s, seq, o, h, n, e)
           IN  Aligned(t) /\ t.position # <<>> /\ NextPosition(t) = seq + e
  <1> DEFINE t == RecordVerify(s, seq, o, h, n, e)
             toks == [i \in 1 .. e |-> Tok(seq + i)]
             hids == [i \in 1 .. e |-> Hid(seq + i - 1, o)]
  <1>1. /\ t.draft_tokens = Append(s.draft_tokens, Tok(seq))
        /\ t.position = Append(s.position, seq - 1)
        /\ t.accepted_hidden = Append(s.accepted_hidden, hids)
        /\ t.accepted_tokens = Append(s.accepted_tokens, toks)
        /\ t.prefill_hidden = s.prefill_hidden
        /\ t.prefill_tokens = s.prefill_tokens
        /\ t.prefill_position = s.prefill_position
        /\ t.prefill_next = s.prefill_next
    BY DEF RecordVerify, Signals
  <1>2. Len(toks) = e
    BY LenProperties
  <1>. HIDE DEF t, toks, hids
  <1>3. /\ s.draft_tokens \in Seq(Tokens) /\ s.position \in Seq(Nat)
        /\ s.accepted_hidden \in Seq(Seq(Hidden)) /\ s.accepted_tokens \in Seq(Seq(Tokens))
        /\ s.prefill_next \in Nat
    BY DEF Signals
  <1>4. /\ Len(t.draft_tokens) = Len(s.draft_tokens) + 1
        /\ Len(t.position) = Len(s.position) + 1
        /\ Len(t.accepted_hidden) = Len(s.accepted_hidden) + 1
        /\ Len(t.accepted_tokens) = Len(s.accepted_tokens) + 1
    BY <1>1, <1>3
  <1>5. t.position[Len(t.position)] = seq - 1
    BY <1>1, <1>3
  <1>6. t.accepted_tokens[Len(t.position)] = toks
    BY <1>1, <1>3, <1>4 DEF Aligned
  <1>7. t.position # <<>>
    <2>1. Len(t.position) > 0
      BY <1>3, <1>4, LenProperties
    <2>. QED BY <2>1
  <1>8. Aligned(t)
    BY <1>1, <1>2, <1>4, <1>6, <1>7 DEF Aligned
  <1>9. NextPosition(t) = seq + e
    <2>1. NextPosition(t) = Maximum(seq - 1 + e + 1, s.prefill_next)
      BY <1>1, <1>2, <1>5, <1>6 DEF NextPosition
    <2>. QED BY <2>1, <1>3 DEF Maximum
  <1>. QED BY <1>7, <1>8, <1>9 DEF t

\* Lemma: the last cycle ends at an integer position.
LEMMA VerifiedType ==
    ASSUME NEW s \in Signals, Aligned(s), s.position # <<>>
    PROVE  /\ s.position[Len(s.position)] + Len(s.accepted_tokens[Len(s.position)]) + 1 \in Nat
           /\ NextPosition(s) \in Nat
  <1>1. /\ s.position \in Seq(Nat) /\ s.accepted_tokens \in Seq(Seq(Tokens))
        /\ s.prefill_next \in Nat
    BY DEF Signals
  <1>2. Len(s.position) \in 1 .. Len(s.position)
    BY <1>1, EmptySeq, LenProperties
  <1>3. s.position[Len(s.position)] \in Nat
    BY <1>1, <1>2, ElementOfSeq
  <1>4. Len(s.accepted_tokens) = Len(s.position)
    BY DEF Aligned
  <1>5. s.accepted_tokens[Len(s.position)] \in Seq(Tokens)
    BY <1>1, <1>2, <1>4, ElementOfSeq
  <1>6. Len(s.accepted_tokens[Len(s.position)]) \in Nat
    BY <1>5, LenProperties
  <1>. QED BY <1>1, <1>3, <1>6 DEF NextPosition, Maximum

\* Lemma: recording a prefill keeps the lists typed and aligned and adds no cycle.
LEMMA RecordPrefillType ==
    ASSUME NEW s \in Signals, Aligned(s), NEW hid \in Seq(Hidden), NEW tok \in Seq(Tokens),
           NEW start \in Nat, Len(hid) = Len(tok), Len(tok) > 0
    PROVE  LET t == RecordPrefill(s, hid, tok, start)
           IN  t \in Signals /\ Aligned(t) /\ t.position = s.position
  <1> DEFINE t == RecordPrefill(s, hid, tok, start)
             skip == Maximum(0, NextPosition(s) - start)
  <1>1. CASE s.position = <<>>
    <2>1. t = [s EXCEPT !.prompt_hidden = hid, !.prompt_ids = tok]
      BY <1>1 DEF RecordPrefill
    <2>2. t \in Signals
      BY <2>1 DEF Signals
    <2>3. Aligned(t) /\ t.position = s.position
      BY <2>1, <1>1 DEF Aligned, Signals
    <2>. QED BY <2>2, <2>3
  <1>2. CASE s.position # <<>> /\ skip >= Len(tok)
    <2>1. t = s
      BY <1>2 DEF RecordPrefill
    <2>. QED BY <2>1
  <1>3. CASE s.position # <<>> /\ ~(skip >= Len(tok))
    <2> DEFINE hs == SubSeq(hid, skip + 1, Len(hid))
               ts == SubSeq(tok, skip + 1, Len(tok))
               ps == [i \in 1 .. (Len(tok) - skip) |-> start + skip + i - 1]
    <2>1. t = [s EXCEPT !.prefill_hidden = Append(@, hs), !.prefill_tokens = Append(@, ts),
                        !.prefill_position = Append(@, ps), !.prefill_next = start + Len(tok)]
      BY <1>3 DEF RecordPrefill
    <2>2. NextPosition(s) \in Int
      BY <1>3, VerifiedType
    <2>3. skip \in Nat /\ Len(tok) \in Nat /\ skip < Len(tok)
      BY <1>3, <2>2, LenProperties DEF Maximum
    <2>. HIDE DEF skip
    <2>4. hs \in Seq(Hidden)
      <3>1. \A i \in skip + 1 .. Len(hid) : hid[i] \in Hidden
        BY <2>3, ElementOfSeq
      <3>. QED BY <2>3, <3>1, SubSeqProperties
    <2>5. ts \in Seq(Tokens)
      <3>1. \A i \in skip + 1 .. Len(tok) : tok[i] \in Tokens
        BY <2>3, ElementOfSeq
      <3>. QED BY <2>3, <3>1, SubSeqProperties
    <2>6. ps \in Seq(Nat)
      <3>1. \A i \in 1 .. (Len(tok) - skip) : start + skip + i - 1 \in Nat
        BY <2>3
      <3>. QED BY <2>3, <3>1, IsASeq
    <2>. HIDE DEF t, hs, ts, ps
    <2>7. /\ Append(s.prefill_hidden, hs) \in Seq(Seq(Hidden))
          /\ Append(s.prefill_tokens, ts) \in Seq(Seq(Tokens))
          /\ Append(s.prefill_position, ps) \in Seq(Seq(Nat))
          /\ Len(Append(s.prefill_hidden, hs)) = Len(s.prefill_hidden) + 1
          /\ Len(Append(s.prefill_tokens, ts)) = Len(s.prefill_tokens) + 1
          /\ Len(Append(s.prefill_position, ps)) = Len(s.prefill_position) + 1
      BY <2>4, <2>5, <2>6, AppendProperties DEF Signals
    <2>8. t \in Signals
      <3> DEFINE a == Append(s.prefill_hidden, hs)
                 b == Append(s.prefill_tokens, ts)
                 c == Append(s.prefill_position, ps)
                 d == start + Len(tok)
      <3>1. /\ a \in Seq(Seq(Hidden)) /\ b \in Seq(Seq(Tokens)) /\ c \in Seq(Seq(Nat))
            /\ d \in Nat
        BY <2>3, <2>7
      <3>2. t = [s EXCEPT !.prefill_hidden = a, !.prefill_tokens = b,
                          !.prefill_position = c, !.prefill_next = d]
        BY <2>1
      <3>. HIDE DEF a, b, c, d
      <3>. QED BY <3>1, <3>2 DEF Signals
    <2>9. /\ t.prefill_hidden = Append(s.prefill_hidden, hs)
          /\ t.prefill_tokens = Append(s.prefill_tokens, ts)
          /\ t.prefill_position = Append(s.prefill_position, ps)
          /\ t.position = s.position /\ t.draft_tokens = s.draft_tokens
          /\ t.accepted_hidden = s.accepted_hidden /\ t.accepted_tokens = s.accepted_tokens
      BY <2>1 DEF Signals
    <2>10. Aligned(t)
      BY <1>3, <2>7, <2>9 DEF Aligned
    <2>. QED BY <2>8, <2>9, <2>10 DEF t
  <1>. QED BY <1>1, <1>2, <1>3

\* Lemma: an extend of a request with cycles, whose next position to record is
\* the last one of its sequence, records that position when it reaches it and
\* nothing otherwise.
LEMMA RecordPrefillNext ==
    ASSUME NEW s \in Signals, Aligned(s), s.position # <<>>, NEW hid \in Seq(Hidden),
           NEW tok \in Seq(Tokens), NEW start \in Nat, Len(tok) > 0,
           start + Len(tok) <= NextPosition(s) + 1
    PROVE  NextPosition(RecordPrefill(s, hid, tok, start))
              = IF start + Len(tok) = NextPosition(s) + 1 THEN start + Len(tok) ELSE NextPosition(s)
  <1> DEFINE total == NextPosition(s) + 1
  <1>0. total \in Nat /\ NextPosition(s) = total - 1
    BY VerifiedType
  <1>. HIDE DEF total
  <1> DEFINE t == RecordPrefill(s, hid, tok, start)
             skip == Maximum(0, NextPosition(s) - start)
  <1>1. Len(tok) \in Nat
    BY LenProperties
  <1>2. skip = total - 1 - start
    BY <1>0, <1>1 DEF Maximum, total
  <1>3. CASE start + Len(tok) = total
    <2>1. ~(skip >= Len(tok))
      BY <1>0, <1>1, <1>2, <1>3
    <2>2. /\ t.position = s.position /\ t.accepted_tokens = s.accepted_tokens
          /\ t.prefill_next = start + Len(tok)
      BY <2>1 DEF RecordPrefill, Signals
    <2> DEFINE v == s.position[Len(s.position)] + Len(s.accepted_tokens[Len(s.position)]) + 1
    <2>3. v \in Nat /\ s.prefill_next \in Nat
      BY VerifiedType DEF Signals
    <2>4. Maximum(v, s.prefill_next) = total - 1
      BY <1>0 DEF NextPosition
    <2>5. NextPosition(t) = Maximum(v, start + Len(tok))
      BY <2>2 DEF NextPosition
    <2>. HIDE DEF t, v
    <2>6. NextPosition(t) = start + Len(tok)
      BY <1>0, <1>1, <1>3, <2>3, <2>4, <2>5 DEF Maximum
    <2>. QED BY <1>3, <2>6 DEF t, total
  <1>4. CASE start + Len(tok) # total
    <2> DEFINE n == Len(tok)
    <2>0. n \in Nat /\ start + n <= total /\ start + n # total /\ total \in Nat
      BY <1>0, <1>1, <1>4 DEF total
    <2>1. skip >= Len(tok)
      <3>. HIDE DEF n, skip
      <3>1. skip >= n
        BY <1>2, <2>0
      <3>. QED BY <3>1 DEF n
    <2>. QED BY <1>4, <2>1 DEF RecordPrefill, total
  <1>. QED BY <1>3, <1>4

(***************************************************************************)
(* Streamed messages.                                                      *)
(***************************************************************************)

ListValues ==
    Seq(Hidden \union {None}) \union Seq(Tokens) \union Seq(Nat) \union Seq(1 .. Steps + 1)
    \union Seq(Seq(Hidden)) \union Seq(Seq(Tokens)) \union Seq(Seq(Nat))

\* Outputs that the tokenizer manager accepts.
Messages ==
    {m \in [lists : [Lists -> ListValues], prompt_hidden : Seq(Hidden) \union {None},
            prompt_ids : Seq(Tokens) \union {None}, finished : BOOLEAN] : ~ReceiveRaises(m)}

\* Lemma: offsets and ends are natural numbers.
LEMMA EndsType ==
    ASSUME NEW s \in Signals
    PROVE  Ends(s) \in Offsets
  <1>1. /\ Len(s.draft_tokens) \in Nat /\ Len(s.accepted_hidden) \in Nat
        /\ Len(s.prefill_hidden) \in Nat
    BY LenProperties DEF Signals
  <1>. QED BY <1>1 DEF Ends, Offsets

LEMMA OffsetType ==
    ASSUME NEW off \in Offsets, NEW f \in Lists
    PROVE  Offset(off, f) \in Nat
  <1>1. CASE f \in CycleFields
    BY <1>1 DEF Offset, Offsets, CycleFields, HistoryFields, PrefillFields
  <1>2. CASE f \in HistoryFields
    BY <1>2 DEF Offset, Offsets, CycleFields, HistoryFields, PrefillFields
  <1>3. CASE f \in PrefillFields
    BY <1>3 DEF Offset, Offsets, CycleFields, HistoryFields, PrefillFields
  <1>. QED BY <1>1, <1>2, <1>3 DEF Lists

\* Lemma: what the scheduler sends of aligned lists is accepted.
LEMMA MessageOK ==
    ASSUME NEW s \in Signals, Aligned(s), NEW off \in Offsets, NEW fin \in BOOLEAN
    PROVE  Message(s, off, fin) \in Messages
  <1> DEFINE ends == Ends(s)
  <1>1. ends \in Offsets
    BY EndsType
  <1>. HIDE DEF ends
  <1>2. \A f \in Lists : Offset(off, f) \in Nat /\ Offset(ends, f) \in Nat
    BY <1>1, OffsetType
  <1>3. \A f \in Lists : Slice(s[f], Offset(off, f), Offset(ends, f)) \in ListValues
    <2>1. /\ s["hidden"] \in Seq(Hidden \union {None}) /\ s["draft_tokens"] \in Seq(Tokens)
          /\ s["position"] \in Seq(Nat) /\ s["accept_len"] \in Seq(1 .. Steps + 1)
          /\ s["accepted_hidden"] \in Seq(Seq(Hidden))
          /\ s["accepted_tokens"] \in Seq(Seq(Tokens))
          /\ s["prefill_hidden"] \in Seq(Seq(Hidden)) /\ s["prefill_tokens"] \in Seq(Seq(Tokens))
          /\ s["prefill_position"] \in Seq(Seq(Nat))
      BY DEF Signals
    <2>2. ASSUME NEW f \in Lists
          PROVE  Slice(s[f], Offset(off, f), Offset(ends, f)) \in ListValues
      <3>1. CASE f = "hidden"
        BY <1>2, <2>1, <3>1, SliceType DEF ListValues
      <3>2. CASE f = "draft_tokens"
        BY <1>2, <2>1, <3>2, SliceType DEF ListValues
      <3>3. CASE f = "position"
        BY <1>2, <2>1, <3>3, SliceType DEF ListValues
      <3>4. CASE f = "accept_len"
        BY <1>2, <2>1, <3>4, SliceType DEF ListValues
      <3>5. CASE f \in {"accepted_hidden", "prefill_hidden"}
        BY <1>2, <2>1, <3>5, SliceType DEF ListValues
      <3>6. CASE f \in {"accepted_tokens", "prefill_tokens"}
        BY <1>2, <2>1, <3>6, SliceType DEF ListValues
      <3>7. CASE f = "prefill_position"
        BY <1>2, <2>1, <3>7, SliceType DEF ListValues
      <3>. QED BY <3>1, <3>2, <3>3, <3>4, <3>5, <3>6, <3>7
               DEF Lists, CycleFields, HistoryFields, PrefillFields
    <2>. QED BY <2>2
  <1>4. Slices(s, off) \in [Lists -> ListValues]
    BY <1>3 DEF Slices, ends
  <1>5. \A f, g \in PrefillFields : Len(Slices(s, off)[f]) = Len(Slices(s, off)[g])
    <2> DEFINE a == off.prefill
               b == ends.prefill
    <2>1. a \in Nat /\ b \in Nat
      BY <1>1 DEF Offsets
    <2>2. \A f \in PrefillFields : Slices(s, off)[f] = Slice(s[f], a, b)
      BY DEF Slices, ends, Offset, Lists, CycleFields, HistoryFields, PrefillFields
    <2>3. /\ s["prefill_hidden"] \in Seq(Seq(Hidden)) /\ s["prefill_tokens"] \in Seq(Seq(Tokens))
          /\ s["prefill_position"] \in Seq(Seq(Nat))
          /\ Len(s["prefill_tokens"]) = Len(s["prefill_hidden"])
          /\ Len(s["prefill_position"]) = Len(s["prefill_hidden"])
      BY DEF Signals, Aligned
    <2>. HIDE DEF a, b
    <2> DEFINE e(q) == IF b <= Len(q) THEN b ELSE Len(q)
               size(q) == IF a < e(q) THEN e(q) - a ELSE 0
    <2>4. /\ Len(Slice(s["prefill_hidden"], a, b)) = size(s["prefill_hidden"])
          /\ Len(Slice(s["prefill_tokens"], a, b)) = size(s["prefill_tokens"])
          /\ Len(Slice(s["prefill_position"], a, b)) = size(s["prefill_position"])
      BY <2>1, <2>3, SliceType
    <2>5. /\ size(s["prefill_tokens"]) = size(s["prefill_hidden"])
          /\ size(s["prefill_position"]) = size(s["prefill_hidden"])
      BY <2>3
    <2>. QED BY <2>2, <2>4, <2>5 DEF PrefillFields
  <1>6. /\ Message(s, off, fin).lists = Slices(s, off)
        /\ Message(s, off, fin) \in [lists : [Lists -> ListValues],
              prompt_hidden : Seq(Hidden) \union {None}, prompt_ids : Seq(Tokens) \union {None},
              finished : BOOLEAN]
    BY <1>4 DEF Message, Signals
  <1>. QED BY <1>5, <1>6 DEF Messages, ReceiveRaises

\* Lemma: stream_output keeps the channel and the offsets well formed.
LEMMA StreamOK ==
    ASSUME NEW reqs \in SUBSET Reqs, NEW s, NEW o, NEW fin \in [Reqs -> BOOLEAN],
           chan \in [Reqs -> Seq(Messages)], sent \in [Reqs -> Offsets],
           \A r \in reqs : s[r] \in Signals /\ Aligned(s[r]),
           StreamOutput(reqs, s, o, fin)
    PROVE  chan' \in [Reqs -> Seq(Messages)] /\ sent' \in [Reqs -> Offsets]
  <1> DEFINE going == {r \in reqs : ShouldOutput(o[r], fin[r])}
  <1>1. /\ chan' = [r \in Reqs |-> IF r \in going
                                   THEN Append(chan[r], Message(s[r], sent[r], fin[r]))
                                   ELSE chan[r]]
        /\ sent' = [r \in Reqs |-> IF r \in going THEN Ends(s[r]) ELSE sent[r]]
    BY DEF StreamOutput
  <1>2. \A r \in going : r \in Reqs /\ s[r] \in Signals /\ Aligned(s[r])
    OBVIOUS
  <1>. HIDE DEF going
  <1>3. \A r \in going : Message(s[r], sent[r], fin[r]) \in Messages
    BY <1>2, MessageOK
  <1>4. \A r \in going : Append(chan[r], Message(s[r], sent[r], fin[r])) \in Seq(Messages)
    BY <1>2, <1>3, AppendProperties
  <1>5. \A r \in going : Ends(s[r]) \in Offsets
    BY <1>2, EndsType
  <1>. QED BY <1>1, <1>4, <1>5

(***************************************************************************)
(* The inductive invariant.                                                *)
(***************************************************************************)

\* Where request r is: a waiting or running one has room for a token and has
\* recorded what it committed; a running one has KV entries for all but its
\* last token.
Placed(r) ==
    /\ status[r] \in {"running", "waiting"} => out[r] < MaxNew
    /\ status[r] = "running" => out[r] >= 1 /\ done[r] = PromptLen + out[r] - 1
    /\ status[r] \in {"running", "waiting"} /\ sig[r].position # <<>>
         => NextPosition(sig[r]) = PromptLen + out[r] - 1

\* Only a request that has finished has a last output under way.
Sealed(r) == \A i \in 1 .. Len(chan[r]) : chan[r][i].finished => status[r] = "finished"

\* The tokenizer manager knows a request as long as the scheduler may still
\* output or abort it; an AbortReq is sent and taken in once.
Awaited(r) ==
    /\ status[r] \in {"running", "waiting"} => abortReq[r] = "none" /\ r \in rid_to_state
    /\ abortReq[r] # "none" => status[r] = "aborted" /\ r \in rid_to_state /\ reply[r] # "error"
    /\ reply[r] = "error" => status[r] = "aborted"

IInv ==
    /\ TypeOK
    /\ chan \in [Reqs -> Seq(Messages)]
    /\ ~failed
    /\ \A r \in Reqs : Aligned(sig[r])
    /\ \A r \in Reqs : Placed(r)
    /\ \A r \in Reqs : Sealed(r)
    /\ \A r \in Reqs : Awaited(r)

\* Lemma: stream_output sends a last output of finished requests only.
LEMMA StreamSeals ==
    ASSUME NEW reqs \in SUBSET Reqs, NEW s, NEW o, NEW fin,
           chan \in [Reqs -> Seq(Messages)], StreamOutput(reqs, s, o, fin),
           \A r \in Reqs : Sealed(r),
           \A r \in Reqs : r \in reqs /\ fin[r] => status'[r] = "finished",
           \A r \in Reqs : status[r] = "finished" => status'[r] = "finished"
    PROVE  \A r \in Reqs : Sealed(r)'
  <1> SUFFICES ASSUME NEW r \in Reqs, NEW i \in 1 .. Len(chan'[r]), chan'[r][i].finished
               PROVE  status'[r] = "finished"
    BY DEF Sealed
  <1> DEFINE m == Message(s[r], sent[r], fin[r])
  <1>1. CASE r \in reqs /\ ShouldOutput(o[r], fin[r])
    <2>1. chan'[r] = Append(chan[r], m) /\ chan[r] \in Seq(Messages)
      BY <1>1 DEF StreamOutput
    <2>2. m.finished = fin[r]
      BY DEF Message
    <2>. HIDE DEF m
    <2>3. /\ Len(chan'[r]) = Len(chan[r]) + 1 /\ Len(chan[r]) \in Nat
          /\ chan'[r][Len(chan[r]) + 1] = m
          /\ \A j \in 1 .. Len(chan[r]) : chan'[r][j] = chan[r][j]
      BY <2>1, AppendProperties
    <2>4. CASE i = Len(chan[r]) + 1
      BY <1>1, <2>2, <2>3, <2>4
    <2>5. CASE i # Len(chan[r]) + 1
      <3>1. i \in 1 .. Len(chan[r])
        BY <2>3, <2>5
      <3>. QED BY <2>3, <3>1 DEF Sealed
    <2>. QED BY <2>4, <2>5
  <1>2. CASE ~(r \in reqs /\ ShouldOutput(o[r], fin[r]))
    <2>1. chan'[r] = chan[r]
      BY <1>2 DEF StreamOutput
    <2>. QED BY <2>1 DEF Sealed
  <1>. QED BY <1>1, <1>2

LEMMA InitIInv == Init => IInv
  <1> SUFFICES ASSUME Init PROVE IInv
    OBVIOUS
  <1> USE SignalAssumption DEF Init
  <1>1. EmptySignals \in Signals
    BY EmptySeq DEF EmptySignals, Signals
  <1>2. Aligned(EmptySignals) /\ EmptySignals.position = <<>>
    BY DEF EmptySignals, Aligned
  <1>3. TypeOK
    <2>1. sent \in [Reqs -> Offsets]
      BY DEF Offsets
    <2>2. sig \in [Reqs -> Signals]
      BY <1>1
    <2>3. /\ place \in [Reqs -> Nat] /\ out \in [Reqs -> 0 .. MaxNew]
          /\ done \in [Reqs -> 0 .. PromptLen + MaxNew] /\ retracted \in [Reqs -> 0 .. MaxRetract]
      OBVIOUS
    <2>4. /\ status \in [Reqs -> {"waiting", "running", "finished", "aborted"}]
          /\ seed \in [Reqs -> Hidden \union {None}]
          /\ outcome \in [Reqs -> {"pending", "signals", "empty", "aborted", "error"}]
          /\ failed \in BOOLEAN
      OBVIOUS
    <2>5. /\ abortReq \in [Reqs -> {"none", "queue", "memory"}] /\ rid_to_state \subseteq Reqs
          /\ finished \in [Reqs -> BOOLEAN]
          /\ reply \in [Reqs -> {"none", "signals", "empty", "aborted", "error"}]
      OBVIOUS
    <2>. QED BY <2>1, <2>2, <2>3, <2>4, <2>5 DEF TypeOK
  <1>4. chan \in [Reqs -> Seq(Messages)]
    BY EmptySeq
  <1>5. \A r \in Reqs : Aligned(sig[r]) /\ Placed(r)
    BY <1>2 DEF Placed
  <1>6. \A r \in Reqs : Sealed(r) /\ Awaited(r)
    <2>1. \A r \in Reqs : chan[r] = <<>>
      OBVIOUS
    <2>. QED BY <2>1, EmptySeq DEF Sealed, Awaited
  <1>. QED BY <1>3, <1>4, <1>5, <1>6 DEF IInv

\* Lemma: aligned lists make no check of the capture path fail.
LEMMA AlignedPasses ==
    ASSUME NEW s \in Signals, Aligned(s)
    PROVE  ~PrefillRaises(s) /\ ~VerifyRaises(s) /\ ~OutputRaises(s)
  <1>1. ~VerifyRaises(s) /\ ~OutputRaises(s)
    BY DEF Aligned, VerifyRaises, OutputRaises
  <1>2. ~PrefillRaises(s)
    <2>1. s.position # <<>> => s.accepted_tokens[Len(s.position)] # <<>>
      BY DEF Aligned
    <2>. QED BY <2>1 DEF Aligned, PrefillRaises
  <1>. QED BY <1>1, <1>2

\* Lemma: places in the batch are natural numbers.
LEMMA PlaceType ==
    /\ TypeOK => Cardinality(Running) + 1 \in Nat
    /\ \A rest \in SUBSET Reqs : FilterBatch(rest) \in [Reqs -> Nat]
  <1>1. IsFiniteSet(Reqs)
    BY SignalAssumption
  <1>2. \A rest \in SUBSET Reqs : Cardinality(rest) \in Nat
    BY <1>1, FS_Subset, FS_CardinalityType
  <1>3. Running \in SUBSET Reqs
    BY DEF Running
  <1>4. ASSUME NEW rest \in SUBSET Reqs
        PROVE  FilterBatch(rest) \in [Reqs -> Nat]
    <2>1. \A r \in Reqs : {q \in rest : place[q] <= place[r]} \in SUBSET Reqs
      OBVIOUS
    <2>2. \A r \in Reqs : Cardinality({q \in rest : place[q] <= place[r]}) \in Nat
      BY <1>2, <2>1
    <2>. QED BY <2>2 DEF FilterBatch
  <1>. QED BY <1>2, <1>3, <1>4

\* Lemma: an extend.
LEMMA PrefillIInv ==
    ASSUME IInv, NEW r \in Reqs, Prefill(r)
    PROVE  IInv'
  <1> DEFINE total == PromptLen + out[r]
             o == out[r]
             start == done[r]
  <1>0. /\ PromptLen \in Nat /\ MaxNew \in Nat /\ o \in 0 .. MaxNew /\ start \in Nat
        /\ status[r] = "waiting" /\ o < MaxNew /\ total \in Nat
    <2>1. status[r] = "waiting"
      BY Zenon DEF Prefill
    <2>2. Placed(r)
      BY DEF IInv
    <2>3. o \in 0 .. MaxNew /\ start \in 0 .. PromptLen + MaxNew
      BY DEF IInv, TypeOK
    <2>. QED BY SignalAssumption, <2>1, <2>2, <2>3 DEF Placed
  <1>1. PICK len \in 1 .. (total - start), eos \in BOOLEAN :
             LET last  == start + len = total
                 hid   == [i \in 1 .. len |-> Hid(start + i - 1, o)]
                 tok   == [i \in 1 .. len |-> IF i < len \/ last THEN Tok(start + i) ELSE Guess]
                 fin   == last /\ (eos \/ o + 1 >= MaxNew)
                 s     == [sig EXCEPT ![r] = RecordPrefill(@, hid, tok, start)]
                 o1    == [out EXCEPT ![r] = IF last THEN o + 1 ELSE o]
             IN  /\ sig' = s
                 /\ seed' = [seed EXCEPT ![r] = hid[len]]
                 /\ done' = [done EXCEPT ![r] = start + len]
                 /\ out' = o1
                 /\ status' = [status EXCEPT ![r] = IF fin THEN "finished"
                                                    ELSE IF last THEN "running" ELSE @]
                 /\ place' = IF last /\ ~fin THEN [place EXCEPT ![r] = Cardinality(Running) + 1]
                                            ELSE place
                 /\ StreamOutput(IF last THEN {r} ELSE {}, s, o1, [q \in Reqs |-> q = r /\ fin])
                 /\ failed' = (PrefillRaises(sig[r]) \/ (last /\ OutputRaises(s[r])))
    BY DEF Prefill
  <1>2. UNCHANGED <<retracted, abortReq, rid_to_state, finished, reply, outcome>>
    BY DEF Prefill, recvVars
  <1> DEFINE last  == start + len = total
             hid   == [i \in 1 .. len |-> Hid(start + i - 1, o)]
             tok   == [i \in 1 .. len |-> IF i < len \/ last THEN Tok(start + i) ELSE Guess]
             fin   == last /\ (eos \/ o + 1 >= MaxNew)
             t     == RecordPrefill(sig[r], hid, tok, start)
             s     == [sig EXCEPT ![r] = t]
  <1>3. len \in Nat /\ len >= 1 /\ start + len <= total
    BY <1>0
  <1>4. hid \in Seq(Hidden) /\ Len(hid) = len /\ hid[len] \in Hidden
    <2>1. \A i \in 1 .. len : Hid(start + i - 1, o) \in Hidden
      BY <1>0, <1>3 DEF Hid, Hidden
    <2>2. hid \in Seq(Hidden)
      BY <1>3, <2>1, IsASeq
    <2>. QED BY <1>3, <2>1, <2>2, LenProperties
  <1>5. tok \in Seq(Tokens) /\ Len(tok) = len
    <2>1. \A i \in 1 .. len : (IF i < len \/ last THEN Tok(start + i) ELSE Guess) \in Tokens
      BY <1>0, <1>3 DEF Tok, Tokens, Guess
    <2>2. tok \in Seq(Tokens)
      BY <1>3, <2>1, IsASeq
    <2>. QED BY <1>3, <2>2, LenProperties
  <1>6. sig[r] \in Signals /\ Aligned(sig[r])
    BY DEF IInv, TypeOK
  <1>7. t \in Signals /\ Aligned(t) /\ t.position = sig[r].position
    <2>1. Len(hid) = Len(tok) /\ Len(tok) > 0 /\ start \in Nat
      BY <1>0, <1>3, <1>4, <1>5
    <2>. HIDE DEF hid, tok, start
    <2>. QED BY <1>4, <1>5, <1>6, <2>1, RecordPrefillType
  <1>8. sig[r].position # <<>> => NextPosition(t) = IF last THEN total ELSE total - 1
    <2>1. sig[r].position # <<>> => NextPosition(sig[r]) = total - 1
      BY <1>0 DEF IInv, Placed
    <2>2. Len(tok) > 0 /\ start + Len(tok) <= total
      BY <1>3, <1>5
    <2>3. last <=> start + Len(tok) = total
      BY <1>5
    <2>. HIDE DEF hid, tok, start, total, last
    <2>4. ASSUME sig[r].position # <<>>
          PROVE  NextPosition(t) = IF last THEN total ELSE total - 1
      <3>1. NextPosition(sig[r]) = total - 1 /\ start \in Nat /\ total \in Nat
        BY <1>0, <2>1, <2>4
      <3>2. total = NextPosition(sig[r]) + 1
        BY <3>1
      <3>3. start + Len(tok) <= NextPosition(sig[r]) + 1
        BY <2>2, <3>2
      <3>4. NextPosition(t) = IF start + Len(tok) = NextPosition(sig[r]) + 1
                              THEN start + Len(tok) ELSE NextPosition(sig[r])
        BY <1>4, <1>5, <1>6, <2>2, <2>4, <3>1, <3>3, RecordPrefillNext
      <3>. HIDE DEF t
      <3>. QED BY <2>3, <3>1, <3>2, <3>4
    <2>. QED BY <2>4
  <1>9. /\ sig' = s
        /\ seed' = [seed EXCEPT ![r] = hid[len]]
        /\ done' = [done EXCEPT ![r] = start + len]
        /\ out' = [out EXCEPT ![r] = IF last THEN o + 1 ELSE o]
        /\ status' = [status EXCEPT ![r] = IF fin THEN "finished"
                                           ELSE IF last THEN "running" ELSE @]
        /\ place' = IF last /\ ~fin THEN [place EXCEPT ![r] = Cardinality(Running) + 1]
                                   ELSE place
        /\ StreamOutput(IF last THEN {r} ELSE {}, s, [out EXCEPT ![r] = IF last THEN o + 1 ELSE o],
                        [q \in Reqs |-> q = r /\ fin])
        /\ failed' = (PrefillRaises(sig[r]) \/ (last /\ OutputRaises(s[r])))
    BY <1>1
  <1>. HIDE DEF hid, tok, t
  <1>10. s \in [Reqs -> Signals] /\ s[r] = t /\ \A q \in Reqs : Aligned(s[q])
    BY <1>7 DEF IInv, TypeOK
  <1>11. chan' \in [Reqs -> Seq(Messages)] /\ sent' \in [Reqs -> Offsets]
    <2> DEFINE reqs == IF last THEN {r} ELSE {}
               o1 == [out EXCEPT ![r] = IF last THEN o + 1 ELSE o]
               fins == [q \in Reqs |-> q = r /\ fin]
    <2>1. reqs \in SUBSET Reqs /\ fins \in [Reqs -> BOOLEAN]
      OBVIOUS
    <2>2. StreamOutput(reqs, s, o1, fins)
      BY <1>9
    <2>3. \A q \in reqs : s[q] \in Signals /\ Aligned(s[q])
      BY <1>10
    <2>4. chan \in [Reqs -> Seq(Messages)] /\ sent \in [Reqs -> Offsets]
      BY DEF IInv, TypeOK
    <2>. HIDE DEF reqs, o1, fins, s
    <2>. QED BY <2>1, <2>2, <2>3, <2>4, StreamOK
  <1>16. \A q \in Reqs : Sealed(q)'
    <2> DEFINE reqs == IF last THEN {r} ELSE {}
               o1 == [out EXCEPT ![r] = IF last THEN o + 1 ELSE o]
               fins == [q \in Reqs |-> q = r /\ fin]
    <2>1. reqs \in SUBSET Reqs /\ StreamOutput(reqs, s, o1, fins)
      BY <1>9
    <2>2. \A q \in Reqs : q \in reqs /\ fins[q] => status'[q] = "finished"
      BY <1>9 DEF IInv, TypeOK
    <2>3. \A q \in Reqs : status[q] = "finished" => status'[q] = "finished"
      BY <1>0, <1>9 DEF IInv, TypeOK
    <2>4. chan \in [Reqs -> Seq(Messages)] /\ \A q \in Reqs : Sealed(q)
      BY DEF IInv
    <2>. HIDE DEF reqs, o1, fins, s
    <2>. QED BY <2>1, <2>2, <2>3, <2>4, StreamSeals
  <1>17. \A q \in Reqs : Awaited(q)'
    <2>1. \A q \in Reqs : status'[q] = status[q] \/ q = r
      BY <1>9 DEF IInv, TypeOK
    <2>2. abortReq[r] = "none" /\ r \in rid_to_state /\ reply[r] # "error"
      BY <1>0 DEF IInv, Awaited
    <2>. QED BY <1>2, <2>1, <2>2 DEF IInv, Awaited
  <1>12. failed' = FALSE
    BY <1>6, <1>7, <1>9, <1>10, AlignedPasses
  <1>13. TypeOK'
    <2>1. status' \in [Reqs -> {"waiting", "running", "finished", "aborted"}]
      BY <1>9 DEF IInv, TypeOK
    <2>2. place' \in [Reqs -> Nat]
      <3>1. Cardinality(Running) + 1 \in Nat
        BY PlaceType DEF IInv
      <3>. QED BY <1>9, <3>1 DEF IInv, TypeOK
    <2>3. out' \in [Reqs -> 0 .. MaxNew]
      BY <1>0, <1>9 DEF IInv, TypeOK
    <2>4. done' \in [Reqs -> 0 .. PromptLen + MaxNew]
      <3>1. start + len \in 0 .. PromptLen + MaxNew
        BY <1>0, <1>3
      <3>. QED BY <1>9, <3>1 DEF IInv, TypeOK
    <2>5. seed' \in [Reqs -> Hidden \union {None}]
      BY <1>4, <1>9 DEF IInv, TypeOK
    <2>6. sig' \in [Reqs -> Signals]
      BY <1>9, <1>10
    <2>. QED BY <1>2, <1>11, <1>12, <2>1, <2>2, <2>3, <2>4, <2>5, <2>6 DEF IInv, TypeOK
  <1>14. \A q \in Reqs : Aligned(sig'[q])
    BY <1>9, <1>10
  <1>15. \A q \in Reqs : Placed(q)'
    <2>1. ASSUME NEW q \in Reqs, q # r
          PROVE  Placed(q)'
      <3>1. /\ status'[q] = status[q] /\ out'[q] = out[q] /\ done'[q] = done[q]
            /\ sig'[q] = sig[q]
        BY <1>9, <2>1 DEF IInv, TypeOK
      <3>. QED BY <3>1 DEF IInv, Placed
    <2>2. Placed(r)'
      <3>1. /\ status'[r] = IF fin THEN "finished" ELSE IF last THEN "running" ELSE "waiting"
            /\ out'[r] = IF last THEN o + 1 ELSE o
            /\ done'[r] = start + len /\ sig'[r] = t
        BY <1>0, <1>9, <1>10 DEF IInv, TypeOK
      <3>2. CASE fin
        BY <3>1, <3>2 DEF Placed
      <3>3. CASE ~fin /\ last
        <4>1. /\ status'[r] = "running" /\ out'[r] = o + 1 /\ o + 1 < MaxNew
              /\ done'[r] = PromptLen + (o + 1) - 1
          BY <1>0, <1>3, <3>1, <3>3
        <4>2. t.position # <<>> => NextPosition(t) = PromptLen + (o + 1) - 1
          BY <1>0, <1>7, <1>8, <3>3
        <4>. QED BY <1>0, <3>1, <4>1, <4>2 DEF Placed
      <3>4. CASE ~fin /\ ~last
        <4>1. status'[r] = "waiting" /\ out'[r] = o
          BY <3>1, <3>4
        <4>2. t.position # <<>> => NextPosition(t) = PromptLen + o - 1
          BY <1>0, <1>7, <1>8, <3>4
        <4>. QED BY <1>0, <3>1, <4>1, <4>2 DEF Placed
      <3>. QED BY <3>2, <3>3, <3>4
    <2>. QED BY <2>1, <2>2
  <1>. QED BY <1>11, <1>12, <1>13, <1>14, <1>15, <1>16, <1>17 DEF IInv

\* Lemma: what one verification of a running request leaves.
LEMMA VerifiedRequest ==
    ASSUME IInv, NEW r \in Reqs, status[r] = "running", NEW v \in VerifyOutcomes(r),
           NEW h \in Hidden \union {None}
    PROVE  LET t == RecordVerify(sig[r], done[r], out[r], h, v.n, v.e)
           IN  /\ t \in Signals /\ Aligned(t) /\ t.position # <<>>
               /\ NextPosition(t) = PromptLen + (out[r] + v.e) - 1
               /\ out[r] + v.e \in 1 .. MaxNew
               /\ ~v.fin => out[r] + v.e < MaxNew
               /\ done[r] + v.e = PromptLen + (out[r] + v.e) - 1
               /\ done[r] + v.e \in 0 .. PromptLen + MaxNew
               /\ Hid(done[r] + v.e - 1, out[r]) \in Hidden
  <1> DEFINE o == out[r]
             d == done[r]
             n == v.n
             e == v.e
  <1>1. /\ PromptLen \in Nat \ {0} /\ MaxNew \in Nat /\ Steps \in Nat
        /\ o \in 0 .. MaxNew /\ o >= 1 /\ d = PromptLen + o - 1
    BY SignalAssumption DEF IInv, TypeOK, Placed
  <1>2. /\ n \in 1 .. Steps + 1 /\ e \in 1 .. Steps + 1 /\ v.fin \in BOOLEAN
        /\ o + e <= MaxNew /\ (o + e = MaxNew => v.fin)
    BY DEF VerifyOutcomes
  <1>3. e \in Nat \ {0} /\ d \in Nat \ {0} /\ d + e <= PromptLen + MaxNew
    BY <1>1, <1>2
  <1>4. sig[r] \in Signals /\ Aligned(sig[r])
    BY DEF IInv, TypeOK
  <1>5. sig[r].prefill_next <= d
    <2>1. CASE sig[r].position = <<>>
      BY <1>1, <1>3, <1>4, <2>1 DEF Aligned
    <2>2. CASE sig[r].position # <<>>
      <3> DEFINE w == sig[r].position[Len(sig[r].position)]
                        + Len(sig[r].accepted_tokens[Len(sig[r].position)]) + 1
      <3>1. w \in Nat /\ sig[r].prefill_next \in Nat
        BY <1>4, <2>2, VerifiedType DEF Signals
      <3>2. Maximum(w, sig[r].prefill_next) = d
        BY <1>1, <2>2 DEF IInv, Placed, NextPosition
      <3>. HIDE DEF w, d
      <3>. QED BY <1>3, <3>1, <3>2 DEF Maximum
    <2>. QED BY <2>1, <2>2
  <1> DEFINE t == RecordVerify(sig[r], d, o, h, n, e)
  <1>6. t \in Signals
    <2>. HIDE DEF o, d, n, e
    <2>. QED BY <1>1, <1>2, <1>3, <1>4, RecordVerifyType
  <1>7. Aligned(t) /\ t.position # <<>> /\ NextPosition(t) = d + e
    <2>. HIDE DEF o, d, n, e
    <2>. QED BY <1>3, <1>4, <1>5, RecordVerifyShape
  <1>8. Hid(d + e - 1, o) \in Hidden
    BY <1>1, <1>3 DEF Hid, Hidden
  <1>9. /\ d + e = PromptLen + (o + e) - 1 /\ o + e \in 1 .. MaxNew
        /\ d + e \in 0 .. PromptLen + MaxNew /\ (~v.fin => o + e < MaxNew)
    BY <1>1, <1>2, <1>3
  <1>. QED BY <1>6, <1>7, <1>8, <1>9

\* Lemma: a decode iteration.
LEMMA DecodeIInv ==
    ASSUME IInv, Decode
    PROVE  IInv'
  <1>1. PICK last \in Running :
         LET live == {r \in Running : place[r] <= place[last]}
             gone == Running \ live
             known == \A r \in live : seed[r] # None
         IN  \E v \in [live -> UNION {VerifyOutcomes(r) : r \in live}] :
               LET s  == [r \in Reqs |->
                            IF r \in live
                            THEN RecordVerify(sig[r], done[r], out[r],
                                              IF known THEN seed[r] ELSE None, v[r].n, v[r].e)
                            ELSE sig[r]]
                   o1 == [r \in Reqs |-> IF r \in live THEN out[r] + v[r].e ELSE out[r]]
                   ended == {r \in live : v[r].fin}
               IN  /\ \A r \in live : v[r] \in VerifyOutcomes(r)
                   /\ Retract(gone)
                   /\ sig' = s
                   /\ out' = o1
                   /\ seed' = [r \in Reqs |-> IF r \in ended THEN None
                                              ELSE IF r \in live THEN Hid(done[r] + v[r].e - 1, out[r])
                                              ELSE seed[r]]
                   /\ done' = [r \in Reqs |-> IF r \in live THEN done[r] + v[r].e
                                              ELSE IF r \in gone THEN 0 ELSE done[r]]
                   /\ status' = [r \in Reqs |-> IF r \in ended THEN "finished"
                                                ELSE IF r \in gone THEN "waiting" ELSE status[r]]
                   /\ place' = FilterBatch(live \ ended)
                   /\ StreamOutput(live, s, o1, [r \in Reqs |-> r \in ended])
                   /\ failed' = \E r \in live : VerifyRaises(sig[r]) \/ OutputRaises(s[r])
    BY DEF Decode
  <1>2. UNCHANGED <<abortReq, rid_to_state, finished, reply, outcome>>
    BY DEF Decode, recvVars
  <1> DEFINE live == {r \in Running : place[r] <= place[last]}
             gone == Running \ live
             known == \A r \in live : seed[r] # None
  <1>3. PICK v \in [live -> UNION {VerifyOutcomes(r) : r \in live}] :
               LET s  == [r \in Reqs |->
                            IF r \in live
                            THEN RecordVerify(sig[r], done[r], out[r],
                                              IF known THEN seed[r] ELSE None, v[r].n, v[r].e)
                            ELSE sig[r]]
                   o1 == [r \in Reqs |-> IF r \in live THEN out[r] + v[r].e ELSE out[r]]
                   ended == {r \in live : v[r].fin}
               IN  /\ \A r \in live : v[r] \in VerifyOutcomes(r)
                   /\ Retract(gone)
                   /\ sig' = s
                   /\ out' = o1
                   /\ seed' = [r \in Reqs |-> IF r \in ended THEN None
                                              ELSE IF r \in live THEN Hid(done[r] + v[r].e - 1, out[r])
                                              ELSE seed[r]]
                   /\ done' = [r \in Reqs |-> IF r \in live THEN done[r] + v[r].e
                                              ELSE IF r \in gone THEN 0 ELSE done[r]]
                   /\ status' = [r \in Reqs |-> IF r \in ended THEN "finished"
                                                ELSE IF r \in gone THEN "waiting" ELSE status[r]]
                   /\ place' = FilterBatch(live \ ended)
                   /\ StreamOutput(live, s, o1, [r \in Reqs |-> r \in ended])
                   /\ failed' = \E r \in live : VerifyRaises(sig[r]) \/ OutputRaises(s[r])
    BY <1>1
  <1> DEFINE h(r) == IF known THEN seed[r] ELSE None
             t(r) == RecordVerify(sig[r], done[r], out[r], h(r), v[r].n, v[r].e)
             s == [r \in Reqs |-> IF r \in live THEN t(r) ELSE sig[r]]
             o1 == [r \in Reqs |-> IF r \in live THEN out[r] + v[r].e ELSE out[r]]
             ended == {r \in live : v[r].fin}
             fins == [r \in Reqs |-> r \in ended]
  <1>4. /\ \A r \in live : v[r] \in VerifyOutcomes(r)
        /\ Retract(gone)
        /\ sig' = s
        /\ out' = o1
        /\ seed' = [r \in Reqs |-> IF r \in ended THEN None
                                   ELSE IF r \in live THEN Hid(done[r] + v[r].e - 1, out[r])
                                   ELSE seed[r]]
        /\ done' = [r \in Reqs |-> IF r \in live THEN done[r] + v[r].e
                                   ELSE IF r \in gone THEN 0 ELSE done[r]]
        /\ status' = [r \in Reqs |-> IF r \in ended THEN "finished"
                                     ELSE IF r \in gone THEN "waiting" ELSE status[r]]
        /\ place' = FilterBatch(live \ ended)
        /\ StreamOutput(live, s, o1, fins)
        /\ failed' = \E r \in live : VerifyRaises(sig[r]) \/ OutputRaises(s[r])
    BY <1>3
  <1>5. live \in SUBSET Reqs /\ gone \in SUBSET Reqs
        /\ \A r \in live \union gone : status[r] = "running"
    BY DEF Running
  <1>6. \A r \in live : h(r) \in Hidden \union {None}
    BY <1>5 DEF IInv, TypeOK
  <1>7. \A r \in live : r \notin gone
    OBVIOUS
  <1>8. ended \subseteq live /\ \A r \in live : r \notin ended => ~v[r].fin
    OBVIOUS
  <1>. HIDE DEF live, gone, known, h, ended
  <1>9. \A r \in live :
            /\ t(r) \in Signals /\ Aligned(t(r)) /\ t(r).position # <<>>
            /\ NextPosition(t(r)) = PromptLen + (out[r] + v[r].e) - 1
            /\ out[r] + v[r].e \in 1 .. MaxNew
            /\ ~v[r].fin => out[r] + v[r].e < MaxNew
            /\ done[r] + v[r].e = PromptLen + (out[r] + v[r].e) - 1
            /\ done[r] + v[r].e \in 0 .. PromptLen + MaxNew
            /\ Hid(done[r] + v[r].e - 1, out[r]) \in Hidden
    BY <1>4, <1>5, <1>6, VerifiedRequest
  <1>. HIDE DEF t
  <1>10. s \in [Reqs -> Signals] /\ \A r \in Reqs : Aligned(s[r])
    BY <1>5, <1>9 DEF IInv, TypeOK
  <1>11. chan' \in [Reqs -> Seq(Messages)] /\ sent' \in [Reqs -> Offsets]
    <2>1. fins \in [Reqs -> BOOLEAN]
      OBVIOUS
    <2>2. \A r \in live : s[r] \in Signals /\ Aligned(s[r])
      BY <1>5, <1>10
    <2>3. chan \in [Reqs -> Seq(Messages)] /\ sent \in [Reqs -> Offsets]
      BY DEF IInv, TypeOK
    <2>4. StreamOutput(live, s, o1, fins)
      BY <1>4
    <2>. HIDE DEF s, o1, fins
    <2>. QED BY <1>5, <2>1, <2>2, <2>3, <2>4, StreamOK
  <1>12. failed' = FALSE
    <2>1. \A r \in live : ~VerifyRaises(sig[r]) /\ ~OutputRaises(s[r])
      <3>1. \A r \in live : sig[r] \in Signals /\ Aligned(sig[r])
        BY <1>5 DEF IInv, TypeOK
      <3>2. \A r \in live : s[r] \in Signals /\ Aligned(s[r])
        BY <1>5, <1>10
      <3>. HIDE DEF s
      <3>. QED BY <3>1, <3>2, AlignedPasses
    <2>. QED BY <1>4, <2>1
  <1>13. TypeOK'
    <2>1. status' \in [Reqs -> {"waiting", "running", "finished", "aborted"}]
      BY <1>4 DEF IInv, TypeOK
    <2>2. place' \in [Reqs -> Nat]
      <3>1. live \ ended \in SUBSET Reqs
        BY <1>5
      <3>. QED BY <1>4, <3>1, PlaceType
    <2>3. out' \in [Reqs -> 0 .. MaxNew]
      <3>1. \A r \in live : out[r] + v[r].e \in 0 .. MaxNew
        BY <1>9, SignalAssumption
      <3>. QED BY <1>4, <3>1 DEF IInv, TypeOK
    <2>4. done' \in [Reqs -> 0 .. PromptLen + MaxNew]
      <3>1. 0 \in 0 .. PromptLen + MaxNew
        BY SignalAssumption
      <3>. QED BY <1>4, <1>9, <3>1 DEF IInv, TypeOK
    <2>5. seed' \in [Reqs -> Hidden \union {None}]
      BY <1>4, <1>9 DEF IInv, TypeOK
    <2>6. retracted' \in [Reqs -> 0 .. MaxRetract]
      <3>1. \A r \in gone : retracted[r] + 1 \in 0 .. MaxRetract
        BY <1>4, <1>5, SignalAssumption DEF Retract, IInv, TypeOK
      <3>. QED BY <1>4, <3>1 DEF Retract, IInv, TypeOK
    <2>7. sig' \in [Reqs -> Signals]
      BY <1>4, <1>10
    <2>. QED BY <1>2, <1>11, <1>12, <2>1, <2>2, <2>3, <2>4, <2>5, <2>6, <2>7 DEF IInv, TypeOK
  <1>14. \A r \in Reqs : Aligned(sig'[r])
    BY <1>4, <1>10
  <1>15. \A r \in Reqs : Placed(r)'
    <2> SUFFICES ASSUME NEW r \in Reqs PROVE Placed(r)'
      OBVIOUS
    <2>1. CASE r \in live /\ r \in ended
      <3>1. status'[r] = "finished"
        BY <1>4, <2>1
      <3>. QED BY <3>1 DEF Placed
    <2>2. CASE r \in live /\ r \notin ended
      <3>1. /\ status'[r] = "running" /\ out'[r] = out[r] + v[r].e
            /\ done'[r] = done[r] + v[r].e /\ sig'[r] = t(r)
        BY <1>4, <1>5, <1>7, <2>2
      <3>2. /\ out[r] + v[r].e >= 1 /\ out[r] + v[r].e < MaxNew
            /\ done[r] + v[r].e = PromptLen + (out[r] + v[r].e) - 1
            /\ NextPosition(t(r)) = PromptLen + (out[r] + v[r].e) - 1
        BY <1>8, <1>9, <2>2, SignalAssumption
      <3>. QED BY <3>1, <3>2 DEF Placed
    <2>3. CASE r \in gone
      <3>1. r \notin live /\ r \notin ended /\ status[r] = "running"
        BY <1>5, <1>7, <1>8, <2>3
      <3>2. status'[r] = "waiting" /\ out'[r] = out[r] /\ sig'[r] = sig[r]
        BY <1>4, <2>3, <3>1
      <3>. QED BY <3>1, <3>2 DEF IInv, Placed
    <2>4. CASE r \notin live /\ r \notin gone
      <3>1. r \notin ended
        BY <1>8, <2>4
      <3>2. /\ status'[r] = status[r] /\ out'[r] = out[r] /\ done'[r] = done[r]
            /\ sig'[r] = sig[r]
        BY <1>4, <2>4, <3>1
      <3>. QED BY <3>2 DEF IInv, Placed
    <2>. QED BY <2>1, <2>2, <2>3, <2>4
  <1>16. \A r \in Reqs : Sealed(r)'
    <2>1. \A r \in Reqs : r \in live /\ fins[r] => status'[r] = "finished"
      BY <1>4
    <2>2. \A r \in Reqs : status[r] = "finished" => status'[r] = "finished"
      BY <1>4, <1>5
    <2>3. chan \in [Reqs -> Seq(Messages)] /\ \A r \in Reqs : Sealed(r)
      BY DEF IInv
    <2>4. StreamOutput(live, s, o1, fins)
      BY <1>4
    <2>. HIDE DEF s, o1, fins
    <2>. QED BY <1>5, <2>1, <2>2, <2>3, <2>4, StreamSeals
  <1>17. \A r \in Reqs : Awaited(r)'
    <2>1. \A r \in Reqs : \/ status'[r] = status[r]
                          \/ status[r] = "running" /\ status'[r] \in {"waiting", "finished"}
      <3>1. status' = [r \in Reqs |-> IF r \in ended THEN "finished"
                                      ELSE IF r \in gone THEN "waiting" ELSE status[r]]
        BY <1>4
      <3>2. \A r \in ended \union gone : status[r] = "running"
        BY <1>5, <1>8
      <3>. QED BY <3>1, <3>2
    <2>2. \A r \in Reqs : Awaited(r)
      BY DEF IInv
    <2>. QED BY <1>2, <2>1, <2>2 DEF Awaited
  <1>. QED BY <1>11, <1>12, <1>13, <1>14, <1>15, <1>16, <1>17 DEF IInv

\* Lemma: the first request of the batch is aborted, the others wait again.
LEMMA OutOfMemoryIInv ==
    ASSUME IInv, OutOfMemory
    PROVE  IInv'
  <1>1. PICK first \in Running :
         /\ Retract(Running \ {first})
         /\ status' = [r \in Reqs |-> IF r = first THEN "aborted"
                                      ELSE IF r \in Running THEN "waiting" ELSE status[r]]
         /\ done' = [r \in Reqs |-> IF r \in Running THEN 0 ELSE done[r]]
         /\ abortReq' = [abortReq EXCEPT ![first] = "memory"]
    BY DEF OutOfMemory
  <1>2. /\ place' = FilterBatch({})
        /\ UNCHANGED <<out, sig, seed, sent, chan, rid_to_state, finished, reply, outcome, failed>>
    BY DEF OutOfMemory, sigVars, recvVars
  <1>3. \A r \in Running : r \in Reqs /\ status[r] = "running"
    BY DEF Running
  <1>4. TypeOK'
    <2>1. status' \in [Reqs -> {"waiting", "running", "finished", "aborted"}]
      BY <1>1 DEF IInv, TypeOK
    <2>2. place' \in [Reqs -> Nat]
      BY <1>2, PlaceType
    <2>3. done' \in [Reqs -> 0 .. PromptLen + MaxNew]
      <3>1. 0 \in 0 .. PromptLen + MaxNew
        BY SignalAssumption
      <3>. QED BY <1>1, <3>1 DEF IInv, TypeOK
    <2>4. retracted' \in [Reqs -> 0 .. MaxRetract]
      <3>1. \A r \in Running \ {first} : retracted[r] + 1 \in 0 .. MaxRetract
        BY <1>1, <1>3, SignalAssumption DEF Retract, IInv, TypeOK
      <3>. QED BY <1>1, <3>1 DEF Retract, IInv, TypeOK
    <2>5. abortReq' \in [Reqs -> {"none", "queue", "memory"}]
      BY <1>1 DEF IInv, TypeOK
    <2>. QED BY <1>2, <2>1, <2>2, <2>3, <2>4, <2>5 DEF IInv, TypeOK
  <1>5. ASSUME NEW r \in Reqs PROVE Placed(r)'
    <2>1. out'[r] = out[r] /\ sig'[r] = sig[r]
      BY <1>2
    <2>2. CASE r = first
      <3>1. status'[r] = "aborted"
        BY <1>1, <2>2
      <3>. QED BY <3>1 DEF Placed
    <2>3. CASE r # first /\ r \in Running
      <3>1. status'[r] = "waiting" /\ status[r] = "running"
        BY <1>1, <1>3, <2>3
      <3>. QED BY <2>1, <3>1 DEF IInv, Placed
    <2>4. CASE r # first /\ r \notin Running
      <3>1. status'[r] = status[r] /\ done'[r] = done[r]
        BY <1>1, <2>4
      <3>. QED BY <2>1, <3>1 DEF IInv, Placed
    <2>. QED BY <2>2, <2>3, <2>4
  <1>6. \A r \in Reqs : Sealed(r)' /\ Awaited(r)'
    <2>1. \A r \in Reqs : /\ r = first => status[r] = "running" /\ status'[r] = "aborted"
                          /\ r # first => /\ abortReq'[r] = abortReq[r]
                                          /\ \/ status'[r] = status[r]
                                             \/ status[r] = "running" /\ status'[r] = "waiting"
      BY <1>1, <1>3 DEF IInv, TypeOK
    <2> SUFFICES ASSUME NEW r \in Reqs PROVE Sealed(r)' /\ Awaited(r)'
      OBVIOUS
    <2>2. Sealed(r) /\ Awaited(r)
      BY DEF IInv
    <2>3. /\ status[r] = "finished" => status'[r] = "finished"
          /\ chan' = chan /\ rid_to_state' = rid_to_state /\ reply' = reply
      BY <1>2, <2>1
    <2>4. Sealed(r)'
      BY <2>2, <2>3 DEF Sealed
    <2>5. CASE r = first
      <3>1. Awaited(r)'
        BY <2>1, <2>2, <2>3, <2>5 DEF Awaited
      <3>. QED BY <2>4, <3>1
    <2>6. CASE r # first
      <3>1. Awaited(r)'
        BY <2>1, <2>2, <2>3, <2>6 DEF Awaited
      <3>. QED BY <2>4, <3>1
    <2>. QED BY <2>5, <2>6
  <1>. QED BY <1>2, <1>4, <1>5, <1>6 DEF IInv

\* Lemma: the tokenizer manager accepts the oldest output.
LEMMA ReceiveIInv ==
    ASSUME IInv, NEW r \in Reqs, Receive(r)
    PROVE  IInv'
  <1>1. chan[r] \in Seq(Messages) /\ chan[r] # <<>>
    BY DEF IInv, Receive
  <1>2. Head(chan[r]) \in Messages /\ Tail(chan[r]) \in Seq(Messages)
    BY <1>1, HeadTailProperties
  <1>3. ~ReceiveRaises(Head(chan[r]))
    BY <1>2 DEF Messages
  <1>4. failed' = FALSE
    BY <1>3 DEF Receive, IInv, TypeOK
  <1>5. chan' \in [Reqs -> Seq(Messages)]
    BY <1>2 DEF Receive, IInv
  <1>6. UNCHANGED <<status, place, out, done, retracted, sig, seed, sent, abortReq, outcome>>
    BY DEF Receive, reqVars, sigVars
  <1>7. /\ finished' \in [Reqs -> BOOLEAN] /\ rid_to_state' \subseteq Reqs
        /\ reply' \in [Reqs -> {"none", "signals", "empty", "aborted", "error"}]
    <2>1. Head(chan[r]).finished \in BOOLEAN
      BY <1>2 DEF Messages
    <2>. QED BY <2>1 DEF Receive, IInv, TypeOK
  <1>8. \A q \in Reqs : Sealed(q)'
    <2>1. \A q \in Reqs : q # r => chan'[q] = chan[q]
      BY DEF Receive, IInv
    <2>2. /\ chan'[r] = Tail(chan[r]) /\ Len(chan[r]) \in Nat \ {0}
          /\ Len(chan'[r]) = Len(chan[r]) - 1
          /\ \A i \in 1 .. Len(chan[r]) - 1 : chan'[r][i] = chan[r][i + 1]
      BY <1>1, HeadTailProperties, EmptySeq DEF Receive, IInv
    <2>3. \A i \in 1 .. Len(chan'[r]) : i + 1 \in 1 .. Len(chan[r]) /\ chan'[r][i] = chan[r][i + 1]
      BY <2>2
    <2>4. Sealed(r)'
      BY <1>6, <2>3 DEF IInv, Sealed
    <2>. QED BY <1>6, <2>1, <2>4 DEF IInv, Sealed
  <1>9. \A q \in Reqs : Awaited(q)'
    <2>1. \A q \in Reqs : q # r => /\ reply'[q] = reply[q]
                                   /\ q \in rid_to_state => q \in rid_to_state'
      BY DEF Receive, IInv, TypeOK
    <2>2. \/ rid_to_state' = rid_to_state /\ reply'[r] = reply[r]
          \/ Head(chan[r]).finished /\ reply'[r] # "error"
      BY DEF Receive, IInv, TypeOK
    <2>3. Head(chan[r]).finished => status[r] = "finished"
      <3>1. 1 \in 1 .. Len(chan[r]) /\ Head(chan[r]) = chan[r][1]
        BY <1>1, HeadTailProperties, EmptySeq
      <3>. QED BY <3>1 DEF IInv, Sealed
    <2>4. \A q \in Reqs : Awaited(q)
      BY DEF IInv
    <2>5. Awaited(r)'
      BY <1>6, <2>2, <2>3, <2>4 DEF Awaited
    <2>6. ASSUME NEW q \in Reqs, q # r PROVE Awaited(q)'
      <3>1. /\ status' = status /\ abortReq' = abortReq /\ reply'[q] = reply[q]
            /\ q \in rid_to_state => q \in rid_to_state'
        BY <1>6, <2>1, <2>6
      <3>. QED BY <2>4, <3>1 DEF Awaited
    <2>. QED BY <2>5, <2>6
  <1>. QED BY <1>4, <1>5, <1>6, <1>7, <1>8, <1>9 DEF IInv, TypeOK, Placed

LEMMA AbortIInv ==
    ASSUME IInv, NEW r \in Reqs, AbortWaiting(r) \/ ReceiveAbort(r)
    PROVE  IInv'
  <1>0. \A q \in Reqs : Awaited(q) /\ Sealed(q)
    BY DEF IInv
  <1>1. CASE AbortWaiting(r)
    <2>1. /\ status[r] = "waiting" /\ status' = [status EXCEPT ![r] = "aborted"]
          /\ abortReq' = [abortReq EXCEPT ![r] = "queue"]
          /\ UNCHANGED <<place, out, done, retracted, sig, seed, sent, chan, rid_to_state,
                         finished, reply, outcome, failed>>
      BY <1>1 DEF AbortWaiting, sigVars, recvVars
    <2>2. TypeOK'
      BY <2>1 DEF IInv, TypeOK
    <2>3. \A q \in Reqs : /\ q # r => status'[q] = status[q] /\ abortReq'[q] = abortReq[q]
                          /\ q = r => status'[q] = "aborted"
      BY <2>1 DEF IInv, TypeOK
    <2>4. \A q \in Reqs : Sealed(q)'
      BY <1>0, <2>1, <2>3 DEF Sealed
    <2>5. \A q \in Reqs : Awaited(q)'
      BY <1>0, <2>1, <2>3 DEF Awaited
    <2>. QED BY <2>1, <2>2, <2>3, <2>4, <2>5 DEF IInv, Placed
  <1>2. CASE ReceiveAbort(r)
    <2>1. /\ abortReq[r] # "none" /\ abortReq' = [abortReq EXCEPT ![r] = "none"]
          /\ finished' = [finished EXCEPT ![r] = TRUE]
          /\ reply' = [reply EXCEPT ![r] = IF abortReq[r] = "memory" THEN "error" ELSE "aborted"]
          /\ failed' = (r \notin rid_to_state)
          /\ UNCHANGED <<status, place, out, done, retracted, sig, seed, sent, chan, rid_to_state,
                         outcome>>
      BY <1>2 DEF ReceiveAbort, reqVars, sigVars
    <2>2. failed' = FALSE /\ status[r] = "aborted"
      BY <1>0, <2>1 DEF Awaited
    <2>3. TypeOK'
      BY <2>1, <2>2 DEF IInv, TypeOK
    <2>4. \A q \in Reqs : q # r => abortReq'[q] = abortReq[q] /\ reply'[q] = reply[q]
      BY <2>1 DEF IInv, TypeOK
    <2>5. abortReq'[r] = "none"
      BY <2>1 DEF IInv, TypeOK
    <2>6. \A q \in Reqs : Sealed(q)'
      BY <1>0, <2>1 DEF Sealed
    <2>7. \A q \in Reqs : Awaited(q)'
      BY <1>0, <2>1, <2>2, <2>4, <2>5 DEF Awaited
    <2>. QED BY <2>1, <2>2, <2>3, <2>6, <2>7 DEF IInv, Placed
  <1>. QED BY <1>1, <1>2

\* Lemma: the coroutine takes what it is given.
LEMMA WakeIInv ==
    ASSUME IInv, NEW r \in Reqs, Wake(r)
    PROVE  IInv'
  <1>0. \A q \in Reqs : Awaited(q)
    BY DEF IInv
  <1>1. /\ reply' = [reply EXCEPT ![r] = "none"] /\ reply[r] # "none"
        /\ outcome' = IF finished[r] THEN [outcome EXCEPT ![r] = reply[r]] ELSE outcome
        /\ rid_to_state' = IF finished[r] /\ reply[r] = "error" THEN rid_to_state \ {r} ELSE rid_to_state
        /\ UNCHANGED <<status, place, out, done, retracted, sig, seed, sent, chan, abortReq,
                       finished, failed>>
    BY DEF Wake, reqVars, sigVars
  <1>2. TypeOK'
    BY <1>1 DEF IInv, TypeOK
  <1>3. \A q \in Reqs : q # r => reply'[q] = reply[q] /\ (q \in rid_to_state => q \in rid_to_state')
    BY <1>1 DEF IInv, TypeOK
  <1>4. reply'[r] = "none" /\ (rid_to_state' = rid_to_state \/ reply[r] = "error")
    BY <1>1 DEF IInv, TypeOK
  <1>5. \A q \in Reqs : Awaited(q)'
    <2>1. Awaited(r)'
      BY <1>0, <1>1, <1>4 DEF Awaited
    <2>2. ASSUME NEW q \in Reqs, q # r PROVE Awaited(q)'
      BY <1>0, <1>1, <1>3, <2>2 DEF Awaited
    <2>. QED BY <2>1, <2>2
  <1>. QED BY <1>1, <1>2, <1>5 DEF IInv, Placed, Sealed

LEMMA StutterIInv ==
    ASSUME IInv, UNCHANGED vars
    PROVE  IInv'
  BY DEF IInv, TypeOK, Placed, Sealed, Awaited, vars

\* The invariant of the whole capture path.
THEOREM Invariance == Spec => []IInv
  <1>1. ASSUME IInv, [Next]_vars
        PROVE  IInv'
    <2>1. CASE \E r \in Reqs : Prefill(r)
      BY <1>1, <2>1, PrefillIInv
    <2>2. CASE Decode
      BY <1>1, <2>2, DecodeIInv
    <2>3. CASE OutOfMemory
      BY <1>1, <2>3, OutOfMemoryIInv
    <2>4. CASE \E r \in Reqs : Receive(r)
      BY <1>1, <2>4, ReceiveIInv
    <2>5. CASE \E r \in Reqs : AbortWaiting(r) \/ ReceiveAbort(r)
      BY <1>1, <2>5, AbortIInv
    <2>6. CASE UNCHANGED vars
      BY <1>1, <2>6, StutterIInv
    <2>7. CASE Idle
      BY <2>6, <2>7 DEF Idle
    <2>8. CASE \E r \in Reqs : Wake(r)
      BY <1>1, <2>8, WakeIInv
    <2>. QED BY <1>1, <2>1, <2>2, <2>3, <2>4, <2>5, <2>6, <2>7, <2>8 DEF Next
  <1>. QED BY <1>1, InitIInv, PTL DEF Spec

\* The scheduler's and the tokenizer manager's state keeps its type.
THEOREM TypeCorrect == Spec => []TypeOK
  <1>1. IInv => TypeOK
    BY DEF IInv
  <1>. QED BY <1>1, Invariance, PTL

\* No check of _record_prefill_signals, verify, stream_output or
\* _handle_batch_output fails, for any requests, retractions and chunks.
THEOREM CaptureSafe == Spec => []CaptureNeverRaises
  <1>1. IInv => CaptureNeverRaises
    BY DEF IInv, CaptureNeverRaises
  <1>. QED BY <1>1, Invariance, PTL

\* A request that will go on has recorded the positions its response has
\* committed, however often it has been retracted and prefilled again.
THEOREM RecordingComplete == Spec => []RecordedIsCommitted
  <1>1. IInv => RecordedIsCommitted
    BY DEF IInv, Placed, RecordedIsCommitted
  <1>. QED BY <1>1, Invariance, PTL
=============================================================================
