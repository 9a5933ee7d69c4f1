------------------------ MODULE SignalStream_proofs ------------------------
(***************************************************************************)
(* What reaches the rollout worker is what was recorded: proved for any    *)
(* number of requests, any lengths, intervals and retractions, with or     *)
(* without chunked prefills.  The messages in the channel, put one after   *)
(* the other behind what the tokenizer manager already holds, are the      *)
(* recorded lists up to the send offsets.  The last part is about the      *)
(* packer: without chunked prefills the recorded lists are a record, one   *)
(* cycle after the other with what re-prefills recorded between them, and  *)
(* pack_signals accepts every record.                                      *)
(***************************************************************************)
EXTENDS SignalCapture_proofs, WellFoundedInduction

\* What a list may hold.
Vals ==
    Hidden \union {None} \union Tokens \union Nat \union 1 .. Steps + 1
    \union Seq(Hidden) \union Seq(Tokens) \union Seq(Nat)

\* Every list ends where the send offsets of its kind end.
Square(s) == \A f \in Lists : Len(s[f]) = Offset(Ends(s), f)

\* The lists of t continue those of s.
Grows(s, t) ==
    \A f \in Lists : Len(s[f]) <= Len(t[f]) /\ \A i \in 1 .. Len(s[f]) : t[f][i] = s[f][i]

\* Message m holds what s recorded between the offsets a and b.
Link(m, s, a, b) ==
    \A f \in Lists :
        /\ Offset(a, f) <= Offset(b, f) /\ Offset(b, f) <= Len(s[f])
        /\ Len(m.lists[f]) = Offset(b, f) - Offset(a, f)
        /\ \A j \in 1 .. Len(m.lists[f]) : m.lists[f][j] = s[f][Offset(a, f) + j]

\* The lists of g are initial parts of those of s.
Prefix(g, s) ==
    \A f \in Lists : /\ g[f] \in Seq(Vals) /\ Len(g[f]) <= Len(s[f])
                     /\ \A i \in 1 .. Len(g[f]) : g[f][i] = s[f][i]

\* The outputs on their way follow each other without a gap or an overlap.
Linked(r) ==
    \E c \in [0 .. Len(chan[r]) -> Offsets] :
        /\ c[Len(chan[r])] = sent[r]
        /\ \A f \in Lists : Offset(c[0], f) = Len(received[r][f])
        /\ \A i \in 1 .. Len(chan[r]) : Link(chan[r][i], sig[r], c[i - 1], c[i])

ReceivedFields == Lists \union {"prompt_hidden", "prompt_ids"}

\* The answer with the signals waits for the coroutine or has been given.
Delivered(r) == reply[r] = "signals" \/ outcome[r] = "signals"

Streamed(r) ==
    /\ Square(sig[r])
    /\ \A f \in Lists : Offset(sent[r], f) <= Len(sig[r][f])
    /\ DOMAIN received[r] = ReceivedFields
    /\ Prefix(received[r], sig[r])
    /\ r \in rid_to_state => Linked(r)
    /\ \A i \in 1 .. Len(chan[r]) : chan[r][i].finished =>
         i = Len(chan[r]) /\ status[r] = "finished" /\ sent[r] = Ends(sig[r])
    /\ Delivered(r) =>
         /\ status[r] = "finished" /\ r \notin rid_to_state
         /\ \A f \in Lists : Len(received[r][f]) = Len(sig[r][f])

StreamInv == received = [r \in Reqs |-> received[r]] /\ \A r \in Reqs : Streamed(r)

-----------------------------------------------------------------------------
(* Lists and messages                                                      *)

\* Lists of every kind are lists of Vals.
LEMMA KindsVals ==
    /\ Seq(Hidden \union {None}) \subseteq Seq(Vals) /\ Seq(Tokens) \subseteq Seq(Vals)
    /\ Seq(Nat) \subseteq Seq(Vals) /\ Seq(1 .. Steps + 1) \subseteq Seq(Vals)
    /\ Seq(Seq(Hidden)) \subseteq Seq(Vals) /\ Seq(Seq(Tokens)) \subseteq Seq(Vals)
    /\ Seq(Seq(Nat)) \subseteq Seq(Vals)
  <1>1. ASSUME NEW S, S \subseteq Vals PROVE Seq(S) \subseteq Seq(Vals)
    BY <1>1, SeqMonotonic
  <1>2. /\ (Hidden \union {None}) \subseteq Vals /\ Tokens \subseteq Vals /\ Nat \subseteq Vals
        /\ 1 .. Steps + 1 \subseteq Vals /\ Seq(Hidden) \subseteq Vals
        /\ Seq(Tokens) \subseteq Vals /\ Seq(Nat) \subseteq Vals
    BY Zenon DEF Vals
  <1>. QED BY <1>1, <1>2, Zenon

LEMMA ListsVals ==
    ASSUME NEW s \in Signals
    PROVE  \A f \in Lists : s[f] \in Seq(Vals)
  <1>1. /\ s["hidden"] \in Seq(Hidden \union {None}) /\ s["draft_tokens"] \in Seq(Tokens)
        /\ s["position"] \in Seq(Nat) /\ s["accept_len"] \in Seq(1 .. Steps + 1)
        /\ s["accepted_hidden"] \in Seq(Seq(Hidden))
        /\ s["accepted_tokens"] \in Seq(Seq(Tokens))
        /\ s["prefill_hidden"] \in Seq(Seq(Hidden)) /\ s["prefill_tokens"] \in Seq(Seq(Tokens))
        /\ s["prefill_position"] \in Seq(Seq(Nat))
    BY DEF Signals
  <1>. QED BY <1>1, KindsVals DEF Lists, CycleFields, HistoryFields, PrefillFields

LEMMA MessageVals ==
    ASSUME NEW m \in Messages
    PROVE  \A f \in Lists : m.lists[f] \in Seq(Vals)
  <1>1. \A f \in Lists : m.lists[f] \in ListValues
    BY DEF Messages
  <1>2. ListValues \subseteq Seq(Vals)
    BY KindsVals, Zenon DEF ListValues
  <1>. QED BY <1>1, <1>2

\* A list that is kept or appended to continues the old one.
LEMMA GrowsIfAppended ==
    ASSUME NEW s \in Signals, NEW t,
           \A f \in Lists : t[f] = s[f] \/ \E x : t[f] = Append(s[f], x)
    PROVE  Grows(s, t)
  <1>1. \A f \in Lists : s[f] \in Seq(Vals)
    BY ListsVals
  <1>2. ASSUME NEW f \in Lists
        PROVE  Len(s[f]) <= Len(t[f]) /\ \A i \in 1 .. Len(s[f]) : t[f][i] = s[f][i]
    <2>1. CASE t[f] = s[f]
      BY <1>1, <2>1, LenProperties
    <2>2. CASE \E x : t[f] = Append(s[f], x)
      <3>1. PICK x : t[f] = Append(s[f], x)
        BY <2>2
      <3>2. Len(s[f]) \in Nat /\ s[f] \in Seq(Vals \union {x})
        BY <1>1, LenProperties, SeqMonotonic
      <3>. QED BY <3>1, <3>2, AppendProperties
    <2>. QED BY <1>2, <2>1, <2>2
  <1>. QED BY <1>2 DEF Grows

LEMMA VerifyGrows ==
    ASSUME NEW s \in Signals, Square(s), NEW seq, NEW o, NEW h, NEW n, NEW e
    PROVE  LET t == RecordVerify(s, seq, o, h, n, e) IN Grows(s, t) /\ Square(t)
  <1> DEFINE t == RecordVerify(s, seq, o, h, n, e)
             new == [f \in CycleFields \union HistoryFields |->
                       IF f = "hidden" THEN h ELSE IF f = "draft_tokens" THEN Tok(seq)
                       ELSE IF f = "position" THEN seq - 1 ELSE IF f = "accept_len" THEN n
                       ELSE IF f = "accepted_hidden" THEN [i \in 1 .. e |-> Hid(seq + i - 1, o)]
                       ELSE [i \in 1 .. e |-> Tok(seq + i)]]
  <1>1. /\ \A f \in CycleFields \union HistoryFields : t[f] = Append(s[f], new[f])
        /\ \A f \in PrefillFields : t[f] = s[f]
    BY DEF RecordVerify, Signals, CycleFields, HistoryFields, PrefillFields
  <1>. HIDE DEF t, new
  <1>2. Grows(s, t)
    BY <1>1, GrowsIfAppended DEF Lists
  <1>3. \A f \in CycleFields \union HistoryFields : Len(t[f]) = Len(s[f]) + 1
    <2>1. \A f \in CycleFields \union HistoryFields : s[f] \in Seq(Vals \union {new[f]})
      BY ListsVals, SeqMonotonic DEF Lists
    <2>. QED BY <1>1, <2>1, AppendProperties
  <1>4. Square(t)
    <2>1. \A f \in CycleFields : Len(s[f]) = Len(s["draft_tokens"])
      BY DEF Square, Offset, Ends, Lists, CycleFields, HistoryFields, PrefillFields
    <2>2. \A f \in HistoryFields : Len(s[f]) = Len(s["accepted_hidden"])
      BY DEF Square, Offset, Ends, Lists, CycleFields, HistoryFields, PrefillFields
    <2>3. \A f \in PrefillFields : Len(s[f]) = Len(s["prefill_hidden"])
      BY DEF Square, Offset, Ends, Lists, CycleFields, HistoryFields, PrefillFields
    <2>4. \A f \in CycleFields : Len(t[f]) = Len(t["draft_tokens"])
      BY <1>3, <2>1 DEF CycleFields
    <2>5. \A f \in HistoryFields : Len(t[f]) = Len(t["accepted_hidden"])
      BY <1>3, <2>2 DEF HistoryFields
    <2>6. \A f \in PrefillFields : Len(t[f]) = Len(t["prefill_hidden"])
      BY <1>1, <2>3 DEF PrefillFields
    <2>. QED BY <2>4, <2>5, <2>6 DEF Square, Offset, Ends, Lists, CycleFields, HistoryFields, PrefillFields
  <1>. QED BY <1>2, <1>4 DEF t

LEMMA PrefillGrows ==
    ASSUME NEW s \in Signals, Square(s), NEW hid, NEW tok, NEW start
    PROVE  LET t == RecordPrefill(s, hid, tok, start)
           IN  Grows(s, t) /\ Square(t) /\ \A f \in CycleFields \union HistoryFields : t[f] = s[f]
  <1> DEFINE t == RecordPrefill(s, hid, tok, start)
             skip == Maximum(0, NextPosition(s) - start)
             new == [f \in PrefillFields |->
                       IF f = "prefill_hidden" THEN SubSeq(hid, skip + 1, Len(hid))
                       ELSE IF f = "prefill_tokens" THEN SubSeq(tok, skip + 1, Len(tok))
                       ELSE [i \in 1 .. (Len(tok) - skip) |-> start + skip + i - 1]]
  <1>1. /\ \A f \in CycleFields \union HistoryFields : t[f] = s[f]
        /\ \/ \A f \in PrefillFields : t[f] = s[f]
           \/ \A f \in PrefillFields : t[f] = Append(s[f], new[f])
    BY DEF RecordPrefill, Signals, CycleFields, HistoryFields, PrefillFields
  <1>. HIDE DEF t, new
  <1>2. Grows(s, t)
    BY <1>1, GrowsIfAppended DEF Lists
  <1>3. \/ \A f \in PrefillFields : Len(t[f]) = Len(s[f])
        \/ \A f \in PrefillFields : Len(t[f]) = Len(s[f]) + 1
    <2>1. \A f \in PrefillFields : s[f] \in Seq(Vals \union {new[f]})
      BY ListsVals, SeqMonotonic DEF Lists
    <2>. QED BY <1>1, <2>1, AppendProperties
  <1>4. Square(t)
    <2>1. \A f \in CycleFields : Len(t[f]) = Len(t["draft_tokens"])
      BY <1>1 DEF Square, Offset, Ends, Lists, CycleFields, HistoryFields, PrefillFields
    <2>2. \A f \in HistoryFields : Len(t[f]) = Len(t["accepted_hidden"])
      BY <1>1 DEF Square, Offset, Ends, Lists, CycleFields, HistoryFields, PrefillFields
    <2>3. \A f \in PrefillFields : Len(s[f]) = Len(s["prefill_hidden"])
      BY DEF Square, Offset, Ends, Lists, CycleFields, HistoryFields, PrefillFields
    <2>4. \A f \in PrefillFields : Len(t[f]) = Len(t["prefill_hidden"])
      BY <1>3, <2>3 DEF PrefillFields
    <2>. QED BY <2>1, <2>2, <2>4 DEF Square, Offset, Ends, Lists, CycleFields, HistoryFields, PrefillFields
  <1>. QED BY <1>1, <1>2, <1>4 DEF t

\* What was linked stays linked when the lists grow.
LEMMA LinkGrows ==
    ASSUME NEW m, NEW s \in Signals, NEW t, NEW a \in Offsets, NEW b \in Offsets,
           Link(m, s, a, b), Grows(s, t), \A f \in Lists : Len(t[f]) \in Nat
    PROVE  Link(m, t, a, b)
  <1>1. \A f \in Lists : Offset(a, f) \in Nat /\ Offset(b, f) \in Nat /\ Len(s[f]) \in Nat
    BY OffsetType, ListsVals, LenProperties
  <1>2. ASSUME NEW f \in Lists
        PROVE  /\ Offset(a, f) <= Offset(b, f) /\ Offset(b, f) <= Len(t[f])
               /\ Len(m.lists[f]) = Offset(b, f) - Offset(a, f)
               /\ \A j \in 1 .. Len(m.lists[f]) : m.lists[f][j] = t[f][Offset(a, f) + j]
    <2> DEFINE x == Offset(a, f)
               y == Offset(b, f)
               k == Len(s[f])
    <2>1. /\ x \in Nat /\ y \in Nat /\ k \in Nat /\ Len(t[f]) \in Nat
          /\ x <= y /\ y <= k /\ k <= Len(t[f]) /\ Len(m.lists[f]) = y - x
          /\ \A i \in 1 .. k : t[f][i] = s[f][i]
          /\ \A j \in 1 .. y - x : m.lists[f][j] = s[f][x + j]
      BY <1>1 DEF Link, Grows
    <2>. HIDE DEF x, y, k
    <2>2. /\ x <= y /\ y <= Len(t[f]) /\ Len(m.lists[f]) = y - x
          /\ \A j \in 1 .. y - x : m.lists[f][j] = t[f][x + j]
      <3>1. ASSUME NEW j \in 1 .. y - x PROVE m.lists[f][j] = t[f][x + j]
        <4>1. x + j \in 1 .. k
          BY <2>1
        <4>. QED BY <2>1, <4>1
      <3>. QED BY <2>1, <3>1
    <2>. QED BY <2>2 DEF x, y
  <1>. QED BY <1>2 DEF Link

\* A new output continues where the last one ended and reaches the end.
LEMMA NewLink ==
    ASSUME NEW s \in Signals, Square(s), NEW a \in Offsets, NEW fin,
           \A f \in Lists : Offset(a, f) <= Len(s[f])
    PROVE  Link(Message(s, a, fin), s, a, Ends(s))
  <1> DEFINE m == Message(s, a, fin)
             e == Ends(s)
  <1>1. \A f \in Lists : m.lists[f] = Slice(s[f], Offset(a, f), Offset(e, f))
    BY DEF Message, Slices
  <1>2. e \in Offsets
    BY EndsType
  <1>3. \A f \in Lists : Offset(e, f) = Len(s[f])
    BY DEF Square
  <1>. HIDE DEF m, e
  <1>4. ASSUME NEW f \in Lists
        PROVE  /\ Len(m.lists[f]) = Offset(e, f) - Offset(a, f)
               /\ \A j \in 1 .. Len(m.lists[f]) : m.lists[f][j] = s[f][Offset(a, f) + j]
    <2> DEFINE q == s[f]
               x == Offset(a, f)
               y == Offset(e, f)
    <2>1. q \in Seq(Vals) /\ x \in Nat /\ y \in Nat /\ y = Len(q) /\ x <= y
      BY <1>2, <1>3, ListsVals, OffsetType
    <2>2. m.lists[f] = SubSeq(q, x + 1, y)
      BY <1>1, <2>1 DEF Slice
    <2>. HIDE DEF q, x, y
    <2>3. \A i \in x + 1 .. y : q[i] \in Vals
      BY <2>1, ElementOfSeq
    <2>4. /\ Len(SubSeq(q, x + 1, y)) = IF x + 1 <= y THEN y - (x + 1) + 1 ELSE 0
          /\ \A i \in 1 .. y - (x + 1) + 1 : SubSeq(q, x + 1, y)[i] = q[x + 1 + i - 1]
      BY <2>1, <2>3, SubSeqProperties
    <2>5. Len(m.lists[f]) = y - x /\ \A j \in 1 .. y - x : m.lists[f][j] = q[x + j]
      BY <2>1, <2>2, <2>4
    <2>. QED BY <2>5 DEF q, x, y
  <1>. QED BY <1>3, <1>4 DEF Link, m, e

\* Mutual positions of the lists of one kind.
LEMMA OffsetOfKind ==
    ASSUME NEW off \in Offsets
    PROVE  /\ \A f \in CycleFields : Offset(off, f) = Offset(off, "draft_tokens")
           /\ \A f \in HistoryFields : Offset(off, f) = Offset(off, "accepted_hidden")
  BY DEF Offset, CycleFields, HistoryFields, PrefillFields

\* The tokenizer manager's lists, extended by the output that follows them,
\* hold the recorded lists up to the end of that output: also the lists that
\* are skipped because the output has no cycle or no accepted block.
LEMMA ExtendPrefix ==
    ASSUME NEW t, DOMAIN t = ReceivedFields, NEW s \in Signals, Prefix(t, s),
           NEW m \in Messages, NEW a \in Offsets, NEW b \in Offsets, Link(m, s, a, b),
           \A f \in Lists : Offset(a, f) = Len(t[f])
    PROVE  /\ DOMAIN Extend(t, m) = ReceivedFields
           /\ Prefix(Extend(t, m), s)
           /\ \A f \in Lists : Len(Extend(t, m)[f]) = Offset(b, f)
  <1> DEFINE x == Extend(t, m)
             some(f) == CASE f \in CycleFields   -> m.lists.draft_tokens # <<>>
                          [] f \in HistoryFields -> m.lists.accepted_hidden # <<>>
                          [] f \in PrefillFields -> TRUE
  <1>1. DOMAIN x = ReceivedFields
    BY DEF Extend
  <1>2. \A f \in Lists : x[f] = IF some(f) THEN t[f] \o m.lists[f] ELSE t[f]
    BY DEF Extend, ReceivedFields
  <1>3. \A f \in Lists : /\ t[f] \in Seq(Vals) /\ m.lists[f] \in Seq(Vals) /\ s[f] \in Seq(Vals)
                         /\ Offset(a, f) \in Nat /\ Offset(b, f) \in Nat
                         /\ Len(t[f]) \in Nat /\ Len(m.lists[f]) \in Nat /\ Len(s[f]) \in Nat
    BY MessageVals, ListsVals, OffsetType, LenProperties DEF Prefix
  <1>4. \A f \in Lists : ~some(f) => m.lists[f] = <<>>
    <2> SUFFICES ASSUME NEW f \in Lists, ~some(f) PROVE m.lists[f] = <<>>
      OBVIOUS
    <2> DEFINE g == IF f \in CycleFields THEN "draft_tokens" ELSE "accepted_hidden"
    <2>1. /\ g \in Lists /\ m.lists[g] = <<>>
          /\ Offset(a, f) = Offset(a, g) /\ Offset(b, f) = Offset(b, g)
      <3>1. f \in CycleFields \/ f \in HistoryFields \/ f \in PrefillFields
        BY DEF Lists
      <3>2. CASE f \in CycleFields
        BY <3>2, OffsetOfKind DEF Lists, CycleFields, HistoryFields, PrefillFields
      <3>3. CASE f \in HistoryFields
        BY <3>3, OffsetOfKind DEF Lists, CycleFields, HistoryFields, PrefillFields
      <3>4. CASE f \in PrefillFields
        BY <3>4 DEF Lists, CycleFields, HistoryFields, PrefillFields
      <3>. QED BY <3>1, <3>2, <3>3, <3>4
    <2>. HIDE DEF g
    <2>2. Len(m.lists[g]) = 0
      BY <2>1
    <2>3. Len(m.lists[f]) = 0
      BY <1>3, <2>1, <2>2 DEF Link
    <2>. QED BY <1>3, <2>3, EmptySeq
  <1>. HIDE DEF some
  <1>5. \A f \in Lists : x[f] = t[f] \o m.lists[f]
    BY <1>2, <1>3, <1>4, ConcatEmptySeq
  <1>. HIDE DEF x
  <1>6. ASSUME NEW f \in Lists
        PROVE  /\ x[f] \in Seq(Vals) /\ Len(x[f]) = Offset(b, f) /\ Len(x[f]) <= Len(s[f])
               /\ \A i \in 1 .. Len(x[f]) : x[f][i] = s[f][i]
    <2> DEFINE n == Len(t[f])
               k == Len(m.lists[f])
    <2>1. /\ x[f] \in Seq(Vals) /\ Len(x[f]) = n + k
          /\ \A i \in 1 .. n + k : x[f][i] = IF i <= n THEN t[f][i] ELSE m.lists[f][i - n]
      <3>1. t[f] \in Seq(Vals) /\ m.lists[f] \in Seq(Vals) /\ x[f] = t[f] \o m.lists[f]
        BY <1>3, <1>5
      <3> DEFINE u == t[f]
                 w == m.lists[f]
      <3>2. /\ u \o w \in Seq(Vals) /\ Len(u \o w) = Len(u) + Len(w)
            /\ \A i \in 1 .. Len(u) + Len(w) : (u \o w)[i] = IF i <= Len(u) THEN u[i] ELSE w[i - Len(u)]
        <4>1. u \in Seq(Vals) /\ w \in Seq(Vals)
          BY <3>1
        <4>. HIDE DEF u, w
        <4>. QED BY <4>1, ConcatProperties
      <3>. QED BY <3>1, <3>2
    <2>2. /\ n \in Nat /\ k \in Nat /\ n + k = Offset(b, f) /\ n + k <= Len(s[f])
          /\ \A i \in 1 .. n : t[f][i] = s[f][i]
          /\ \A j \in 1 .. k : m.lists[f][j] = s[f][n + j]
      <3>1. /\ Offset(a, f) = n /\ n \in Nat /\ k \in Nat /\ Offset(b, f) \in Nat
            /\ Len(s[f]) \in Nat
        BY <1>3
      <3>2. /\ Offset(b, f) <= Len(s[f]) /\ k = Offset(b, f) - Offset(a, f)
            /\ \A j \in 1 .. k : m.lists[f][j] = s[f][Offset(a, f) + j]
        BY DEF Link
      <3>3. \A i \in 1 .. n : t[f][i] = s[f][i]
        BY DEF Prefix
      <3>. HIDE DEF n, k
      <3>. QED BY <3>1, <3>2, <3>3
    <2>. HIDE DEF n, k
    <2>3. ASSUME NEW i \in 1 .. n + k PROVE x[f][i] = s[f][i]
      <3>1. CASE i <= n
        BY <2>1, <2>2, <3>1
      <3>2. CASE ~(i <= n)
        <4>1. i - n \in 1 .. k /\ n + (i - n) = i
          BY <2>2, <3>2
        <4>. QED BY <2>1, <2>2, <3>2, <4>1
      <3>. QED BY <3>1, <3>2
    <2>. QED BY <2>1, <2>2, <2>3
  <1>. QED BY <1>1, <1>6 DEF Prefix, x

\* A function on 1 .. k is a list of k entries.
LEMMA FunctionSeq ==
    ASSUME NEW S, NEW k \in Nat, NEW h \in [1 .. k -> S]
    PROVE  h \in Seq(S) /\ Len(h) = k
  OBVIOUS

\* The part of a list that holds one entry.
LEMMA SubSeqSingle ==
    ASSUME NEW S, NEW q \in Seq(S), NEW n \in 1 .. Len(q)
    PROVE  Len(SubSeq(q, n, n)) = 1 /\ SubSeq(q, n, n)[1] = q[n]
  <1>1. n \in Nat /\ Len(q) \in Nat
    BY LenProperties
  <1>2. \A i \in n .. n : q[i] \in S
    BY <1>1, ElementOfSeq
  <1>3. /\ Len(SubSeq(q, n, n)) = IF n <= n THEN n - n + 1 ELSE 0
        /\ \A i \in 1 .. n - n + 1 : SubSeq(q, n, n)[i] = q[n + i - 1]
    BY <1>1, <1>2, SubSeqProperties
  <1>4. n - n + 1 = 1 /\ n <= n /\ n + 1 - 1 = n /\ 1 \in 1 .. 1
    BY <1>1
  <1>. QED BY <1>3, <1>4

-----------------------------------------------------------------------------
(* The scheduler's steps                                                   *)

\* What a step of the scheduler does to the lists and outputs of request r.
Scheduled(r) ==
    /\ received'[r] = received[r] /\ outcome'[r] = outcome[r] /\ reply'[r] = reply[r]
    /\ rid_to_state' = rid_to_state
    /\ \/ /\ sig'[r] = sig[r] /\ chan'[r] = chan[r] /\ sent'[r] = sent[r]
          /\ status[r] = "finished" => status'[r] = "finished"
       \/ /\ status[r] \in {"waiting", "running"}
          /\ Grows(sig[r], sig'[r]) /\ Square(sig'[r])
          /\ \/ chan'[r] = chan[r] /\ sent'[r] = sent[r]
             \/ \E fin \in BOOLEAN :
                  /\ chan'[r] = Append(chan[r], Message(sig'[r], sent[r], fin))
                  /\ sent'[r] = Ends(sig'[r])
                  /\ fin => status'[r] = "finished"

\* Links carry over to the lists as they are after the step.
LEMMA LinkedGrows ==
    ASSUME IInv, IInv', NEW r \in Reqs, Grows(sig[r], sig'[r]),
           NEW c \in [0 .. Len(chan[r]) -> Offsets], NEW i \in 1 .. Len(chan[r]),
           Link(chan[r][i], sig[r], c[i - 1], c[i])
    PROVE  Link(chan[r][i], sig'[r], c[i - 1], c[i])
  <1>1. sig[r] \in Signals /\ sig'[r] \in Signals
    BY DEF IInv, TypeOK
  <1>2. \A f \in Lists : Len(sig'[r][f]) \in Nat
    BY <1>1, ListsVals, LenProperties
  <1>3. Len(chan[r]) \in Nat
    BY LenProperties DEF IInv
  <1>4. c[i - 1] \in Offsets /\ c[i] \in Offsets
    BY <1>3
  <1> DEFINE m == chan[r][i]
             s == sig[r]
             t == sig'[r]
             a == c[i - 1]
             b == c[i]
  <1>5. s \in Signals /\ Link(m, s, a, b) /\ Grows(s, t) /\ a \in Offsets /\ b \in Offsets
        /\ \A f \in Lists : Len(t[f]) \in Nat
    BY <1>1, <1>2, <1>4
  <1>. HIDE DEF m, s, t, a, b
  <1>6. Link(m, t, a, b)
    BY <1>5, LinkGrows
  <1>. QED BY <1>6 DEF m, t, a, b

\* The prefix held by the tokenizer manager stays one.
LEMMA PrefixGrows ==
    ASSUME NEW g, NEW s \in Signals, NEW t \in Signals, Prefix(g, s), Grows(s, t)
    PROVE  Prefix(g, t)
  <1>1. ASSUME NEW f \in Lists
        PROVE  /\ g[f] \in Seq(Vals) /\ Len(g[f]) <= Len(t[f])
               /\ \A i \in 1 .. Len(g[f]) : g[f][i] = t[f][i]
    <2>1. /\ g[f] \in Seq(Vals) /\ Len(g[f]) \in Nat /\ Len(s[f]) \in Nat /\ Len(t[f]) \in Nat
      BY ListsVals, LenProperties DEF Prefix
    <2>2. /\ Len(g[f]) <= Len(s[f]) /\ Len(s[f]) <= Len(t[f])
          /\ \A i \in 1 .. Len(g[f]) : g[f][i] = s[f][i]
          /\ \A i \in 1 .. Len(s[f]) : t[f][i] = s[f][i]
      BY DEF Prefix, Grows
    <2>3. ASSUME NEW i \in 1 .. Len(g[f]) PROVE g[f][i] = t[f][i]
      <3>1. i \in 1 .. Len(s[f])
        BY <2>1, <2>2
      <3>. QED BY <2>2, <3>1
    <2>. QED BY <2>1, <2>2, <2>3
  <1>. QED BY <1>1 DEF Prefix

LEMMA ScheduledStreams ==
    ASSUME IInv, IInv', NEW r \in Reqs, Streamed(r), Scheduled(r)
    PROVE  Streamed(r)'
  <1>1. /\ sig[r] \in Signals /\ sig'[r] \in Signals /\ sent[r] \in Offsets /\ sent'[r] \in Offsets
        /\ chan[r] \in Seq(Messages) /\ Len(chan[r]) \in Nat
        /\ received'[r] = received[r] /\ rid_to_state' = rid_to_state
        /\ outcome'[r] = outcome[r] /\ reply'[r] = reply[r]
    BY LenProperties DEF IInv, TypeOK, Scheduled
  <1>2. \A f \in Lists : /\ Len(sig[r][f]) \in Nat /\ Len(sig'[r][f]) \in Nat
                         /\ Offset(sent[r], f) \in Nat
    BY <1>1, ListsVals, LenProperties, OffsetType
  <1>3. CASE /\ sig'[r] = sig[r] /\ chan'[r] = chan[r] /\ sent'[r] = sent[r]
             /\ status[r] = "finished" => status'[r] = "finished"
    BY <1>1, <1>3 DEF Streamed, Linked, Delivered
  <1>4. CASE /\ status[r] \in {"waiting", "running"}
             /\ Grows(sig[r], sig'[r]) /\ Square(sig'[r])
             /\ chan'[r] = chan[r] /\ sent'[r] = sent[r]
    <2>1. Linked(r) => Linked(r)'
      <3> SUFFICES ASSUME Linked(r) PROVE Linked(r)'
        OBVIOUS
      <3>1. PICK c \in [0 .. Len(chan[r]) -> Offsets] :
              /\ c[Len(chan[r])] = sent[r]
              /\ \A f \in Lists : Offset(c[0], f) = Len(received[r][f])
              /\ \A i \in 1 .. Len(chan[r]) : Link(chan[r][i], sig[r], c[i - 1], c[i])
        BY DEF Linked
      <3>2. \A i \in 1 .. Len(chan[r]) : Link(chan[r][i], sig'[r], c[i - 1], c[i])
        BY <1>4, <3>1, LinkedGrows
      <3>. QED BY <1>1, <1>4, <3>1, <3>2 DEF Linked
    <2>2. Prefix(received'[r], sig'[r])
      BY <1>1, <1>4, PrefixGrows DEF Streamed
    <2>3. \A f \in Lists : Offset(sent'[r], f) <= Len(sig'[r][f])
      BY <1>2, <1>4 DEF Streamed, Grows
    <2>4. /\ \A i \in 1 .. Len(chan'[r]) : ~chan'[r][i].finished
          /\ outcome'[r] # "signals" /\ reply'[r] # "signals"
      BY <1>1, <1>4 DEF Streamed, Delivered
    <2>. QED BY <1>1, <1>4, <2>1, <2>2, <2>3, <2>4 DEF Streamed, Delivered
  <1>5. ASSUME status[r] \in {"waiting", "running"}, Grows(sig[r], sig'[r]), Square(sig'[r]),
               NEW fin \in BOOLEAN, chan'[r] = Append(chan[r], Message(sig'[r], sent[r], fin)),
               sent'[r] = Ends(sig'[r]), fin => status'[r] = "finished"
        PROVE  Streamed(r)'
    <2> DEFINE m == Message(sig'[r], sent[r], fin)
               k == Len(chan[r])
    <2>0. Aligned(sig'[r])
      BY DEF IInv
    <2>1. m \in Messages
      BY <1>1, <2>0, MessageOK
    <2>2. \A f \in Lists : Offset(sent[r], f) <= Len(sig'[r][f])
      BY <1>2, <1>5 DEF Streamed, Grows
    <2>3. Link(m, sig'[r], sent[r], Ends(sig'[r]))
      BY <1>1, <1>5, <2>2, NewLink
    <2>4. m.finished = fin
      BY DEF Message
    <2>. HIDE DEF m
    <2>5. /\ Len(chan'[r]) = k + 1 /\ chan'[r][k + 1] = m
          /\ \A i \in 1 .. k : chan'[r][i] = chan[r][i]
      BY <1>1, <1>5, <2>1, AppendProperties DEF m
    <2>6. Linked(r) => Linked(r)'
      <3> SUFFICES ASSUME Linked(r) PROVE Linked(r)'
        OBVIOUS
      <3>1. PICK c \in [0 .. k -> Offsets] :
              /\ c[k] = sent[r]
              /\ \A f \in Lists : Offset(c[0], f) = Len(received[r][f])
              /\ \A i \in 1 .. k : Link(chan[r][i], sig[r], c[i - 1], c[i])
        BY DEF Linked
      <3>2. \A i \in 1 .. k : Link(chan[r][i], sig'[r], c[i - 1], c[i])
        BY <1>5, <3>1, LinkedGrows
      <3> DEFINE d == [i \in 0 .. k + 1 |-> IF i <= k THEN c[i] ELSE Ends(sig'[r])]
      <3>3. d \in [0 .. k + 1 -> Offsets]
        BY <1>1, EndsType
      <3>4. d[k + 1] = sent'[r] /\ d[0] = c[0] /\ d[k] = sent[r]
        BY <1>1, <1>5, <3>1
      <3>5. ASSUME NEW i \in 1 .. k + 1 PROVE Link(chan'[r][i], sig'[r], d[i - 1], d[i])
        <4>1. CASE i <= k
          <5>1. i \in 1 .. k /\ d[i] = c[i] /\ d[i - 1] = c[i - 1]
            BY <1>1, <4>1
          <5>. HIDE DEF d
          <5>. QED BY <2>5, <3>2, <5>1
        <4>2. CASE ~(i <= k)
          <5>1. i = k + 1 /\ i - 1 = k /\ d[i] = Ends(sig'[r])
            BY <1>1, <4>2
          <5>. HIDE DEF d
          <5>. QED BY <2>3, <2>5, <3>4, <5>1
        <4>. QED BY <4>1, <4>2
      <3>6. \A f \in Lists : Offset(d[0], f) = Len(received'[r][f])
        BY <1>1, <3>1, <3>4
      <3>. HIDE DEF d, k
      <3>. QED BY <2>5, <3>3, <3>4, <3>5, <3>6 DEF Linked
    <2>7. Prefix(received'[r], sig'[r])
      BY <1>1, <1>5, PrefixGrows DEF Streamed
    <2>8. \A f \in Lists : Offset(sent'[r], f) <= Len(sig'[r][f])
      BY <1>2, <1>5 DEF Square
    <2>9. /\ outcome'[r] # "signals" /\ reply'[r] # "signals"
          /\ \A i \in 1 .. k : ~chan[r][i].finished
      BY <1>1, <1>5 DEF Streamed, Delivered
    <2>10. ASSUME NEW i \in 1 .. Len(chan'[r]), chan'[r][i].finished
           PROVE  i = Len(chan'[r]) /\ status'[r] = "finished" /\ sent'[r] = Ends(sig'[r])
      <3>1. i = k + 1
        BY <1>1, <2>5, <2>9, <2>10
      <3>. QED BY <1>5, <2>4, <2>5, <2>10, <3>1
    <2>. QED BY <1>1, <1>5, <2>6, <2>7, <2>8, <2>9, <2>10 DEF Streamed, Delivered
  <1>. QED BY <1>3, <1>4, <1>5 DEF Scheduled

LEMMA PrefillScheduled ==
    ASSUME IInv, StreamInv, NEW r \in Reqs, Prefill(r), NEW q \in Reqs
    PROVE  Scheduled(q)
  <1> DEFINE total == PromptLen + out[r]
             o == out[r]
             start == done[r]
  <1>1. PICK len \in 1 .. (total - start), eos \in BOOLEAN :
             LET last  == start + len = total
                 hid   == [i \in 1 .. len |-> Hid(start + i - 1, o)]
                 tok   == [i \in 1 .. len |-> IF i < len \/ last THEN Tok(start + i) ELSE Guess]
                 fin   == last /\ (eos \/ o + 1 >= MaxNew)
                 s     == [sig EXCEPT ![r] = RecordPrefill(@, hid, tok, start)]
                 o1    == [out EXCEPT ![r] = IF last THEN o + 1 ELSE o]
             IN  /\ sig' = s
                 /\ status' = [status EXCEPT ![r] = IF fin THEN "finished"
                                                    ELSE IF last THEN "running" ELSE @]
                 /\ StreamOutput(IF last THEN {r} ELSE {}, s, o1, [x \in Reqs |-> x = r /\ fin])
    BY DEF Prefill
  <1> DEFINE last  == start + len = total
             hid   == [i \in 1 .. len |-> Hid(start + i - 1, o)]
             tok   == [i \in 1 .. len |-> IF i < len \/ last THEN Tok(start + i) ELSE Guess]
             fin   == last /\ (eos \/ o + 1 >= MaxNew)
             t     == RecordPrefill(sig[r], hid, tok, start)
             s     == [sig EXCEPT ![r] = t]
             o1    == [out EXCEPT ![r] = IF last THEN o + 1 ELSE o]
             fins  == [x \in Reqs |-> x = r /\ fin]
             going == {x \in (IF last THEN {r} ELSE {}) : ShouldOutput(o1[x], fins[x])}
  <1>2. /\ sig' = s
        /\ status' = [status EXCEPT ![r] = IF fin THEN "finished" ELSE IF last THEN "running" ELSE @]
        /\ chan' = [x \in Reqs |-> IF x \in going
                                   THEN Append(chan[x], Message(s[x], sent[x], fins[x]))
                                   ELSE chan[x]]
        /\ sent' = [x \in Reqs |-> IF x \in going THEN Ends(s[x]) ELSE sent[x]]
    BY <1>1 DEF StreamOutput
  <1>3. UNCHANGED <<received, outcome, reply, rid_to_state>> /\ status[r] = "waiting"
    BY DEF Prefill, recvVars
  <1>4. /\ sig \in [Reqs -> Signals] /\ Square(sig[r]) /\ going \subseteq {r}
        /\ status \in [Reqs -> {"waiting", "running", "finished", "aborted"}]
        /\ DOMAIN chan = Reqs /\ DOMAIN sent = Reqs
    BY DEF IInv, TypeOK, StreamInv, Streamed
  <1>. HIDE DEF hid, tok, going
  <1>5. Grows(sig[r], t) /\ Square(t)
    BY <1>4, PrefillGrows
  <1>. HIDE DEF t
  <1>6. CASE q # r
    <2>1. sig'[q] = sig[q] /\ chan'[q] = chan[q] /\ sent'[q] = sent[q] /\ status'[q] = status[q]
      BY <1>2, <1>4, <1>6
    <2>. QED BY <1>3, <2>1 DEF Scheduled
  <1>7. CASE q = r
    <2>1. sig'[r] = t /\ s[r] = t /\ fins[r] = fin /\ (fin => status'[r] = "finished") /\ fin \in BOOLEAN
      BY <1>2, <1>4
    <2>. HIDE DEF fin, fins, s
    <2>2. CASE r \in going
      <3>1. chan'[r] = Append(chan[r], Message(sig'[r], sent[r], fin)) /\ sent'[r] = Ends(sig'[r])
        BY <1>2, <2>1, <2>2
      <3>. QED BY <1>3, <1>5, <1>7, <2>1, <3>1 DEF Scheduled
    <2>3. CASE r \notin going
      <3>1. chan'[r] = chan[r] /\ sent'[r] = sent[r]
        BY <1>2, <2>3
      <3>. QED BY <1>3, <1>5, <1>7, <2>1, <3>1 DEF Scheduled
    <2>. QED BY <2>2, <2>3
  <1>. QED BY <1>6, <1>7

LEMMA DecodeScheduled ==
    ASSUME IInv, StreamInv, Decode, NEW q \in Reqs
    PROVE  Scheduled(q)
  <1>1. PICK last \in Running :
         LET live == {r \in Running : place[r] <= place[last]}
             gone == Running \ live
             known == \A r \in live : seed[r] # None
         IN  \E v \in [live -> UNION {VerifyOutcomes(r) : r \in live}] :
               LET s  == [r \in Reqs |->
                            IF r \in live
                            THEN RecordVerify(sig[r], done[r], out[r],
                                              IF known THEN seed[r] ELSE None, v[r].n, v[r].e)
                            ELSE sig[r]]
                   o1 == [r \in Reqs |-> IF r \in live THEN out[r] + v[r].e ELSE out[r]]
                   ended == {r \in live : v[r].fin}
               IN  /\ sig' = s
                   /\ status' = [r \in Reqs |-> IF r \in ended THEN "finished"
                                                ELSE IF r \in gone THEN "waiting" ELSE status[r]]
                   /\ StreamOutput(live, s, o1, [r \in Reqs |-> r \in ended])
    BY DEF Decode
  <1> DEFINE live == {r \in Running : place[r] <= place[last]}
             gone == Running \ live
             known == \A r \in live : seed[r] # None
  <1>2. PICK v :
               LET s  == [r \in Reqs |->
                            IF r \in live
                            THEN RecordVerify(sig[r], done[r], out[r],
                                              IF known THEN seed[r] ELSE None, v[r].n, v[r].e)
                            ELSE sig[r]]
                   o1 == [r \in Reqs |-> IF r \in live THEN out[r] + v[r].e ELSE out[r]]
                   ended == {r \in live : v[r].fin}
               IN  /\ sig' = s
                   /\ status' = [r \in Reqs |-> IF r \in ended THEN "finished"
                                                ELSE IF r \in gone THEN "waiting" ELSE status[r]]
                   /\ StreamOutput(live, s, o1, [r \in Reqs |-> r \in ended])
    BY <1>1
  <1> DEFINE t(r) == RecordVerify(sig[r], done[r], out[r], IF known THEN seed[r] ELSE None, v[r].n, v[r].e)
             s == [r \in Reqs |-> IF r \in live THEN t(r) ELSE sig[r]]
             o1 == [r \in Reqs |-> IF r \in live THEN out[r] + v[r].e ELSE out[r]]
             ended == {r \in live : v[r].fin}
             fins == [r \in Reqs |-> r \in ended]
             going == {r \in live : ShouldOutput(o1[r], fins[r])}
  <1>3. /\ sig' = s
        /\ status' = [r \in Reqs |-> IF r \in ended THEN "finished"
                                     ELSE IF r \in gone THEN "waiting" ELSE status[r]]
        /\ chan' = [r \in Reqs |-> IF r \in going
                                   THEN Append(chan[r], Message(s[r], sent[r], fins[r]))
                                   ELSE chan[r]]
        /\ sent' = [r \in Reqs |-> IF r \in going THEN Ends(s[r]) ELSE sent[r]]
    BY <1>2 DEF StreamOutput
  <1>4. UNCHANGED <<received, outcome, reply, rid_to_state>>
    BY DEF Decode, recvVars
  <1>5. /\ \A r \in live \union gone : r \in Reqs /\ status[r] = "running"
        /\ going \subseteq live /\ ended \subseteq live
    BY DEF Running
  <1>6. sig[q] \in Signals /\ Square(sig[q])
    BY DEF IInv, TypeOK, StreamInv, Streamed
  <1>7. Grows(sig[q], t(q)) /\ Square(t(q))
    BY <1>6, VerifyGrows
  <1>. HIDE DEF live, gone, known, t, going, ended
  <1>8. CASE q \notin live
    <2>1. /\ sig'[q] = sig[q] /\ chan'[q] = chan[q] /\ sent'[q] = sent[q]
          /\ status[q] = "finished" => status'[q] = "finished"
      BY <1>3, <1>5, <1>8
    <2>. QED BY <1>4, <2>1 DEF Scheduled
  <1>9. CASE q \in live
    <2>1. sig'[q] = t(q) /\ s[q] = t(q) /\ (fins[q] => status'[q] = "finished") /\ fins[q] \in BOOLEAN
      <3>1. sig'[q] = t(q) /\ s[q] = t(q)
        BY <1>3, <1>9
      <3>2. fins[q] = (q \in ended)
        OBVIOUS
      <3>3. q \in ended => status'[q] = "finished"
        BY <1>3
      <3>4. (q \in ended) \in BOOLEAN
        OBVIOUS
      <3>. HIDE DEF fins, s
      <3>5. fins[q] \in BOOLEAN /\ (fins[q] => status'[q] = "finished")
        BY <3>2, <3>3, <3>4, Zenon
      <3>. QED BY <3>1, <3>5
    <2>. HIDE DEF fins, s
    <2>2. CASE q \in going
      <3>1. chan'[q] = Append(chan[q], Message(sig'[q], sent[q], fins[q])) /\ sent'[q] = Ends(sig'[q])
        BY <1>3, <2>1, <2>2
      <3>. QED BY <1>4, <1>5, <1>7, <1>9, <2>1, <3>1 DEF Scheduled
    <2>3. CASE q \notin going
      <3>1. chan'[q] = chan[q] /\ sent'[q] = sent[q]
        BY <1>3, <2>3
      <3>. QED BY <1>4, <1>5, <1>7, <1>9, <2>1, <3>1 DEF Scheduled
    <2>. QED BY <2>2, <2>3
  <1>. QED BY <1>8, <1>9

LEMMA OthersScheduled ==
    ASSUME IInv, OutOfMemory \/ \E r \in Reqs : AbortWaiting(r), NEW q \in Reqs
    PROVE  Scheduled(q)
  <1>1. UNCHANGED <<sig, chan, sent, received, outcome, reply, rid_to_state>>
    BY DEF OutOfMemory, AbortWaiting, sigVars, recvVars
  <1>2. status[q] = "finished" => status'[q] = "finished"
    <2>1. CASE OutOfMemory
      <3>1. PICK first \in Running :
              status' = [r \in Reqs |-> IF r = first THEN "aborted"
                                        ELSE IF r \in Running THEN "waiting" ELSE status[r]]
        BY <2>1 DEF OutOfMemory
      <3>. QED BY <3>1 DEF Running
    <2>2. ASSUME NEW r \in Reqs, AbortWaiting(r) PROVE status[q] = "finished" => status'[q] = "finished"
      BY <2>2 DEF AbortWaiting, IInv, TypeOK
    <2>. QED BY <2>1, <2>2
  <1>. QED BY <1>1, <1>2 DEF Scheduled

-----------------------------------------------------------------------------
(* The tokenizer manager's steps                                           *)

\* The oldest output is the one that follows what is already held.
LEMMA ReceiveStreams ==
    ASSUME IInv, StreamInv, NEW r \in Reqs, Receive(r)
    PROVE  StreamInv'
  <1> DEFINE m == Head(chan[r])
             t == Extend(received[r], m)
             k == Len(chan[r])
  <1>1. /\ chan[r] \in Seq(Messages) /\ chan[r] # <<>> /\ sig[r] \in Signals /\ sent[r] \in Offsets
        /\ DOMAIN chan = Reqs /\ DOMAIN received = Reqs /\ DOMAIN reply = Reqs /\ Streamed(r)
    BY DEF IInv, TypeOK, Receive, StreamInv
  <1>2. /\ m \in Messages /\ Tail(chan[r]) \in Seq(Messages) /\ k \in Nat \ {0}
        /\ Len(Tail(chan[r])) = k - 1 /\ \A i \in 1 .. k - 1 : Tail(chan[r])[i] = chan[r][i + 1]
        /\ m = chan[r][1]
    BY <1>1, HeadTailProperties, EmptySeq
  <1>3. /\ chan' = [chan EXCEPT ![r] = Tail(@)]
        /\ UNCHANGED <<status, sig, sent, outcome>>
    BY DEF Receive, reqVars, sigVars
  <1>4. \A q \in Reqs : q # r => /\ received'[q] = received[q] /\ reply'[q] = reply[q]
                                 /\ chan'[q] = chan[q]
                                 /\ q \in rid_to_state' <=> q \in rid_to_state
    BY <1>1 DEF Receive
  <1>5. received' = [q \in Reqs |-> received'[q]]
    <2>1. received' = received \/ received' = [received EXCEPT ![r] = t]
      BY DEF Receive
    <2>2. received = [q \in Reqs |-> received[q]]
      BY DEF StreamInv
    <2>. HIDE DEF t
    <2>. QED BY <2>1, <2>2
  <1>6. ASSUME NEW q \in Reqs, q # r PROVE Streamed(q)'
    <2>1. Streamed(q)
      BY DEF StreamInv
    <2>. QED BY <1>3, <1>4, <1>6, <2>1 DEF Streamed, Linked, Delivered
  <1>7. Streamed(r)'
    <2>1. /\ chan'[r] = Tail(chan[r]) /\ Len(chan'[r]) = k - 1
          /\ \A i \in 1 .. k - 1 : chan'[r][i] = chan[r][i + 1]
      BY <1>1, <1>2, <1>3
    <2>2. \A i \in 1 .. Len(chan'[r]) : chan'[r][i].finished =>
             i = Len(chan'[r]) /\ status'[r] = "finished" /\ sent'[r] = Ends(sig'[r])
      <3>1. ASSUME NEW i \in 1 .. k - 1, chan[r][i + 1].finished
            PROVE  i = k - 1 /\ status[r] = "finished" /\ sent[r] = Ends(sig[r])
        <4>1. i + 1 \in 1 .. k
          BY <1>2
        <4>2. i + 1 = k /\ status[r] = "finished" /\ sent[r] = Ends(sig[r])
          BY <1>1, <3>1, <4>1 DEF Streamed
        <4>. QED BY <1>2, <4>2
      <3>. QED BY <1>3, <2>1, <3>1
    <2>3. CASE r \notin rid_to_state
      <3>1. received' = received /\ reply' = reply /\ rid_to_state' = rid_to_state
        BY <2>3 DEF Receive
      <3>. QED BY <1>1, <1>3, <2>2, <2>3, <3>1 DEF Streamed, Delivered
    <2>4. CASE r \in rid_to_state
      <3>0. reply[r] # "signals" /\ outcome[r] # "signals"
        BY <1>1, <2>4 DEF Streamed, Delivered
      <3>1. /\ received'[r] = t
            /\ reply'[r] = "signals" => m.finished /\ r \notin rid_to_state'
        BY <1>1, <2>4, <3>0 DEF Receive
      <3>2. PICK c \in [0 .. k -> Offsets] :
              /\ c[k] = sent[r]
              /\ \A f \in Lists : Offset(c[0], f) = Len(received[r][f])
              /\ \A i \in 1 .. k : Link(chan[r][i], sig[r], c[i - 1], c[i])
        BY <1>1, <2>4 DEF Streamed, Linked
      <3>3. c[0] \in Offsets /\ c[1] \in Offsets /\ Link(m, sig[r], c[0], c[1])
        <4>1. 1 \in 1 .. k /\ 0 \in 0 .. k /\ 1 \in 0 .. k /\ 1 - 1 = 0
          BY <1>2
        <4>2. Link(chan[r][1], sig[r], c[1 - 1], c[1])
          BY <3>2, <4>1
        <4>. QED BY <1>2, <4>1, <4>2
      <3>4. /\ DOMAIN t = ReceivedFields /\ Prefix(t, sig[r])
            /\ \A f \in Lists : Len(t[f]) = Offset(c[1], f)
        <4>1. DOMAIN received[r] = ReceivedFields /\ Prefix(received[r], sig[r])
          BY <1>1 DEF Streamed
        <4>. HIDE DEF m
        <4>. QED BY <1>1, <1>2, <3>2, <3>3, <4>1, ExtendPrefix
      <3>5. Linked(r)'
        <4> DEFINE d == [i \in 0 .. k - 1 |-> c[i + 1]]
        <4>1. d \in [0 .. k - 1 -> Offsets] /\ d[0] = c[1] /\ d[k - 1] = sent[r]
          BY <1>2, <3>2
        <4>2. ASSUME NEW i \in 1 .. k - 1 PROVE Link(chan[r][i + 1], sig[r], d[i - 1], d[i])
          <5>1. i + 1 \in 1 .. k /\ d[i] = c[i + 1] /\ d[i - 1] = c[i] /\ (i + 1) - 1 = i
            BY <1>2
          <5>2. Link(chan[r][i + 1], sig[r], c[(i + 1) - 1], c[i + 1])
            BY <3>2, <5>1
          <5>. QED BY <5>1, <5>2
        <4>3. \A f \in Lists : Offset(d[0], f) = Len(received'[r][f])
          BY <3>1, <3>4, <4>1
        <4>. HIDE DEF d, k
        <4>. QED BY <1>3, <2>1, <4>1, <4>2, <4>3 DEF Linked
      <3>6. ASSUME reply'[r] = "signals"
            PROVE  status'[r] = "finished" /\ \A f \in Lists : Len(received'[r][f]) = Len(sig'[r][f])
        <4>1. 1 = k /\ status[r] = "finished" /\ sent[r] = Ends(sig[r])
          <5>1. 1 \in 1 .. k /\ chan[r][1].finished
            BY <1>2, <3>1, <3>6
          <5>. QED BY <1>1, <5>1 DEF Streamed
        <4>2. \A f \in Lists : Len(t[f]) = Len(sig[r][f])
          BY <1>1, <3>2, <3>4, <4>1 DEF Streamed, Square
        <4>. QED BY <1>3, <3>1, <4>1, <4>2
      <3>. HIDE DEF t
      <3>. QED BY <1>1, <1>3, <2>2, <3>0, <3>1, <3>4, <3>5, <3>6 DEF Streamed, Delivered
    <2>. QED BY <2>3, <2>4
  <1>. QED BY <1>5, <1>6, <1>7 DEF StreamInv

\* An abort and a woken coroutine leave the lists alone and hand over no signals.
LEMMA AbortStreams ==
    ASSUME IInv, StreamInv, NEW r \in Reqs, ReceiveAbort(r) \/ Wake(r)
    PROVE  StreamInv' /\ \A q \in Reqs : Delivered(q)' => Delivered(q)
  <1>1. UNCHANGED <<status, sig, sent, chan, received>> /\ rid_to_state' \subseteq rid_to_state
    BY DEF ReceiveAbort, Wake, reqVars, sigVars
  <1>2. ASSUME NEW q \in Reqs PROVE Delivered(q)' => Delivered(q)
    BY DEF ReceiveAbort, Wake, IInv, TypeOK, Delivered
  <1>3. ASSUME NEW q \in Reqs PROVE Streamed(q)'
    <2>1. Streamed(q)
      BY DEF StreamInv
    <2>. HIDE DEF Delivered
    <2>. QED BY <1>1, <1>2, <2>1 DEF Streamed, Linked
  <1>. QED BY <1>1, <1>2, <1>3 DEF StreamInv

LEMMA InitStreams == Init => StreamInv
  <1> SUFFICES ASSUME Init PROVE StreamInv
    OBVIOUS
  <1>1. ASSUME NEW r \in Reqs PROVE Streamed(r)
    <2> DEFINE zero == [mtp |-> 0, history |-> 0, prefill |-> 0]
    <2>1. /\ sig[r] = EmptySignals /\ sent[r] = zero /\ chan[r] = <<>>
          /\ received[r] = EmptyState /\ outcome[r] = "pending" /\ reply[r] = "none"
      BY DEF Init
    <2>2. DOMAIN EmptyState = ReceivedFields
      BY DEF EmptyState, EmptySignals, ReceivedFields, Lists, CycleFields, HistoryFields, PrefillFields
    <2>3. \A f \in Lists : EmptySignals[f] = <<>> /\ EmptyState[f] = <<>>
      BY DEF EmptyState, EmptySignals, Lists, CycleFields, HistoryFields, PrefillFields
    <2>4. zero \in Offsets /\ \A f \in Lists : Offset(zero, f) = 0
      BY DEF Offsets, Offset, Lists, CycleFields, HistoryFields, PrefillFields
    <2>5. Ends(EmptySignals) = zero
      BY DEF Ends, EmptySignals
    <2>. HIDE DEF zero
    <2>6. Square(sig[r])
      BY <2>1, <2>3, <2>4, <2>5 DEF Square
    <2>7. Prefix(received[r], sig[r])
      <3>1. <<>> \in Seq(Vals) /\ Len(<<>>) = 0
        BY EmptySeq
      <3>2. ASSUME NEW f \in Lists
            PROVE  /\ received[r][f] \in Seq(Vals) /\ Len(received[r][f]) <= Len(sig[r][f])
                   /\ 1 .. Len(received[r][f]) = {}
        <4>1. received[r][f] = <<>> /\ sig[r][f] = <<>>
          BY <2>1, <2>3
        <4>. QED BY <3>1, <4>1
      <3>. QED BY <3>2 DEF Prefix
    <2>8. Linked(r)
      <3> DEFINE c == [i \in 0 .. 0 |-> zero]
      <3>1. c \in [0 .. Len(chan[r]) -> Offsets] /\ c[0] = zero /\ Len(chan[r]) = 0
        BY <2>1, <2>4
      <3>. HIDE DEF c
      <3>2. /\ c[Len(chan[r])] = sent[r]
            /\ \A f \in Lists : Offset(c[0], f) = Len(received[r][f])
            /\ \A i \in 1 .. Len(chan[r]) : Link(chan[r][i], sig[r], c[i - 1], c[i])
        BY <2>1, <2>3, <2>4, <3>1
      <3>. QED BY <3>1, <3>2 DEF Linked
    <2>. QED BY <2>1, <2>2, <2>3, <2>4, <2>6, <2>7, <2>8 DEF Streamed, Delivered
  <1>2. received = [r \in Reqs |-> received[r]]
    BY DEF Init
  <1>. QED BY <1>1, <1>2 DEF StreamInv

LEMMA NextStreams ==
    ASSUME IInv, IInv', StreamInv, [Next]_vars
    PROVE  StreamInv'
  <1>1. CASE UNCHANGED vars \/ Idle
    BY <1>1 DEF StreamInv, Streamed, Linked, Delivered, Idle, vars
  <1>2. ASSUME \A q \in Reqs : Scheduled(q), UNCHANGED received PROVE StreamInv'
    <2>1. \A q \in Reqs : Streamed(q)'
      BY <1>2, ScheduledStreams DEF StreamInv
    <2>. QED BY <1>2, <2>1 DEF StreamInv
  <1>3. CASE \E r \in Reqs : Prefill(r)
    <2>1. UNCHANGED received
      BY <1>3 DEF Prefill, recvVars
    <2>. QED BY <1>2, <1>3, <2>1, PrefillScheduled
  <1>4. CASE Decode
    <2>1. UNCHANGED received
      BY <1>4 DEF Decode, recvVars
    <2>. QED BY <1>2, <1>4, <2>1, DecodeScheduled
  <1>5. CASE OutOfMemory \/ \E r \in Reqs : AbortWaiting(r)
    <2>1. UNCHANGED received
      BY <1>5 DEF OutOfMemory, AbortWaiting, recvVars
    <2>. QED BY <1>2, <1>5, <2>1, OthersScheduled
  <1>6. CASE \E r \in Reqs : Receive(r)
    BY <1>6, ReceiveStreams
  <1>7. CASE \E r \in Reqs : ReceiveAbort(r) \/ Wake(r)
    BY <1>7, AbortStreams
  <1>. QED BY <1>1, <1>3, <1>4, <1>5, <1>6, <1>7 DEF Next

LEMMA StreamInvariance == Spec => [](IInv /\ StreamInv)
  <1>1. IInv /\ StreamInv /\ IInv' /\ [Next]_vars => StreamInv'
    BY NextStreams
  <1>. QED BY <1>1, InitStreams, Invariance, PTL DEF Spec

\* What the tokenizer manager holds is an initial part of what the scheduler
\* recorded and, when the signals are handed over, all of it: whichever
\* outputs the interval picks and however often the request is retracted, no
\* entry is lost, repeated or reordered.
THEOREM StreamSafe == Spec => []StreamIsPrefix
  <1>1. ASSUME IInv, StreamInv PROVE StreamIsPrefix
    <2> SUFFICES ASSUME NEW r \in Reqs, NEW f \in Lists
                 PROVE  LET got == received[r][f]
                        IN  /\ Len(got) <= Len(sig[r][f])
                            /\ got = SubSeq(sig[r][f], 1, Len(got))
                            /\ r \in Handed => Len(got) = Len(sig[r][f])
      BY DEF StreamIsPrefix
    <2> DEFINE got == received[r][f]
               q == sig[r][f]
    <2>1. /\ got \in Seq(Vals) /\ Len(got) <= Len(q) /\ \A i \in 1 .. Len(got) : got[i] = q[i]
          /\ r \in Handed => Len(got) = Len(q)
      BY <1>1 DEF StreamInv, Streamed, Prefix, Handed, Delivered
    <2>2. q \in Seq(Vals) /\ Len(q) \in Nat /\ Len(got) \in Nat
      BY <1>1, <2>1, ListsVals, LenProperties DEF IInv, TypeOK
    <2>. HIDE DEF got, q
    <2>3. got = SubSeq(q, 1, Len(got))
      <3> DEFINE n == Len(got)
                 u == SubSeq(q, 1, n)
      <3>1. \A i \in 1 .. n : q[i] \in Vals
        BY <2>1, <2>2, ElementOfSeq
      <3>2. u \in Seq(Vals) /\ Len(u) = n /\ \A i \in 1 .. n : u[i] = q[i]
        BY <2>2, <3>1, SubSeqProperties
      <3>. HIDE DEF n, u
      <3>3. got = u
        BY <2>1, <3>2, SeqEqual DEF n
      <3>. QED BY <3>3 DEF u, n
    <2>. QED BY <2>1, <2>3 DEF got, q
  <1>. QED BY <1>1, StreamInvariance, PTL

-----------------------------------------------------------------------------
(* Targets                                                                 *)

\* What cycle c of lists s says of a response of o tokens: its accepted block
\* holds the tokens after its position, ends within the response, and is
\* shorter than accept_len only at the end of the response.
Told(s, c, o) ==
    LET e == Len(s.accepted_tokens[c])
    IN  /\ s.position[c] + 1 >= PromptLen
        /\ e <= s.accept_len[c]
        /\ \A j \in 1 .. e : s.accepted_tokens[c][j] = Tok(s.position[c] + 1 + j)
        /\ s.position[c] + e + 2 <= PromptLen + o
        /\ e < s.accept_len[c] => s.position[c] + e + 2 = PromptLen + o

\* A block that was cut is of a response that ended.
Whole(s, c) == ~(Len(s.accepted_tokens[c]) < s.accept_len[c])

Emitted(r) ==
    \A c \in 1 .. Len(sig[r].position) :
        Told(sig[r], c, out[r]) /\ (Whole(sig[r], c) \/ status[r] = "finished")

\* What a step does to the cycles of request r: nothing, or it adds one.
Recounted(r) ==
    \/ /\ \A f \in CycleFields \union HistoryFields : sig'[r][f] = sig[r][f]
       /\ out'[r] >= out[r]
       /\ status[r] = "finished" => out'[r] = out[r] /\ status'[r] = "finished"
    \/ \E v \in VerifyOutcomes(r) : \E h :
         /\ status[r] = "running"
         /\ sig'[r] = RecordVerify(sig[r], done[r], out[r], h, v.n, v.e)
         /\ out'[r] = out[r] + v.e
         /\ v.fin => status'[r] = "finished"

\* The types of what a cycle holds.
LEMMA CycleType ==
    ASSUME NEW s \in Signals, Square(s), Aligned(s)
    PROVE  /\ Len(s.position) \in Nat /\ Len(s.accept_len) = Len(s.position)
           /\ Len(s.accepted_tokens) = Len(s.position)
           /\ s.accepted_tokens \in Seq(Seq(Tokens)) /\ s.position \in Seq(Nat)
           /\ s.accept_len \in Seq(1 .. Steps + 1)
           /\ \A c \in 1 .. Len(s.position) :
                /\ s.position[c] \in Nat /\ s.accept_len[c] \in 1 .. Steps + 1
                /\ s.accepted_tokens[c] \in Seq(Tokens) /\ Len(s.accepted_tokens[c]) \in Nat
  <1>1. /\ s.accepted_tokens \in Seq(Seq(Tokens)) /\ s.position \in Seq(Nat)
        /\ s.accept_len \in Seq(1 .. Steps + 1)
    BY DEF Signals
  <1>2. Len(s.accept_len) = Len(s.position) /\ Len(s.accepted_tokens) = Len(s.position)
    <2>1. \A f \in CycleFields : Len(s[f]) = Len(s["draft_tokens"])
      BY DEF Square, Offset, Ends, Lists, CycleFields, HistoryFields, PrefillFields
    <2>. QED BY <2>1 DEF CycleFields, Aligned
  <1>3. Len(s.position) \in Nat
    BY <1>1, LenProperties
  <1>4. ASSUME NEW c \in 1 .. Len(s.position)
        PROVE  /\ s.position[c] \in Nat /\ s.accept_len[c] \in 1 .. Steps + 1
               /\ s.accepted_tokens[c] \in Seq(Tokens) /\ Len(s.accepted_tokens[c]) \in Nat
    <2>1. s.position[c] \in Nat
      BY <1>1, ElementOfSeq
    <2>2. s.accept_len[c] \in 1 .. Steps + 1
      BY <1>1, <1>2, ElementOfSeq
    <2>3. s.accepted_tokens[c] \in Seq(Tokens)
      BY <1>1, <1>2, ElementOfSeq
    <2>. QED BY <2>1, <2>2, <2>3, LenProperties
  <1>. QED BY <1>1, <1>2, <1>3, <1>4

\* A cycle tells the same of a longer response, unless it was cut.
LEMMA ToldGrows ==
    ASSUME NEW s, NEW t, NEW c, NEW o \in Nat, NEW p \in Nat, o <= p, Told(s, c, o),
           Whole(s, c) \/ p = o, s.position[c] \in Nat, Len(s.accepted_tokens[c]) \in Nat,
           t.position[c] = s.position[c], t.accept_len[c] = s.accept_len[c],
           t.accepted_tokens[c] = s.accepted_tokens[c]
    PROVE  Told(t, c, p) /\ (Whole(s, c) => Whole(t, c))
  <1>1. PromptLen \in Nat
    BY SignalAssumption
  <1> DEFINE e == Len(s.accepted_tokens[c])
             a == s.position[c]
             n == s.accept_len[c]
  <1>2. /\ a + 1 >= PromptLen /\ e <= n /\ a + e + 2 <= PromptLen + o
        /\ \A j \in 1 .. e : s.accepted_tokens[c][j] = Tok(a + 1 + j)
        /\ e < n => a + e + 2 = PromptLen + o
    BY DEF Told
  <1>3. a \in Nat /\ e \in Nat /\ (e < n => p = o)
    BY DEF Whole
  <1>. HIDE DEF a, e, n
  <1>4. a + e + 2 <= PromptLen + p /\ (e < n => a + e + 2 = PromptLen + p)
    BY <1>1, <1>2, <1>3
  <1>. QED BY <1>2, <1>4 DEF Told, Whole, a, e, n

\* Appending adds one element and keeps the others.
LEMMA AppendKeeps ==
    ASSUME NEW S, NEW q \in Seq(S), NEW x
    PROVE  /\ Len(Append(q, x)) = Len(q) + 1 /\ Append(q, x)[Len(q) + 1] = x
           /\ \A c \in 1 .. Len(q) : Append(q, x)[c] = q[c]
OBVIOUS

LEMMA RecountedEmits ==
    ASSUME IInv, IInv', StreamInv, NEW r \in Reqs, Emitted(r), Recounted(r)
    PROVE  Emitted(r)'
  <1> DEFINE s == sig[r]
             t == sig'[r]
             n == Len(s.position)
  <1>1. /\ s \in Signals /\ Square(s) /\ Aligned(s) /\ out[r] \in Nat /\ out'[r] \in Nat
        /\ PromptLen \in Nat \ {0} /\ MaxNew \in Nat
    BY SignalAssumption DEF IInv, TypeOK, StreamInv, Streamed
  <1>2. /\ n \in Nat /\ Len(s.accept_len) = n /\ Len(s.accepted_tokens) = n
        /\ s.accepted_tokens \in Seq(Seq(Tokens)) /\ s.position \in Seq(Nat)
        /\ s.accept_len \in Seq(1 .. Steps + 1)
        /\ \A c \in 1 .. n : s.position[c] \in Nat /\ Len(s.accepted_tokens[c]) \in Nat
    <2>. HIDE DEF s
    <2>. QED BY <1>1, CycleType
  <1>3. \A c \in 1 .. n : Told(s, c, out[r]) /\ (Whole(s, c) \/ status[r] = "finished")
    BY DEF Emitted
  <1>4. ASSUME out'[r] >= out[r], status[r] = "finished" => out'[r] = out[r] /\ status'[r] = "finished",
               NEW c \in 1 .. n, t.position[c] = s.position[c], t.accept_len[c] = s.accept_len[c],
               t.accepted_tokens[c] = s.accepted_tokens[c]
        PROVE  Told(t, c, out'[r]) /\ (Whole(t, c) \/ status'[r] = "finished")
    <2>. HIDE DEF s, t, n
    <2>. QED BY <1>1, <1>2, <1>3, <1>4, ToldGrows
  <1>5. CASE /\ \A f \in CycleFields \union HistoryFields : sig'[r][f] = sig[r][f]
             /\ out'[r] >= out[r]
             /\ status[r] = "finished" => out'[r] = out[r] /\ status'[r] = "finished"
    <2>1. /\ t.position = s.position /\ t.accept_len = s.accept_len
          /\ t.accepted_tokens = s.accepted_tokens
      BY <1>5 DEF CycleFields, HistoryFields
    <2>2. \A c \in 1 .. n : Told(t, c, out'[r]) /\ (Whole(t, c) \/ status'[r] = "finished")
      BY <1>4, <1>5, <2>1
    <2>. QED BY <2>1, <2>2 DEF Emitted
  <1>6. ASSUME NEW v \in VerifyOutcomes(r), NEW h, status[r] = "running",
               sig'[r] = RecordVerify(sig[r], done[r], out[r], h, v.n, v.e),
               out'[r] = out[r] + v.e, v.fin => status'[r] = "finished"
        PROVE  Emitted(r)'
    <2> DEFINE toks == [i \in 1 .. v.e |-> Tok(done[r] + i)]
    <2>1. /\ t.position = Append(s.position, done[r] - 1) /\ t.accept_len = Append(s.accept_len, v.n)
          /\ t.accepted_tokens = Append(s.accepted_tokens, toks)
      BY <1>1, <1>6 DEF RecordVerify, Signals
    <2>2. /\ v.n \in 1 .. Steps + 1 /\ v.e \in 1 .. Steps + 1 /\ v.e <= v.n
          /\ v.e < v.n => v.fin
      BY DEF VerifyOutcomes
    <2>3. out[r] >= 1 /\ done[r] = PromptLen + out[r] - 1 /\ Steps \in Nat
      BY <1>6, SignalAssumption DEF IInv, Placed
    <2>4. done[r] \in Nat \ {0} /\ v.e \in Nat
      BY <1>1, <2>2, <2>3
    <2>5. Len(toks) = v.e /\ \A j \in 1 .. v.e : toks[j] = Tok(done[r] + j)
      BY <2>4
    <2>. HIDE DEF toks, t, s, n
    <2>6. /\ Len(t.position) = n + 1 /\ t.position[n + 1] = done[r] - 1
          /\ \A c \in 1 .. n : t.position[c] = s.position[c]
      <3>1. s.position \in Seq(Nat) /\ n = Len(s.position)
        BY <1>2 DEF n
      <3>. QED BY <2>1, <3>1, AppendKeeps
    <2>7. /\ t.accept_len[n + 1] = v.n
          /\ \A c \in 1 .. n : t.accept_len[c] = s.accept_len[c]
      <3>1. s.accept_len \in Seq(1 .. Steps + 1) /\ n = Len(s.accept_len)
        BY <1>2
      <3>. QED BY <2>1, <3>1, AppendKeeps
    <2>8. /\ t.accepted_tokens[n + 1] = toks
          /\ \A c \in 1 .. n : t.accepted_tokens[c] = s.accepted_tokens[c]
      <3>1. s.accepted_tokens \in Seq(Seq(Tokens)) /\ n = Len(s.accepted_tokens)
        BY <1>2
      <3>. QED BY <2>1, <3>1, AppendKeeps
    <2>9. /\ Len(t.position) = n + 1 /\ t.position[n + 1] = done[r] - 1
          /\ t.accept_len[n + 1] = v.n /\ t.accepted_tokens[n + 1] = toks
      BY <2>6, <2>7, <2>8
    <2>10. \A c \in 1 .. n : /\ t.position[c] = s.position[c] /\ t.accept_len[c] = s.accept_len[c]
                            /\ t.accepted_tokens[c] = s.accepted_tokens[c]
      BY <2>6, <2>7, <2>8
    <2>11. \A c \in 1 .. n : Told(t, c, out'[r]) /\ (Whole(t, c) \/ status'[r] = "finished")
      <3>1. out'[r] >= out[r] /\ status[r] # "finished"
        BY <1>1, <1>6, <2>4
      <3>. QED BY <1>4, <2>10, <3>1
    <2>12. Told(t, n + 1, out'[r]) /\ (Whole(t, n + 1) \/ status'[r] = "finished")
      <3>1. done[r] - 1 + 1 = done[r] /\ done[r] >= PromptLen
        BY <1>1, <2>3, <2>4
      <3>2. done[r] - 1 + v.e + 2 = PromptLen + (out[r] + v.e)
        BY <1>1, <2>3, <2>4
      <3>3. done[r] - 1 + v.e + 2 <= PromptLen + (out[r] + v.e)
        BY <1>1, <2>3, <2>4
      <3>4. v.e < v.n => status'[r] = "finished"
        BY <1>6, <2>2
      <3>. QED BY <1>6, <2>2, <2>5, <2>9, <3>1, <3>2, <3>3, <3>4 DEF Told, Whole
    <2>13. \A c \in 1 .. Len(t.position) : Told(t, c, out'[r]) /\ (Whole(t, c) \/ status'[r] = "finished")
      <3>1. \A c \in 1 .. Len(t.position) : c \in 1 .. n \/ c = n + 1
        BY <1>2, <2>9
      <3>. QED BY <2>11, <2>12, <3>1
    <2>. QED BY <2>13 DEF Emitted, t
  <1>. QED BY <1>5, <1>6 DEF Recounted

LEMMA PrefillRecounts ==
    ASSUME IInv, StreamInv, NEW r \in Reqs, Prefill(r), NEW q \in Reqs
    PROVE  Recounted(q)
  <1> DEFINE total == PromptLen + out[r]
             o == out[r]
             start == done[r]
  <1>1. PICK len \in 1 .. (total - start), eos \in BOOLEAN :
             LET last  == start + len = total
                 hid   == [i \in 1 .. len |-> Hid(start + i - 1, o)]
                 tok   == [i \in 1 .. len |-> IF i < len \/ last THEN Tok(start + i) ELSE Guess]
                 fin   == last /\ (eos \/ o + 1 >= MaxNew)
             IN  /\ sig' = [sig EXCEPT ![r] = RecordPrefill(@, hid, tok, start)]
                 /\ out' = [out EXCEPT ![r] = IF last THEN o + 1 ELSE o]
                 /\ status' = [status EXCEPT ![r] = IF fin THEN "finished"
                                                    ELSE IF last THEN "running" ELSE @]
    BY DEF Prefill
  <1>2. /\ sig \in [Reqs -> Signals] /\ Square(sig[r]) /\ status[r] = "waiting"
        /\ status \in [Reqs -> {"waiting", "running", "finished", "aborted"}]
        /\ out \in [Reqs -> 0 .. MaxNew] /\ MaxNew \in Nat
    BY SignalAssumption DEF IInv, TypeOK, StreamInv, Streamed, Prefill
  <1>3. CASE q # r
    BY <1>1, <1>2, <1>3 DEF Recounted
  <1>4. CASE q = r
    <2>1. PICK hid, tok : sig'[r] = RecordPrefill(sig[r], hid, tok, start)
      BY <1>1, <1>2
    <2>2. \A f \in CycleFields \union HistoryFields : sig'[r][f] = sig[r][f]
      BY <1>2, <2>1, PrefillGrows
    <2>3. out'[r] >= out[r]
      BY <1>1, <1>2
    <2>. QED BY <1>2, <1>4, <2>2, <2>3 DEF Recounted
  <1>. QED BY <1>3, <1>4

LEMMA DecodeRecounts ==
    ASSUME IInv, Decode, NEW q \in Reqs
    PROVE  Recounted(q)
  <1>1. PICK last \in Running :
         LET live == {r \in Running : place[r] <= place[last]}
             gone == Running \ live
             known == \A r \in live : seed[r] # None
         IN  \E v \in [live -> UNION {VerifyOutcomes(r) : r \in live}] :
               LET ended == {r \in live : v[r].fin}
               IN  /\ \A r \in live : v[r] \in VerifyOutcomes(r)
                   /\ sig' = [r \in Reqs |->
                                IF r \in live
                                THEN RecordVerify(sig[r], done[r], out[r],
                                                  IF known THEN seed[r] ELSE None, v[r].n, v[r].e)
                                ELSE sig[r]]
                   /\ out' = [r \in Reqs |-> IF r \in live THEN out[r] + v[r].e ELSE out[r]]
                   /\ status' = [r \in Reqs |-> IF r \in ended THEN "finished"
                                                ELSE IF r \in gone THEN "waiting" ELSE status[r]]
    BY DEF Decode
  <1> DEFINE live == {r \in Running : place[r] <= place[last]}
             gone == Running \ live
             known == \A r \in live : seed[r] # None
             h == IF known THEN seed[q] ELSE None
  <1>2. PICK v :
          /\ \A r \in live : v[r] \in VerifyOutcomes(r)
          /\ sig' = [r \in Reqs |->
                       IF r \in live
                       THEN RecordVerify(sig[r], done[r], out[r],
                                         IF known THEN seed[r] ELSE None, v[r].n, v[r].e)
                       ELSE sig[r]]
          /\ out' = [r \in Reqs |-> IF r \in live THEN out[r] + v[r].e ELSE out[r]]
          /\ status' = [r \in Reqs |-> IF r \in {x \in live : v[x].fin} THEN "finished"
                                       ELSE IF r \in gone THEN "waiting" ELSE status[r]]
    BY <1>1
  <1>3. (\A r \in live \union gone : status[r] = "running") /\ out[q] \in Nat
    BY SignalAssumption DEF Running, IInv, TypeOK
  <1>. HIDE DEF live, gone, known
  <1>4. CASE q \notin live
    <2>1. /\ sig'[q] = sig[q] /\ out'[q] = out[q]
          /\ status[q] = "finished" => status'[q] = "finished"
      BY <1>2, <1>3, <1>4
    <2>. QED BY <1>3, <2>1 DEF Recounted
  <1>5. CASE q \in live
    <2>1. /\ v[q] \in VerifyOutcomes(q) /\ status[q] = "running" /\ out'[q] = out[q] + v[q].e
          /\ v[q].fin => status'[q] = "finished"
      BY <1>2, <1>3, <1>5
    <2>2. sig'[q] = RecordVerify(sig[q], done[q], out[q], h, v[q].n, v[q].e)
      BY <1>2, <1>5
    <2>. HIDE DEF h
    <2>. QED BY <2>1, <2>2 DEF Recounted
  <1>. QED BY <1>4, <1>5

LEMMA OthersRecount ==
    ASSUME IInv, NEW q \in Reqs,
           \/ OutOfMemory \/ UNCHANGED vars \/ Idle
           \/ \E r \in Reqs : AbortWaiting(r) \/ Receive(r) \/ ReceiveAbort(r) \/ Wake(r)
    PROVE  Recounted(q)
  <1>1. UNCHANGED <<sig, out>> /\ out[q] \in Nat
    BY SignalAssumption
    DEF OutOfMemory, AbortWaiting, Receive, ReceiveAbort, Wake, Idle, vars, sigVars, reqVars, IInv, TypeOK
  <1>2. status[q] = "finished" => status'[q] = "finished"
    <2>1. CASE OutOfMemory \/ \E r \in Reqs : AbortWaiting(r)
      BY <2>1, OthersScheduled DEF Scheduled
    <2>2. CASE UNCHANGED vars \/ Idle \/ \E r \in Reqs : Receive(r) \/ ReceiveAbort(r) \/ Wake(r)
      BY <2>2 DEF Receive, ReceiveAbort, Wake, Idle, vars, reqVars
    <2>. QED BY <2>1, <2>2
  <1>. QED BY <1>1, <1>2 DEF Recounted

EmitInv == \A r \in Reqs : Emitted(r)

LEMMA EmitInvariance == Spec => []EmitInv
  <1>1. Init => EmitInv
    BY DEF Init, EmitInv, Emitted, EmptySignals
  <1>2. ASSUME IInv, IInv', StreamInv, EmitInv, [Next]_vars PROVE EmitInv'
    <2>1. ASSUME NEW q \in Reqs PROVE Recounted(q)
      BY <1>2, PrefillRecounts, DecodeRecounts, OthersRecount DEF Next
    <2>. QED BY <1>2, <2>1, RecountedEmits DEF EmitInv
  <1>. QED BY <1>1, <1>2, StreamInvariance, PTL DEF Spec

\* A cycle that is told of gets as targets the tokens it emitted.
LEMMA ToldTargets ==
    ASSUME NEW g, NEW c, NEW o \in Nat, Told(g, c, o), Len(g.prompt_ids) = PromptLen,
           g.position[c] \in Nat, g.accept_len[c] \in Nat, Len(g.accepted_tokens[c]) \in Nat
    PROVE  /\ TargetDepths(g, c, o) = {d \in 0 .. Steps - 1 : d < Len(g.accepted_tokens[c])}
           /\ \A d \in TargetDepths(g, c, o) : g.accepted_tokens[c][d + 1] = TargetToken(g, c, d)
  <1>1. PromptLen \in Nat /\ Steps \in Nat
    BY SignalAssumption
  <1> DEFINE e == Len(g.accepted_tokens[c])
             a == g.position[c]
             n == g.accept_len[c]
  <1>2. /\ a + 1 >= PromptLen /\ e <= n /\ a + e + 2 <= PromptLen + o
        /\ \A j \in 1 .. e : g.accepted_tokens[c][j] = Tok(a + 1 + j)
        /\ e < n => a + e + 2 = PromptLen + o
    BY DEF Told
  <1>3. a \in Nat /\ e \in Nat /\ n \in Nat
    OBVIOUS
  <1>4. \A d \in Nat : ResponseIndex(g, c, d) = a + d + 2 - PromptLen
    BY DEF ResponseIndex
  <1>5. TargetDepths(g, c, o) = {d \in 0 .. Steps - 1 :
           d < n /\ ResponseIndex(g, c, d) >= 0 /\ ResponseIndex(g, c, d) < o}
    BY DEF TargetDepths
  <1>. HIDE DEF a, e, n
  <1>6. \A d \in 0 .. Steps - 1 :
           (d < n /\ a + d + 2 - PromptLen >= 0 /\ a + d + 2 - PromptLen < o) <=> d < e
    BY <1>1, <1>2, <1>3
  <1>7. TargetDepths(g, c, o) = {d \in 0 .. Steps - 1 : d < e}
    BY <1>1, <1>4, <1>5, <1>6
  <1>8. ASSUME NEW d \in TargetDepths(g, c, o)
        PROVE  g.accepted_tokens[c][d + 1] = TargetToken(g, c, d)
    <2>1. d \in Nat /\ d + 1 \in 1 .. e
      BY <1>1, <1>3, <1>7
    <2>2. g.accepted_tokens[c][d + 1] = Tok(a + 1 + (d + 1))
      BY <1>2, <2>1
    <2>3. PromptLen + (a + d + 2 - PromptLen) = a + 1 + (d + 1)
      BY <1>1, <1>3, <2>1
    <2>. QED BY <1>4, <2>1, <2>2, <2>3 DEF TargetToken, Response, Tok
  <1>. QED BY <1>7, <1>8 DEF e

\* The targets of the auxiliary cross-entropy are the tokens the verifier
\* emitted, every emitted depth has one, and pack_signals finds no
\* contradiction, for every response whose recorded prompt is the rollout's.
THEOREM TargetsSafe == Spec => []TargetsMatchEmitted
  <1>1. ASSUME IInv, StreamInv, EmitInv PROVE TargetsMatchEmitted
    <2> SUFFICES ASSUME NEW r \in Handed, ~PromptDiffers(received[r])
                 PROVE  /\ ~TargetsRaise(received[r], out[r])
                        /\ \A c \in 1 .. Len(received[r].position) :
                             TargetDepths(received[r], c, out[r])
                               = {d \in 0 .. Steps - 1 : d < Len(received[r].accepted_tokens[c])}
      BY DEF TargetsMatchEmitted
    <2> DEFINE g == received[r]
               s == sig[r]
    <2>1. /\ r \in Reqs /\ s \in Signals /\ Square(s) /\ Aligned(s) /\ out[r] \in Nat
          /\ PromptLen \in Nat /\ Emitted(r) /\ Prefix(g, s)
          /\ \A f \in Lists : Len(g[f]) = Len(s[f])
      BY <1>1, SignalAssumption DEF Handed, Delivered, IInv, TypeOK, StreamInv, Streamed, EmitInv
    <2>2. Len(g.prompt_ids) = PromptLen
      BY <2>1 DEF PromptDiffers
    <2>3. \A c \in 1 .. Len(s.position) : Told(s, c, out[r])
      BY <2>1 DEF Emitted
    <2>. HIDE DEF g, s
    <2>4. /\ Len(s.accept_len) = Len(s.position) /\ Len(s.accepted_tokens) = Len(s.position)
          /\ \A c \in 1 .. Len(s.position) :
               /\ s.position[c] \in Nat /\ s.accept_len[c] \in 1 .. Steps + 1
               /\ Len(s.accepted_tokens[c]) \in Nat
      BY <2>1, CycleType
    <2>5. /\ Len(g.position) = Len(s.position) /\ Len(g.accepted_tokens) = Len(s.position)
          /\ \A c \in 1 .. Len(s.position) :
               /\ g.position[c] = s.position[c] /\ g.accept_len[c] = s.accept_len[c]
               /\ g.accepted_tokens[c] = s.accepted_tokens[c]
      <3>1. {"position", "accept_len", "accepted_tokens"} \subseteq Lists
        BY DEF Lists, CycleFields, HistoryFields
      <3>. QED BY <2>1, <2>4, <3>1 DEF Prefix
    <2>6. ASSUME NEW c \in 1 .. Len(g.position)
          PROVE  /\ TargetDepths(g, c, out[r])
                      = {d \in 0 .. Steps - 1 : d < Len(g.accepted_tokens[c])}
                 /\ \A d \in TargetDepths(g, c, out[r]) :
                      g.accepted_tokens[c][d + 1] = TargetToken(g, c, d)
      <3>1. Told(g, c, out[r])
        BY <2>3, <2>5 DEF Told
      <3>2. /\ g.position[c] \in Nat /\ g.accept_len[c] \in Nat /\ Len(g.accepted_tokens[c]) \in Nat
        BY <2>4, <2>5
      <3>. QED BY <2>1, <2>2, <3>1, <3>2, ToldTargets
    <2>7. ~TargetsRaise(g, out[r])
      <3>1. ASSUME NEW c \in 1 .. Len(g.position), NEW d \in TargetDepths(g, c, out[r])
            PROVE  ~(d >= Len(g.accepted_tokens[c])) /\ g.accepted_tokens[c][d + 1] = TargetToken(g, c, d)
        <4>1. d < Len(g.accepted_tokens[c]) /\ d \in 0 .. Steps - 1
          BY <2>6
        <4>2. Len(g.accepted_tokens[c]) \in Nat
          BY <2>4, <2>5
        <4>. QED BY <2>6, <4>1, <4>2, SignalAssumption
      <3>. QED BY <3>1 DEF TargetsRaise
    <2>. QED BY <2>6, <2>7 DEF g
  <1>. QED BY <1>1, StreamInvariance, EmitInvariance, PTL

-----------------------------------------------------------------------------
(* Prefixes put together from blocks                                       *)

\* A non-empty set of natural numbers has a least element: what stands for
\* induction in the proofs below.
LEMMA Least ==
    ASSUME NEW T, T \subseteq Nat, T # {}
    PROVE  \E n \in T : \A m \in T : n <= m
  <1>1. \E x \in T : \A y \in T : ~ (<<y, x>> \in OpToRel(<, Nat))
    BY WFMin, NatLessThanWellFounded, Zenon
  <1>2. PICK x \in T : \A y \in T : ~ (<<y, x>> \in OpToRel(<, Nat))
    BY <1>1
  <1>3. ASSUME NEW y \in T PROVE x <= y
    <2>1. ~ (<<y, x>> \in OpToRel(<, Nat))
      BY <1>2
    <2>2. ~ (y < x)
      BY <2>1 DEF OpToRel
    <2>. QED BY <2>2
  <1>. QED BY <1>3

\* f lists the prefixes up to the first, second, ... of m further cycles: P,
\* continued by A[i] and G[i].
Unfolds(P, A, G, m, f) ==
    f = [i \in 0 .. m |-> IF i = 0 THEN P ELSE f[i - 1] \o A[i] \o G[i]]

\* Such a list of prefixes exists.
LEMMA UnfoldsExists ==
    ASSUME NEW P, NEW A, NEW G, NEW k \in Nat
    PROVE  \E f : Unfolds(P, A, G, k, f)
  <1> DEFINE T == {m \in Nat : ~ \E f : Unfolds(P, A, G, m, f)}
  <1> SUFFICES ASSUME T # {} PROVE FALSE
    OBVIOUS
  <1>1. T \subseteq Nat
    OBVIOUS
  <1>2. \E n \in T : \A m \in T : n <= m
    <2>. HIDE DEF T
    <2>. QED BY <1>1, Least
  <1>3. PICK n \in T : \A m \in T : n <= m
    BY <1>2
  <1>4. n \in Nat /\ ~ \E f : Unfolds(P, A, G, n, f)
    OBVIOUS
  <1>5. CASE n = 0
    <2> DEFINE f == [i \in 0 .. 0 |-> P]
    <2>1. Unfolds(P, A, G, 0, f)
      BY DEF Unfolds
    <2>. QED BY <1>4, <1>5, <2>1
  <1>6. CASE n # 0
    <2>1. n - 1 \in Nat /\ ~(n <= n - 1)
      BY <1>4, <1>6
    <2>2. \E f : Unfolds(P, A, G, n - 1, f)
      BY <1>3, <2>1
    <2>3. PICK e : Unfolds(P, A, G, n - 1, e)
      BY <2>2
    <2>4. \A i \in 0 .. n - 1 : e[i] = IF i = 0 THEN P ELSE e[i - 1] \o A[i] \o G[i]
      BY <2>3 DEF Unfolds
    <2> DEFINE f == [i \in 0 .. n |-> IF i = n THEN e[n - 1] \o A[n] \o G[n] ELSE e[i]]
    <2>5. ASSUME NEW i \in 0 .. n
          PROVE  f[i] = IF i = 0 THEN P ELSE f[i - 1] \o A[i] \o G[i]
      <3>1. CASE i = n
        <4>1. i # 0 /\ i - 1 \in 0 .. n /\ i - 1 # n
          BY <1>4, <1>6, <3>1
        <4>2. f[i - 1] = e[i - 1] /\ f[i] = e[n - 1] \o A[n] \o G[n]
          BY <3>1, <4>1
        <4>. HIDE DEF f
        <4>. QED BY <3>1, <4>1, <4>2
      <3>2. CASE i # n
        <4>1. i \in 0 .. n - 1 /\ f[i] = e[i]
          BY <1>4, <3>2
        <4>2. i # 0 => f[i - 1] = e[i - 1]
          BY <1>4, <4>1
        <4>. HIDE DEF f
        <4>. QED BY <2>4, <4>1, <4>2
      <3>. QED BY <3>1, <3>2
    <2>6. f = [i \in 0 .. n |-> f[i]]
      OBVIOUS
    <2>. HIDE DEF f
    <2>7. Unfolds(P, A, G, n, f)
      BY <2>5, <2>6 DEF Unfolds
    <2>. QED BY <1>4, <2>7
  <1>. QED BY <1>5, <1>6

\* Sequence u holds k values of S, the j-th of them one of F[j].
Holds(S, F, u, k) == u \in Seq(S) /\ Len(u) = k /\ \A j \in 1 .. k : u[j] \in F[j]

\* Sequence a holds values of S that can follow the first k of such a sequence.
Follows(S, F, a, k) == a \in Seq(S) /\ \A j \in 1 .. Len(a) : a[j] \in F[k + j]

\* A sequence continued by what can follow it.
LEMMA FollowsHolds ==
    ASSUME NEW S, NEW F, NEW u, NEW a, NEW k \in Nat, Holds(S, F, u, k), Follows(S, F, a, k)
    PROVE  Holds(S, F, u \o a, k + Len(a)) /\ k + Len(a) \in Nat
  <1>1. /\ Len(a) \in Nat /\ u \o a \in Seq(S) /\ Len(u \o a) = k + Len(a)
        /\ \A j \in 1 .. k + Len(a) : (u \o a)[j] = IF j <= k THEN u[j] ELSE a[j - k]
    BY ConcatProperties, LenProperties DEF Holds, Follows
  <1>2. ASSUME NEW j \in 1 .. k + Len(a) PROVE (u \o a)[j] \in F[j]
    <2>1. CASE j <= k
      BY <1>1, <2>1 DEF Holds
    <2>2. CASE ~(j <= k)
      <3>1. j - k \in 1 .. Len(a) /\ k + (j - k) = j
        BY <1>1, <2>2
      <3>2. a[j - k] \in F[k + (j - k)]
        BY <3>1 DEF Follows
      <3>. QED BY <1>1, <2>2, <3>1, <3>2
    <2>. QED BY <2>1, <2>2
  <1>. QED BY <1>1, <1>2 DEF Holds

\* Every prefix reaches from 0 to the position of its cycle, and holds at
\* every position p something of F[p].
LEMMA UnfoldsHold ==
    ASSUME NEW S, NEW F, NEW m \in Nat, NEW P, NEW A, NEW G, NEW f, Unfolds(P, A, G, m, f),
           NEW e \in [0 .. m -> Nat], Holds(S, F, P, e[0]),
           \A i \in 1 .. m :
             /\ e[i] = e[i - 1] + Len(A[i]) + Len(G[i])
             /\ Follows(S, F, A[i], e[i - 1])
             /\ Follows(S, F, G[i], e[i - 1] + Len(A[i]))
    PROVE  \A i \in 0 .. m : Holds(S, F, f[i], e[i])
  <1> DEFINE T == {i \in 0 .. m : ~Holds(S, F, f[i], e[i])}
  <1>0. \A i \in 0 .. m : f[i] = IF i = 0 THEN P ELSE f[i - 1] \o A[i] \o G[i]
    BY DEF Unfolds
  <1> SUFFICES ASSUME T # {} PROVE FALSE
    OBVIOUS
  <1>1. T \subseteq Nat
    OBVIOUS
  <1>2. \E n \in T : \A k \in T : n <= k
    <2>. HIDE DEF T
    <2>. QED BY <1>1, Least
  <1>3. PICK n \in T : \A k \in T : n <= k
    BY <1>2
  <1>4. n \in 0 .. m /\ ~Holds(S, F, f[n], e[n])
    OBVIOUS
  <1>5. CASE n = 0
    BY <1>0, <1>4, <1>5
  <1>6. CASE n # 0
    <2>1. n - 1 \in 0 .. m /\ ~(n <= n - 1) /\ n \in 1 .. m
      BY <1>4, <1>6
    <2>2. Holds(S, F, f[n - 1], e[n - 1]) /\ e[n - 1] \in Nat
      BY <1>3, <2>1
    <2>3. f[n] = (f[n - 1] \o A[n]) \o G[n]
      BY <1>0, <1>4, <1>6
    <2>4. Holds(S, F, f[n - 1] \o A[n], e[n - 1] + Len(A[n])) /\ e[n - 1] + Len(A[n]) \in Nat
      BY <2>1, <2>2, FollowsHolds
    <2>5. Holds(S, F, (f[n - 1] \o A[n]) \o G[n], e[n - 1] + Len(A[n]) + Len(G[n]))
      BY <2>1, <2>4, FollowsHolds
    <2>. QED BY <1>4, <2>1, <2>3, <2>5
  <1>. QED BY <1>5, <1>6

Gap(g, prefill, i) ==
    [j \in 1 .. Advance(g, i) - g.accept_len[i] |->
        PrefillAt(g, prefill, g.position[i] + g.accept_len[i] + j)]

\* The equation that PrefixRows solves.
Prefixes(g, prompt, accepted, prefill, f) ==
    f = [i \in 0 .. Len(g.position) - 1 |->
            IF i = 0 THEN g[prompt] ELSE f[i - 1] \o g[accepted][i] \o Gap(g, prefill, i)]

\* PrefixRows is well defined.
LEMMA PrefixRowsUnfold ==
    ASSUME NEW g, NEW prompt, NEW accepted, NEW prefill, Len(g.position) \in Nat \ {0}
    PROVE  \E f : /\ PrefixRows(g, prompt, accepted, prefill) = f[Len(g.position) - 1]
                  /\ Unfolds(g[prompt], g[accepted], [i \in 1 .. Len(g.position) - 1 |-> Gap(g, prefill, i)],
                             Len(g.position) - 1, f)
  <1> DEFINE m == Len(g.position) - 1
             G == [i \in 1 .. m |-> Gap(g, prefill, i)]
             P == g[prompt]
             A == g[accepted]
  <1>1. m \in Nat
    OBVIOUS
  <1>2. \A f : Unfolds(P, A, G, m, f) <=> Prefixes(g, prompt, accepted, prefill, f)
    <2> SUFFICES ASSUME NEW f
                 PROVE  Unfolds(P, A, G, m, f) <=> Prefixes(g, prompt, accepted, prefill, f)
      OBVIOUS
    <2>1. \A i \in 0 .. m : i # 0 => G[i] = Gap(g, prefill, i)
      BY <1>1
    <2>. HIDE DEF G
    <2>. QED BY <2>1 DEF Unfolds, Prefixes
  <1>3. \E f : Prefixes(g, prompt, accepted, prefill, f)
    <2>1. \E f : Unfolds(P, A, G, m, f)
      <3>. HIDE DEF P, A, G, m
      <3>. QED BY <1>1, UnfoldsExists
    <2>. QED BY <1>2, <2>1
  <1> DEFINE R == CHOOSE f : Prefixes(g, prompt, accepted, prefill, f)
  <1>4. Prefixes(g, prompt, accepted, prefill, R)
    BY <1>3, Zenon
  <1>5. PrefixRows(g, prompt, accepted, prefill) = R[m]
    BY DEF PrefixRows, Prefixes, Gap
  <1>. HIDE DEF R
  <1>. QED BY <1>2, <1>4, <1>5

\* What the rows of a prefix field are when the prompt, the accepted blocks and
\* the re-prefilled values in between are the right ones for their positions.
LEMMA PrefixRowsHold ==
    ASSUME NEW g, NEW prompt, NEW accepted, NEW prefill, NEW S, NEW F,
           Len(g.position) \in Nat \ {0},
           \A c \in 1 .. Len(g.position) : g.position[c] \in Nat,
           Holds(S, F, g[prompt], g.position[1] + 1),
           \A i \in 1 .. Len(g.position) - 1 :
             /\ g.accept_len[i] \in Nat /\ Len(g[accepted][i]) = g.accept_len[i]
             /\ g.accept_len[i] <= Advance(g, i)
             /\ Follows(S, F, g[accepted][i], g.position[i] + 1)
             /\ \A p \in g.position[i] + g.accept_len[i] + 1 .. g.position[i + 1] :
                  PrefillAt(g, prefill, p) \in S /\ PrefillAt(g, prefill, p) \in F[p + 1]
    PROVE  Holds(S, F, PrefixRows(g, prompt, accepted, prefill), g.position[Len(g.position)] + 1)
  <1> DEFINE n == Len(g.position)
             m == n - 1
             P == g[prompt]
             A == g[accepted]
             G == [i \in 1 .. m |-> Gap(g, prefill, i)]
             e == [i \in 0 .. m |-> g.position[i + 1] + 1]
  <1>1. m \in Nat /\ n \in Nat
    OBVIOUS
  <1>2. PICK f : /\ PrefixRows(g, prompt, accepted, prefill) = f[m]
                 /\ Unfolds(P, A, G, m, f)
    BY PrefixRowsUnfold
  <1>3. e \in [0 .. m -> Nat] /\ e[0] = g.position[1] + 1 /\ e[m] = g.position[n] + 1
    <2>1. \A i \in 0 .. m : i + 1 \in 1 .. n
      BY <1>1
    <2>. QED BY <1>1, <2>1
  <1>4. ASSUME NEW i \in 1 .. m
        PROVE  /\ e[i] = e[i - 1] + Len(A[i]) + Len(G[i])
               /\ Follows(S, F, A[i], e[i - 1])
               /\ Follows(S, F, G[i], e[i - 1] + Len(A[i]))
    <2> DEFINE a == g.position[i]
               b == g.position[i + 1]
               l == g.accept_len[i]
               k == Advance(g, i) - l
               h == [j \in 1 .. k |-> PrefillAt(g, prefill, a + l + j)]
    <2>1. i \in 1 .. n /\ i + 1 \in 1 .. n /\ i \in 0 .. m /\ i - 1 \in 0 .. m
      BY <1>1
    <2>2. /\ a \in Nat /\ b \in Nat /\ l \in Nat /\ k \in Nat /\ k = b - a - l /\ Len(A[i]) = l
      <3>1. a \in Nat /\ b \in Nat
        BY <2>1
      <3>2. l \in Nat /\ l <= Advance(g, i) /\ Len(A[i]) = l
        OBVIOUS
      <3>3. Advance(g, i) = b - a
        BY DEF Advance
      <3>. HIDE DEF a, b, l
      <3>. QED BY <3>1, <3>2, <3>3
    <2>3. e[i - 1] = a + 1 /\ e[i] = b + 1 /\ G[i] = h
      BY <1>1, <2>1 DEF Gap
    <2>4. \A p \in a + l + 1 .. b : PrefillAt(g, prefill, p) \in S /\ PrefillAt(g, prefill, p) \in F[p + 1]
      OBVIOUS
    <2>5. Follows(S, F, A[i], a + 1)
      OBVIOUS
    <2>. HIDE DEF a, b, l, k, e, G, A
    <2>6. \A j \in 1 .. k : a + l + j \in a + l + 1 .. b
      BY <2>2
    <2>7. \A j \in 1 .. k : h[j] \in S
      BY <2>4, <2>6
    <2>8. h \in Seq(S) /\ Len(h) = k
      <3>1. h \in [1 .. k -> S]
        BY <2>7
      <3>2. k \in Nat
        BY <2>2
      <3>. HIDE DEF h
      <3>. QED BY <3>1, <3>2, FunctionSeq
    <2>9. ASSUME NEW j \in 1 .. k PROVE h[j] \in F[a + 1 + l + j]
      <3>1. h[j] \in F[a + l + j + 1]
        BY <2>4, <2>6
      <3>2. a + l + j + 1 = a + 1 + l + j
        BY <2>2
      <3>. QED BY <3>1, <3>2
    <2>. HIDE DEF h
    <2>10. Follows(S, F, h, a + 1 + l)
      BY <2>8, <2>9 DEF Follows
    <2>11. e[i] = e[i - 1] + l + k
      BY <2>2, <2>3
    <2>. QED BY <2>2, <2>3, <2>5, <2>8, <2>10, <2>11
  <1>5. Holds(S, F, P, e[0])
    BY <1>3
  <1>. HIDE DEF n, m, P, A, G, e
  <1>6. \A i \in 0 .. m : Holds(S, F, f[i], e[i])
    BY <1>1, <1>2, <1>3, <1>4, <1>5, UnfoldsHold, ZenonT(30)
  <1>7. Holds(S, F, f[m], e[m])
    BY <1>1, <1>6
  <1>. QED BY <1>2, <1>3, <1>7 DEF n

-----------------------------------------------------------------------------
(* What a record is                                                        *)

\* The types and lengths of a record's lists: one entry per cycle, one block per re-prefill.
Kinds(g) ==
    /\ g.position \in Seq(Nat) /\ g.accept_len \in Seq(1 .. Steps + 1)
    /\ g.hidden \in Seq(Hidden \union {None}) /\ g.draft_tokens \in Seq(Tokens)
    /\ g.accepted_hidden \in Seq(Seq(Hidden)) /\ g.accepted_tokens \in Seq(Seq(Tokens))
    /\ g.prefill_hidden \in Seq(Seq(Hidden)) /\ g.prefill_tokens \in Seq(Seq(Tokens))
    /\ g.prefill_position \in Seq(Seq(Nat))
    /\ Len(g.accept_len) = Len(g.position) /\ Len(g.hidden) = Len(g.position)
    /\ Len(g.draft_tokens) = Len(g.position)
    /\ Len(g.accepted_hidden) = Len(g.position) /\ Len(g.accepted_tokens) = Len(g.position)
    /\ Len(g.prefill_hidden) = Len(g.prefill_position)
    /\ Len(g.prefill_tokens) = Len(g.prefill_position)

\* A re-prefill block holds one position, its token and its hidden state.
Single(s, b) ==
    /\ Len(s.prefill_position[b]) = 1 /\ Len(s.prefill_tokens[b]) = 1 /\ Len(s.prefill_hidden[b]) = 1
    /\ s.prefill_tokens[b][1] = Tok(s.prefill_position[b][1] + 1)
    /\ s.prefill_hidden[b][1][1] = s.prefill_position[b][1]

\* No position is prefilled again twice.
Refills(s) ==
    /\ \A b \in 1 .. Len(s.prefill_position) : Single(s, b)
    /\ \A a, b \in 1 .. Len(s.prefill_position) :
         s.prefill_position[a][1] = s.prefill_position[b][1] => a = b

\* Where cycle c ends: the position of its last accepted hidden state.
Ending(s, c) == s.position[c] + Len(s.accepted_tokens[c])

\* Re-prefills have recorded every position after from up to to.
Bridged(s, from, to) ==
    \A p \in from + 1 .. to : \E b \in 1 .. Len(s.prefill_position) : s.prefill_position[b][1] = p

\* h is the hidden state recorded last at position p, after cycle c.
Seeded(s, c, p, h) ==
    \/ p = Ending(s, c) /\ h = s.accepted_hidden[c][Len(s.accepted_tokens[c])]
    \/ /\ p > Ending(s, c)
       /\ \E b \in 1 .. Len(s.prefill_position) :
            s.prefill_position[b][1] = p /\ h = s.prefill_hidden[b][1]

\* A cycle by itself.
Cycle(s, c) ==
    /\ s.draft_tokens[c] = Tok(s.position[c] + 1)
    /\ Len(s.accepted_hidden[c]) = Len(s.accepted_tokens[c])
    /\ Len(s.accepted_tokens[c]) >= 1
    /\ \A j \in 1 .. Len(s.accepted_tokens[c]) :
         /\ s.accepted_hidden[c][j][1] = s.position[c] + j
         /\ s.accepted_tokens[c][j] = Tok(s.position[c] + 1 + j)

\* A cycle may follow cycle c at position p: what lies between is re-prefilled.
Open(s, c, p) ==
    /\ Len(s.accepted_tokens[c]) = s.accept_len[c]
    /\ p >= Ending(s, c)
    /\ Bridged(s, Ending(s, c), p)

\* A cycle and the next, whose seed is what was recorded at its position.
Joined(s, c) == Open(s, c, s.position[c + 1]) /\ Seeded(s, c, s.position[c + 1], s.hidden[c + 1])

\* The recorded prompt reaches from 0 to the first cycle and holds its seed.
Prompted(s) ==
    /\ s.prompt_ids \in Seq(Tokens) /\ s.prompt_hidden \in Seq(Hidden)
    /\ Len(s.prompt_hidden) = Len(s.prompt_ids) /\ Len(s.prompt_ids) >= 1
    /\ \A i \in 1 .. Len(s.prompt_ids) : s.prompt_ids[i] = Tok(i) /\ s.prompt_hidden[i][1] = i - 1
    /\ s.position # <<>> => /\ s.position[1] = Len(s.prompt_ids) - 1
                            /\ s.hidden[1] = s.prompt_hidden[Len(s.prompt_ids)]

Record(s) ==
    /\ s.position # <<>> => Prompted(s)
    /\ Refills(s)
    /\ \A c \in 1 .. Len(s.position) : Cycle(s, c)
    /\ \A c \in 1 .. Len(s.position) - 1 : Joined(s, c)

\* The elements of a record's lists.
LEMMA KindsElements ==
    ASSUME NEW g, Kinds(g)
    PROVE  /\ Len(g.position) \in Nat /\ Len(g.prefill_position) \in Nat
           /\ \A c \in 1 .. Len(g.position) :
                /\ g.position[c] \in Nat /\ g.accept_len[c] \in 1 .. Steps + 1
                /\ g.hidden[c] \in Hidden \union {None}
                /\ g.accepted_hidden[c] \in Seq(Hidden) /\ g.accepted_tokens[c] \in Seq(Tokens)
                /\ Len(g.accepted_tokens[c]) \in Nat /\ Len(g.accepted_hidden[c]) \in Nat
           /\ \A b \in 1 .. Len(g.prefill_position) :
                /\ g.prefill_position[b] \in Seq(Nat) /\ g.prefill_hidden[b] \in Seq(Hidden)
                /\ g.prefill_tokens[b] \in Seq(Tokens)
  <1>1. Len(g.position) \in Nat /\ Len(g.prefill_position) \in Nat
    BY LenProperties DEF Kinds
  <1>2. ASSUME NEW c \in 1 .. Len(g.position)
        PROVE  /\ g.position[c] \in Nat /\ g.accept_len[c] \in 1 .. Steps + 1
               /\ g.hidden[c] \in Hidden \union {None}
               /\ g.accepted_hidden[c] \in Seq(Hidden) /\ g.accepted_tokens[c] \in Seq(Tokens)
    BY ElementOfSeq DEF Kinds
  <1>3. ASSUME NEW b \in 1 .. Len(g.prefill_position)
        PROVE  /\ g.prefill_position[b] \in Seq(Nat) /\ g.prefill_hidden[b] \in Seq(Hidden)
               /\ g.prefill_tokens[b] \in Seq(Tokens)
    BY ElementOfSeq DEF Kinds
  <1>. QED BY <1>1, <1>2, <1>3, LenProperties

\* Cycles lie one after the other.
LEMMA PositionsIncrease ==
    ASSUME NEW g, Kinds(g), Record(g)
    PROVE  \A a, b \in 1 .. Len(g.position) : a < b => g.position[a] < g.position[b]
  <1> DEFINE n == Len(g.position)
  <1>1. n \in Nat /\ \A c \in 1 .. n : g.position[c] \in Nat /\ Len(g.accepted_tokens[c]) \in Nat
    BY KindsElements
  <1>2. ASSUME NEW c \in 1 .. n - 1 PROVE g.position[c] < g.position[c + 1]
    <2>1. c \in 1 .. n /\ c + 1 \in 1 .. n
      BY <1>1
    <2>2. Len(g.accepted_tokens[c]) >= 1 /\ g.position[c + 1] >= g.position[c] + Len(g.accepted_tokens[c])
      BY <2>1 DEF Record, Cycle, Joined, Open, Ending
    <2>. QED BY <1>1, <2>1, <2>2
  <1> SUFFICES ASSUME NEW a \in 1 .. n, NEW b \in 1 .. n, a < b, ~(g.position[a] < g.position[b])
               PROVE  FALSE
    OBVIOUS
  <1> DEFINE T == {x \in 1 .. n : a < x /\ ~(g.position[a] < g.position[x])}
  <1>3. T \subseteq Nat /\ T # {}
    OBVIOUS
  <1>4. \E x \in T : \A y \in T : x <= y
    <2>. HIDE DEF T
    <2>. QED BY <1>3, Least
  <1>5. PICK x \in T : \A y \in T : x <= y
    BY <1>4
  <1>6. x \in 1 .. n /\ a < x /\ ~(g.position[a] < g.position[x])
    OBVIOUS
  <1>7. x - 1 \in 1 .. n - 1 /\ x - 1 \in 1 .. n /\ (x - 1) + 1 = x /\ ~(x <= x - 1)
    BY <1>1, <1>6
  <1>8. g.position[x - 1] < g.position[x]
    BY <1>2, <1>7
  <1>9. x - 1 = a \/ g.position[a] < g.position[x - 1]
    <2>1. x - 1 \notin T
      BY <1>5, <1>7
    <2>2. x - 1 = a \/ a < x - 1
      BY <1>1, <1>6
    <2>. QED BY <1>7, <2>1, <2>2
  <1>. HIDE DEF T, n
  <1>. QED BY <1>1, <1>6, <1>7, <1>8, <1>9

\* The packer finds the block that recorded a position.
LEMMA PrefillAtBlock ==
    ASSUME NEW g, Kinds(g), Refills(g)
    PROVE  /\ ~PrefillPairsRaises(g)
           /\ \A b \in 1 .. Len(g.prefill_position) :
                /\ g.prefill_position[b][1] \in PrefillPositions(g)
                /\ \A f \in PrefillFields :
                     PrefillAt(g, f, g.prefill_position[b][1]) = g[f][b][1]
  <1> DEFINE N == Len(g.prefill_position)
             K == PromptLen + MaxNew
  <1>0. N \in Nat /\ K \in Nat /\ 1 \in 1 .. K
    BY KindsElements, SignalAssumption
  <1>1. \A b \in 1 .. N : /\ Len(g.prefill_position[b]) = 1 /\ Len(g.prefill_tokens[b]) = 1
                          /\ Len(g.prefill_hidden[b]) = 1
    BY DEF Refills, Single
  <1>2. \A b \in PrefillBlocks(g) : b[1] \in 1 .. N /\ b[2] = 1 /\ b = <<b[1], 1>>
    <2> SUFFICES ASSUME NEW b \in PrefillBlocks(g) PROVE b[1] \in 1 .. N /\ b[2] = 1 /\ b = <<b[1], 1>>
      OBVIOUS
    <2>1. /\ b \in (1 .. N) \X (1 .. K) /\ b[2] <= Len(g.prefill_position[b[1]])
      BY DEF PrefillBlocks
    <2>2. b[1] \in 1 .. N /\ b[2] \in 1 .. K /\ b = <<b[1], b[2]>>
      BY <2>1
    <2>3. b[2] <= 1
      BY <1>1, <2>1, <2>2
    <2>4. b[2] = 1
      <3>. HIDE DEF K
      <3>. QED BY <1>0, <2>2, <2>3
    <2>. QED BY <2>2, <2>4
  <1>3. \A b \in 1 .. N : <<b, 1>> \in PrefillBlocks(g)
    <2> SUFFICES ASSUME NEW b \in 1 .. N PROVE <<b, 1>> \in PrefillBlocks(g)
      OBVIOUS
    <2>1. <<b, 1>> \in (1 .. N) \X (1 .. K) /\ <<b, 1>>[1] = b /\ <<b, 1>>[2] = 1
      <3>. HIDE DEF K
      <3>. QED BY <1>0
    <2>2. 1 <= Len(g.prefill_position[b])
      BY <1>1
    <2>. QED BY <2>1, <2>2 DEF PrefillBlocks
  <1>4. \A a, b \in 1 .. N : g.prefill_position[a][1] = g.prefill_position[b][1] => a = b
    BY DEF Refills
  <1>5. \A b, c \in PrefillBlocks(g) :
           g.prefill_position[b[1]][b[2]] = g.prefill_position[c[1]][c[2]] => b = c
    BY <1>2, <1>4
  <1>6. ~PrefillPairsRaises(g)
    <2>1. \A f, h \in PrefillFields : Len(g[f]) = Len(g[h])
      BY DEF Kinds, PrefillFields
    <2>. QED BY <1>1, <1>5, <2>1 DEF PrefillPairsRaises
  <1>7. ASSUME NEW b \in 1 .. N, NEW f \in PrefillFields
        PROVE  PrefillAt(g, f, g.prefill_position[b][1]) = g[f][b][1]
    <2> DEFINE p == g.prefill_position[b][1]
               x == CHOOSE c \in PrefillBlocks(g) : g.prefill_position[c[1]][c[2]] = p
    <2>1. \E c \in PrefillBlocks(g) : g.prefill_position[c[1]][c[2]] = p
      <3>1. <<b, 1>>[1] = b /\ <<b, 1>>[2] = 1
        OBVIOUS
      <3>. QED BY <1>3, <3>1
    <2>2. x \in PrefillBlocks(g) /\ g.prefill_position[x[1]][x[2]] = p
      BY <2>1, Zenon
    <2>3. PrefillAt(g, f, p) = g[f][x[1]][x[2]]
      BY Zenon DEF PrefillAt
    <2>. HIDE DEF x
    <2>4. x[1] = b /\ x[2] = 1
      BY <1>2, <1>4, <2>2
    <2>. QED BY <2>3, <2>4
  <1>8. ASSUME NEW b \in 1 .. N PROVE g.prefill_position[b][1] \in PrefillPositions(g)
    <2>1. <<b, 1>>[1] = b /\ <<b, 1>>[2] = 1
      OBVIOUS
    <2>. QED BY <1>3, <2>1 DEF PrefillPositions
  <1>. QED BY <1>6, <1>7, <1>8

-----------------------------------------------------------------------------
(* The packer accepts a record                                             *)

\* The re-prefilled value that fills position p of the gap after cycle i.
LEMMA GapFilled ==
    ASSUME NEW g, Kinds(g), Record(g), NEW i \in 1 .. Len(g.position) - 1,
           NEW p \in g.position[i] + g.accept_len[i] + 1 .. g.position[i + 1]
    PROVE  /\ p \in PrefillPositions(g)
           /\ \E b \in 1 .. Len(g.prefill_position) :
                /\ g.prefill_position[b][1] = p
                /\ PrefillAt(g, "prefill_tokens", p) = g.prefill_tokens[b][1]
                /\ PrefillAt(g, "prefill_hidden", p) = g.prefill_hidden[b][1]
                /\ g.prefill_tokens[b][1] \in Tokens /\ g.prefill_tokens[b][1] = Tok(p + 1)
                /\ g.prefill_hidden[b][1] \in Hidden /\ g.prefill_hidden[b][1][1] = p
  <1>1. Ending(g, i) = g.position[i] + g.accept_len[i] /\ Bridged(g, Ending(g, i), g.position[i + 1])
    BY DEF Record, Joined, Open, Ending
  <1>2. PICK b \in 1 .. Len(g.prefill_position) : g.prefill_position[b][1] = p
    BY <1>1 DEF Bridged
  <1>3. Refills(g) /\ Single(g, b)
    BY DEF Record, Refills
  <1>4. /\ p \in PrefillPositions(g)
        /\ PrefillAt(g, "prefill_tokens", p) = g.prefill_tokens[b][1]
        /\ PrefillAt(g, "prefill_hidden", p) = g.prefill_hidden[b][1]
    BY <1>2, <1>3, PrefillAtBlock DEF PrefillFields
  <1>5. g.prefill_hidden[b] \in Seq(Hidden) /\ g.prefill_tokens[b] \in Seq(Tokens)
    BY KindsElements
  <1>6. g.prefill_hidden[b][1] \in Hidden /\ g.prefill_tokens[b][1] \in Tokens
    <2>1. 1 \in 1 .. Len(g.prefill_hidden[b]) /\ 1 \in 1 .. Len(g.prefill_tokens[b])
      BY <1>3 DEF Single
    <2>. QED BY <1>5, <2>1, ElementOfSeq
  <1>. QED BY <1>2, <1>3, <1>4, <1>6 DEF Single

\* What a cycle of a record that another follows says, with the types.
Between(g, i) ==
    /\ i \in 1 .. Len(g.position) /\ i + 1 \in 1 .. Len(g.position)
    /\ g.position[i] \in Nat /\ g.position[i + 1] \in Nat /\ g.accept_len[i] \in Nat
    /\ g.accept_len[i] >= 1 /\ g.accept_len[i] <= Advance(g, i)
    /\ Len(g.accepted_tokens[i]) = g.accept_len[i] /\ Len(g.accepted_hidden[i]) = g.accept_len[i]
    /\ g.accepted_hidden[i] \in Seq(Hidden) /\ g.accepted_tokens[i] \in Seq(Tokens)
    /\ \A j \in 1 .. g.accept_len[i] :
         /\ g.accepted_hidden[i][j][1] = g.position[i] + j
         /\ g.accepted_tokens[i][j] = Tok(g.position[i] + 1 + j)

\* Every cycle but the last is of that kind.
LEMMA CycleFacts ==
    ASSUME NEW g, Kinds(g), Record(g), NEW i \in 1 .. Len(g.position) - 1
    PROVE  Between(g, i)
  <1>1. Len(g.position) \in Nat
    BY KindsElements
  <1>2. i \in 1 .. Len(g.position) /\ i + 1 \in 1 .. Len(g.position)
    BY <1>1
  <1>3. Cycle(g, i) /\ Joined(g, i)
    BY <1>2 DEF Record
  <1>4. /\ g.position[i] \in Nat /\ g.position[i + 1] \in Nat /\ g.accept_len[i] \in 1 .. Steps + 1
        /\ g.accepted_hidden[i] \in Seq(Hidden) /\ g.accepted_tokens[i] \in Seq(Tokens)
    BY <1>2, KindsElements
  <1>5. /\ Len(g.accepted_tokens[i]) = g.accept_len[i] /\ Len(g.accepted_hidden[i]) = g.accept_len[i]
        /\ \A j \in 1 .. g.accept_len[i] :
             /\ g.accepted_hidden[i][j][1] = g.position[i] + j
             /\ g.accepted_tokens[i][j] = Tok(g.position[i] + 1 + j)
        /\ g.position[i + 1] >= g.position[i] + g.accept_len[i]
    BY <1>3 DEF Cycle, Joined, Open, Ending
  <1>6. g.accept_len[i] \in Nat /\ g.accept_len[i] >= 1 /\ g.accept_len[i] <= Advance(g, i)
    <2>1. /\ g.accept_len[i] \in 1 .. Steps + 1 /\ Steps \in Nat
          /\ g.position[i] \in Nat /\ g.position[i + 1] \in Nat
          /\ g.position[i + 1] >= g.position[i] + g.accept_len[i]
      BY <1>4, <1>5, SignalAssumption
    <2>2. Advance(g, i) = g.position[i + 1] - g.position[i]
      BY DEF Advance
    <2>. QED BY <2>1, <2>2
  <1>. QED BY <1>2, <1>4, <1>5, <1>6 DEF Between

\* The packer's prefix of tokens holds the token of every position.
LEMMA IdsHold ==
    ASSUME NEW g, Kinds(g), Record(g), g.position # <<>>
    PROVE  /\ PrefixIds(g) \in Seq(Tokens)
           /\ Len(PrefixIds(g)) = g.position[Len(g.position)] + 1
           /\ \A i \in 1 .. g.position[Len(g.position)] + 1 : PrefixIds(g)[i] = Tok(i)
  <1> DEFINE n == Len(g.position)
             F == [j \in Nat |-> {Tok(j)}]
  <1>1. n \in Nat \ {0} /\ \A c \in 1 .. n : g.position[c] \in Nat
    BY KindsElements, EmptySeq DEF Kinds
  <1>2. Holds(Tokens, F, g["prompt_ids"], g.position[1] + 1)
    <2>1. /\ g.prompt_ids \in Seq(Tokens) /\ g.position[1] = Len(g.prompt_ids) - 1
          /\ \A i \in 1 .. Len(g.prompt_ids) : g.prompt_ids[i] = Tok(i)
      BY DEF Record, Prompted
    <2>2. Len(g.prompt_ids) \in Nat
      BY <2>1, LenProperties
    <2>3. Len(g.prompt_ids) = g.position[1] + 1
      BY <2>1, <2>2
    <2>. QED BY <2>1, <2>2, <2>3 DEF Holds
  <1>3. ASSUME NEW i \in 1 .. n - 1
        PROVE  /\ g.accept_len[i] \in Nat /\ Len(g["accepted_tokens"][i]) = g.accept_len[i]
               /\ g.accept_len[i] <= Advance(g, i)
               /\ Follows(Tokens, F, g["accepted_tokens"][i], g.position[i] + 1)
               /\ \A p \in g.position[i] + g.accept_len[i] + 1 .. g.position[i + 1] :
                    /\ PrefillAt(g, "prefill_tokens", p) \in Tokens
                    /\ PrefillAt(g, "prefill_tokens", p) \in F[p + 1]
    <2>1. /\ g.accept_len[i] \in Nat /\ Len(g.accepted_tokens[i]) = g.accept_len[i]
          /\ g.accept_len[i] <= Advance(g, i) /\ g.position[i] \in Nat
          /\ g.accepted_tokens[i] \in Seq(Tokens) /\ g.position[i + 1] \in Nat
          /\ \A j \in 1 .. g.accept_len[i] : g.accepted_tokens[i][j] = Tok(g.position[i] + 1 + j)
      <3>1. Between(g, i)
        BY CycleFacts
      <3>. QED BY <3>1 DEF Between
    <2>2. Follows(Tokens, F, g.accepted_tokens[i], g.position[i] + 1)
      BY <2>1 DEF Follows
    <2>3. ASSUME NEW p \in g.position[i] + g.accept_len[i] + 1 .. g.position[i + 1]
          PROVE  /\ PrefillAt(g, "prefill_tokens", p) \in Tokens
                 /\ PrefillAt(g, "prefill_tokens", p) \in F[p + 1]
      <3>1. /\ PrefillAt(g, "prefill_tokens", p) \in Tokens
            /\ PrefillAt(g, "prefill_tokens", p) = Tok(p + 1)
        BY GapFilled
      <3>2. p + 1 \in Nat
        BY <2>1
      <3>. QED BY <3>1, <3>2
    <2>. QED BY <2>1, <2>2, <2>3
  <1>. HIDE DEF F
  <1>4. Holds(Tokens, F, PrefixRows(g, "prompt_ids", "accepted_tokens", "prefill_tokens"), g.position[n] + 1)
    BY <1>1, <1>2, <1>3, PrefixRowsHold
  <1>5. g.position[n] \in Nat
    BY <1>1
  <1> DEFINE ids == PrefixRows(g, "prompt_ids", "accepted_tokens", "prefill_tokens")
  <1>6. ids = PrefixIds(g)
    BY DEF PrefixIds
  <1>. HIDE DEF ids
  <1>7. ids \in Seq(Tokens) /\ Len(ids) = g.position[n] + 1 /\ \A i \in 1 .. g.position[n] + 1 : ids[i] \in F[i]
    BY <1>4 DEF Holds, ids
  <1>8. ASSUME NEW i \in 1 .. g.position[n] + 1 PROVE ids[i] = Tok(i)
    <2>1. ids[i] \in F[i] /\ i \in Nat
      BY <1>5, <1>7
    <2>. QED BY <2>1 DEF F
  <1>. QED BY <1>6, <1>7, <1>8

\* The packer's prefix of hidden states holds one of every position, and at
\* the position of a cycle its seed.
LEMMA HiddenHold ==
    ASSUME NEW g, Kinds(g), Record(g), g.position # <<>>
    PROVE  /\ PrefixHidden(g) \in Seq(Hidden)
           /\ Len(PrefixHidden(g)) = g.position[Len(g.position)] + 1
           /\ \A i \in 1 .. g.position[Len(g.position)] + 1 :
                /\ PrefixHidden(g)[i][1] = i - 1
                /\ \A c \in 1 .. Len(g.position) : g.position[c] = i - 1 => PrefixHidden(g)[i] = g.hidden[c]
  <1> DEFINE n == Len(g.position)
             F == [j \in Nat |-> {h \in Hidden : /\ h[1] = j - 1
                                                 /\ \A c \in 1 .. n : g.position[c] = j - 1 => h = g.hidden[c]}]
  <1>1. n \in Nat \ {0} /\ \A c \in 1 .. n : g.position[c] \in Nat
    BY KindsElements, EmptySeq DEF Kinds
  <1>2. \A a, b \in 1 .. n : a < b => g.position[a] < g.position[b]
    BY PositionsIncrease
  <1>3. Holds(Hidden, F, g["prompt_hidden"], g.position[1] + 1)
    <2> DEFINE L == Len(g.prompt_ids)
    <2>1. /\ g.prompt_ids \in Seq(Tokens) /\ g.prompt_hidden \in Seq(Hidden)
          /\ g.position[1] = L - 1 /\ Len(g.prompt_hidden) = L
          /\ g.hidden[1] = g.prompt_hidden[L]
          /\ \A i \in 1 .. L : g.prompt_hidden[i][1] = i - 1
      BY DEF Record, Prompted
    <2>2. L \in Nat
      BY <2>1, LenProperties
    <2>. HIDE DEF L
    <2>3. L = g.position[1] + 1
      BY <2>1, <2>2
    <2>4. ASSUME NEW i \in 1 .. L PROVE g.prompt_hidden[i] \in F[i]
      <3>1. g.prompt_hidden[i] \in Hidden
        BY <2>1, ElementOfSeq
      <3>2. ASSUME NEW c \in 1 .. n, g.position[c] = i - 1 PROVE g.prompt_hidden[i] = g.hidden[c]
        <4>1. c = 1
          <5>1. 1 \in 1 .. n /\ g.position[1] >= g.position[c]
            BY <1>1, <2>1, <2>2, <3>2
          <5>2. ~(1 < c)
            BY <1>1, <1>2, <5>1
          <5>. QED BY <1>1, <5>2
        <4>2. i = L
          BY <2>1, <2>2, <3>2, <4>1
        <4>. QED BY <2>1, <4>1, <4>2
      <3>3. i \in Nat /\ g.prompt_hidden[i][1] = i - 1
        BY <2>1, <2>2
      <3>. QED BY <3>1, <3>2, <3>3
    <2>. HIDE DEF F
    <2>. QED BY <2>1, <2>3, <2>4 DEF Holds
  <1>4. ASSUME NEW i \in 1 .. n - 1
        PROVE  /\ g.accept_len[i] \in Nat /\ Len(g["accepted_hidden"][i]) = g.accept_len[i]
               /\ g.accept_len[i] <= Advance(g, i)
               /\ Follows(Hidden, F, g["accepted_hidden"][i], g.position[i] + 1)
               /\ \A p \in g.position[i] + g.accept_len[i] + 1 .. g.position[i + 1] :
                    /\ PrefillAt(g, "prefill_hidden", p) \in Hidden
                    /\ PrefillAt(g, "prefill_hidden", p) \in F[p + 1]
    <2> DEFINE a == g.position[i]
               b == g.position[i + 1]
               l == g.accept_len[i]
    <2>1. /\ l \in Nat /\ Len(g.accepted_hidden[i]) = l /\ Len(g.accepted_tokens[i]) = l
          /\ l <= Advance(g, i) /\ a \in Nat /\ b \in Nat
          /\ g.accepted_hidden[i] \in Seq(Hidden) /\ i \in 1 .. n /\ i + 1 \in 1 .. n
          /\ \A j \in 1 .. l : g.accepted_hidden[i][j][1] = a + j
      <3>1. Between(g, i)
        BY CycleFacts
      <3>. QED BY <3>1 DEF Between
    <2>2. Joined(g, i)
      BY DEF Record
    <2>3. Ending(g, i) = a + l /\ Seeded(g, i, b, g.hidden[i + 1])
      BY <2>1, <2>2 DEF Joined, Open, Ending
    <2>4. b >= a + l
      BY <2>2, <2>3 DEF Joined, Open
    <2>. HIDE DEF a, b, l
    <2>5. ASSUME NEW p \in a + 1 .. b, NEW c \in 1 .. n, g.position[c] = p PROVE c = i + 1 /\ p = b
      <3>1. ~(c < i) /\ c # i
        <4>1. c < i => g.position[c] < a
          BY <1>2, <2>1 DEF a
        <4>2. c = i => p = a
          BY <2>5 DEF a
        <4>. QED BY <2>1, <2>5, <4>1, <4>2
      <3>2. ~(i + 1 < c)
        <4>1. i + 1 < c => b < g.position[c]
          BY <1>2, <2>1 DEF b
        <4>. QED BY <2>1, <2>5, <4>1
      <3>3. c = i + 1
        BY <1>1, <3>1, <3>2
      <3>. QED BY <2>5, <3>3 DEF b
    <2>6. ASSUME NEW j \in 1 .. l PROVE g.accepted_hidden[i][j] \in F[a + 1 + j]
      <3>1. g.accepted_hidden[i][j] \in Hidden
        BY <2>1, ElementOfSeq
      <3>2. ASSUME NEW c \in 1 .. n, g.position[c] = a + j
            PROVE  g.accepted_hidden[i][j] = g.hidden[c]
        <4>1. a + j \in a + 1 .. b
          BY <2>1, <2>4
        <4>2. c = i + 1 /\ a + j = b
          BY <2>5, <3>2, <4>1
        <4>3. j = l /\ ~(b > a + l)
          BY <2>1, <2>4, <4>2
        <4>4. g.hidden[i + 1] = g.accepted_hidden[i][l]
          BY <2>1, <2>3, <4>3 DEF Seeded
        <4>. QED BY <4>2, <4>3, <4>4
      <3> DEFINE k == a + 1 + j
      <3>3. k \in Nat /\ k - 1 = a + j /\ g.accepted_hidden[i][j][1] = a + j
        BY <2>1
      <3>. HIDE DEF k
      <3>4. g.accepted_hidden[i][j] \in F[k]
        BY <3>1, <3>2, <3>3
      <3>. QED BY <3>4 DEF k
    <2>7. ASSUME NEW p \in a + l + 1 .. b
          PROVE  PrefillAt(g, "prefill_hidden", p) \in Hidden /\ PrefillAt(g, "prefill_hidden", p) \in F[p + 1]
      <3>1. PICK k \in 1 .. Len(g.prefill_position) :
               /\ g.prefill_position[k][1] = p
               /\ PrefillAt(g, "prefill_hidden", p) = g.prefill_hidden[k][1]
               /\ g.prefill_hidden[k][1] \in Hidden /\ g.prefill_hidden[k][1][1] = p
        BY GapFilled, ZenonT(30) DEF a, b, l
      <3>2. ASSUME NEW c \in 1 .. n, g.position[c] = p PROVE g.prefill_hidden[k][1] = g.hidden[c]
        <4>1. p \in a + 1 .. b
          BY <2>1
        <4>2. c = i + 1 /\ p = b /\ b # a + l
          BY <2>1, <2>5, <3>2, <4>1
        <4>3. PICK x \in 1 .. Len(g.prefill_position) :
                 g.prefill_position[x][1] = b /\ g.hidden[i + 1] = g.prefill_hidden[x][1]
          BY <2>3, <4>2 DEF Seeded
        <4>4. x = k
          BY <3>1, <4>2, <4>3 DEF Record, Refills
        <4>. QED BY <4>2, <4>3, <4>4
      <3>3. p + 1 \in Nat /\ p + 1 - 1 = p
        BY <2>1
      <3>. QED BY <3>1, <3>2, <3>3
    <2>. HIDE DEF F
    <2>8. Follows(Hidden, F, g.accepted_hidden[i], a + 1)
      BY <2>1, <2>6 DEF Follows
    <2>. QED BY <2>1, <2>7, <2>8 DEF a, b, l
  <1>. HIDE DEF F
  <1>5. Holds(Hidden, F, PrefixRows(g, "prompt_hidden", "accepted_hidden", "prefill_hidden"), g.position[n] + 1)
    BY <1>1, <1>3, <1>4, PrefixRowsHold
  <1>6. g.position[n] \in Nat
    BY <1>1
  <1> DEFINE rows == PrefixRows(g, "prompt_hidden", "accepted_hidden", "prefill_hidden")
  <1>7. rows = PrefixHidden(g)
    BY DEF PrefixHidden
  <1>. HIDE DEF rows
  <1>8. rows \in Seq(Hidden) /\ Len(rows) = g.position[n] + 1 /\ \A i \in 1 .. g.position[n] + 1 : rows[i] \in F[i]
    BY <1>5 DEF Holds, rows
  <1>9. ASSUME NEW i \in 1 .. g.position[n] + 1
        PROVE  rows[i][1] = i - 1 /\ \A c \in 1 .. n : g.position[c] = i - 1 => rows[i] = g.hidden[c]
    <2>1. rows[i] \in F[i] /\ i \in Nat
      BY <1>6, <1>8
    <2>. QED BY <2>1 DEF F
  <1>. QED BY <1>7, <1>8, <1>9

\* A record is packed, and its prefix holds every position once and in order.
LEMMA RecordPacks ==
    ASSUME NEW g, Kinds(g), Record(g), g.position # <<>>
    PROVE  /\ ~PackRaises(g)
           /\ PrefixIds(g) = [i \in 1 .. Len(PrefixIds(g)) |-> Tok(i)]
           /\ [i \in 1 .. Len(PrefixHidden(g)) |-> PrefixHidden(g)[i][1] + 1] = PrefixIds(g)
  <1> DEFINE n == Len(g.position)
             k == g.position[n] + 1
             ids == PrefixIds(g)
             rows == PrefixHidden(g)
  <1>1. n \in Nat \ {0} /\ \A c \in 1 .. n : g.position[c] \in Nat
    BY KindsElements, EmptySeq DEF Kinds
  <1>2. k \in Nat
    BY <1>1
  <1>3. ids \in Seq(Tokens) /\ Len(ids) = k /\ \A i \in 1 .. k : ids[i] = Tok(i)
    BY IdsHold
  <1>4. /\ rows \in Seq(Hidden) /\ Len(rows) = k
        /\ \A i \in 1 .. k : /\ rows[i][1] = i - 1
                             /\ \A c \in 1 .. n : g.position[c] = i - 1 => rows[i] = g.hidden[c]
    BY HiddenHold
  <1>5. /\ g.prompt_ids \in Seq(Tokens) /\ g.prompt_hidden \in Seq(Hidden)
        /\ Len(g.prompt_hidden) = Len(g.prompt_ids) /\ g.position[1] = Len(g.prompt_ids) - 1
    BY DEF Record, Prompted
  <1>6. ASSUME NEW i \in 1 .. n - 1
        PROVE  /\ ~(Advance(g, i) <= 0)
               /\ 1 <= g.accept_len[i] /\ g.accept_len[i] <= Advance(g, i)
               /\ Len(g.accepted_hidden[i]) = g.accept_len[i]
               /\ Len(g.accepted_tokens[i]) = g.accept_len[i]
               /\ Missing(g, i) \subseteq PrefillPositions(g)
    <2>1. Between(g, i)
      BY CycleFacts
    <2>2. /\ g.position[i] \in Nat /\ g.position[i + 1] \in Nat /\ g.accept_len[i] \in Nat
          /\ g.accept_len[i] >= 1 /\ g.accept_len[i] <= Advance(g, i)
          /\ Len(g.accepted_tokens[i]) = g.accept_len[i] /\ Len(g.accepted_hidden[i]) = g.accept_len[i]
      BY <2>1 DEF Between
    <2>3. ~(Advance(g, i) <= 0)
      BY <2>2 DEF Advance
    <2>4. Missing(g, i) \subseteq PrefillPositions(g)
      BY GapFilled DEF Missing
    <2>. QED BY <2>2, <2>3, <2>4
  <1>7. ~HistoryRaises(g)
    <2>1. g.prompt_hidden # None /\ g.prompt_ids # None
      <3>1. g.prompt_hidden \in Seq(Int \X Int)
        <4>1. Hidden \subseteq Int \X Int
          BY SignalAssumption DEF Hidden
        <4>. QED BY <1>5, <4>1, SeqMonotonic
      <3>2. g.prompt_ids \in Seq(Int)
        <4>1. Tokens \subseteq Int
          BY SignalAssumption DEF Tokens
        <4>. QED BY <1>5, <4>1, SeqMonotonic
      <3>. QED BY <3>1, <3>2, SignalAssumption
    <2>2. Len(g.accepted_hidden) = n /\ Len(g.accepted_tokens) = n
      BY DEF Kinds
    <2>3. ~PrefillPairsRaises(g)
      BY PrefillAtBlock DEF Record
    <2>. QED BY <1>5, <1>6, <2>1, <2>2, <2>3 DEF HistoryRaises
  <1>8. ~SeedRaises(g)
    <2>1. ASSUME NEW i \in 1 .. n
          PROVE  rows[g.position[i] + 1] = g.hidden[i] /\ ids[g.position[i] + 1] = g.draft_tokens[i]
      <3>1. g.position[i] <= g.position[n]
        <4>1. i < n => g.position[i] < g.position[n]
          BY <1>1, PositionsIncrease
        <4>. QED BY <1>1, <4>1
      <3> DEFINE p == g.position[i] + 1
      <3>2. p \in 1 .. k /\ p - 1 = g.position[i]
        BY <1>1, <3>1
      <3>3. g.draft_tokens[i] = Tok(p)
        BY DEF Record, Cycle
      <3>. HIDE DEF p, k, rows, ids
      <3>4. rows[p] = g.hidden[i] /\ ids[p] = g.draft_tokens[i]
        BY <1>3, <1>4, <3>2, <3>3
      <3>. QED BY <3>4 DEF p
    <2>. QED BY <2>1 DEF SeedRaises
  <1>9. ~FieldsRaise(g)
    BY DEF FieldsRaise, Kinds, CycleFields
  <1>. HIDE DEF ids, rows, k
  <1>10. ids = [i \in 1 .. Len(ids) |-> Tok(i)]
    <2> DEFINE w == [i \in 1 .. Len(ids) |-> Tok(i)]
    <2>1. w \in Seq(Tokens) /\ Len(w) = Len(ids) /\ \A i \in 1 .. Len(ids) : w[i] = ids[i]
      <3>1. \A i \in 1 .. Len(ids) : Tok(i) = ids[i] /\ ids[i] \in Tokens
        BY <1>3, ElementOfSeq
      <3>2. \A i \in 1 .. Len(ids) : Tok(i) \in Tokens
        BY <3>1
      <3>. QED BY <1>2, <1>3, <3>1, <3>2, IsASeq, LenProperties
    <2>. HIDE DEF w
    <2>2. ids = w
      BY <1>3, <2>1, SeqEqual
    <2>. QED BY <2>2 DEF w
  <1>11. [i \in 1 .. Len(rows) |-> rows[i][1] + 1] = ids
    <2>1. ASSUME NEW i \in 1 .. k PROVE rows[i][1] + 1 = Tok(i)
      <3>1. rows[i][1] = i - 1
        BY <1>4
      <3>2. i - 1 + 1 = i
        BY <1>2
      <3>. QED BY <3>1, <3>2 DEF Tok
    <2>. QED BY <1>3, <1>4, <1>10, <2>1
  <1>. QED BY <1>7, <1>8, <1>9, <1>10, <1>11 DEF PackRaises, ids, rows

-----------------------------------------------------------------------------
(* Recording keeps records                                                 *)

\* Positions prefilled again lie before prefill_next.
Fresh(s) == \A b \in 1 .. Len(s.prefill_position) : s.prefill_position[b][1] < s.prefill_next

\* The next cycle can be at position p.
Awaits(s, p) == s.position # <<>> => Open(s, Len(s.position), p)

\* The next cycle can be at position p with seed h.
Ready(s, p, h) ==
    IF s.position = <<>>
    THEN Prompted(s) /\ Len(s.prompt_ids) = p + 1 /\ h = s.prompt_hidden[p + 1]
    ELSE Open(s, Len(s.position), p) /\ Seeded(s, Len(s.position), p, h)

\* Signals whose lists are aligned are of these kinds.
LEMMA SignalsKinds ==
    ASSUME NEW s \in Signals, Square(s), Aligned(s)
    PROVE  Kinds(s)
  <1>1. \A f \in CycleFields : Len(s[f]) = Len(s["draft_tokens"])
    BY DEF Square, Offset, Ends, Lists, CycleFields, HistoryFields, PrefillFields
  <1>2. Len(s.hidden) = Len(s.draft_tokens) /\ Len(s.accept_len) = Len(s.draft_tokens)
    BY <1>1 DEF CycleFields
  <1>. QED BY <1>2 DEF Signals, Aligned, Kinds

\* What lists that grow keep, field by field.
Kept(s, t) ==
    /\ Len(s.position) <= Len(t.position) /\ Len(s.prefill_position) <= Len(t.prefill_position)
    /\ \A c \in 1 .. Len(s.position) :
         /\ t.position[c] = s.position[c] /\ t.hidden[c] = s.hidden[c]
         /\ t.draft_tokens[c] = s.draft_tokens[c] /\ t.accept_len[c] = s.accept_len[c]
         /\ t.accepted_hidden[c] = s.accepted_hidden[c]
         /\ t.accepted_tokens[c] = s.accepted_tokens[c]
    /\ \A b \in 1 .. Len(s.prefill_position) :
         /\ t.prefill_position[b] = s.prefill_position[b]
         /\ t.prefill_hidden[b] = s.prefill_hidden[b] /\ t.prefill_tokens[b] = s.prefill_tokens[b]

\* Lists that grow keep their entries.
LEMMA GrowsKept ==
    ASSUME NEW s, NEW t, Kinds(s), Grows(s, t)
    PROVE  Kept(s, t)
  <1>1. /\ Len(s["position"]) <= Len(t["position"])
        /\ Len(s["prefill_position"]) <= Len(t["prefill_position"])
    BY DEF Grows, Lists, CycleFields, PrefillFields
  <1>2. \A f \in CycleFields \union HistoryFields : Len(s[f]) = Len(s["position"])
    BY DEF Kinds, CycleFields, HistoryFields
  <1>3. \A f \in PrefillFields : Len(s[f]) = Len(s["prefill_position"])
    BY DEF Kinds, PrefillFields
  <1>4. \A c \in 1 .. Len(s["position"]) : \A f \in CycleFields \union HistoryFields : t[f][c] = s[f][c]
    BY <1>2 DEF Grows, Lists
  <1>5. \A b \in 1 .. Len(s["prefill_position"]) : \A f \in PrefillFields : t[f][b] = s[f][b]
    BY <1>3 DEF Grows, Lists
  <1>. QED BY <1>1, <1>4, <1>5 DEF Kept, CycleFields, HistoryFields, PrefillFields

\* What holds of the cycles of a record carries over to lists that grow.
LEMMA KeptFacts ==
    ASSUME NEW s, NEW t, Kinds(s), Len(t.prefill_position) \in Nat, Kept(s, t)
    PROVE  /\ \A c \in 1 .. Len(s.position) :
                /\ Cycle(s, c) => Cycle(t, c)
                /\ \A p : Open(s, c, p) => Open(t, c, p)
                /\ \A p, h : Seeded(s, c, p, h) => Seeded(t, c, p, h)
           /\ \A c \in 1 .. Len(s.position) - 1 : Joined(s, c) => Joined(t, c)
           /\ \A b \in 1 .. Len(s.prefill_position) : Single(s, b) => Single(t, b)
           /\ Prompted(s) /\ t.prompt_ids = s.prompt_ids /\ t.prompt_hidden = s.prompt_hidden
                /\ s.position # <<>> => Prompted(t)
  <1> DEFINE n == Len(s.position)
             N == Len(s.prefill_position)
  <1>1. n \in Nat /\ N \in Nat
    BY KindsElements
  <1>2. \A b \in 1 .. N : b \in 1 .. Len(t.prefill_position)
    BY <1>1 DEF Kept
  <1>3. \A c \in 1 .. n : Ending(t, c) = Ending(s, c)
    BY DEF Kept, Ending
  <1>4. \A from, to : Bridged(s, from, to) => Bridged(t, from, to)
    BY <1>2 DEF Bridged, Kept
  <1>5. ASSUME NEW c \in 1 .. n
        PROVE  /\ Cycle(s, c) => Cycle(t, c)
               /\ \A p : Open(s, c, p) => Open(t, c, p)
               /\ \A p, h : Seeded(s, c, p, h) => Seeded(t, c, p, h)
    <2>1. Cycle(s, c) => Cycle(t, c)
      BY DEF Cycle, Kept
    <2>2. \A p : Open(s, c, p) => Open(t, c, p)
      BY <1>3, <1>4 DEF Open, Kept
    <2>3. \A p, h : Seeded(s, c, p, h) => Seeded(t, c, p, h)
      BY <1>2, <1>3 DEF Seeded, Kept
    <2>. QED BY <2>1, <2>2, <2>3
  <1>6. ASSUME NEW c \in 1 .. n - 1, Joined(s, c) PROVE Joined(t, c)
    <2>1. c \in 1 .. n /\ c + 1 \in 1 .. n
      BY <1>1
    <2>2. t.position[c + 1] = s.position[c + 1] /\ t.hidden[c + 1] = s.hidden[c + 1]
      BY <2>1 DEF Kept
    <2>. QED BY <1>5, <1>6, <2>1, <2>2 DEF Joined
  <1>7. \A b \in 1 .. N : Single(s, b) => Single(t, b)
    BY DEF Single, Kept
  <1>8. Prompted(s) /\ t.prompt_ids = s.prompt_ids /\ t.prompt_hidden = s.prompt_hidden
          /\ s.position # <<>> => Prompted(t)
    <2>1. s.position # <<>> => 1 \in 1 .. n
      BY <1>1, EmptySeq DEF Kinds
    <2>. QED BY <2>1 DEF Prompted, Kept
  <1>. QED BY <1>5, <1>6, <1>7, <1>8

\* A verification at a position that is ready adds a cycle to the record, and
\* the next can follow it.
LEMMA VerifyRecords ==
    ASSUME NEW s \in Signals, Square(s), Aligned(s), Record(s), Fresh(s),
           NEW seq \in Nat \ {0}, NEW o, NEW h, NEW n, NEW e \in Nat \ {0}, Ready(s, seq - 1, h)
    PROVE  LET t == RecordVerify(s, seq, o, h, n, e)
           IN  /\ Record(t) /\ Fresh(t) /\ t.position # <<>>
               /\ e = n => Ready(t, seq + e - 1, Hid(seq + e - 1, o))
  <1> DEFINE t == RecordVerify(s, seq, o, h, n, e)
             toks == [i \in 1 .. e |-> Tok(seq + i)]
             hids == [i \in 1 .. e |-> Hid(seq + i - 1, o)]
             m == Len(s.position)
  <1>1. /\ t.hidden = Append(s.hidden, h) /\ t.draft_tokens = Append(s.draft_tokens, Tok(seq))
        /\ t.position = Append(s.position, seq - 1) /\ t.accept_len = Append(s.accept_len, n)
        /\ t.accepted_hidden = Append(s.accepted_hidden, hids)
        /\ t.accepted_tokens = Append(s.accepted_tokens, toks)
        /\ t.prefill_hidden = s.prefill_hidden /\ t.prefill_tokens = s.prefill_tokens
        /\ t.prefill_position = s.prefill_position /\ t.prefill_next = s.prefill_next
        /\ t.prompt_ids = s.prompt_ids /\ t.prompt_hidden = s.prompt_hidden
    BY DEF RecordVerify, Signals
  <1>2. /\ Len(toks) = e /\ Len(hids) = e
        /\ \A j \in 1 .. e : toks[j] = Tok(seq + j) /\ hids[j] = Hid(seq + j - 1, o)
    OBVIOUS
  <1>3. Grows(s, t)
    BY VerifyGrows
  <1>. HIDE DEF t, toks, hids
  <1>4. Kinds(s) /\ m \in Nat
    BY SignalsKinds, KindsElements
  <1>5. /\ s.position \in Seq(Nat) /\ s.hidden \in Seq(Hidden \union {None})
        /\ s.draft_tokens \in Seq(Tokens) /\ s.accept_len \in Seq(1 .. Steps + 1)
        /\ s.accepted_hidden \in Seq(Seq(Hidden)) /\ s.accepted_tokens \in Seq(Seq(Tokens))
        /\ Len(s.hidden) = m /\ Len(s.draft_tokens) = m /\ Len(s.accept_len) = m
        /\ Len(s.accepted_hidden) = m /\ Len(s.accepted_tokens) = m
    BY <1>4 DEF Kinds
  <1>6. Len(t.position) = m + 1 /\ t.position[m + 1] = seq - 1
    BY <1>1, <1>5, AppendKeeps
  <1>7. /\ t.hidden[m + 1] = h /\ t.draft_tokens[m + 1] = Tok(seq) /\ t.accept_len[m + 1] = n
        /\ t.accepted_hidden[m + 1] = hids /\ t.accepted_tokens[m + 1] = toks
    <2>1. t.hidden[m + 1] = h
      <3>1. s.hidden \in Seq(Hidden \union {None}) /\ Len(s.hidden) = m
        BY <1>5
      <3>2. t.hidden = Append(s.hidden, h)
        BY <1>1
      <3>. QED BY <3>1, <3>2, AppendKeeps
    <2>2. t.draft_tokens[m + 1] = Tok(seq)
      BY <1>1, <1>5, AppendKeeps
    <2>3. t.accept_len[m + 1] = n
      BY <1>1, <1>5, AppendKeeps
    <2>4. t.accepted_hidden[m + 1] = hids
      <3>1. s.accepted_hidden \in Seq(Seq(Hidden)) /\ Len(s.accepted_hidden) = m
        BY <1>5
      <3>. QED BY <1>1, <3>1, AppendKeeps
    <2>5. t.accepted_tokens[m + 1] = toks
      BY <1>1, <1>5, AppendKeeps
    <2>. QED BY <2>1, <2>2, <2>3, <2>4, <2>5
  <1>8. Kept(s, t) /\ Len(t.prefill_position) \in Nat
    BY <1>1, <1>3, <1>4, GrowsKept, KindsElements
  <1>9. t.position # <<>>
    BY <1>4, <1>6
  <1>10. Cycle(t, m + 1)
    <2>1. seq - 1 + 1 = seq /\ \A j \in 1 .. e : seq + j - 1 = seq - 1 + j
      OBVIOUS
    <2>2. \A j \in 1 .. e : hids[j][1] = seq - 1 + j /\ toks[j] = Tok(seq - 1 + 1 + j)
      <3> SUFFICES ASSUME NEW j \in 1 .. e
                   PROVE  hids[j][1] = seq - 1 + j /\ toks[j] = Tok(seq - 1 + 1 + j)
        OBVIOUS
      <3>1. hids[j] = Hid(seq + j - 1, o) /\ toks[j] = Tok(seq + j)
        BY <1>2
      <3>2. hids[j][1] = seq + j - 1
        BY <3>1 DEF Hid
      <3>. QED BY <2>1, <3>1, <3>2
    <2>3. t.draft_tokens[m + 1] = Tok(t.position[m + 1] + 1)
      BY <1>6, <1>7, <2>1
    <2>4. /\ Len(t.accepted_hidden[m + 1]) = e /\ Len(t.accepted_tokens[m + 1]) = e /\ e >= 1
          /\ \A j \in 1 .. e : /\ t.accepted_hidden[m + 1][j][1] = t.position[m + 1] + j
                              /\ t.accepted_tokens[m + 1][j] = Tok(t.position[m + 1] + 1 + j)
      BY <1>2, <1>6, <1>7, <2>2
    <2>. QED BY <2>3, <2>4 DEF Cycle
  <1>11. \A c \in 1 .. Len(t.position) : Cycle(t, c)
    <2>1. \A c \in 1 .. m : Cycle(t, c)
      BY <1>4, <1>8, KeptFacts DEF Record
    <2>2. \A c \in 1 .. m + 1 : c \in 1 .. m \/ c = m + 1
      BY <1>4
    <2>. QED BY <1>6, <1>10, <2>1, <2>2
  <1>12. Refills(t)
    BY <1>1 DEF Record, Refills, Single
  <1>13. Prompted(t)
    <2>1. CASE s.position = <<>>
      <3>1. /\ Prompted(s) /\ Len(s.prompt_ids) = seq - 1 + 1 /\ h = s.prompt_hidden[seq - 1 + 1] /\ m = 0
        BY <2>1 DEF Ready
      <3>2. t.position[1] = seq - 1 /\ t.hidden[1] = h
        BY <1>6, <1>7, <3>1
      <3>3. t.position[1] = Len(t.prompt_ids) - 1 /\ t.hidden[1] = t.prompt_hidden[Len(t.prompt_ids)]
        BY <1>1, <3>1, <3>2
      <3>. QED BY <1>1, <3>1, <3>3 DEF Prompted
    <2>2. CASE s.position # <<>>
      BY <1>1, <1>4, <1>8, <2>2, KeptFacts DEF Record
    <2>. QED BY <2>1, <2>2
  <1>14. \A c \in 1 .. Len(t.position) - 1 : Joined(t, c)
    <2>1. \A c \in 1 .. m - 1 : Joined(t, c)
      BY <1>4, <1>8, KeptFacts DEF Record
    <2>2. ASSUME m # 0 PROVE Joined(t, m)
      <3>1. m \in 1 .. m /\ s.position # <<>>
        BY <1>4, <2>2
      <3>2. Open(s, m, seq - 1) /\ Seeded(s, m, seq - 1, h)
        BY <3>1 DEF Ready
      <3>3. Open(t, m, seq - 1) /\ Seeded(t, m, seq - 1, h)
        BY <1>4, <1>8, <3>1, <3>2, KeptFacts
      <3>. QED BY <1>6, <1>7, <3>3 DEF Joined
    <2>3. \A c \in 1 .. m + 1 - 1 : c \in 1 .. m - 1 \/ (c = m /\ m # 0)
      BY <1>4
    <2>. QED BY <1>6, <2>1, <2>2, <2>3
  <1>15. Record(t)
    BY <1>11, <1>12, <1>13, <1>14 DEF Record
  <1>16. Fresh(t)
    BY <1>1 DEF Fresh
  <1>17. ASSUME e = n PROVE Ready(t, seq + e - 1, Hid(seq + e - 1, o))
    <2>1. Ending(t, m + 1) = seq + e - 1
      <3>1. Ending(t, m + 1) = seq - 1 + e
        BY <1>2, <1>6, <1>7 DEF Ending
      <3>. QED BY <3>1
    <2>2. Bridged(t, seq + e - 1, seq + e - 1)
      BY DEF Bridged
    <2>3. Open(t, m + 1, seq + e - 1)
      BY <1>2, <1>7, <1>17, <2>1, <2>2 DEF Open
    <2>4. hids[e] = Hid(seq + e - 1, o)
      BY <1>2
    <2>5. Seeded(t, m + 1, seq + e - 1, Hid(seq + e - 1, o))
      BY <1>2, <1>7, <2>1, <2>4 DEF Seeded
    <2>. QED BY <1>6, <1>9, <2>3, <2>5 DEF Ready
  <1>. QED BY <1>9, <1>15, <1>16, <1>17 DEF t

\* A whole prefill before the first cycle is its prompt.
LEMMA PromptRecords ==
    ASSUME NEW s \in Signals, Record(s), Fresh(s), s.position = <<>>,
           NEW o \in 0 .. MaxNew, NEW len \in 1 .. PromptLen + MaxNew
    PROVE  LET hid == [i \in 1 .. len |-> Hid(i - 1, o)]
               tok == [i \in 1 .. len |-> Tok(i)]
               t == RecordPrefill(s, hid, tok, 0)
           IN  Record(t) /\ Fresh(t) /\ Ready(t, len - 1, hid[len])
  <1> DEFINE hid == [i \in 1 .. len |-> Hid(i - 1, o)]
             tok == [i \in 1 .. len |-> Tok(i)]
             t == RecordPrefill(s, hid, tok, 0)
  <1>1. t = [s EXCEPT !.prompt_hidden = hid, !.prompt_ids = tok]
    BY DEF RecordPrefill
  <1>2. len \in Nat /\ PromptLen \in Nat /\ MaxNew \in Nat
    BY SignalAssumption
  <1>3. hid \in Seq(Hidden) /\ Len(hid) = len /\ \A i \in 1 .. len : hid[i][1] = i - 1
    <2>1. \A i \in 1 .. len : Hid(i - 1, o) \in Hidden /\ Hid(i - 1, o)[1] = i - 1
      BY <1>2 DEF Hid, Hidden
    <2>. QED BY <1>2, <2>1, IsASeq, LenProperties
  <1>4. tok \in Seq(Tokens) /\ Len(tok) = len /\ \A i \in 1 .. len : tok[i] = Tok(i)
    <2>1. \A i \in 1 .. len : Tok(i) \in Tokens
      BY <1>2 DEF Tok, Tokens
    <2>. QED BY <1>2, <2>1, IsASeq, LenProperties
  <1>. HIDE DEF hid, tok
  <1>5. /\ t.prompt_hidden = hid /\ t.prompt_ids = tok /\ t.position = <<>>
        /\ t.prefill_hidden = s.prefill_hidden /\ t.prefill_tokens = s.prefill_tokens
        /\ t.prefill_position = s.prefill_position /\ t.prefill_next = s.prefill_next
    BY <1>1 DEF Signals
  <1>. HIDE DEF t
  <1>6. Prompted(t)
    BY <1>2, <1>3, <1>4, <1>5 DEF Prompted
  <1>7. Record(t)
    BY <1>5 DEF Record, Refills, Single
  <1>8. Fresh(t)
    BY <1>5 DEF Fresh
  <1>9. Ready(t, len - 1, hid[len])
    <2>1. len - 1 + 1 = len
      BY <1>2
    <2>. QED BY <1>4, <1>5, <1>6, <2>1 DEF Ready
  <1>. QED BY <1>7, <1>8, <1>9 DEF t, hid, tok

\* A whole prefill after a retraction adds the one position that is missing,
\* and the next cycle can be there.
LEMMA RefillRecords ==
    ASSUME NEW s \in Signals, Square(s), Aligned(s), Record(s), Fresh(s), s.position # <<>>,
           NEW o \in 0 .. MaxNew, NEW len \in 1 .. PromptLen + MaxNew,
           NextPosition(s) = len - 1, Awaits(s, len - 2)
    PROVE  LET hid == [i \in 1 .. len |-> Hid(i - 1, o)]
               tok == [i \in 1 .. len |-> Tok(i)]
               t == RecordPrefill(s, hid, tok, 0)
           IN  /\ Record(t) /\ Fresh(t) /\ Ready(t, len - 1, hid[len])
               /\ t.prompt_ids = s.prompt_ids /\ t.prompt_hidden = s.prompt_hidden
  <1> DEFINE hid == [i \in 1 .. len |-> Hid(i - 1, o)]
             tok == [i \in 1 .. len |-> Tok(i)]
             t == RecordPrefill(s, hid, tok, 0)
             N == Len(s.prefill_position)
             n == Len(s.position)
             pos == [i \in 1 .. (Len(tok) - (len - 1)) |-> 0 + (len - 1) + i - 1]
             hs == SubSeq(hid, len - 1 + 1, Len(hid))
             ts == SubSeq(tok, len - 1 + 1, Len(tok))
  <1>1. len \in Nat \ {0} /\ PromptLen \in Nat /\ MaxNew \in Nat
    BY SignalAssumption
  <1>2. hid \in Seq(Hidden) /\ Len(hid) = len /\ hid[len] = Hid(len - 1, o)
    <2>1. \A i \in 1 .. len : Hid(i - 1, o) \in Hidden
      BY <1>1 DEF Hid, Hidden
    <2>. QED BY <1>1, <2>1, IsASeq, LenProperties
  <1>3. tok \in Seq(Tokens) /\ Len(tok) = len /\ tok[len] = Tok(len)
    <2>1. \A i \in 1 .. len : Tok(i) \in Tokens
      BY <1>1 DEF Tok, Tokens
    <2>. QED BY <1>1, <2>1, IsASeq, LenProperties
  <1>4. Maximum(0, NextPosition(s) - 0) = len - 1 /\ ~(len - 1 >= Len(tok))
    BY <1>1, <1>3 DEF Maximum
  <1>5. t = [s EXCEPT !.prefill_hidden = Append(@, hs), !.prefill_tokens = Append(@, ts),
                      !.prefill_position = Append(@, pos), !.prefill_next = 0 + Len(tok)]
    BY <1>4 DEF RecordPrefill
  <1>6. Len(hs) = 1 /\ hs[1] = Hid(len - 1, o)
    <2>. HIDE DEF hid
    <2>1. hs = SubSeq(hid, len, len)
      BY <1>1, <1>2
    <2>2. hid \in Seq(Hidden) /\ len \in 1 .. Len(hid)
      BY <1>1, <1>2
    <2>3. Len(SubSeq(hid, len, len)) = 1 /\ SubSeq(hid, len, len)[1] = hid[len]
      BY <2>2, SubSeqSingle
    <2>. QED BY <1>2, <2>1, <2>3
  <1>7. Len(ts) = 1 /\ ts[1] = Tok(len)
    <2>. HIDE DEF tok
    <2>1. ts = SubSeq(tok, len, len)
      BY <1>1, <1>3
    <2>2. tok \in Seq(Tokens) /\ len \in 1 .. Len(tok)
      BY <1>1, <1>3
    <2>3. Len(SubSeq(tok, len, len)) = 1 /\ SubSeq(tok, len, len)[1] = tok[len]
      BY <2>2, SubSeqSingle
    <2>. QED BY <1>3, <2>1, <2>3
  <1>8. Len(pos) = 1 /\ pos[1] = len - 1
    <2>1. Len(tok) - (len - 1) = 1
      BY <1>1, <1>3
    <2>. QED BY <1>1, <2>1
  <1>. HIDE DEF hid, tok, hs, ts, pos
  <1>9. /\ t.prefill_hidden = Append(s.prefill_hidden, hs)
        /\ t.prefill_tokens = Append(s.prefill_tokens, ts)
        /\ t.prefill_position = Append(s.prefill_position, pos) /\ t.prefill_next = 0 + Len(tok)
        /\ t.position = s.position /\ t.prompt_ids = s.prompt_ids /\ t.prompt_hidden = s.prompt_hidden
    BY <1>5 DEF Signals
  <1>10. t.prefill_next = len
    BY <1>1, <1>3, <1>9
  <1>11. Grows(s, t)
    BY PrefillGrows
  <1>. HIDE DEF t
  <1>12. Kinds(s) /\ N \in Nat /\ n \in Nat \ {0}
    BY SignalsKinds, KindsElements, EmptySeq DEF Kinds
  <1>13. /\ s.prefill_position \in Seq(Seq(Nat)) /\ s.prefill_hidden \in Seq(Seq(Hidden))
         /\ s.prefill_tokens \in Seq(Seq(Tokens))
         /\ Len(s.prefill_hidden) = N /\ Len(s.prefill_tokens) = N
    BY <1>12 DEF Kinds
  <1>14. Len(t.prefill_position) = N + 1 /\ t.prefill_position[N + 1] = pos
    BY <1>9, <1>13, AppendKeeps
  <1>15. t.prefill_hidden[N + 1] = hs
    <2>1. s.prefill_hidden \in Seq(Seq(Hidden)) /\ Len(s.prefill_hidden) = N
      BY <1>13
    <2>. QED BY <1>9, <2>1, AppendKeeps
  <1>16. t.prefill_tokens[N + 1] = ts
    <2>1. s.prefill_tokens \in Seq(Seq(Tokens)) /\ Len(s.prefill_tokens) = N
      BY <1>13
    <2>. QED BY <1>9, <2>1, AppendKeeps
  <1>17. Kept(s, t) /\ Len(t.prefill_position) \in Nat
    BY <1>11, <1>12, <1>14, GrowsKept
  <1>18. Single(t, N + 1) /\ t.prefill_position[N + 1][1] = len - 1
    <2>1. len - 1 + 1 = len /\ Hid(len - 1, o)[1] = len - 1
      BY <1>1 DEF Hid
    <2>2. t.prefill_tokens[N + 1][1] = Tok(t.prefill_position[N + 1][1] + 1)
      BY <1>7, <1>8, <1>14, <1>16, <2>1
    <2>. QED BY <1>6, <1>7, <1>8, <1>14, <1>15, <1>16, <2>1, <2>2 DEF Single
  <1>19. \A b \in 1 .. N : s.prefill_position[b][1] < len - 1 /\ s.prefill_position[b][1] \in Nat
    <2>1. s.prefill_next <= len - 1 /\ s.prefill_next \in Nat
      <3> DEFINE w == s.position[n] + Len(s.accepted_tokens[n]) + 1
      <3>1. w \in Nat /\ s.prefill_next \in Nat
        BY VerifiedType DEF Signals
      <3>2. Maximum(w, s.prefill_next) = len - 1
        BY DEF NextPosition
      <3>. HIDE DEF w
      <3>. QED BY <1>1, <3>1, <3>2 DEF Maximum
    <2>2. ASSUME NEW b \in 1 .. N PROVE s.prefill_position[b][1] \in Nat
      <3>1. s.prefill_position[b] \in Seq(Nat) /\ Len(s.prefill_position[b]) = 1
        BY <1>12, KindsElements DEF Record, Refills, Single
      <3>2. 1 \in 1 .. Len(s.prefill_position[b])
        BY <3>1
      <3>. QED BY <3>1, <3>2, ElementOfSeq
    <2>. QED BY <1>1, <2>1, <2>2 DEF Fresh
  <1>20. \A b \in 1 .. N + 1 : b \in 1 .. N \/ b = N + 1
    BY <1>12
  <1>21. \A b \in 1 .. N : t.prefill_position[b] = s.prefill_position[b]
    BY <1>17 DEF Kept
  <1>22. Refills(t)
    <2>1. \A b \in 1 .. N : Single(t, b)
      BY <1>12, <1>17, KeptFacts DEF Record, Refills
    <2>2. ASSUME NEW a \in 1 .. N + 1, NEW b \in 1 .. N + 1,
                 t.prefill_position[a][1] = t.prefill_position[b][1]
          PROVE  a = b
      <3>1. CASE a \in 1 .. N /\ b \in 1 .. N
        BY <1>21, <2>2, <3>1 DEF Record, Refills
      <3>2. CASE a = N + 1 /\ b \in 1 .. N
        BY <1>1, <1>18, <1>19, <1>21, <2>2, <3>2
      <3>3. CASE a \in 1 .. N /\ b = N + 1
        BY <1>1, <1>18, <1>19, <1>21, <2>2, <3>3
      <3>. QED BY <1>20, <3>1, <3>2, <3>3
    <2>. QED BY <1>14, <1>18, <1>20, <2>1, <2>2 DEF Refills
  <1>23. Fresh(t)
    <2>1. \A b \in 1 .. N + 1 : t.prefill_position[b][1] < len
      BY <1>1, <1>18, <1>19, <1>20, <1>21
    <2>. QED BY <1>10, <1>14, <2>1 DEF Fresh
  <1>24. Record(t)
    <2>1. Prompted(t)
      BY <1>9, <1>12, <1>17, KeptFacts DEF Record
    <2>2. \A c \in 1 .. Len(t.position) : Cycle(t, c)
      BY <1>9, <1>12, <1>17, KeptFacts DEF Record
    <2>3. \A c \in 1 .. Len(t.position) - 1 : Joined(t, c)
      BY <1>9, <1>12, <1>17, KeptFacts DEF Record
    <2>. QED BY <1>22, <2>1, <2>2, <2>3 DEF Record
  <1>25. Ready(t, len - 1, Hid(len - 1, o))
    <2>1. n \in 1 .. n
      BY <1>12
    <2>2. Open(t, n, len - 2)
      <3>1. Open(s, n, len - 2)
        BY DEF Awaits
      <3>. QED BY <1>12, <1>17, <2>1, <3>1, KeptFacts
    <2>3. Ending(t, n) \in Nat
      <3>1. /\ t.position[n] = s.position[n] /\ t.accepted_tokens[n] = s.accepted_tokens[n]
            /\ s.position[n] \in Nat /\ Len(s.accepted_tokens[n]) \in Nat
        BY <1>12, <1>17, <2>1, KindsElements DEF Kept
      <3>2. Ending(t, n) = s.position[n] + Len(s.accepted_tokens[n])
        BY <3>1 DEF Ending
      <3>3. \A a, b \in Nat : a + b \in Nat
        OBVIOUS
      <3>. QED BY <3>1, <3>2, <3>3, Zenon
    <2>4. len - 2 >= Ending(t, n) /\ Bridged(t, Ending(t, n), len - 2)
      BY <2>2 DEF Open
    <2>5. Bridged(t, Ending(t, n), len - 1)
      <3>1. N + 1 \in 1 .. Len(t.prefill_position)
        BY <1>12, <1>14
      <3>2. \A p \in Ending(t, n) + 1 .. len - 1 : p \in Ending(t, n) + 1 .. len - 2 \/ p = len - 1
        BY <1>1, <2>3
      <3>. QED BY <1>18, <2>4, <3>1, <3>2 DEF Bridged
    <2>6. Open(t, n, len - 1)
      BY <1>1, <2>2, <2>3, <2>4, <2>5 DEF Open
    <2>7. Seeded(t, n, len - 1, Hid(len - 1, o))
      <3>1. N + 1 \in 1 .. Len(t.prefill_position) /\ len - 1 > Ending(t, n)
        BY <1>1, <1>12, <1>14, <2>3, <2>4
      <3>2. t.prefill_hidden[N + 1][1] = Hid(len - 1, o)
        BY <1>6, <1>15
      <3>. QED BY <1>18, <3>1, <3>2 DEF Seeded
    <2>. QED BY <1>9, <2>6, <2>7 DEF Ready
  <1>. QED BY <1>2, <1>9, <1>23, <1>24, <1>25 DEF t, hid, tok

-----------------------------------------------------------------------------
(* The scheduler's steps on records                                        *)

\* The record of a request is one, and the request can go on from it.
Resumable(r) ==
    /\ Record(sig[r]) /\ Fresh(sig[r])
    /\ status[r] = "waiting" => done[r] = 0 /\ Awaits(sig[r], PromptLen + out[r] - 2)
    /\ status[r] = "running" => seed[r] # None /\ Ready(sig[r], done[r] - 1, seed[r])

ResumeInv == \A r \in Reqs : Resumable(r)

\* What a step of an unchunked server does to request r.
Stays(r) ==
    /\ sig'[r] = sig[r] /\ out'[r] = out[r] /\ done'[r] = done[r] /\ seed'[r] = seed[r]
    /\ status'[r] = status[r] /\ retracted'[r] = retracted[r]

Leaves(r) ==
    /\ sig'[r] = sig[r] /\ out'[r] = out[r]
    /\ \/ /\ status[r] = "running" /\ status'[r] = "waiting"
          /\ done'[r] = 0 /\ retracted'[r] = retracted[r] + 1
       \/ /\ status[r] \in {"waiting", "running"} /\ status'[r] = "aborted"

Verified(r) ==
    \E v \in VerifyOutcomes(r) :
        /\ status[r] = "running" /\ status'[r] = IF v.fin THEN "finished" ELSE "running"
        /\ sig'[r] = RecordVerify(sig[r], done[r], out[r], seed[r], v.n, v.e)
        /\ out'[r] = out[r] + v.e /\ done'[r] = done[r] + v.e
        /\ ~v.fin => seed'[r] = Hid(done[r] + v.e - 1, out[r])

Prefilled(r) ==
    LET len == PromptLen + out[r]
        hid == [i \in 1 .. len |-> Hid(i - 1, out[r])]
        tok == [i \in 1 .. len |-> Tok(i)]
    IN  /\ status[r] = "waiting" /\ status'[r] \in {"running", "finished"}
        /\ sig'[r] = RecordPrefill(sig[r], hid, tok, 0)
        /\ seed'[r] = hid[len] /\ done'[r] = len
        /\ out'[r] = out[r] + 1 /\ retracted'[r] = retracted[r]

Moves(r) == Stays(r) \/ Leaves(r) \/ Verified(r) \/ Prefilled(r)

\* What a step of the scheduler sends of request r.
Speaks(r) ==
    /\ received'[r] = received[r] /\ outcome'[r] = outcome[r] /\ reply'[r] = reply[r]
    /\ \/ chan'[r] = chan[r]
       \/ /\ Verified(r) \/ Prefilled(r)
          /\ \E fin \in BOOLEAN :
               /\ chan'[r] = Append(chan[r], Message(sig'[r], sent[r], fin))
               /\ status'[r] = "finished" \/ out'[r] % ForceInterval = 0

\* Whatever a step does to a request, its record stays one it can go on from.
LEMMA MovesResume ==
    ASSUME IInv, StreamInv, EmitInv, NEW r \in Reqs, Resumable(r), Moves(r)
    PROVE  Resumable(r)'
  <1> DEFINE s == sig[r]
  <1>1. /\ s \in Signals /\ Square(s) /\ Aligned(s) /\ Record(s) /\ Fresh(s) /\ Placed(r)
        /\ out[r] \in 0 .. MaxNew /\ done[r] \in Nat /\ Emitted(r)
        /\ PromptLen \in Nat \ {0} /\ MaxNew \in Nat /\ Steps \in Nat
    BY SignalAssumption DEF IInv, TypeOK, StreamInv, Streamed, Resumable, EmitInv
  <1>2. CASE Stays(r)
    BY <1>2 DEF Stays, Resumable
  <1>3. CASE Leaves(r)
    <2>1. sig'[r] = s /\ out'[r] = out[r] /\ status'[r] \in {"waiting", "aborted"}
      BY <1>3 DEF Leaves
    <2>2. ASSUME status'[r] = "waiting" PROVE done'[r] = 0 /\ Awaits(s, PromptLen + out[r] - 2)
      <3>1. status[r] = "running" /\ done'[r] = 0
        BY <1>3, <2>2 DEF Leaves
      <3>2. Ready(s, done[r] - 1, seed[r]) /\ done[r] = PromptLen + out[r] - 1
        BY <1>1, <3>1 DEF Resumable, Placed
      <3>3. done[r] - 1 = PromptLen + out[r] - 2
        BY <1>1, <3>2
      <3>. QED BY <3>1, <3>2, <3>3 DEF Ready, Awaits
    <2>. QED BY <1>1, <2>1, <2>2 DEF Resumable
  <1>4. CASE Verified(r)
    <2>1. PICK v \in VerifyOutcomes(r) :
        /\ status[r] = "running" /\ status'[r] = IF v.fin THEN "finished" ELSE "running"
        /\ sig'[r] = RecordVerify(sig[r], done[r], out[r], seed[r], v.n, v.e)
        /\ out'[r] = out[r] + v.e /\ done'[r] = done[r] + v.e
        /\ ~v.fin => seed'[r] = Hid(done[r] + v.e - 1, out[r])
      BY <1>4 DEF Verified
    <2>2. /\ v.e \in 1 .. Steps + 1 /\ v.n \in 1 .. Steps + 1 /\ v.e <= v.n
          /\ v.e < v.n => v.fin
      BY DEF VerifyOutcomes
    <2>3. Ready(s, done[r] - 1, seed[r]) /\ done[r] \in Nat \ {0}
      <3>1. out[r] >= 1 /\ done[r] = PromptLen + out[r] - 1 /\ Ready(s, done[r] - 1, seed[r])
        BY <1>1, <2>1 DEF Placed, Resumable
      <3>. QED BY <1>1, <3>1
    <2>4. v.e \in Nat \ {0} /\ (~v.fin => v.e = v.n)
      BY <1>1, <2>2
    <2> DEFINE t == RecordVerify(s, done[r], out[r], seed[r], v.n, v.e)
    <2>5. /\ Record(t) /\ Fresh(t)
          /\ v.e = v.n => Ready(t, done[r] + v.e - 1, Hid(done[r] + v.e - 1, out[r]))
      <3>. HIDE DEF s
      <3>. QED BY <1>1, <2>3, <2>4, VerifyRecords
    <2>6. Hid(done[r] + v.e - 1, out[r]) # None
      <3>1. Hid(done[r] + v.e - 1, out[r]) \in Int \X Int
        BY <1>1, <2>4 DEF Hid
      <3>. QED BY <3>1, SignalAssumption
    <2>. HIDE DEF t
    <2>7. sig'[r] = t
      BY <2>1 DEF t
    <2>8. ASSUME status'[r] = "running"
          PROVE  seed'[r] # None /\ Ready(t, done'[r] - 1, seed'[r])
      <3>1. ~v.fin
        BY <2>1, <2>8
      <3>2. done'[r] - 1 = done[r] + v.e - 1
        BY <1>1, <2>1, <2>4
      <3>. QED BY <2>1, <2>4, <2>5, <2>6, <3>1, <3>2
    <2>9. status'[r] # "waiting"
      BY <2>1
    <2>. QED BY <2>5, <2>7, <2>8, <2>9 DEF Resumable
  <1>5. CASE Prefilled(r)
    <2> DEFINE len == PromptLen + out[r]
               hid == [i \in 1 .. len |-> Hid(i - 1, out[r])]
               tok == [i \in 1 .. len |-> Tok(i)]
               t == RecordPrefill(s, hid, tok, 0)
    <2>1. /\ status[r] = "waiting" /\ status'[r] \in {"running", "finished"}
          /\ sig'[r] = t /\ seed'[r] = hid[len] /\ done'[r] = len
      BY <1>5 DEF Prefilled
    <2>2. len \in 1 .. PromptLen + MaxNew /\ len \in Nat
      BY <1>1
    <2>3. hid[len] # None
      <3>1. hid[len] = Hid(len - 1, out[r]) /\ Hid(len - 1, out[r]) \in Int \X Int
        BY <1>1, <2>2 DEF Hid
      <3>. QED BY <3>1, SignalAssumption
    <2>4. Record(t) /\ Fresh(t) /\ Ready(t, len - 1, hid[len])
      <3>1. CASE s.position = <<>>
        <4>. HIDE DEF s, len
        <4>. QED BY <1>1, <2>2, <3>1, PromptRecords
      <3>2. CASE s.position # <<>>
        <4>1. NextPosition(s) = len - 1
          BY <1>1, <2>1, <3>2 DEF Placed
        <4>2. Awaits(s, len - 2)
          <5>1. Awaits(s, PromptLen + out[r] - 2)
            BY <2>1 DEF Resumable
          <5>2. PromptLen + out[r] - 2 = len - 2
            BY <1>1
          <5>. QED BY <5>1, <5>2
        <4>. HIDE DEF s, len
        <4>. QED BY <1>1, <2>2, <3>2, <4>1, <4>2, RefillRecords
      <3>. QED BY <3>1, <3>2
    <2>. HIDE DEF t, len, hid
    <2>. QED BY <2>1, <2>3, <2>4 DEF Resumable
  <1>. QED BY <1>2, <1>3, <1>4, <1>5 DEF Moves

\* An unchunked prefill.
LEMMA PrefillMoves ==
    ASSUME IInv, ~Chunking, ResumeInv, NEW r \in Reqs, Prefill(r), NEW q \in Reqs
    PROVE  Moves(q) /\ Speaks(q)
  <1> DEFINE total == PromptLen + out[r]
             o == out[r]
             start == done[r]
  <1>1. PICK len \in 1 .. (total - start), eos \in BOOLEAN :
             LET last  == start + len = total
                 hid   == [i \in 1 .. len |-> Hid(start + i - 1, o)]
                 tok   == [i \in 1 .. len |-> IF i < len \/ last THEN Tok(start + i) ELSE Guess]
                 fin   == last /\ (eos \/ o + 1 >= MaxNew)
                 s     == [sig EXCEPT ![r] = RecordPrefill(@, hid, tok, start)]
                 o1    == [out EXCEPT ![r] = IF last THEN o + 1 ELSE o]
             IN  /\ Chunking \/ last
                 /\ sig' = s
                 /\ seed' = [seed EXCEPT ![r] = hid[len]]
                 /\ done' = [done EXCEPT ![r] = start + len]
                 /\ out' = o1
                 /\ status' = [status EXCEPT ![r] = IF fin THEN "finished"
                                                    ELSE IF last THEN "running" ELSE @]
                 /\ StreamOutput(IF last THEN {r} ELSE {}, s, o1, [x \in Reqs |-> x = r /\ fin])
    BY DEF Prefill
  <1>2. UNCHANGED <<retracted, received, outcome, reply>> /\ status[r] = "waiting" /\ start = 0
    BY DEF Prefill, recvVars, ResumeInv, Resumable
  <1>3. /\ DOMAIN sig = Reqs /\ DOMAIN seed = Reqs /\ DOMAIN done = Reqs /\ DOMAIN out = Reqs
        /\ DOMAIN status = Reqs /\ out[r] \in Nat /\ PromptLen \in Nat
    BY SignalAssumption DEF IInv, TypeOK
  <1> DEFINE fin == eos \/ o + 1 >= MaxNew
             hid0 == [i \in 1 .. len |-> Hid(start + i - 1, o)]
             tok0 == [i \in 1 .. len |-> IF i < len \/ start + len = total THEN Tok(start + i) ELSE Guess]
             hid == [i \in 1 .. total |-> Hid(i - 1, o)]
             tok == [i \in 1 .. total |-> Tok(i)]
             t == RecordPrefill(sig[r], hid, tok, 0)
             s == [sig EXCEPT ![r] = t]
             o1 == [out EXCEPT ![r] = o + 1]
             fins == [x \in Reqs |-> x = r /\ fin]
  <1>4. start + len = total /\ len = total /\ len \in Nat
    BY <1>1, <1>2, <1>3
  <1>5. hid0 = hid /\ tok0 = tok
    <2>1. \A i \in 1 .. len : start + i - 1 = i - 1 /\ start + i = i
      BY <1>2, <1>4
    <2>. QED BY <1>4, <2>1
  <1>6. /\ sig' = s /\ seed' = [seed EXCEPT ![r] = hid[len]] /\ done' = [done EXCEPT ![r] = total]
        /\ out' = o1
        /\ status' = [status EXCEPT ![r] = IF fin THEN "finished" ELSE "running"]
        /\ StreamOutput({r}, s, o1, fins)
    <2>1. /\ sig' = [sig EXCEPT ![r] = RecordPrefill(@, hid0, tok0, start)]
          /\ seed' = [seed EXCEPT ![r] = hid0[len]] /\ done' = [done EXCEPT ![r] = start + len]
          /\ out' = o1
          /\ status' = [status EXCEPT ![r] = IF fin THEN "finished" ELSE "running"]
          /\ StreamOutput({r}, [sig EXCEPT ![r] = RecordPrefill(@, hid0, tok0, start)], o1, fins)
      BY <1>1, <1>4
    <2>. HIDE DEF hid0, tok0, hid, tok
    <2>2. s = [sig EXCEPT ![r] = RecordPrefill(@, hid0, tok0, start)]
      BY <1>2, <1>5
    <2>. HIDE DEF s, o1, fins
    <2>. QED BY <1>4, <1>5, <2>1, <2>2
  <1> DEFINE going == {x \in {r} : ShouldOutput(o1[x], fins[x])}
  <1>7. chan' = [x \in Reqs |-> IF x \in going THEN Append(chan[x], Message(s[x], sent[x], fins[x])) ELSE chan[x]]
    BY <1>6 DEF StreamOutput
  <1>8. going \subseteq {r} /\ DOMAIN chan = Reqs
    BY DEF IInv
  <1>9. CASE q # r
    <2>1. Stays(q)
      BY <1>2, <1>3, <1>6, <1>9 DEF Stays
    <2>2. chan'[q] = chan[q]
      <3>. HIDE DEF going, s
      <3>. QED BY <1>7, <1>8, <1>9
    <2>. QED BY <1>2, <2>1, <2>2 DEF Moves, Speaks
  <1>10. CASE q = r
    <2>1. /\ sig'[r] = t /\ s[r] = t /\ seed'[r] = hid[total] /\ done'[r] = total /\ out'[r] = o + 1
          /\ status'[r] = IF fin THEN "finished" ELSE "running"
          /\ o1[r] = o + 1 /\ fins[r] = fin
      BY <1>3, <1>4, <1>6
    <2>2. Prefilled(r)
      BY <1>2, <2>1 DEF Prefilled
    <2>3. fin \in BOOLEAN
      OBVIOUS
    <2>4. CASE r \in going
      <3>1. fin \/ (o + 1) % ForceInterval = 0
        BY <2>1, <2>4 DEF ShouldOutput
      <3>. HIDE DEF going, s, t, fin, fins
      <3>2. chan'[r] = Append(chan[r], Message(sig'[r], sent[r], fin))
        BY <1>7, <2>1, <2>4
      <3>3. status'[r] = "finished" \/ out'[r] % ForceInterval = 0
        BY <2>1, <3>1
      <3>. QED BY <1>2, <1>10, <2>2, <2>3, <3>2, <3>3 DEF Moves, Speaks
    <2>5. CASE r \notin going
      <3>. HIDE DEF going, s, t, fin, fins
      <3>1. chan'[r] = chan[r]
        BY <1>7, <2>5
      <3>. QED BY <1>2, <1>10, <2>2, <3>1 DEF Moves, Speaks
    <2>. QED BY <2>4, <2>5
  <1>. QED BY <1>9, <1>10

\* One decode iteration: every request of the running batch has a seed.
LEMMA DecodeMoves ==
    ASSUME IInv, ResumeInv, Decode, NEW q \in Reqs
    PROVE  Moves(q) /\ Speaks(q)
  <1>1. PICK last \in Running :
         LET live == {r \in Running : place[r] <= place[last]}
             gone == Running \ live
             known == \A r \in live : seed[r] # None
         IN  \E v \in [live -> UNION {VerifyOutcomes(r) : r \in live}] :
               LET s  == [r \in Reqs |->
                            IF r \in live
                            THEN RecordVerify(sig[r], done[r], out[r],
                                              IF known THEN seed[r] ELSE None, v[r].n, v[r].e)
                            ELSE sig[r]]
                   o1 == [r \in Reqs |-> IF r \in live THEN out[r] + v[r].e ELSE out[r]]
                   ended == {r \in live : v[r].fin}
               IN  /\ \A r \in live : v[r] \in VerifyOutcomes(r)
                   /\ Retract(gone)
                   /\ sig' = s
                   /\ out' = o1
                   /\ seed' = [r \in Reqs |-> IF r \in ended THEN None
                                              ELSE IF r \in live THEN Hid(done[r] + v[r].e - 1, out[r])
                                              ELSE seed[r]]
                   /\ done' = [r \in Reqs |-> IF r \in live THEN done[r] + v[r].e
                                              ELSE IF r \in gone THEN 0 ELSE done[r]]
                   /\ status' = [r \in Reqs |-> IF r \in ended THEN "finished"
                                                ELSE IF r \in gone THEN "waiting" ELSE status[r]]
                   /\ StreamOutput(live, s, o1, [r \in Reqs |-> r \in ended])
    BY ZenonT(30) DEF Decode
  <1> DEFINE live == {r \in Running : place[r] <= place[last]}
             gone == Running \ live
             known == \A r \in live : seed[r] # None
  <1>2. PICK v \in [live -> UNION {VerifyOutcomes(r) : r \in live}] :
               LET s  == [r \in Reqs |->
                            IF r \in live
                            THEN RecordVerify(sig[r], done[r], out[r],
                                              IF known THEN seed[r] ELSE None, v[r].n, v[r].e)
                            ELSE sig[r]]
                   o1 == [r \in Reqs |-> IF r \in live THEN out[r] + v[r].e ELSE out[r]]
                   ended == {r \in live : v[r].fin}
               IN  /\ \A r \in live : v[r] \in VerifyOutcomes(r)
                   /\ Retract(gone)
                   /\ sig' = s
                   /\ out' = o1
                   /\ seed' = [r \in Reqs |-> IF r \in ended THEN None
                                              ELSE IF r \in live THEN Hid(done[r] + v[r].e - 1, out[r])
                                              ELSE seed[r]]
                   /\ done' = [r \in Reqs |-> IF r \in live THEN done[r] + v[r].e
                                              ELSE IF r \in gone THEN 0 ELSE done[r]]
                   /\ status' = [r \in Reqs |-> IF r \in ended THEN "finished"
                                                ELSE IF r \in gone THEN "waiting" ELSE status[r]]
                   /\ StreamOutput(live, s, o1, [r \in Reqs |-> r \in ended])
    BY <1>1, Zenon
  <1> DEFINE t(r) == RecordVerify(sig[r], done[r], out[r], IF known THEN seed[r] ELSE None, v[r].n, v[r].e)
             s == [r \in Reqs |-> IF r \in live THEN t(r) ELSE sig[r]]
             o1 == [r \in Reqs |-> IF r \in live THEN out[r] + v[r].e ELSE out[r]]
             ended == {r \in live : v[r].fin}
             fins == [r \in Reqs |-> r \in ended]
             going == {r \in live : ShouldOutput(o1[r], fins[r])}
  <1>3. /\ \A r \in live : v[r] \in VerifyOutcomes(r)
        /\ sig' = s /\ out' = o1
        /\ seed' = [r \in Reqs |-> IF r \in ended THEN None
                                   ELSE IF r \in live THEN Hid(done[r] + v[r].e - 1, out[r])
                                   ELSE seed[r]]
        /\ done' = [r \in Reqs |-> IF r \in live THEN done[r] + v[r].e
                                   ELSE IF r \in gone THEN 0 ELSE done[r]]
        /\ status' = [r \in Reqs |-> IF r \in ended THEN "finished"
                                     ELSE IF r \in gone THEN "waiting" ELSE status[r]]
        /\ retracted' = [r \in Reqs |-> IF r \in gone THEN retracted[r] + 1 ELSE retracted[r]]
        /\ chan' = [r \in Reqs |-> IF r \in going
                                   THEN Append(chan[r], Message(s[r], sent[r], fins[r]))
                                   ELSE chan[r]]
    BY <1>2 DEF StreamOutput, Retract
  <1>4. UNCHANGED <<received, outcome, reply, rid_to_state>>
    BY DEF Decode, recvVars
  <1>5. /\ \A r \in live \union gone : r \in Reqs /\ status[r] = "running"
        /\ going \subseteq live /\ ended \subseteq live /\ live \intersect gone = {}
    BY DEF Running
  <1>6. known
    BY <1>5 DEF ResumeInv, Resumable
  <1>7. t(q) = RecordVerify(sig[q], done[q], out[q], seed[q], v[q].n, v[q].e)
    BY <1>6
  <1>8. q \in ended <=> q \in live /\ v[q].fin
    OBVIOUS
  <1>9. fins[q] = (q \in ended) /\ (q \in ended) \in BOOLEAN
    OBVIOUS
  <1>10. q \in going => fins[q] \/ o1[q] % ForceInterval = 0
    BY DEF ShouldOutput
  <1>. HIDE DEF live, gone, known, t, going, ended, fins
  <1>11. CASE q \notin live
    <2>1. /\ sig'[q] = sig[q] /\ out'[q] = out[q] /\ seed'[q] = seed[q] /\ chan'[q] = chan[q]
      BY <1>3, <1>5, <1>11
    <2>2. CASE q \in gone
      <3>1. done'[q] = 0 /\ status'[q] = "waiting" /\ retracted'[q] = retracted[q] + 1
            /\ status[q] = "running"
        BY <1>3, <1>5, <1>11, <2>2
      <3>. QED BY <1>4, <2>1, <3>1 DEF Moves, Leaves, Speaks
    <2>3. CASE q \notin gone
      <3>1. done'[q] = done[q] /\ status'[q] = status[q] /\ retracted'[q] = retracted[q]
        BY <1>3, <1>5, <1>11, <2>3
      <3>. QED BY <1>4, <2>1, <3>1 DEF Moves, Stays, Speaks
    <2>. QED BY <2>2, <2>3
  <1>12. CASE q \in live
    <2>1. /\ sig'[q] = t(q) /\ s[q] = t(q) /\ out'[q] = out[q] + v[q].e /\ o1[q] = out'[q]
          /\ done'[q] = done[q] + v[q].e
          /\ v[q] \in VerifyOutcomes(q) /\ status[q] = "running"
      BY <1>3, <1>5, <1>12
    <2>2. status'[q] = IF v[q].fin THEN "finished" ELSE "running"
      BY <1>3, <1>5, <1>8, <1>12
    <2>3. ~v[q].fin => seed'[q] = Hid(done[q] + v[q].e - 1, out[q])
      BY <1>3, <1>5, <1>8, <1>12
    <2>4. Verified(q)
      BY <1>7, <2>1, <2>2, <2>3 DEF Verified
    <2>. HIDE DEF s, o1
    <2>5. CASE q \in going
      <3>1. chan'[q] = Append(chan[q], Message(sig'[q], sent[q], fins[q]))
        BY <1>3, <2>1, <2>5
      <3>2. status'[q] = "finished" \/ out'[q] % ForceInterval = 0
        BY <1>8, <1>9, <1>10, <1>12, <2>1, <2>2, <2>5
      <3>3. fins[q] \in BOOLEAN
        BY <1>9
      <3>. QED BY <1>4, <2>4, <3>1, <3>2, <3>3 DEF Moves, Speaks
    <2>6. CASE q \notin going
      <3>1. chan'[q] = chan[q]
        BY <1>3, <2>6
      <3>. QED BY <1>4, <2>4, <3>1 DEF Moves, Speaks
    <2>. QED BY <2>5, <2>6
  <1>. QED BY <1>11, <1>12

\* Aborts and retractions without a verification.
LEMMA OthersMove ==
    ASSUME IInv, OutOfMemory \/ \E r \in Reqs : AbortWaiting(r), NEW q \in Reqs
    PROVE  Moves(q) /\ Speaks(q)
  <1>1. UNCHANGED <<sig, out, seed, chan, received, outcome, reply>>
    BY DEF OutOfMemory, AbortWaiting, sigVars, recvVars
  <1>2. Stays(q) \/ Leaves(q)
    <2>1. CASE OutOfMemory
      <3>1. PICK first \in Running :
              /\ Retract(Running \ {first})
              /\ status' = [r \in Reqs |-> IF r = first THEN "aborted"
                                           ELSE IF r \in Running THEN "waiting" ELSE status[r]]
              /\ done' = [r \in Reqs |-> IF r \in Running THEN 0 ELSE done[r]]
        BY <2>1 DEF OutOfMemory
      <3>2. retracted' = [r \in Reqs |-> IF r \in Running \ {first} THEN retracted[r] + 1 ELSE retracted[r]]
        BY <3>1 DEF Retract
      <3>3. q \in Running <=> status[q] = "running"
        BY DEF Running
      <3>. QED BY <1>1, <3>1, <3>2, <3>3 DEF Stays, Leaves
    <2>2. ASSUME NEW r \in Reqs, AbortWaiting(r) PROVE Stays(q) \/ Leaves(q)
      <3>1. /\ status[r] = "waiting" /\ status' = [status EXCEPT ![r] = "aborted"]
            /\ UNCHANGED <<done, retracted>> /\ DOMAIN status = Reqs
        BY <2>2 DEF AbortWaiting, IInv, TypeOK
      <3>. QED BY <1>1, <3>1 DEF Stays, Leaves
    <2>. QED BY <2>1, <2>2
  <1>. QED BY <1>1, <1>2 DEF Moves, Speaks

\* The tokenizer manager leaves the scheduler's state alone.
LEMMA ReceiverStays ==
    ASSUME UNCHANGED vars \/ Idle \/ \E r \in Reqs : Receive(r) \/ ReceiveAbort(r) \/ Wake(r),
           NEW q \in Reqs
    PROVE  Stays(q)
  BY DEF Receive, ReceiveAbort, Wake, Idle, vars, reqVars, sigVars, Stays

\* Without chunked prefills every request can go on from its record.
LEMMA ResumeInvariance ==
    ASSUME ~Chunking
    PROVE  Spec => []ResumeInv
  <1>1. Init => ResumeInv
    <2> SUFFICES ASSUME Init, NEW r \in Reqs PROVE Resumable(r)
      BY DEF ResumeInv
    <2>1. sig[r] = EmptySignals /\ status[r] = "waiting" /\ done[r] = 0
      BY DEF Init
    <2>2. EmptySignals.position = <<>> /\ EmptySignals.prefill_position = <<>>
      BY DEF EmptySignals
    <2>3. Len(<<>>) = 0 /\ 1 .. 0 = {} /\ 1 .. 0 - 1 = {}
      OBVIOUS
    <2>. HIDE DEF EmptySignals
    <2>4. Record(EmptySignals) /\ Fresh(EmptySignals)
      BY <2>2, <2>3 DEF Record, Refills, Fresh
    <2>5. Awaits(EmptySignals, PromptLen + out[r] - 2)
      BY <2>2 DEF Awaits
    <2>. QED BY <2>1, <2>4, <2>5 DEF Resumable
  <1>2. ASSUME IInv, StreamInv, EmitInv, ResumeInv, [Next]_vars PROVE ResumeInv'
    <2>1. ASSUME NEW q \in Reqs PROVE Moves(q)
      <3>1. CASE \E r \in Reqs : Prefill(r)
        BY <1>2, <3>1, PrefillMoves
      <3>2. CASE Decode
        BY <1>2, <3>2, DecodeMoves
      <3>3. CASE OutOfMemory \/ \E r \in Reqs : AbortWaiting(r)
        BY <1>2, <3>3, OthersMove
      <3>4. CASE UNCHANGED vars \/ Idle \/ \E r \in Reqs : Receive(r) \/ ReceiveAbort(r) \/ Wake(r)
        BY <3>4, ReceiverStays DEF Moves
      <3>. QED BY <1>2, <3>1, <3>2, <3>3, <3>4 DEF Next
    <2>. QED BY <1>2, <2>1, MovesResume DEF ResumeInv
  <1>. QED BY <1>1, <1>2, StreamInvariance, EmitInvariance, PTL DEF Spec

-----------------------------------------------------------------------------
(* The recorded prompt                                                     *)

\* The recorded prompt of request r is not replaced any more.
Frozen(r) ==
    \/ sig[r].position # <<>>
    \/ status[r] \in {"finished", "aborted"}
    \/ status[r] = "running" /\ retracted[r] = MaxRetract

Carries(m, s) == m.prompt_hidden = s.prompt_hidden /\ m.prompt_ids = s.prompt_ids

\* Before its first cycle a request has a token per extend; a prompt is sent
\* only when it is not replaced any more, and the first one sent is kept.
PromptKept(r) ==
    /\ sig[r].position = <<>> /\ status[r] = "waiting" => out[r] <= retracted[r]
    /\ sig[r].position = <<>> /\ status[r] = "running" => out[r] <= retracted[r] + 1
    /\ \A i \in 1 .. Len(chan[r]) : Carries(chan[r][i], sig[r])
    /\ chan[r] # <<>> => Frozen(r) /\ sig[r].prompt_hidden # None
    /\ received[r].prompt_hidden # None => Frozen(r) /\ Carries(received[r], sig[r])
    /\ Delivered(r) => received[r].prompt_hidden # None /\ received[r].draft_tokens # <<>>

PromptInv == \A r \in Reqs : PromptKept(r)

\* A message appended to the channel carries the prompt if the others do.
LEMMA CarriesAppend ==
    ASSUME NEW c \in Seq(Messages), NEW s, NEW t, NEW off, NEW fin,
           \A i \in 1 .. Len(c) : Carries(c[i], s), Carries(t, s)
    PROVE  \A i \in 1 .. Len(Append(c, Message(t, off, fin))) : Carries(Append(c, Message(t, off, fin))[i], t)
  <1> DEFINE m == Message(t, off, fin)
             d == Append(c, m)
  <1>1. Carries(m, t)
    BY DEF Message, Carries
  <1>. HIDE DEF m
  <1>2. c \in Seq(Messages \union {m}) /\ Len(c) \in Nat
    BY SeqMonotonic, LenProperties
  <1>3. Len(d) = Len(c) + 1 /\ d[Len(c) + 1] = m /\ \A i \in 1 .. Len(c) : d[i] = c[i]
    BY <1>2, AppendProperties
  <1>. HIDE DEF d
  <1>4. \A i \in 1 .. Len(c) : Carries(c[i], t)
    BY DEF Carries
  <1>5. \A i \in 1 .. Len(c) + 1 : i = Len(c) + 1 \/ i \in 1 .. Len(c)
    BY <1>2
  <1>6. \A i \in 1 .. Len(d) : Carries(d[i], t)
    BY <1>1, <1>3, <1>4, <1>5
  <1>. QED BY <1>6 DEF d, m

\* The first multiple of f after 0 is f.
LEMMA ModuloZero ==
    ASSUME NEW f \in Nat \ {0}
    PROVE  \A x \in 1 .. f : x % f = 0 => x = f
  <1> SUFFICES ASSUME NEW x \in 1 .. f, x % f = 0, x < f PROVE FALSE
    OBVIOUS
  <1>. QED OBVIOUS

\* A recorded prompt is not None.
LEMMA PromptIsNotNone ==
    ASSUME NEW s, Prompted(s)
    PROVE  s.prompt_hidden # None
  <1>1. Hidden \subseteq Int \X Int
    BY SignalAssumption DEF Hidden
  <1>2. Seq(Hidden) \subseteq Seq(Int \X Int)
    BY <1>1, SeqMonotonic
  <1>. QED BY <1>2, SignalAssumption DEF Prompted

\* A request that has no first cycle can be prefilled MaxRetract + 1 times.
LEMMA SpeaksKeeps ==
    ASSUME MaxRetract < ForceInterval, IInv, IInv', NEW r \in Reqs, Resumable(r)',
           Moves(r), Speaks(r), PromptKept(r)
    PROVE  PromptKept(r)'
  <1> DEFINE s == sig[r]
             t == sig'[r]
  <1>1. /\ s \in Signals /\ t \in Signals /\ out[r] \in Nat /\ out'[r] \in Nat
        /\ retracted[r] \in 0 .. MaxRetract /\ retracted'[r] \in 0 .. MaxRetract
        /\ MaxRetract \in Nat /\ ForceInterval \in Nat \ {0} /\ chan[r] \in Seq(Messages)
        /\ received'[r] = received[r] /\ (Delivered(r)' => Delivered(r))
    BY SignalAssumption DEF IInv, TypeOK, Speaks, Delivered
  <1>2. Record(t) /\ (status'[r] = "running" => Ready(t, done'[r] - 1, seed'[r]))
    BY DEF Resumable
  <1>3. t.position # <<>> => t.prompt_hidden # None
    BY <1>2, PromptIsNotNone DEF Record
  <1>4. CASE Stays(r) /\ chan'[r] = chan[r]
    BY <1>1, <1>4 DEF Stays, PromptKept, Frozen
  <1>5. CASE Leaves(r) /\ chan'[r] = chan[r]
    <2>1. t = s /\ out'[r] = out[r]
      BY <1>5 DEF Leaves
    <2>2. Frozen(r) => Frozen(r)'
      BY <1>1, <1>5 DEF Leaves, Frozen
    <2>3. status'[r] = "waiting" => status[r] = "running" /\ retracted'[r] = retracted[r] + 1
      BY <1>5 DEF Leaves
    <2>4. status'[r] # "running"
      BY <1>5 DEF Leaves
    <2>. HIDE DEF Frozen
    <2>. QED BY <1>1, <1>5, <2>1, <2>2, <2>3, <2>4 DEF PromptKept
  <1>6. ASSUME t.position # <<>>, Carries(t, s), Verified(r) \/ Prefilled(r) PROVE PromptKept(r)'
    <2>1. Frozen(r)' /\ t.prompt_hidden # None
      BY <1>3, <1>6 DEF Frozen
    <2>2. \A i \in 1 .. Len(chan'[r]) : Carries(chan'[r][i], t)
      <3>1. \A i \in 1 .. Len(chan[r]) : Carries(chan[r][i], s)
        BY DEF PromptKept
      <3>2. CASE chan'[r] = chan[r]
        BY <1>6, <3>1, <3>2 DEF Carries
      <3>3. CASE \E fin \in BOOLEAN : chan'[r] = Append(chan[r], Message(t, sent[r], fin))
        <4>. HIDE DEF s, t
        <4>. QED BY <1>1, <1>6, <3>1, <3>3, CarriesAppend
      <3>. QED BY <3>2, <3>3 DEF Speaks
    <2>3. received[r].prompt_hidden # None => Carries(received[r], t)
      BY <1>6 DEF PromptKept, Carries
    <2>4. Delivered(r) => received[r].prompt_hidden # None /\ received[r].draft_tokens # <<>>
      BY DEF PromptKept
    <2>. HIDE DEF Frozen
    <2>. QED BY <1>1, <1>6, <2>1, <2>2, <2>3, <2>4 DEF PromptKept
  <1>7. CASE Verified(r)
    <2>1. PICK v \in VerifyOutcomes(r) : t = RecordVerify(s, done[r], out[r], seed[r], v.n, v.e)
      BY <1>7 DEF Verified
    <2>2. /\ t.position = Append(s.position, done[r] - 1)
          /\ t.prompt_hidden = s.prompt_hidden /\ t.prompt_ids = s.prompt_ids
      BY <1>1, <2>1 DEF RecordVerify, Signals
    <2>3. s.position \in Seq(Nat) /\ done[r] - 1 \in Int
      <3>1. s.position \in Seq(Nat)
        BY <1>1 DEF Signals
      <3>2. done[r] \in 0 .. PromptLen + MaxNew /\ PromptLen + MaxNew \in Nat
        BY SignalAssumption DEF IInv, TypeOK
      <3>. QED BY <3>1, <3>2
    <2>4. t.position # <<>>
      <3>1. s.position \in Seq(Int)
        BY <2>3, SeqMonotonic
      <3>2. Len(t.position) = Len(s.position) + 1 /\ Len(s.position) \in Nat
        BY <2>2, <2>3, <3>1, AppendProperties, LenProperties
      <3>. QED BY <3>2
    <2>. QED BY <1>6, <1>7, <2>2, <2>4 DEF Carries
  <1>8. CASE Prefilled(r)
    <2> DEFINE len == PromptLen + out[r]
               hid == [i \in 1 .. len |-> Hid(i - 1, out[r])]
               tok == [i \in 1 .. len |-> Tok(i)]
    <2>1. /\ status[r] = "waiting" /\ status'[r] \in {"running", "finished"}
          /\ t = RecordPrefill(s, hid, tok, 0)
          /\ out'[r] = out[r] + 1 /\ retracted'[r] = retracted[r]
      BY <1>8 DEF Prefilled
    <2>. HIDE DEF hid, tok
    <2>2. CASE s.position # <<>>
      <3>1. /\ t.position = s.position
            /\ t.prompt_hidden = s.prompt_hidden /\ t.prompt_ids = s.prompt_ids
        BY <1>1, <2>1, <2>2 DEF RecordPrefill, Signals
      <3>. QED BY <1>6, <1>8, <2>2, <3>1 DEF Carries
    <2>3. CASE s.position = <<>>
      <3>1. t.position = <<>> /\ t.prompt_hidden = hid
        BY <1>1, <2>1, <2>3 DEF RecordPrefill, Signals
      <3>2. chan[r] = <<>> /\ received[r].prompt_hidden = None /\ ~Delivered(r)
        BY <2>1, <2>3 DEF PromptKept, Frozen
      <3>3. out[r] <= retracted[r]
        BY <2>1, <2>3 DEF PromptKept
      <3>4. CASE chan'[r] = chan[r]
        BY <1>1, <2>1, <3>1, <3>2, <3>3, <3>4 DEF PromptKept
      <3>5. CASE \E fin \in BOOLEAN :
               /\ chan'[r] = Append(chan[r], Message(t, sent[r], fin))
               /\ status'[r] = "finished" \/ out'[r] % ForceInterval = 0
        <4>1. Frozen(r)'
          <5>1. CASE status'[r] = "finished"
            BY <5>1 DEF Frozen
          <5>2. CASE status'[r] = "running" /\ out'[r] % ForceInterval = 0
            <6>1. out'[r] \in 1 .. ForceInterval /\ retracted[r] + 1 <= ForceInterval
              BY <1>1, <2>1, <3>3
            <6>2. out'[r] = ForceInterval
              <7>1. \A x \in 1 .. ForceInterval : x % ForceInterval = 0 => x = ForceInterval
                BY <1>1, ModuloZero
              <7>. QED BY <5>2, <6>1, <7>1
            <6>3. retracted'[r] = MaxRetract
              BY <1>1, <2>1, <3>3, <6>2
            <6>. QED BY <5>2, <6>3 DEF Frozen
          <5>. QED BY <2>1, <3>5, <5>1, <5>2
        <4>2. \A i \in 1 .. Len(chan'[r]) : Carries(chan'[r][i], t)
          <5>1. \A i \in 1 .. Len(chan[r]) : Carries(chan[r][i], t)
            BY <3>2
          <5>2. Carries(t, t)
            BY DEF Carries
          <5>. HIDE DEF t
          <5>. QED BY <1>1, <3>5, <5>1, <5>2, CarriesAppend
        <4>3. t.prompt_hidden # None
          <5>1. CASE status'[r] = "running"
            BY <1>2, <3>1, <5>1, PromptIsNotNone DEF Ready
          <5>2. CASE status'[r] = "finished"
            <6>1. hid \in Seq(Int \X Int)
              <7>1. len \in Nat
                BY <1>1, SignalAssumption
              <7>2. \A i \in 1 .. len : Hid(i - 1, out[r]) \in Int \X Int
                BY <1>1, <7>1 DEF Hid
              <7>3. hid \in [1 .. len -> Int \X Int]
                BY <7>2 DEF hid
              <7>. QED BY <7>1, <7>3
            <6>. QED BY <3>1, <6>1, SignalAssumption
          <5>. QED BY <2>1, <5>1, <5>2
        <4>. HIDE DEF Frozen
        <4>. QED BY <1>1, <2>1, <3>1, <3>2, <3>3, <4>1, <4>2, <4>3 DEF PromptKept
      <3>. QED BY <3>4, <3>5 DEF Speaks
    <2>. QED BY <2>2, <2>3
  <1>. QED BY <1>4, <1>5, <1>7, <1>8 DEF Moves, Speaks

\* The first output with a prompt brings it to the tokenizer manager.
LEMMA ReceiveKeeps ==
    ASSUME IInv, StreamInv, PromptInv, NEW r \in Reqs, Receive(r), NEW q \in Reqs
    PROVE  PromptKept(q)'
  <1> DEFINE m == Head(chan[r])
             g == received[r]
             t == Extend(g, m)
             k == Len(chan[r])
  <1>1. /\ chan[r] \in Seq(Messages) /\ chan[r] # <<>> /\ PromptKept(q) /\ PromptKept(r)
        /\ DOMAIN chan = Reqs /\ DOMAIN received = Reqs /\ DOMAIN reply = Reqs
        /\ DOMAIN g = ReceivedFields
    BY DEF IInv, TypeOK, Receive, StreamInv, Streamed, PromptInv
  <1>2. /\ k \in Nat \ {0} /\ Len(Tail(chan[r])) = k - 1
        /\ \A i \in 1 .. k - 1 : Tail(chan[r])[i] = chan[r][i + 1]
        /\ m = chan[r][1]
    BY <1>1, HeadTailProperties, EmptySeq
  <1>3. /\ chan' = [chan EXCEPT ![r] = Tail(@)]
        /\ UNCHANGED <<status, out, retracted, sig, outcome>>
    BY DEF Receive, reqVars, sigVars
  <1>4. CASE q # r
    <2>1. received'[q] = received[q] /\ reply'[q] = reply[q] /\ chan'[q] = chan[q]
      BY <1>1, <1>3, <1>4 DEF Receive
    <2>. QED BY <1>1, <1>3, <2>1 DEF PromptKept, Frozen, Delivered
  <1>5. CASE q = r
    <2>1. \A i \in 1 .. Len(chan'[r]) : Carries(chan'[r][i], sig[r])
      <3>1. Len(chan'[r]) = k - 1 /\ \A i \in 1 .. k - 1 : chan'[r][i] = chan[r][i + 1]
        BY <1>1, <1>2, <1>3
      <3>2. \A i \in 1 .. k - 1 : i + 1 \in 1 .. k
        BY <1>2
      <3>. QED BY <1>1, <3>1, <3>2 DEF PromptKept
    <2>2. Frozen(r) /\ sig[r].prompt_hidden # None
      BY <1>1 DEF PromptKept
    <2>3. Frozen(r)'
      BY <1>3, <2>2 DEF Frozen
    <2>4. /\ received'[r].prompt_hidden # None => Carries(received'[r], sig[r])
          /\ Delivered(r)'
               => received'[r].prompt_hidden # None /\ received'[r].draft_tokens # <<>>
      <3>1. CASE r \notin rid_to_state
        BY <1>1, <1>3, <3>1 DEF Receive, PromptKept, Delivered
      <3>2. CASE r \in rid_to_state
        <4>0. reply[r] # "signals" /\ outcome[r] # "signals"
          BY <3>2 DEF StreamInv, Streamed, Delivered
        <4>1. /\ received'[r] = t /\ (Delivered(r)' => t.draft_tokens # <<>>)
          BY <1>1, <1>3, <3>2, <4>0 DEF Receive, Delivered
        <4>2. Carries(m, sig[r])
          <5>1. 1 \in 1 .. k
            BY <1>2
          <5>. QED BY <1>1, <1>2, <5>1 DEF PromptKept
        <4>3. {"prompt_hidden", "prompt_ids"} \subseteq DOMAIN g
              /\ "prompt_hidden" \notin Lists /\ "prompt_ids" \notin Lists
          BY <1>1 DEF ReceivedFields, Lists, CycleFields, HistoryFields, PrefillFields
        <4>4. IF g.prompt_hidden = None
              THEN t.prompt_hidden = m.prompt_hidden /\ t.prompt_ids = m.prompt_ids
              ELSE t.prompt_hidden = g.prompt_hidden /\ t.prompt_ids = g.prompt_ids
          <5>1. m.prompt_hidden # None
            BY <2>2, <4>2 DEF Carries
          <5>. HIDE DEF m, g
          <5>. QED BY <4>3, <5>1 DEF Extend
        <4>5. g.prompt_hidden # None => Carries(g, sig[r])
          BY <1>1 DEF PromptKept
        <4>. HIDE DEF t, m, g
        <4>. QED BY <2>2, <4>1, <4>2, <4>4, <4>5 DEF Carries
      <3>. QED BY <3>1, <3>2
    <2>5. /\ sig[r].position = <<>> /\ status[r] = "waiting" => out[r] <= retracted[r]
          /\ sig[r].position = <<>> /\ status[r] = "running" => out[r] <= retracted[r] + 1
      BY <1>1 DEF PromptKept
    <2>. HIDE DEF Frozen
    <2>. QED BY <1>3, <1>5, <2>1, <2>2, <2>3, <2>4, <2>5 DEF PromptKept
  <1>. QED BY <1>4, <1>5

\* The prompt that reaches the tokenizer manager is the record's.
LEMMA PromptInvariance ==
    ASSUME ~Chunking, MaxRetract < ForceInterval
    PROVE  Spec => []PromptInv
  <1>1. Init => PromptInv
    <2> SUFFICES ASSUME Init, NEW r \in Reqs PROVE PromptKept(r)
      BY DEF PromptInv
    <2>1. /\ sig[r] = EmptySignals /\ status[r] = "waiting" /\ out[r] = 0 /\ retracted[r] = 0
          /\ chan[r] = <<>> /\ received[r] = EmptyState /\ outcome[r] = "pending" /\ reply[r] = "none"
      BY DEF Init
    <2>2. EmptyState.prompt_hidden = None
      BY DEF EmptyState, EmptySignals
    <2>. QED BY <2>1, <2>2 DEF PromptKept, Delivered
  <1>2. ASSUME IInv, IInv', StreamInv, ResumeInv, ResumeInv', PromptInv, [Next]_vars PROVE PromptInv'
    <2> SUFFICES ASSUME NEW q \in Reqs PROVE PromptKept(q)'
      BY DEF PromptInv
    <2>1. PromptKept(q) /\ Resumable(q)'
      BY <1>2 DEF PromptInv, ResumeInv
    <2>2. CASE Moves(q) /\ Speaks(q)
      BY <1>2, <2>1, <2>2, SpeaksKeeps
    <2>3. CASE \E r \in Reqs : Prefill(r)
      BY <1>2, <2>2, <2>3, PrefillMoves
    <2>4. CASE Decode
      BY <1>2, <2>2, <2>4, DecodeMoves
    <2>5. CASE OutOfMemory \/ \E r \in Reqs : AbortWaiting(r)
      BY <1>2, <2>2, <2>5, OthersMove
    <2>6. CASE \E r \in Reqs : Receive(r)
      BY <1>2, <2>6, ReceiveKeeps
    <2>7. ASSUME NEW r \in Reqs, ReceiveAbort(r) \/ Wake(r) PROVE PromptKept(q)'
      <3>1. UNCHANGED <<status, out, retracted, sig, chan, received>>
        BY <2>7 DEF ReceiveAbort, Wake, reqVars, sigVars
      <3>2. Delivered(q)' => Delivered(q)
        BY <1>2, <2>7, AbortStreams
      <3>. QED BY <2>1, <3>1, <3>2 DEF PromptKept, Frozen
    <2>8. CASE UNCHANGED vars \/ Idle
      BY <2>1, <2>8 DEF Idle, vars, PromptKept, Frozen, Delivered
    <2>. QED BY <1>2, <2>3, <2>4, <2>5, <2>6, <2>7, <2>8 DEF Next
  <1>. QED BY <1>1, <1>2, StreamInvariance, ResumeInvariance, PTL DEF Spec

-----------------------------------------------------------------------------
(* Packing what is handed over                                             *)

\* A copy of a record is a record.
LEMMA CopyRecord ==
    ASSUME NEW s, NEW g, \A f \in Lists : g[f] = s[f], Carries(g, s), Kinds(s), Record(s)
    PROVE  Kinds(g) /\ Record(g)
  <1>1. /\ g.position = s.position /\ g.accept_len = s.accept_len /\ g.hidden = s.hidden
        /\ g.draft_tokens = s.draft_tokens
        /\ g.accepted_hidden = s.accepted_hidden /\ g.accepted_tokens = s.accepted_tokens
        /\ g.prefill_hidden = s.prefill_hidden /\ g.prefill_tokens = s.prefill_tokens
        /\ g.prefill_position = s.prefill_position
        /\ g.prompt_hidden = s.prompt_hidden /\ g.prompt_ids = s.prompt_ids
    BY DEF Lists, CycleFields, HistoryFields, PrefillFields, Carries
  <1>2. Kinds(g)
    BY <1>1 DEF Kinds
  <1>3. Prompted(s) => Prompted(g)
    BY <1>1 DEF Prompted
  <1>4. Refills(g)
    BY <1>1 DEF Record, Refills, Single
  <1>5. \A c \in 1 .. Len(s.position) : Cycle(s, c) => Cycle(g, c)
    BY <1>1 DEF Cycle
  <1>6. \A c \in 1 .. Len(s.position) - 1 : Joined(s, c) => Joined(g, c)
    BY <1>1 DEF Joined, Open, Seeded, Bridged, Ending
  <1>. QED BY <1>1, <1>2, <1>3, <1>4, <1>5, <1>6 DEF Record

\* What the tokenizer manager hands over is accepted by pack_signals, and the
\* prefix it builds holds every committed position once, in order, each hidden
\* state with the token that follows it: for every number of requests, prompt
\* length, draft depth and response length, under any retractions, aborts and
\* order of outputs.  Two conditions are needed: prefills are not chunked (the
\* run chunked_prefill shows why), and a request is not retracted as often as
\* the stream interval is long, so that no prompt is sent that a later extend
\* replaces.
THEOREM PackSafe ==
    ASSUME ~Chunking, MaxRetract < ForceInterval
    PROVE  Spec => []PackComplete
  <1>1. ASSUME IInv, StreamInv, ResumeInv, PromptInv PROVE PackComplete
    <2> SUFFICES ASSUME NEW r \in Handed
                 PROVE  LET g == received[r]
                        IN  /\ ~PackRaises(g)
                            /\ PrefixIds(g) = [i \in 1 .. Len(PrefixIds(g)) |-> Tok(i)]
                            /\ [i \in 1 .. Len(PrefixHidden(g)) |-> PrefixHidden(g)[i][1] + 1] = PrefixIds(g)
      BY DEF PackComplete
    <2> DEFINE g == received[r]
               s == sig[r]
    <2>1. /\ r \in Reqs /\ s \in Signals /\ Square(s) /\ Aligned(s) /\ Record(s)
          /\ Prefix(g, s) /\ \A f \in Lists : Len(g[f]) = Len(s[f])
          /\ Carries(g, s) /\ g.draft_tokens # <<>>
      BY <1>1 DEF Handed, IInv, TypeOK, StreamInv, Streamed, ResumeInv, Resumable, PromptInv, PromptKept, Delivered
    <2>. HIDE DEF g, s
    <2>2. ASSUME NEW f \in Lists PROVE g[f] = s[f]
      <3>1. g[f] \in Seq(Vals) /\ s[f] \in Seq(Vals) /\ Len(g[f]) = Len(s[f])
            /\ \A i \in 1 .. Len(g[f]) : g[f][i] = s[f][i]
        BY <2>1, ListsVals DEF Prefix
      <3>. QED BY <3>1, SeqEqual
    <2>3. Kinds(s)
      BY <2>1, SignalsKinds
    <2>4. Kinds(g) /\ Record(g)
      BY <2>1, <2>2, <2>3, CopyRecord
    <2>5. g.position # <<>>
      <3>1. Len(g.draft_tokens) = Len(g.position) /\ g.draft_tokens \in Seq(Tokens)
        BY <2>4 DEF Kinds
      <3>. QED BY <2>1, <3>1, EmptySeq
    <2>6. /\ ~PackRaises(g)
          /\ PrefixIds(g) = [i \in 1 .. Len(PrefixIds(g)) |-> Tok(i)]
          /\ [i \in 1 .. Len(PrefixHidden(g)) |-> PrefixHidden(g)[i][1] + 1] = PrefixIds(g)
      BY <2>4, <2>5, RecordPacks
    <2>. QED BY <2>6 DEF g
  <1>. QED BY <1>1, StreamInvariance, ResumeInvariance, PromptInvariance, PTL
=============================================================================
