--------------------------- MODULE MCDraftRefresh ---------------------------
\* Two ranks with two rows each: rows without cycles, with a context too long
\* for the probe, with a non-finite, a zero and two positive advantages.
EXTENDS DraftRefresh

Row(c, f, a, fin, d) == [cycles |-> c, fit |-> f, advantage |-> a, finite |-> fin, kl |-> d]

MCKinds == {Row(0, 0, 1, TRUE, 1), Row(1, 1, 2, TRUE, 1), Row(2, 1, 1, TRUE, 3),
            Row(1, 0, 0, TRUE, 1), Row(1, 1, 2, FALSE, 1)}
MCModes == {"plain", "probe", "refresh"}
MCPriorities == {1}
=============================================================================
