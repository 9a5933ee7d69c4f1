--------------------------- MODULE MCRunLifecycle ---------------------------
(***************************************************************************)
(* Bounded instances of RunLifecycle.                                      *)
(***************************************************************************)
EXTENDS RunLifecycle, TLC

\* The invocations are interchangeable: no property names one of them.
LauncherSymmetry == Permutations(Launchers)

\* Init with what an earlier session that was killed may leave behind: nothing,
\* a prepared model without or with a checkpoint, stale markers.
LeftBehindInit ==
    /\ \/ /\ runDir = FALSE /\ prepared = "absent" /\ index = NoIndex
          /\ stopFile = FALSE /\ suspendFile = FALSE
       \/ /\ runDir = TRUE /\ prepared = "ready" /\ index \in {NoIndex, 1}
          /\ stopFile \in BOOLEAN /\ suspendFile \in BOOLEAN
    /\ resumeSh = runDir /\ stepDir = (index # NoIndex)
    /\ ProcessesInit

LeftBehindSpec == LeftBehindInit /\ [][Next]_vars /\ Fairness

=============================================================================
