---------------------------- MODULE MCTournament ----------------------------
(***************************************************************************)
(* Small instances of Tournament for TLC.                                  *)
(***************************************************************************)
EXTENDS Tournament

MCPow2  == [k \in 0 .. num_levels |-> 2 ^ k]
MCProcs == 0 .. 2 ^ num_levels - 1

\* Bound: the locks that earlier programs left active are the lowest ones, and
\* in all the others the flags are up, so that a missing reset would show.
UsedTable ==
  \A l, m \in Locks :
    /\ turn[l] = 1
    /\ l < m => active[l] >= active[m]
    /\ active[l] = 0 => flag[l] = [r \in Roles |-> 1]

MCInit == Init /\ UsedTable

MCSpec == MCInit /\ [][Next]_vars /\ Fairness
=============================================================================
