------------------------------ MODULE MCSkibus ------------------------------
(* Skibus for TLC: the runs with at most one skier at each stop. *)
EXTENDS Skibus

DistinctInit == Init /\ \A s, t \in Skiers : stopOf[s] = stopOf[t] => s = t

DistinctFairSpec == DistinctInit /\ [][Next]_vars /\ Fairness
=============================================================================
