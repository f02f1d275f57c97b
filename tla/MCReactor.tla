----------------------------- MODULE MCReactor -----------------------------
(* Instances of Reactor for TLC: the descriptors are small numbers, the    *)
(* eventfd has none because only the loop itself registers it.             *)
EXTENDS Reactor, TLC

CONSTANTS c1, c2, t1, t2

Stdout == 1       \* the descriptor that PendingAddKey happens to name
Timer  == 3       \* m_timer_fd

OnlyMain == {"MainReactor"}
BothTypes == {"MainReactor", "SubReactor"}

OneCaller == {c1}
TwoCallers == {c1, c2}
OneTask == {t1}
TwoTasks == {t1, t2}

CallerSymmetry == Permutations(TwoCallers)
=============================================================================
