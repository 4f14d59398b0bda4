--------------------------- MODULE MCPoolCluster ---------------------------
(* Small instances of PoolCluster. *)
EXTENDS PoolCluster

CONSTANTS c1, c2, m1, m2, d1, d2, d3, h1, h2, h3

OneCluster == {c1}
TwoClusters == {c1, c2}
Clusters == Permutations(TwoClusters)
TwoMachines == {m1, m2}
TwoDisksAndOne == [m \in TwoMachines |-> IF m = m1 THEN <<d1, d2>> ELSE <<d3>>]
OneDiskEach == [m \in TwoMachines |-> IF m = m1 THEN <<d1>> ELSE <<d3>>]
FirstNames == [m \in TwoMachines |-> IF m = m1 THEN h1 ELSE h2]
BothOnFirst == [c \in TwoClusters |-> <<m1>>]
OnBoth == [c \in OneCluster |-> <<m1, m2>>]
=============================================================================
