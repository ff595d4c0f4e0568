----------------------- MODULE MCPriorityTierExecutor -----------------------
EXTENDS PriorityTierExecutor, TLC

CONSTANTS w1, w2, a, b, c

High == [tier |-> 0, score |-> 1]
Low  == [tier |-> 1, score |-> 0]
Hot  == [tier |-> 1, score |-> 2]

TwoTiers  == {High, Low}
ThreePrio == {High, Low, Hot}
Defaults  == [t \in Tiers |-> 1]
Symmetry  == Permutations({w1, w2}) \cup Permutations({a, b, c})
=============================================================================
