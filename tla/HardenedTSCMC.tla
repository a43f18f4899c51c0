--------------------------- MODULE HardenedTSCMC ---------------------------
\* An instance of HardenedTSC: blocks that share a partition, two stakers
\* neither of whom has a quorum alone.
EXTENDS HardenedTSC, TLC

CONSTANTS s1, s2

MCPower == s1 :> 5 @@ s2 :> 5
MCShard == [h \in Hash |-> 1]
Symmetry == Permutations(Hash) \cup Permutations(Staker) \cup Permutations(Voter)
              \cup Permutations(Initializer)
=============================================================================
