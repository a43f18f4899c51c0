SPECIFICATION Spec
CONSTANTS
  s1 = s1
  s2 = s2
  Hash = {h1, h2, h3}
  Staker = {s1, s2}
  Power <- MCPower
  Shard <- MCShard
  Capacity = 2
  Heights = {9, 10}
  CheckpointInterval = 10
  Voter = {v1, v2}
  Initializer = {i1, i2}
  Creator = {k1}
  MaxPending = 2
  MaxVotes = 3
  MaxBlocks = 3
SYMMETRY Symmetry
INVARIANTS TypeOK FinalityIsOwn CheckpointHadQuorum
CHECK_DEADLOCK FALSE
