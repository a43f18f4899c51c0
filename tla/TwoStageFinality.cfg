SPECIFICATION Spec
CONSTANTS
  Block = {1, 2}
  Challenger = {c1}
  CheckpointInterval = 2
  Window = 1
  MaxPending = 3
  PorwWeights = {4500}
  TscPowers = {7500}
  Scores = {500}
  Upgrades = {3, 4}
  MaxRegistrations = 2
  MaxChallenges = 2
  MaxUpgrades = 1
INVARIANTS TypeOK StageIsBacked InvalidNeverDeep EscalationCovers
PROPERTY ChallengeHolds
CHECK_DEADLOCK FALSE
