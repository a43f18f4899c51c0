SPECIFICATION FairSpec
CONSTANTS
  Op = {o1}
  Executor = {e1}
  Monitor = {m1}
  Validator = {v1, v2, v3}
  FullFrom = {v1, v2}
  ShortFrom = {v3}
  Required = 2
  MinConfirmations = 1
  MaxTransfers = 2
  MaxOther = 1
  MaxTx = 2
  MaxSignatures = 3
INVARIANTS TypeOK QuorumBehindMint CompletedWasFinal ReturnsOwnMint
PROPERTY SubmissionReturns
CHECK_DEADLOCK FALSE
