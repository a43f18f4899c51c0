CONSTANTS
  TxHash = {h1}
  Validator = {v1, v2, v3}
  RequiredSignatures = 2
  RequiredConfirmations = 1
  Confirmations = {0, 1, 2}
  ProofTimeout = 0
  TxId = {t1}
  Chain = {chat, currency}
  ChatChain = chat
  ChainConfirmations <- ConfirmationsByChain
  Timeouts = {0}
SPECIFICATION Spec
SYMMETRY ValidatorSymmetry
INVARIANTS TypeOK FinalizedByQuorum QuorumIsNoticed ProvedBeforeExecution
PROPERTY FinalIsForever
