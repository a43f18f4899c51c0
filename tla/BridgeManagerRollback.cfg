CONSTANTS
  TxHash = {h1}
  Validator = {v1}
  RequiredSignatures = 1
  RequiredConfirmations = 1
  Confirmations = {0, 1}
  ProofTimeout = 0
  TxId = {t1}
  Chain = {chat, currency}
  ChatChain = chat
  ChainConfirmations <- ConfirmationsByChain
  Timeouts = {0}
SPECIFICATION Spec
SYMMETRY ValidatorSymmetry
INVARIANT NotExecutedAndRolledBack
