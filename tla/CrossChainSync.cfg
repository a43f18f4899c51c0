SPECIFICATION FairSpec
CONSTANTS
  o1 = o1 o2 = o2 t1 = t1 t2 = t2 run = run caller = caller
  Op <- MCOps Tx <- MCTx Chain <- MCChain Currency = "Currency" External <- MCExternal
  ChainOrder <- MCOrder Run = run Caller <- MCNobody Required <- MCRequired
  Confirmations = {0, 1} Timeouts = {0} ApiStates = {"Pending"} OthersSettle = TRUE
  MaxPending = 1 Batch = 1 MaxCompleted = 1
INVARIANTS TypeOK QueuesMatchOperations SubmittedOnce
PROPERTY DeadlineIsNoticed
