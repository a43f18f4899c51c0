SPECIFICATION Spec
CONSTANTS
  o1 = o1 o2 = o2 t1 = t1 t2 = t2 run = run caller = caller
  Op <- MCOps Tx <- MCTxs Chain <- MCOneChain Currency = "Currency" External <- MCNobody
  ChainOrder <- MCOneOrder Run = run Caller <- MCCaller Required <- MCRequired
  Confirmations = {0, 1} Timeouts = {0} ApiStates = {"Pending"} OthersSettle = TRUE
  MaxPending = 2 Batch = 2 MaxCompleted = 1
SYMMETRY MCSymmetry
INVARIANT SubmissionIsSettled
PROPERTY SubmitsOnlyFinal
