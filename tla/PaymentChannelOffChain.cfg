CONSTANTS
  Sender = s
  Receiver = r
  Users = {s, r}
  Capacity = 2
  Word = 8
  Amounts = {1, 2}
  DisputeWindow = 1
  StrayUpdates <- StrayOffChain
  MaxNonce = 2
  MaxApplied = 4
  MaxCloses = 0
  MaxPayouts = 1
  MaxFraud = 0
SPECIFICATION Spec
INVARIANTS TypeOK NoReplay OpenStateIsBacked
