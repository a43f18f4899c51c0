CONSTANTS
  Sender = s
  Receiver = r
  Users = {s, r}
  Capacity = 2
  Word = 8
  Amounts = {1}
  DisputeWindow = 1
  StrayUpdates <- StrayOneSided
  MaxNonce = 1
  MaxApplied = 2
  MaxCloses = 2
  MaxPayouts = 1
  MaxFraud = 1
SPECIFICATION Spec
INVARIANTS FraudIsProved ClosingIsBacked
