CONSTANTS
  Sender = s
  Receiver = r
  Users = {s, r}
  Capacity = 2
  Word = 8
  Amounts = {}
  DisputeWindow = 1
  StrayUpdates <- SignedBefore
  MaxNonce = 0
  MaxApplied = 2
  MaxCloses = 1
  MaxPayouts = 1
  MaxFraud = 2
  Client = {r}
  MaxEvents = 2
  MaxWatching = 2
SPECIFICATION WatchSpec
INVARIANTS WatchTypeOK ChallengedIsRecorded
PROPERTY BlocksAreProcessed
CHECK_DEADLOCK FALSE
