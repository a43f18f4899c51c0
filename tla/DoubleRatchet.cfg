CONSTANTS
  Alice = alice
  Bob = bob
  MaxSkip = 2
  MaxStored = 2
  Evicted = 1
  MaxSent = 6
  MaxDhKeys = 7
SPECIFICATION Spec
INVARIANTS TypeOK ForwardSecrecy
PROPERTIES FirstDeliveryOpens StepsBackAreRepeats
CHECK_DEADLOCK FALSE
