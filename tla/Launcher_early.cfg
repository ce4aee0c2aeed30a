SPECIFICATION FairSpec
CONSTANTS
  MaxInterrupts = 3
PROPERTIES
  InterruptDelivered
