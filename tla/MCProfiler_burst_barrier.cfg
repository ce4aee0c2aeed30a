SPECIFICATION FairSpec
CONSTANTS
  A = A
  B = B
  C = C
  Plan = {A, B, C}
  PlanType <- SoloType
  PhaseBegin <- Begin
  PhaseEnd <- End
  Faults = {}
  MaxBurst = 2
  MaxOverflows = 3
  SigPendingLimit = 20
PROPERTIES
  BarrierCompletes
