SPECIFICATION Spec
CONSTANTS
  A = A
  B = B
  C = C
  Plan = {A, B, C}
  PlanType <- MixedType
  PhaseBegin <- Begin
  PhaseEnd <- End
  Faults = {}
  MaxBurst = 1
  MaxOverflows = 3
  SigPendingLimit = 2
INVARIANTS
  SIGIOIgnored
