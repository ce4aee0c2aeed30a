SPECIFICATION FairSpec
CONSTANTS
  A = A
  B = B
  C = C
  Plan = {A, B, C}
  PlanType <- PhasesType
  PhaseBegin <- LateBegin
  PhaseEnd <- LateEnd
  Faults = {"startfail", "syscall", "other", "exec", "interrupt"}
  MaxBurst = 1
  MaxOverflows = 3
  SigPendingLimit = 20
INVARIANTS
  PhaseWindow
  OneRoundPerOverflow
PROPERTIES
  PhaseStartsExactly
  Terminates
  BarrierCompletes
  InterruptHonoured
