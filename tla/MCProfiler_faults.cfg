SPECIFICATION Spec
CONSTANTS
  A = A
  B = B
  C = C
  Plan = {A, B, C}
  PlanType <- MixedType
  PhaseBegin <- Begin
  PhaseEnd <- End
  Faults = {"startfail", "syscall", "kill", "other", "exec", "interrupt"}
  MaxBurst = 2
  MaxOverflows = 2
  SigPendingLimit = 2
INVARIANTS
  TypeOK
  ViewMatchesKernel
  NoLostWakeup
  CachedStatusFresh
  StageGate
  BarrierHeld
  PhaseExact
  SamplesAligned
  ResultComplete
  NoSurvivor
PROPERTIES
  CollectedWhilePaused
  SessionSpec
