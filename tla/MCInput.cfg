SPECIFICATION InputSpec
CONSTANTS
  TaskVals <- MCTaskVals
  PlanVals <- MCPlanVals
  JsonVals <- MCJsonVals
  PlanIds = {"p", "d", "none"}
  MaxFiles = 2
  MaxVals = 3
  MaxPicks = 2
  MaxJson = 1
  MaxInt = 14
  CpuTexts <- AllCpuTexts
  Commands <- AllCommands
INVARIANTS PlansReady JudgedButForThree CpusAsNamed Expanded
