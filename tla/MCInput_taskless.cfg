SPECIFICATION InputSpec
CONSTANTS
  TaskVals <- MCTaskVals
  PlanVals <- GoodPlans
  JsonVals = {}
  PlanIds = {"p", "d", "none"}
  MaxFiles = 2
  MaxVals = 3
  MaxPicks = 2
  MaxJson = 1
  MaxInt = 14
  CpuTexts = {}
  Commands = {}
INVARIANT JudgedAsDocumented
