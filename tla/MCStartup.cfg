SPECIFICATION Spec
CONSTANTS
  a = a
  b = b
  c = c
  Self = Self
  m_plan <- Three
  PerfPlans = {a, b}
  Wordless <- Commands
  CpuSets <- Sets
  Online <- Processors
  Sessions = 2
INVARIANTS AsPlanned CpuSetRestored NoChildLeft ProfilerSpared
PROPERTIES Returns
