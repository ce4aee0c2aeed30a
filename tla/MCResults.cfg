SPECIFICATION Spec
CONSTANTS
  r1 = r1
  r2 = r2
  r3 = r3
  Old = Old
  NoResult = NoResult
  Profilers = {r1, r2, r3}
  Cases <- AllCases
INVARIANTS Stored Genuine Transposed
