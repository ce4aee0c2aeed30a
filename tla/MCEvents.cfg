SPECIFICATION Spec
CONSTANTS
  p1 = p1
  p2 = p2
  NoPlan = NoPlan
  Plans = {p1, p2}
  Children <- ChildrenOfPlans
  MaxFd = 8
  Junk <- AnyInt
  Sessions = 2
INVARIANTS NoLeak OwnWhileRunning LookupValid
