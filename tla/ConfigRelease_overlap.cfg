SPECIFICATION Spec
CONSTANTS
  Admins = {a1, a2}
  Details = {d1, d2}
  Percents = {p1, p2}
  Absent = Absent
  NoCanary = NoCanary
  StaleReads = TRUE
  MaxFaults = 1
SYMMETRY Symmetry
INVARIANTS StopHoldsUnlessOutdated
PROPERTIES SerialUnlessOutdated PromotedIsKept
CHECK_DEADLOCK FALSE
