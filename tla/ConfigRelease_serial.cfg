SPECIFICATION Spec
CONSTANTS
  Admins = {a1}
  Details = {d1, d2}
  Percents = {p1, p2}
  Absent = Absent
  NoCanary = NoCanary
  StaleReads = FALSE
  MaxFaults = 2

INVARIANTS TypeOK
PROPERTIES Refines
CHECK_DEADLOCK FALSE
