SPECIFICATION Spec
CONSTANTS
  Admins = {a1, a2}
  Details = {d1, d2}
  Percents = {p1, p2}
  Absent = Absent
  NoCanary = NoCanary
  StaleReads = FALSE
  MaxFaults = 0

INVARIANTS AbortedStaysGone
CHECK_DEADLOCK FALSE
