SPECIFICATION FairSpecWithin
CONSTANTS
  Managers = {m1, m2}
  Agents = {a1, a2}
  Writers = {w1}
  HasRedis = TRUE
  Onetime = FALSE
  MaxWrites = 1
  MaxFaults = 1
  Nowhere = Nowhere
  Focuses = {"races", "recovery"}
  Busy = m1
  Others = {a2}
INVARIANTS TypeOK WithdrawnIsFlushed CanaryListHasCause
PROPERTIES Settles
CHECK_DEADLOCK FALSE
