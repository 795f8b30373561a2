SPECIFICATION FairSpecWithin
CONSTANTS
  Managers = {m1, m2}
  Readers = {r1, r2}
  Others = {r2}
  Busy = m1
  Writers = {w1}
  Sweepers = {s1}
  HasRedis = TRUE
  Ticks = {1}
  MaxClock = 2
  MaxWrites = 2
  MaxFaults = 1
  Absent = Absent
  Nowhere = Nowhere
  L2 = L2
INVARIANTS TypeOK StaleHasCause
PROPERTIES ImplementsRegister Converges
CHECK_DEADLOCK FALSE
