SPECIFICATION SpecWithin
CONSTANTS
  Managers = {m1, m2}
  Agents = {a1}
  Writers = {w1, w2}
  HasRedis = TRUE
  Onetime = TRUE
  MaxWrites = 2
  MaxFaults = 0
  Nowhere = Nowhere
  Focuses = {"all"}
  Busy = m1
  Others = {}
SYMMETRY Symmetry
INVARIANTS NamesFresh
CHECK_DEADLOCK FALSE
