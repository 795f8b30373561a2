SPECIFICATION FairSpecFocused
CONSTANTS
  Procs = {p1, p2}
  Configs = {c1, c2}
  Commands = {k1}
  Bodies = {1, 2}
  Plain = {1}
  MaxInline = 1
  AsksFor = "held"
  Nothing = Nothing
  Removal = Removal
  MaxWrites = 5
  ConfigWrites = 3
  MaxFaults = 1
INVARIANTS TypeOK SameVersionSameContent NoUnfoundedRemoval
PROPERTIES RunsOnce Delivered
