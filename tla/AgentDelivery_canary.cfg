SPECIFICATION FairSpec
CONSTANTS
  Procs = {p1, p2}
  Configs = {c1}
  Commands = {}
  Bodies = {1, 2}
  Plain = {}
  MaxInline = 1
  AsksFor = "held"
  Nothing = Nothing
  Removal = Removal
  MaxWrites = 3
  MaxFaults = 1
PROPERTIES CanaryArrives
