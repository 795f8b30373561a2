SPECIFICATION FairSpecWithin
CONSTANTS
  Procs = {p1, p2}
  Home = p1
  Agents = {a1, a2, a3}
  Configs = {c1, c2}
  One = c1
  Pair = {a1, a2}
  Alone = a1
  MaxAgents = 2
  MaxStatuses = 2
  Window = 1
  Stale = 2
  Expiry = 3
  MaxChanges = 2
  MaxFaults = 1
  Never = Never
INVARIANTS TypeOK OldestIsLast StatusHasAgent
PROPERTIES SeenIsListed GoneIsForgotten
