SPECIFICATION FairSpec
CONSTANTS
  Replicas = {r1, r2}
  Tokens = {t1, t2, t3, t4}
  TTL = 4
  Interval = 1
  MaxPause = 2
  MaxFaults = 2
  NoToken = NoToken
INVARIANTS TypeOK OneScanner
PROPERTIES LockKept ScansGoOn
