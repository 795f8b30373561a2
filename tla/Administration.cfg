SPECIFICATION SpecWithin
CONSTANTS
  Foci = {"row", "tags", "links", "onetime", "serial", "tokens", "codes", "roles"}
  Admins = {a1, a2}
  Descriptions = {d1}
  Selectors = {s1}
  Tags = {t1}
  Onetime = onetime
  Files = {f1}
  Contents = {c1, c2}
  Blank = Blank
  Absent = Absent
  MaxRequests = 4
  MaxFailures = 1
  Callers = {x, y}
  Passwords = {p1, p2}
  Roles = {r1}
  NoRole = NoRole
  NoUser = NoUser
  MaxDrawn = 4
  MaxCalls = 4
  MaxOutages = 1
INVARIANTS
  TypesOK
  UndoRestores
  CommandsRecoverable
  TokensOnce
  EnabledIsConfirmed
  RolesExist
PROPERTY ChangesKept
SYMMETRY Symmetry
CHECK_DEADLOCK FALSE
