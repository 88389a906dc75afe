SPECIFICATION Spec
CONSTANTS
  p1 = p1
  p2 = p2
  ta = ta
  tb = tb
  r1 = r1
  r2 = r2
  i1 = i1
  i2 = i2
  NONE = NONE
  UNDEFINED = UNDEFINED
  Parts = {"cards", "queue", "window", "files", "trade"}
  Overlapping = {"files"}
  Ids = {1, 2, 3}
  Requests = {r1, r2}
  Consumer = r2
  Persons = {p1, p2}
  MaxCommits = 6
  CardCommits = 4
  QueueCommits = 5
  Applications = {1, 2}
  Managers = {p1}
  Params = {ta, tb}
  Rated = {ta}
  MaxTrouble = 1
  MaxWindows = 3
  MaxFaults = 1
  Docs = {1, 2}
  Instances = {i1, i2}
  BatchSize = 1
  n1 = n1
  n2 = n2
  k1 = k1
  Clerks = {r1}
  Names = {n1, n2}
  Registrations = {k1}
  Numbers = {7}
  Invoices = {1, 2}
  TradeCommits = 3
  MaxBehind = 2
INVARIANTS
  TypeOK
  RowsAgree
  CopiesFollow
  
  ReadOnce

  
CHECK_DEADLOCK FALSE
