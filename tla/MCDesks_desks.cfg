CONSTANTS
  p1 = p1
  p2 = p2
  p3 = p3
  q1 = q1
  q2 = q2
  rm = rm
  boss = boss
  s = s
  t = t
  g1 = g1
  c1 = c1
  c2 = c2
  w1 = w1
  w2 = w2
  w3 = w3
  r1 = r1
  r2 = r2
  NONE = NONE
  UNDEFINED = UNDEFINED
  Desks = {"crc", "operations", "governance", "pipeline"}
  Modes = {TRUE, FALSE}
  Ids = {1, 2}
  IdsOf <- MCIdsOf
  PersonsOf <- MCPersonsOf
  CommitsOf <- MCCommitsOf
  Requests = {r1, r2}
  Persons = {p1, p2, p3, q1, q2, rm, boss}
  MaxCommits = 7
  Structures = {s, t}
  Valid = {s}
  Organisations = {g1}
  Signatories = {c1, c2}
  Weights = {w1, w2, w3}
  MaxEdits = 1
  Seed <- MCSeed
  Values = {0, 2}
  Total = 2
  Supervisors = {boss}
  OpenStages = {"QUALIFIED", "PROPOSAL"}
  FirstStage = "QUALIFIED"
SYMMETRY Symmetry
SPECIFICATION Spec
INVARIANTS TypeOK SignedByOthers OutcomeIsRecorded OneAtATime
PROPERTIES KeepsPromise FinalStays
CHECK_DEADLOCK FALSE
