SPECIFICATION Spec
CONSTANTS
  p1 = p1
  p2 = p2
  p3 = p3
  p4 = p4
  a1 = a1
  u = u
  v = v
  w = w
  r1 = r1
  r2 = r2
  NONE = NONE
  Offers = {1}
  Applications = {a1}
  Persons = {p1, p2, p3}
  Terms = {u, w}
  Complete = {u}
  Requests = {r1, r2}
  MaxCommits = 8
SYMMETRY StaffSymmetry
INVARIANTS
  TypeOK
  OfferIsBacked
CHECK_DEADLOCK FALSE
