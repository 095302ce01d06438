CONSTANTS
  g1 = g1  g2 = g2  a1 = a1  a2 = a2  b1 = b1  e1 = e1  e2 = e2  r1 = r1  r2 = r2  s1 = s1
  NoLeg = NoLeg  NoGtt = NoGtt
  Gtts = {g1}
  Legs = {a1, a2}
  Parent <- OcoParent
  Evaluators = {e1, e2}
  Requests = {r1, r2}
  Sweepers = {s1}
  Margins = {1}
  Capital = 2
  OcoMode = "max"
  MaxLeaked = 1
  Admitted = {"crash", "insertFails", "requestsOverlap"}
SPECIFICATION Spec
SYMMETRY Symmetry
INVARIANTS TypeOK OneOrderPerGtt OrderMeansTriggered
PROPERTY KeepsContract
