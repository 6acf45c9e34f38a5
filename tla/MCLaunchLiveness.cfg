SPECIFICATION FairSpec
CONSTANTS
  o1 = o1  o2 = o2  f1 = f1  f2 = f2  c1 = c1  c2 = c2
  e1 = e1  e2 = e2  e3 = e3
  NoArc = NoArc  NoId = NoId  NoCell = NoCell  NoResult = NoResult
  Ids = {o1}
  Fingerprints = {f1, f2}
  Callers = {c1, c2}
  Arcs = {e1, e2}
  Capacity = 0
PROPERTIES
  WaitersAnswered
