SPECIFICATION FairSpec
CONSTANTS
  w1 = w1  w2 = w2  r1 = r1
  NoSession = NoSession  NoDelta = NoDelta  NoView = NoView
  Workers = {w1, w2}
  Readers = {r1}
  MaxMessages = 2
  MaxRewrites = 1
INVARIANTS
  TypeOK
  LeasesCounted
  SoleViewComplete
PROPERTIES
  AbandonedReaped
