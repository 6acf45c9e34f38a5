SPECIFICATION FairSpec
CONSTANTS
  m1 = m1  m2 = m2  c1 = c1  c2 = c2  c3 = c3  w1 = w1  w2 = w2
  NoManager = NoManager  NoSession = NoSession
  Managers = {m1, m2}
  Sessions = {c1, c2, c3}
  Users = {w1}
INVARIANTS
  TypeOK
  ChildInItsSlot
  ClosedSlotHasReaper
PROPERTIES
  SlotReleased
