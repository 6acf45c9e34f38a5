SPECIFICATION Spec
CONSTANTS
  a1 = a1  a2 = a2  s1 = s1  s2 = s2  t1 = t1  t2 = t2
  r1 = r1  r2 = r2  c1 = c1  c2 = c2  w1 = w1  w2 = w2
  slot1 = slot1  slot2 = slot2  slot3 = slot3
  NoItem = NoItem  NoSlot = NoSlot  NoEntry = NoEntry  NoJob = NoJob
  NoClaim = NoClaim  NoAgent = NoAgent  NoSession = NoSession
  Agents = {a1}
  Sessions = {s1}
  Requests = {r1, r2}
  Texts = {t1}
  Clients = {c1}
  Workers = {w1, w2}
  Slots = {slot1, slot2}
  Bodies <- BodiesOne
  Views <- ViewsTurns
  Ageing = {}
  SpawnMayFail = FALSE
INVARIANTS
  ExactlyOneWorker
