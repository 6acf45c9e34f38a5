SPECIFICATION FairSpec
CONSTANTS
  k1 = k1  k2 = k2  u1 = u1  u2 = u2  r1 = r1  r2 = r2  s1 = s1  s2 = s2
  NoRecord = NoRecord  NoDecision = NoDecision
  NoRequest = NoRequest  NoReply = NoReply
  Conns = {k1, k2}
  Callers = {u1, u2}
  Answers = {"Resolved", "UserDismissed"}
  Requests = {r1}
  Occupants = {s1, s2}
INVARIANTS
  TypeOK
  ResponderNeverLost
PROPERTIES
  ImplementsAnswerOnce
  EveryRequestAnswered
