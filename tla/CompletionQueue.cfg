SPECIFICATION FairSpec
CONSTANTS
  u1 = u1
  u2 = u2
  u3 = u3
  e = e
  s = s
  Users = {u1, u3}
  Aborters = {u3}
  Closers = {e, s}
  Env = e
  MaxPending = 2
INVARIANTS CountsReferences DestroyedDrained
PROPERTIES ImplementsRundown PollThreadStops
