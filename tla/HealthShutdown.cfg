SPECIFICATION HealthSpec
CONSTANTS
  p1 = p1
  p2 = p2
  w1 = w1
  w2 = w2
  k1 = k1
  k2 = k2
  Absent = Absent
  Setters = {p1, p2}
  Watchers = {w1, w2}
  Casts = {k1, k2}
  Statuses = {"Serving", "NotServing"}
  MaxUpdates = 2
PROPERTY ShutdownSticks
CHECK_DEADLOCK FALSE
