SPECIFICATION TaskFairSpec
CONSTANTS
  a = a
  b = b
  p = p
  n = n
  o1 = o1
  Tasks = {a, b}
  Poller = p
  Nested = {n}
  Others = {o1}
  MaxWakes = 2
INVARIANTS NoPanic HandleExclusive
PROPERTIES WokenIsPolled
