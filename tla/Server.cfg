SPECIFICATION FairSpec
CONSTANTS
  q1 = q1
  q2 = q2
  s1 = s1
  s2 = s2
  c1 = c1
  c2 = c2
  None = None
  Cqs = {q1, q2}
  First = q1
  Slots = {s1, s2}
  SlotCq <- MCSlotCq
  Calls = {c1, c2}
  Kind <- MCKind
  AwaitShutdown = TRUE
INVARIANTS SlotsConserved DestroyedAfterShutdown
PROPERTIES DropCompletes
