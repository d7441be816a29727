SPECIFICATION FairSpec
CONSTANTS
  MaxOut = 2
  MaxIn = 1
  Toggle = FALSE
INVARIANTS AcceptedAccounted StreamComplete NoPanic
PROPERTIES EndIsSeen
