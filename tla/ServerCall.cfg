SPECIFICATION FairSpec
CONSTANTS
  MaxOut = 2
  MaxIn = 1
INVARIANTS MetadataOnce ClosedComplete
PROPERTIES EndIsSeen
