CONSTANTS
  MaxMsgs = 2
  MaxDuplex = 1
SPECIFICATION FairSpec
INVARIANTS CoreAccepts ResultIsAnswer
PROPERTY EndReachesClient
